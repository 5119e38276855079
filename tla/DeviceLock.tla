------------------------------ MODULE DeviceLock ------------------------------
(***************************************************************************)
(* Locking of devices.  A lock is a lease kept by the device               *)
(* (DeviceImpl::lock ... check_lock), granted and given back through the   *)
(* administration device of the server (dserverlock.cpp).  In the process  *)
(* of the client a LockThread renews the leases of all its devices of that *)
(* server before they expire (lockthread.cpp); lock and unlock of a        *)
(* DeviceProxy tell it which devices these are.                            *)
(*                                                                         *)
(* The unit of time is half a second.  The server keeps whole seconds      *)
(* (time_t), so the half of the current second is part of the state; dates *)
(* are relative to the present.  There is one server; a client has one     *)
(* thread that locks and one DeviceProxy for each device.                  *)
(***************************************************************************)
EXTENDS Integers, FiniteSets, FiniteSetsExt

CONSTANTS
    Devices,
    Clients,
    Validities,   \* [Clients -> SUBSET Nat]: the lock validities a client asks for, in seconds
    Admins,       \* the clients that use unlock(true)
    Scenarios,    \* the ways the clients behave (see Scenario)
    MaxRobbed,    \* bound: forced unlocks and restarts of the server that cost a lock
    NoClient,
    Server,       \* stands for a restart of the server in robbed
    NoCmd         \* no command is pending

(* uses: the devices a client has a proxy of; nest: bound, its lock calls   *)
(* that are not given back; mortal: the clients whose process may end.      *)
Scenario == [uses : [Clients -> SUBSET Devices],
             nest : [Clients -> [Devices -> Nat]], mortal : SUBSET Clients]

(* What an application thread asks of the LockThread. *)
Command == [code : {"add"}, dev : Devices, validity : Nat] \cup [code : {"rem"}, dev : Devices]

ASSUME LockAssumption ==
    /\ Validities \in [Clients -> SUBSET {v \in Nat : v >= 2}]   \* MIN_LOCK_VALIDITY
    /\ Admins \subseteq Clients
    /\ Scenarios \subseteq Scenario /\ MaxRobbed \in Nat
    /\ NoClient \notin Clients /\ Server \notin Clients /\ NoCmd \notin Command

VARIABLES
    scenario, \* a member of Scenarios
    dev,      \* what each device knows of its lock
    half,     \* 0 or 1: the half of the current second
    proxy,    \* [Clients -> [Devices -> [ctr, valid]]]: lock_ctr and lock_valid
    app,      \* where the application thread of each client is
    thread,   \* the LockThread of each client and the buffer of its commands
    alive,    \* the clients that run
    owed,     \* history: [Clients -> [Devices -> Nat]], grants c has not given back
    robbed    \* history: <<c, by>> if c lost a lock by a forced unlock or a restart

vars == <<scenario, dev, half, proxy, app, thread, alive, owed, robbed>>


Idle == [at |-> "idle"]

NewDevice == [device_locked |-> FALSE, locker_client |-> NoClient,
              old_locker_client |-> NoClient, since |-> 0, lock_validity |-> 0,
              lock_ctr |-> 0]
NoProxies == [d \in Devices |-> [ctr |-> 0, valid |-> 0]]
NoThread == [at |-> "none", known |-> FALSE, suicide |-> FALSE,
             devs |-> {}, validity |-> [d \in Devices |-> 0],
             period |-> 0, timer |-> 0, args |-> {}, errors |-> {}, lag |-> 0,
             cmd |-> NoCmd]

Init ==
    /\ scenario \in Scenarios
    /\ dev = [d \in Devices |-> NewDevice]
    /\ half = 0
    /\ proxy = [c \in Clients |-> NoProxies]
    /\ app = [c \in Clients |-> Idle]
    /\ thread = [c \in Clients |-> NoThread]
    /\ alive = Clients
    /\ owed = [c \in Clients |-> [d \in Devices |-> 0]]
    /\ robbed = {}

-----------------------------------------------------------------------------
(* The device. *)

(* valid_lock: in whole seconds, the second of the expiry included.  since  *)
(* is the current second minus locking_date.                                *)
ValidLock(r) == r.since <= r.lock_validity
LockedByOther(r, c) == r.device_locked /\ ValidLock(r) /\ r.locker_client # c

(* The dates of a device that is not locked are never read: they are 0.    *)
BasicUnlock(r, forced) ==
    [r EXCEPT !.device_locked = FALSE,
              !.old_locker_client = IF forced THEN r.locker_client ELSE @,
              !.locker_client = NoClient,
              !.lock_ctr = 0, !.since = 0, !.lock_validity = 0]

(* Faulty variant: only the first lock counts. *)
GrantedOnce(r, c, validity) ==
    [r EXCEPT !.device_locked = TRUE, !.locker_client = c,
              !.since = 0, !.lock_validity = validity, !.lock_ctr = 1]

(* lock, for a client that is not refused; an expired lock is cleared first. *)
Granted(r, c, validity) ==
    LET s == IF r.device_locked /\ ~ ValidLock(r) THEN BasicUnlock(r, FALSE) ELSE r
    IN  [s EXCEPT !.device_locked = TRUE,
                  !.locker_client = IF @ = NoClient THEN c ELSE @,
                  !.since = 0, !.lock_validity = validity, !.lock_ctr = @ + 1]

(* unlock, for a client that is not refused. *)
Unlocked(r, forced) ==
    LET n == IF r.lock_ctr > 0 THEN r.lock_ctr - 1 ELSE 0
    IN  IF n <= 0 \/ forced THEN BasicUnlock([r EXCEPT !.lock_ctr = n], forced)
        ELSE [r EXCEPT !.lock_ctr = n]

(* relock, for the devices that do not throw. *)
CanRelock(r, c) == r.device_locked /\ ValidLock(r) /\ r.locker_client = c
Relocked(r) == [r EXCEPT !.since = 0]

(* Faulty variant: a request of anybody renews the lock. *)
CheckedRenews(r, c) == IF r.device_locked THEN [r EXCEPT !.since = 0] ELSE r

(* check_lock, called by every protected request, as seen from the device:  *)
(* the request of c is refused, or the device forgets an expired lock or    *)
(* the client that was unlocked by force.                                   *)
Refused(r, c) ==
    IF r.device_locked THEN LockedByOther(r, c) ELSE r.old_locker_client = c
Checked(r, c) ==
    IF Refused(r, c) THEN r
    ELSE IF ~ r.device_locked THEN [r EXCEPT !.old_locker_client = NoClient]
    ELSE IF ValidLock(r) THEN r
    ELSE BasicUnlock(r, FALSE)

(* lock_status *)
Reported(r) ==
    IF r.device_locked /\ ~ ValidLock(r) THEN BasicUnlock(r, FALSE) ELSE r

(* What DServer::restart leaves: the lock parameters are saved and restored *)
(* if the device is locked, otherwise the device begins anew.               *)
Restarted(r) == IF r.device_locked THEN r ELSE NewDevice

-----------------------------------------------------------------------------
(* History: who loses a valid lock when the devices become after because    *)
(* of by, which itself has left[d] grants afterwards.                       *)

Holds(r, c) == r.device_locked /\ r.locker_client = c /\ ValidLock(r)
Losers(after, by) ==
    {c \in Clients \ {by} :
        \E d \in Devices : owed[c][d] > 0 /\ Holds(dev[d], c) /\ ~ Holds(after[d], c)}
Rob(after, by, left) ==
    /\ dev' = after
    /\ robbed' = robbed \cup (Losers(after, by) \X {by})
    /\ Cardinality(robbed') <= MaxRobbed
    /\ owed' = [c \in Clients |-> IF c = by THEN left ELSE
                  [d \in Devices |-> IF Holds(after[d], c) THEN owed[c][d] ELSE 0]]

-----------------------------------------------------------------------------
(* The application thread of a client. *)

Runs(c) == c \in alive /\ app[c].at = "idle"

(* DeviceProxy::lock up to the answer of LockDevice; a validity other than  *)
(* that of the locks already held is refused, and so is a locked device.    *)
Lock(c, d, validity) ==
    /\ Runs(c)
    /\ proxy[c][d].ctr < scenario.nest[c][d]
    /\ proxy[c][d].ctr # 0 => validity = proxy[c][d].valid
    /\ ~ LockedByOther(dev[d], c)
    /\ dev' = [dev EXCEPT ![d] = Granted(@, c, validity)]
    /\ proxy' = [proxy EXCEPT ![c][d] = [ctr |-> @.ctr + 1, valid |-> validity]]
    /\ app' = [app EXCEPT ![c] = [at |-> "add", dev |-> d]]
    /\ owed' = [owed EXCEPT ![c][d] = @ + 1]
    /\ UNCHANGED <<scenario, half, thread, alive, robbed>>

(* The rest of lock: a LockThread is created if there is none or if it has  *)
(* announced its end, otherwise the device is sent to it.                   *)
NewThread(d, validity) ==
    [NoThread EXCEPT !.at = "wait", !.known = TRUE, !.devs = {d},
                     !.validity[d] = validity,
                     !.period = 2 * validity - 1, !.timer = 2 * validity - 1]

AddDev(c) ==
    /\ app[c].at = "add"
    /\ LET d == app[c].dev
           validity == proxy[c][d].valid
       IN  IF ~ thread[c].known \/ thread[c].suicide
           THEN /\ thread' = [thread EXCEPT ![c] = NewThread(d, validity)]
                /\ app' = [app EXCEPT ![c] = Idle]
           ELSE /\ thread' = [thread EXCEPT ![c].cmd = [code |-> "add", dev |-> d,
                                                        validity |-> validity]]
                /\ app' = [app EXCEPT ![c] = [at |-> "wait"]]
    /\ UNCHANGED <<scenario, dev, half, proxy, alive, owed, robbed>>

(* The answer of UnLockDevice replaces the counter of the proxy; its        *)
(* lock_valid is only read with a counter other than 0.                     *)
AfterUnlock(c, d, forced) ==
    LET after == [dev EXCEPT ![d] = Unlocked(@, forced)]
        left == IF forced \/ owed[c][d] = 0 THEN 0 ELSE owed[c][d] - 1
    IN  /\ Rob(after, c, [owed[c] EXCEPT ![d] = left])
        /\ proxy' = [proxy EXCEPT ![c][d] =
              [ctr |-> after[d].lock_ctr,
               valid |-> IF after[d].lock_ctr = 0 THEN 0 ELSE @.valid]]
        /\ app' = [app EXCEPT ![c] = IF after[d].lock_ctr = 0 \/ forced
                                     THEN [at |-> "rem", dev |-> d] ELSE Idle]
        /\ UNCHANGED <<scenario, half, thread, alive>>

(* DeviceProxy::unlock up to the answer of UnLockDevice.  An application    *)
(* gives back what it has locked, or uses unlock(true).                     *)
Unlock(c, d, forced) ==
    /\ Runs(c)
    /\ IF forced THEN c \in Admins ELSE proxy[c][d].ctr > 0
    /\ forced \/ ~ LockedByOther(dev[d], c)
    /\ AfterUnlock(c, d, forced)

(* The destructor of a DeviceProxy that counts locks: unlock(true). *)
DestroyProxy(c, d) ==
    /\ Runs(c) /\ proxy[c][d].ctr > 0
    /\ AfterUnlock(c, d, TRUE)

(* The rest of unlock: the LockThread, if there is one, forgets the device. *)
RemDev(c) ==
    /\ app[c].at = "rem"
    /\ IF ~ thread[c].known \/ thread[c].suicide
       THEN thread' = [thread EXCEPT ![c] = NoThread] /\ app' = [app EXCEPT ![c] = Idle]
       ELSE /\ thread' = [thread EXCEPT ![c].cmd = [code |-> "rem", dev |-> app[c].dev]]
            /\ app' = [app EXCEPT ![c] = [at |-> "wait"]]
    /\ UNCHANGED <<scenario, dev, half, proxy, alive, owed, robbed>>

(* clean_locking_threads and unlock_all_devs, when the process exits: every *)
(* device the thread renews is unlocked by force.                           *)
Exit(c) ==
    /\ Runs(c) /\ c \in scenario.mortal /\ thread[c].at \in {"none", "wait"}
    /\ Rob([d \in Devices |-> IF thread[c].at = "wait" /\ d \in thread[c].devs
                              THEN Unlocked(dev[d], TRUE) ELSE dev[d]],
           c, [d \in Devices |-> 0])
    /\ alive' = alive \ {c}
    /\ thread' = [thread EXCEPT ![c] = NoThread]
    /\ proxy' = [proxy EXCEPT ![c] = NoProxies]
    /\ UNCHANGED <<scenario, half, app>>

(* The process ends without any of this; what it has sent may still arrive. *)
Crash(c) ==
    /\ c \in alive \cap scenario.mortal
    /\ alive' = alive \ {c}
    /\ thread' = [thread EXCEPT ![c] = IF @.at = "sent" THEN @ ELSE NoThread]
    /\ app' = [app EXCEPT ![c] = Idle]
    /\ proxy' = [proxy EXCEPT ![c] = NoProxies]
    /\ owed' = [owed EXCEPT ![c] = [d \in Devices |-> 0]]
    /\ UNCHANGED <<scenario, dev, half, robbed>>

-----------------------------------------------------------------------------
(* The LockThread. *)

(* update_th_period: half a second before the shortest lease expires. *)
UpdatePeriod(th) ==
    [th EXCEPT !.args = {}, !.period = 2 * Min({th.validity[d] : d \in th.devs}) - 1]

(* The end of execute_cmd, also reached without a command when no device is *)
(* left: the buffer is marked as free, the requester released, and a thread *)
(* without devices announces its end and exits.                             *)
Released(th) ==
    IF th.devs = {} THEN [NoThread EXCEPT !.known = TRUE, !.suicide = TRUE]
    ELSE [th EXCEPT !.cmd = NoCmd]
ReleaseRequester(c) == app' = [app EXCEPT ![c] = IF @.at = "wait" THEN Idle ELSE @]

(* Faulty variant: a device is not taken off the list. *)
ExecuteCmdKeepsDev(c) ==
    LET th == thread[c]
    IN  /\ th.at = "wait" /\ th.cmd # NoCmd
        /\ thread' = [thread EXCEPT ![c] = Released(th)]
        /\ ReleaseRequester(c)
        /\ UNCHANGED <<scenario, dev, half, proxy, alive, owed, robbed>>

(* execute_cmd: LOCK_ADD_DEV and LOCK_REM_DEV.  The next renewal stays at   *)
(* the date computed when the last one was made (compute_sleep_time).       *)
ExecuteCmd(c) ==
    LET th == thread[c]
        added == IF th.cmd.dev \in th.devs THEN th
                 ELSE [th EXCEPT !.devs = @ \cup {th.cmd.dev},
                                 !.validity[th.cmd.dev] = th.cmd.validity]
        removed == [th EXCEPT !.devs = @ \ {th.cmd.dev}, !.validity[th.cmd.dev] = 0]
        done == IF th.cmd.code = "add" THEN UpdatePeriod(added)
                ELSE IF removed.devs = {} THEN removed ELSE UpdatePeriod(removed)
    IN  /\ th.at = "wait" /\ th.cmd # NoCmd
        /\ thread' = [thread EXCEPT ![c] = Released(done)]
        /\ ReleaseRequester(c)
        /\ UNCHANGED <<scenario, dev, half, proxy, alive, owed, robbed>>

(* one_more_lock: ReLockDevices is sent for the devices the thread had when *)
(* it last built the argument.                                              *)
OneMoreLock(c) ==
    /\ thread[c].at = "wait" /\ thread[c].timer = 0
    /\ thread' = [thread EXCEPT ![c].at = "sent", ![c].lag = 0,
                                ![c].args = IF @ = {} THEN thread[c].devs ELSE @]
    /\ UNCHANGED <<scenario, dev, half, proxy, app, alive, owed, robbed>>

(* DServer::re_lock_devices: errors are collected, the other devices are    *)
(* renewed all the same.                                                    *)
ReLockDevices(c) ==
    LET th == thread[c]
        ok == {d \in th.args : CanRelock(dev[d], c)}
    IN  /\ th.at = "sent"
        /\ dev' = [d \in Devices |-> IF d \in ok THEN Relocked(dev[d]) ELSE dev[d]]
        /\ thread' = [thread EXCEPT ![c] = IF c \in alive
                          THEN [th EXCEPT !.at = "reply", !.errors = th.args \ ok]
                          ELSE NoThread]
        /\ UNCHANGED <<scenario, half, proxy, app, alive, owed, robbed>>

(* Faulty variant: the date of the next renewal is not moved back to the    *)
(* period of the thread but one unit too far.                               *)
RelockedLate(c) ==
    /\ thread[c].at = "reply"
    /\ thread' = [thread EXCEPT ![c].at = "wait", ![c].timer = thread[c].period + 1,
                                ![c].errors = {}]
    /\ UNCHANGED <<scenario, dev, half, proxy, app, alive, owed, robbed>>

(* The rest of one_more_lock: a device that could not be renewed leaves the *)
(* list; if it was the last one the thread ends through execute_cmd.        *)
RelockDone(c) ==
    LET th == thread[c]
        left == [th EXCEPT !.devs = @ \ th.errors]
        gone == th.devs # {} /\ left.devs = {}
    IN  /\ th.at = "reply"
        /\ thread' = [thread EXCEPT ![c] =
              IF gone THEN Released(left)
              ELSE [left EXCEPT !.at = "wait", !.timer = th.period, !.errors = {}]]
        /\ IF gone THEN ReleaseRequester(c) ELSE UNCHANGED app
        /\ UNCHANGED <<scenario, dev, half, proxy, alive, owed, robbed>>

-----------------------------------------------------------------------------
(* The server. *)

(* A protected request of c on the device. *)
CheckLock(c, d) ==
    /\ Runs(c)
    /\ dev' = [dev EXCEPT ![d] = Checked(@, c)]
    /\ UNCHANGED <<scenario, half, proxy, app, thread, alive, owed, robbed>>

LockStatus(d) ==
    /\ dev' = [dev EXCEPT ![d] = Reported(@)]
    /\ UNCHANGED <<scenario, half, proxy, app, thread, alive, owed, robbed>>

(* DServer::restart, after check_lock_owner. *)
Restart(c, d) ==
    /\ Runs(c) /\ ~ LockedByOther(dev[d], c)
    /\ dev' = [dev EXCEPT ![d] = Restarted(@)]
    /\ UNCHANGED <<scenario, half, proxy, app, thread, alive, owed, robbed>>

(* The server ends and comes back: its devices know of no lock. *)
RestartServer ==
    /\ Rob([d \in Devices |-> NewDevice], Server, {})
    /\ UNCHANGED <<scenario, half, proxy, app, thread, alive>>

-----------------------------------------------------------------------------
(* Time passes unless somebody has something to do now: a renewal is sent   *)
(* when it is due and reaches the server within one unit; between its steps *)
(* a thread or an application does not let time pass.                       *)

Urgent(c) ==
    \/ thread[c].at = "reply" \/ thread[c].cmd # NoCmd
    \/ thread[c].at = "wait" /\ thread[c].timer = 0
    \/ thread[c].at = "sent" /\ thread[c].lag = 1
    \/ app[c].at \in {"add", "rem"}

Later(r) == [r EXCEPT !.since = IF r.device_locked /\ half = 1 /\ ValidLock(r)
                                THEN @ + 1 ELSE @]

Tick ==
    /\ \A c \in Clients : ~ Urgent(c)
    /\ half' = 1 - half
    /\ dev' = [d \in Devices |-> Later(dev[d])]
    /\ thread' = [c \in Clients |->
          IF thread[c].at = "wait" THEN [thread[c] EXCEPT !.timer = @ - 1]
          ELSE IF thread[c].at = "sent" THEN [thread[c] EXCEPT !.lag = @ + 1]
          ELSE thread[c]]
    /\ UNCHANGED <<scenario, proxy, app, alive, owed, robbed>>

ClientStep(c) ==
    \/ \E d \in scenario.uses[c] :
          \/ \E v \in Validities[c] : Lock(c, d, v)
          \/ \E forced \in BOOLEAN : Unlock(c, d, forced)
          \/ DestroyProxy(c, d) \/ CheckLock(c, d) \/ Restart(c, d)
    \/ AddDev(c) \/ RemDev(c) \/ Exit(c) \/ Crash(c)

ThreadStep(c) ==
    \/ ExecuteCmd(c) \/ OneMoreLock(c) \/ ReLockDevices(c) \/ RelockDone(c)

Next ==
    \/ \E c \in Clients : ClientStep(c) \/ ThreadStep(c)
    \/ \E d \in Devices : LockStatus(d)
    \/ RestartServer
    \/ Tick

(* Time passes, and threads that have something to do, do it. *)
Fairness ==
    /\ WF_vars(Tick)
    /\ \A c \in Clients : WF_vars(ThreadStep(c)) /\ WF_vars(AddDev(c) \/ RemDev(c))

Spec == Init /\ [][Next]_vars
FairSpec == Spec /\ Fairness

-----------------------------------------------------------------------------

DeviceType == [device_locked : BOOLEAN, locker_client : Clients \cup {NoClient},
               old_locker_client : Clients \cup {NoClient},
               since : Nat, lock_validity : Nat, lock_ctr : Nat]
AppType == {Idle, [at |-> "wait"]} \cup [at : {"add", "rem"}, dev : Devices]
ThreadType == [at : {"none", "wait", "sent", "reply"}, known : BOOLEAN, suicide : BOOLEAN,
               devs : SUBSET Devices, validity : [Devices -> Nat],
               period : Nat, timer : Nat, args : SUBSET Devices, errors : SUBSET Devices,
               lag : Nat, cmd : Command \cup {NoCmd}]

(* The records have their types. *)
TypeOK ==
    /\ scenario \in Scenarios
    /\ dev \in [Devices -> DeviceType]
    /\ half \in {0, 1}
    /\ proxy \in [Clients -> [Devices -> [ctr : Nat, valid : Nat]]]
    /\ app \in [Clients -> AppType]
    /\ thread \in [Clients -> ThreadType]
    /\ alive \subseteq Clients
    /\ owed \in [Clients -> [Devices -> Nat]]
    /\ robbed \subseteq Clients \X (Clients \cup {Server})

Robbed(c) == \E by \in Clients \cup {Server} : <<c, by>> \in robbed

(* "The library provided an automatic system to periodically re lock the    *)
(* device until an unlock call" (DeviceProxy.h): a client that runs and     *)
(* never lost a lock by force or by a restart of the server holds every     *)
(* lock it was granted and has not given back, however the calls, the       *)
(* renewals and the clock of the server interleave.                         *)
RenewedInTime ==
    \A c \in alive, d \in Devices :
        owed[c][d] > 0 /\ ~ Robbed(c) => Holds(dev[d], c)

(* "The locking system is re-entrant": for such a client the counters of    *)
(* its proxy and of the device, which are kept apart and corrected by the   *)
(* answers of the server, are the number of its locks not given back.  A    *)
(* device counts locks exactly while it knows who locked it.                *)
CounterAgrees ==
    /\ \A d \in Devices :
          /\ dev[d].device_locked <=> dev[d].locker_client \in Clients
          /\ dev[d].device_locked <=> dev[d].lock_ctr > 0
    /\ \A c \in alive, d \in Devices :
        ~ Robbed(c) =>
            /\ proxy[c][d].ctr = owed[c][d]
            /\ owed[c][d] > 0 => dev[d].lock_ctr = owed[c][d]

(* A forced unlock that nobody asked for (destructor of a proxy, end of a   *)
(* process) costs another client its lock only if the client that makes it  *)
(* was robbed itself before, and so has a counter or a list of devices that *)
(* is out of date.                                                          *)
NoAccidentalForce ==
    \A p \in robbed : p[2] \in Admins \cup {Server} \/ Robbed(p[2])

(* A lock does not outlive its client: once a process has ended, whether it *)
(* unlocked its devices or not, they become free.                           *)
DeadClientReleases ==
    \A c \in Clients, d \in Devices :
        (c \notin alive) ~> ~ Holds(dev[d], c)

=============================================================================
