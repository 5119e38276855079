------------------------- MODULE DeviceLock_proofs -------------------------
(***************************************************************************)
(* Proofs about the locking of devices, for any number of clients and      *)
(* devices, any lock validities and any number of forced unlocks and       *)
(* restarts: the types of the records, and, when each client uses one      *)
(* validity, that its leases are renewed in time, that the counters of     *)
(* both sides agree and that no unlock by force happens by accident.       *)
(***************************************************************************)
EXTENDS DeviceLock, LoopTheorems

-----------------------------------------------------------------------------
(* The parts of the inductive invariant. *)

(* What a device knows of its lock fits together. *)
DeviceOK(r) ==
    /\ r \in DeviceType
    /\ r.device_locked <=> r.locker_client \in Clients
    /\ r.device_locked <=> r.lock_ctr > 0
    /\ r.device_locked => r.lock_validity \in Validities[r.locker_client]

DevicesInv == \A d \in Devices : DeviceOK(dev[d])

(* A LockThread, the buffer of its commands and the thread that fills it.  *)
Shaped(th, c) ==
    /\ th.at = "none" => th.devs = {} /\ th.cmd = NoCmd /\ (~ th.known \/ th.suicide)
    /\ th.at # "none" =>
          /\ th.known /\ ~ th.suicide /\ th.devs # {}
          /\ \A d \in th.devs : th.validity[d] \in Validities[c]
          /\ th.args = {} \/ th.devs \subseteq th.args
          /\ \E v \in Validities[c] : th.period = 2 * v - 1
    /\ th.at \in {"sent", "reply"} => th.devs \subseteq th.args
    /\ th.cmd # NoCmd /\ th.cmd.code = "add" => th.cmd.validity \in Validities[c]

(* A client: its LockThread th, its application a, its proxies p, and      *)
(* whether it is alive.                                                    *)
ProxyType == [Devices -> [ctr : Nat, valid : Nat]]
ClientOK(th, a, p, c, lives) ==
    /\ th \in ThreadType /\ a \in AppType /\ p \in ProxyType
    /\ Shaped(th, c)
    /\ lives => (th.cmd # NoCmd <=> a.at = "wait")
    /\ ~ lives => a.at = "idle" /\ th.at \in {"none", "sent"}
    /\ a.at = "add" => p[a.dev].valid \in Validities[c]

ClientsInv ==
    \A c \in Clients : ClientOK(thread[c], app[c], proxy[c], c, c \in alive)

(* The devices that the thread does not know of yet, or soon not any more. *)
Announced(th, a, d) ==
    \/ a.at = "add" /\ a.dev = d
    \/ th.cmd # NoCmd /\ th.cmd.code = "add" /\ th.cmd.dev = d
Leaving(th, a, d) ==
    \/ a.at = "rem" /\ a.dev = d
    \/ th.cmd # NoCmd /\ th.cmd.code = "rem" /\ th.cmd.dev = d

(* The lease r will be renewed before it ends: in units of time, its age   *)
(* when the renewal reaches the server is within its validity.  h is the   *)
(* half of the current second.                                             *)
InTime(r, th, d, h) ==
    /\ d \notin th.devs \/ th.at = "reply" => r.since = 0
    /\ d \in th.devs /\ th.at = "wait" => 2 * r.since + h + th.timer <= 2 * r.lock_validity
    /\ d \in th.devs /\ th.at = "sent" => 2 * r.since + h <= 2 * r.lock_validity + th.lag

(* A client knows the n locks it has on device d, and only these.          *)
LockedBy(r, c) == r.device_locked /\ r.locker_client = c
Kept(r, th, a, n, c, d, h) ==
    /\ n = 0 => ~ LockedBy(r, c)
    /\ n > 0 => /\ LockedBy(r, c) /\ r.lock_ctr = n
                /\ InTime(r, th, d, h)
                /\ d \in th.devs \/ Announced(th, a, d)
    /\ Announced(th, a, d) => n > 0
    /\ Leaving(th, a, d) => n = 0
    /\ d \in th.devs => n > 0 \/ Leaving(th, a, d)
    /\ th.at = "reply" /\ d \in th.devs \cap th.errors => n = 0

Paced(th) == th.timer <= th.period /\ (th.at = "sent" => th.lag <= 1)

Own(c) ==
    /\ Paced(thread[c])
    /\ \A d \in Devices :
          /\ proxy[c][d].ctr = owed[c][d]
          /\ Kept(dev[d], thread[c], app[c], owed[c][d], c, d, half)

OwnInv == \A c \in alive : ~ Robbed(c) => Own(c)

(* The hypothesis of the theorems on the leases: each client asks for one  *)
(* validity.  With two the renewal can come late (run lock_renewal).       *)
SameValidity == \A c \in Clients : \A v, w \in Validities[c] : v = w

-----------------------------------------------------------------------------
(* The device. *)

(* A device that is unlocked. *)
Free(r) == DeviceOK(r) /\ ~ r.device_locked /\ r.lock_ctr = 0

LEMMA NewDeviceFree == Free(NewDevice)
BY LockAssumption DEF Free, DeviceOK, DeviceType, NewDevice

LEMMA BasicUnlockFree ==
    ASSUME NEW r \in DeviceType, NEW forced \in BOOLEAN
    PROVE  Free(BasicUnlock(r, forced))
<1> DEFINE old == IF forced THEN r.locker_client ELSE r.old_locker_client
<1>1. old \in Clients \cup {NoClient}
  BY DEF DeviceType
<1>2. BasicUnlock(r, forced) =
        [device_locked |-> FALSE, locker_client |-> NoClient, old_locker_client |-> old,
         since |-> 0, lock_validity |-> 0, lock_ctr |-> 0]
  <2> HIDE DEF old
  <2>1. BasicUnlock(r, forced) =
          [r EXCEPT !.device_locked = FALSE, !.old_locker_client = old,
                    !.locker_client = NoClient, !.lock_ctr = 0, !.since = 0,
                    !.lock_validity = 0]
    BY DEF BasicUnlock, old
  <2> QED BY <2>1 DEF DeviceType
<1> HIDE DEF old
<1> QED BY <1>1, <1>2, LockAssumption DEF Free, DeviceOK, DeviceType

(* A lock that is granted: to a client that has none it is the first one.  *)
LEMMA GrantedTo ==
    ASSUME NEW r, DeviceOK(r), NEW c \in Clients, NEW v \in Validities[c],
           ~ LockedByOther(r, c)
    PROVE  LET s == Granted(r, c, v)
           IN  /\ DeviceOK(s) /\ LockedBy(s, c) /\ s.since = 0 /\ s.lock_validity = v
               /\ ~ LockedBy(r, c) => s.lock_ctr = 1
               /\ Holds(r, c) => s.lock_ctr = r.lock_ctr + 1
<1> DEFINE q == IF r.device_locked /\ ~ ValidLock(r) THEN BasicUnlock(r, FALSE) ELSE r
           s == Granted(r, c, v)
<1>1. v \in Nat
  BY LockAssumption
<1>2. DeviceOK(q) /\ (q.device_locked => q = r /\ r.locker_client = c)
      /\ (Holds(r, c) => q = r)
  BY BasicUnlockFree DEF Free, LockedByOther, Holds, DeviceOK
<1>3. q.locker_client \in {c, NoClient} /\ (q.locker_client = c <=> q.device_locked)
      /\ q.lock_ctr \in Nat /\ (q.device_locked <=> q.lock_ctr > 0) /\ q \in DeviceType
  BY <1>2, LockAssumption DEF DeviceOK, DeviceType
<1>4. s = [q EXCEPT !.device_locked = TRUE,
                    !.locker_client = IF @ = NoClient THEN c ELSE @,
                    !.since = 0, !.lock_validity = v, !.lock_ctr = @ + 1]
  BY DEF Granted
<1> HIDE DEF q, s
<1>5. /\ s \in DeviceType /\ s.device_locked /\ s.locker_client = c /\ s.since = 0
      /\ s.lock_validity = v /\ s.lock_ctr = q.lock_ctr + 1
  <2>1. s = [q EXCEPT !.device_locked = TRUE, !.locker_client = c,
                      !.since = 0, !.lock_validity = v, !.lock_ctr = q.lock_ctr + 1]
    BY <1>3, <1>4
  <2>2. s = [device_locked |-> TRUE, locker_client |-> c,
             old_locker_client |-> q.old_locker_client, since |-> 0,
             lock_validity |-> v, lock_ctr |-> q.lock_ctr + 1]
    BY <1>3, <2>1 DEF DeviceType
  <2> QED BY <1>1, <1>3, <2>2 DEF DeviceType
<1>6. DeviceOK(s) /\ LockedBy(s, c)
  BY <1>3, <1>5 DEF DeviceOK, LockedBy
<1>7. ~ LockedBy(r, c) => s.lock_ctr = 1
  BY <1>2, <1>3, <1>5 DEF LockedBy
<1>8. Holds(r, c) => s.lock_ctr = r.lock_ctr + 1
  BY <1>2, <1>5
<1> QED BY <1>5, <1>6, <1>7, <1>8 DEF s

(* unlock frees the device or takes one lock off. *)
LEMMA UnlockedOnce ==
    ASSUME NEW r, DeviceOK(r), NEW forced \in BOOLEAN
    PROVE  LET s == Unlocked(r, forced)
           IN  /\ DeviceOK(s)
               /\ forced \/ r.lock_ctr <= 1 => Free(s)
               /\ ~ forced /\ r.lock_ctr > 1 =>
                     /\ s.device_locked = r.device_locked /\ s.locker_client = r.locker_client
                     /\ s.since = r.since /\ s.lock_validity = r.lock_validity
                     /\ s.lock_ctr = r.lock_ctr - 1
<1> DEFINE n == IF r.lock_ctr > 0 THEN r.lock_ctr - 1 ELSE 0
           q == [r EXCEPT !.lock_ctr = n]
           s == Unlocked(r, forced)
<1>1. r \in DeviceType /\ r.lock_ctr \in Nat /\ n \in Nat /\ (n <= 0 <=> r.lock_ctr <= 1)
  BY DEF DeviceOK, DeviceType
<1>2. s = IF n <= 0 \/ forced THEN BasicUnlock(q, forced) ELSE q
  BY DEF Unlocked
<1>3. q \in DeviceType
  BY <1>1 DEF DeviceType
<1>4. Free(BasicUnlock(q, forced))
  <2> HIDE DEF q
  <2> QED BY <1>3, BasicUnlockFree
<1>5. r.lock_ctr > 1 => DeviceOK(q)
  BY <1>1, <1>3 DEF DeviceOK, DeviceType
<1>6. /\ q.device_locked = r.device_locked /\ q.locker_client = r.locker_client
      /\ q.since = r.since /\ q.lock_validity = r.lock_validity /\ q.lock_ctr = n
  BY <1>1 DEF DeviceType
<1>7. r.lock_ctr > 1 => n = r.lock_ctr - 1
  BY <1>1
<1> HIDE DEF q, n, s
<1>8. DeviceOK(s)
  BY <1>1, <1>2, <1>4, <1>5 DEF Free
<1>9. forced \/ r.lock_ctr <= 1 => Free(s)
  BY <1>1, <1>2, <1>4
<1>10. ASSUME ~ forced, r.lock_ctr > 1 PROVE s = q
  BY <1>1, <1>2, <1>10
<1> QED BY <1>6, <1>7, <1>8, <1>9, <1>10 DEF s

LEMMA RelockedSame ==
    ASSUME NEW r, DeviceOK(r)
    PROVE  LET s == Relocked(r)
           IN  /\ DeviceOK(s) /\ s.since = 0
               /\ s.device_locked = r.device_locked /\ s.locker_client = r.locker_client
               /\ s.lock_validity = r.lock_validity /\ s.lock_ctr = r.lock_ctr
BY DEF DeviceOK, DeviceType, Relocked

(* The requests that neither lock nor unlock: they let a valid lock alone  *)
(* and give none.                                                          *)
Gentle(r, s) ==
    /\ DeviceOK(s)
    /\ \A c \in Clients : (LockedBy(s, c) => LockedBy(r, c)) /\ (Holds(r, c) => s = r)

LEMMA FreeGentle ==
    ASSUME NEW r, NEW s, Free(s), \A c \in Clients : ~ Holds(r, c)
    PROVE  Gentle(r, s)
BY DEF Free, Gentle, LockedBy

LEMMA CheckedGentle ==
    ASSUME NEW r, DeviceOK(r), NEW c \in Clients
    PROVE  Gentle(r, Checked(r, c))
<1>1. CASE Checked(r, c) = r
  BY <1>1 DEF Gentle
<1>2. CASE ~ r.device_locked /\ Checked(r, c) = [r EXCEPT !.old_locker_client = NoClient]
  BY <1>2 DEF Gentle, DeviceOK, DeviceType, LockedBy, Holds
<1>3. CASE ~ ValidLock(r) /\ Checked(r, c) = BasicUnlock(r, FALSE)
  BY <1>3, BasicUnlockFree, FreeGentle DEF Holds, DeviceOK
<1> QED BY <1>1, <1>2, <1>3 DEF Checked

LEMMA ReportedGentle ==
    ASSUME NEW r, DeviceOK(r) PROVE Gentle(r, Reported(r))
<1>1. CASE Reported(r) = r
  BY <1>1 DEF Gentle
<1>2. CASE ~ ValidLock(r) /\ Reported(r) = BasicUnlock(r, FALSE)
  BY <1>2, BasicUnlockFree, FreeGentle DEF Holds, DeviceOK
<1> QED BY <1>1, <1>2 DEF Reported

LEMMA RestartedGentle ==
    ASSUME NEW r, DeviceOK(r) PROVE Gentle(r, Restarted(r))
<1>1. CASE Restarted(r) = r
  BY <1>1 DEF Gentle
<1>2. CASE ~ r.device_locked /\ Restarted(r) = NewDevice
  BY <1>2, NewDeviceFree, FreeGentle DEF Holds
<1> QED BY <1>1, <1>2 DEF Restarted

(* A lease ages by at most one unit of time. *)
LEMMA LaterSame ==
    ASSUME NEW r, DeviceOK(r), half \in {0, 1}
    PROVE  LET s == Later(r)
           IN  /\ DeviceOK(s)
               /\ s.device_locked = r.device_locked /\ s.locker_client = r.locker_client
               /\ s.lock_validity = r.lock_validity /\ s.lock_ctr = r.lock_ctr
               /\ 2 * s.since + (1 - half) <= 2 * r.since + half + 1
BY DEF DeviceOK, DeviceType, Later

-----------------------------------------------------------------------------
(* The client. *)

LEMMA ValidityType ==
    ASSUME NEW c \in Clients, NEW v \in Validities[c]
    PROVE  v \in Nat /\ v >= 2
BY LockAssumption

LEMMA IdleType == Idle \in AppType /\ Idle.at = "idle"
BY DEF Idle, AppType

LEMMA NoThreadOK ==
    ASSUME NEW c \in Clients, NEW lives \in BOOLEAN, NEW p \in ProxyType,
           NEW a \in AppType, a.at = "idle"
    PROVE  ClientOK(NoThread, a, p, c, lives)
BY DEF ClientOK, Shaped, NoThread, ThreadType

(* The thread that is no more, but announced its end. *)
Ended == [NoThread EXCEPT !.known = TRUE, !.suicide = TRUE]

LEMMA EndedType ==
    /\ Ended \in ThreadType /\ Ended.at = "none" /\ Ended.devs = {} /\ Ended.cmd = NoCmd
    /\ Ended.suicide /\ Ended.timer = 0 /\ Ended.period = 0
BY DEF Ended, NoThread, ThreadType

LEMMA NewThreadIs ==
    ASSUME NEW c \in Clients, NEW d \in Devices, NEW v \in Validities[c]
    PROVE  LET th == NewThread(d, v)
           IN  /\ th \in ThreadType /\ Shaped(th, c) /\ th.at = "wait" /\ th.devs = {d}
               /\ th.period = 2 * v - 1 /\ th.timer = 2 * v - 1 /\ th.cmd = NoCmd
<1>1. v \in Nat /\ v >= 2 /\ 2 * v - 1 \in Nat
  BY ValidityType
<1> DEFINE val == [[e \in Devices |-> 0] EXCEPT ![d] = v]
<1>2. val \in [Devices -> Nat] /\ val[d] = v
  BY <1>1
<1>3. NewThread(d, v) =
        [at |-> "wait", known |-> TRUE, suicide |-> FALSE, devs |-> {d}, validity |-> val,
         period |-> 2 * v - 1, timer |-> 2 * v - 1, args |-> {}, errors |-> {}, lag |-> 0,
         cmd |-> NoCmd]
  <2>1. NewThread(d, v) =
          [NoThread EXCEPT !.at = "wait", !.known = TRUE, !.devs = {d}, !.validity = val,
                           !.period = 2 * v - 1, !.timer = 2 * v - 1]
    BY DEF NewThread, NoThread
  <2> HIDE DEF val
  <2> QED BY <2>1 DEF NoThread
<1> HIDE DEF val
<1> QED BY <1>1, <1>2, <1>3 DEF ThreadType, Shaped

(* The thread has the buffer filled. *)
LEMMA CmdIs ==
    ASSUME NEW c \in Clients, NEW th \in ThreadType, NEW cmd \in Command \cup {NoCmd},
           Shaped(th, c), th.at # "none",
           cmd # NoCmd /\ cmd.code = "add" => cmd.validity \in Validities[c]
    PROVE  LET n == [th EXCEPT !.cmd = cmd]
           IN  /\ n \in ThreadType /\ Shaped(n, c) /\ n.cmd = cmd
               /\ n.at = th.at /\ n.devs = th.devs /\ n.timer = th.timer /\ n.lag = th.lag
               /\ n.period = th.period /\ n.errors = th.errors
BY DEF ThreadType, Shaped

(* The thread has the devices D with the validities val; then it computes  *)
(* its period and empties the buffer.                                      *)
WithDevs(th, D, val) == [th EXCEPT !.devs = D, !.validity = val]
Refreshed(th, D, val) == [UpdatePeriod(WithDevs(th, D, val)) EXCEPT !.cmd = NoCmd]

LEMMA DevsAre ==
    ASSUME NEW c \in Clients, NEW th \in ThreadType, Shaped(th, c), th.at # "none",
           NEW D \in SUBSET Devices, NEW val \in [Devices -> Nat], D # {},
           \A d \in D : val[d] \in Validities[c]
    PROVE  LET k == Refreshed(th, D, val)
           IN  /\ k \in ThreadType /\ (th.at = "wait" => Shaped(k, c))
               /\ k.cmd = NoCmd /\ k.at = th.at /\ k.devs = D /\ k.timer = th.timer
               /\ \E v \in Validities[c] : k.period = 2 * v - 1
               /\ UpdatePeriod(WithDevs(th, D, val)).devs = D
<1> DEFINE m == WithDevs(th, D, val)
           n == UpdatePeriod(m)
           k == Refreshed(th, D, val)
           V == {val[d] : d \in D}
<1>1. /\ m \in ThreadType /\ m.devs = D /\ m.validity = val /\ m.at = th.at
      /\ m.timer = th.timer /\ m.known = th.known /\ m.suicide = th.suicide
  BY DEF ThreadType, WithDevs
<1>2. V \subseteq Nat /\ V # {} /\ V \subseteq Validities[c]
  OBVIOUS
<1> HIDE DEF V
<1>3. PICK v \in V : \A w \in V : v <= w
  BY <1>2, LeastNat
<1>4. Min(V) \in V
  <2>1. Min(V) = CHOOSE x \in V : \A y \in V : x <= y
    BY DEF Min
  <2> QED BY <1>3, <2>1
<1>5. PICK u \in Validities[c] : Min(V) = u /\ 2 * u - 1 \in Nat
  <2>1. Min(V) \in Validities[c]
    BY <1>2, <1>4
  <2>2. \A u \in Validities[c] : 2 * u - 1 \in Nat
    BY ValidityType
  <2> QED BY <2>1, <2>2
<1>6. n = [m EXCEPT !.args = {}, !.period = 2 * u - 1]
  BY <1>1, <1>5 DEF UpdatePeriod, V
<1> HIDE DEF m
<1>7. /\ n \in ThreadType /\ n.devs = D /\ n.validity = val /\ n.at = th.at /\ n.args = {}
      /\ n.period = 2 * u - 1 /\ n.timer = th.timer /\ n.known = th.known
      /\ n.suicide = th.suicide
  BY <1>1, <1>5, <1>6 DEF ThreadType
<1> HIDE DEF n
<1>8. /\ k \in ThreadType /\ k.devs = D /\ k.validity = val /\ k.at = th.at /\ k.args = {}
      /\ k.period = 2 * u - 1 /\ k.timer = th.timer /\ k.known = th.known
      /\ k.suicide = th.suicide /\ k.cmd = NoCmd
  <2>1. k = [n EXCEPT !.cmd = NoCmd]
    BY DEF k, n, m, Refreshed
  <2> HIDE DEF k
  <2> QED BY <1>7, <2>1 DEF ThreadType
<1> HIDE DEF k
<1>9. th.at = "wait" => Shaped(k, c)
  BY <1>5, <1>8 DEF Shaped
<1> QED BY <1>5, <1>7, <1>8, <1>9 DEF k, n, m

-----------------------------------------------------------------------------
(* Types. *)

TypesInv == TypeOK /\ DevicesInv /\ ClientsInv

(* What a step of the client c leaves alone. *)
Maps == /\ dev = [d \in Devices |-> dev[d]] /\ proxy = [c \in Clients |-> proxy[c]]
        /\ app = [c \in Clients |-> app[c]] /\ thread = [c \in Clients |-> thread[c]]
Rest == /\ scenario \in Scenarios /\ half \in {0, 1} /\ alive \subseteq Clients
        /\ owed \in [Clients -> [Devices -> Nat]]
        /\ robbed \subseteq Clients \X (Clients \cup {Server})
SameClient(b) == /\ thread'[b] = thread[b] /\ app'[b] = app[b] /\ proxy'[b] = proxy[b]
                 /\ (b \in alive' <=> b \in alive)
Others(c) == \A b \in Clients \ {c} : SameClient(b)

LEMMA TypesParts == TypesInv => Maps /\ Rest
<1> SUFFICES ASSUME TypesInv PROVE Maps /\ Rest
  OBVIOUS
<1>1. Rest
  BY DEF TypesInv, TypeOK, Rest
<1>2. Maps
  BY DEF TypesInv, TypeOK, Maps
<1> QED BY <1>1, <1>2

LEMMA TypesJoined == Maps /\ Rest /\ DevicesInv /\ ClientsInv => TypesInv
<1> SUFFICES ASSUME Maps, Rest, DevicesInv, ClientsInv PROVE TypesInv
  OBVIOUS
<1>1. dev \in [Devices -> DeviceType]
  BY DEF Maps, DevicesInv, DeviceOK
<1>2. \A c \in Clients : proxy[c] \in ProxyType /\ app[c] \in AppType /\ thread[c] \in ThreadType
  BY DEF ClientsInv, ClientOK
<1>3. proxy \in [Clients -> [Devices -> [ctr : Nat, valid : Nat]]]
  BY <1>2 DEF Maps, ProxyType
<1>4. app \in [Clients -> AppType] /\ thread \in [Clients -> ThreadType]
  BY <1>2 DEF Maps
<1> QED BY <1>1, <1>3, <1>4 DEF TypesInv, TypeOK, Rest

(* A client whose records are fine: the types of its parts. *)
LEMMA ClientTypes ==
    ASSUME TypesInv, NEW c \in Clients
    PROVE  /\ ClientOK(thread[c], app[c], proxy[c], c, c \in alive)
           /\ thread[c] \in ThreadType /\ app[c] \in AppType /\ proxy[c] \in ProxyType
           /\ owed[c] \in [Devices -> Nat]
BY DEF TypesInv, TypeOK, ClientsInv, ClientOK

LEMMA DeviceFits == ASSUME TypesInv, NEW d \in Devices PROVE DeviceOK(dev[d])
BY DEF TypesInv, DevicesInv

LEMMA TypesStep ==
    ASSUME TypesInv, Maps', Rest', NEW c \in Clients, Others(c),
           ClientOK(thread'[c], app'[c], proxy'[c], c, c \in alive'),
           \A d \in Devices : DeviceOK(dev'[d])
    PROVE  TypesInv'
<1>1. DevicesInv'
  BY DEF DevicesInv
<1>2. \A b \in Clients : ClientOK(thread'[b], app'[b], proxy'[b], b, b \in alive')
  <2> TAKE b \in Clients
  <2>1. CASE b = c
    BY <2>1
  <2>2. CASE b # c
    <3>1. ClientOK(thread[b], app[b], proxy[b], b, b \in alive)
      BY DEF TypesInv, ClientsInv
    <3>2. SameClient(b)
      BY <2>2 DEF Others
    <3>3. (b \in alive') = (b \in alive)
      BY <3>2 DEF SameClient
    <3> QED BY <3>1, <3>2, <3>3 DEF SameClient
  <2> QED BY <2>1, <2>2
<1>3. ClientsInv'
  BY <1>2 DEF ClientsInv
<1> QED BY <1>1, <1>3, TypesJoined, PTL

(* The effects of the steps, one client and one device at a time. *)
AppAt(at, d) == [at |-> at, dev |-> d]
WithProxy(p, d, n, v) == [p EXCEPT ![d] = [ctr |-> n, valid |-> v]]
WithOwed(o, d, n) == [o EXCEPT ![d] = n]
OneDevice(d, r) == dev'[d] = r /\ \A e \in Devices \ {d} : dev'[e] = dev[e]
SameDevices == \A e \in Devices : dev'[e] = dev[e]

LEMMA LockEffect ==
    ASSUME TypesInv, NEW c \in Clients, NEW d \in Devices, NEW v \in Validities[c],
           Lock(c, d, v)
    PROVE  /\ Maps' /\ Rest' /\ Others(c)
           /\ OneDevice(d, Granted(dev[d], c, v))
           /\ thread'[c] = thread[c] /\ app'[c] = AppAt("add", d)
           /\ proxy'[c] = WithProxy(proxy[c], d, proxy[c][d].ctr + 1, v)
           /\ owed'[c] = WithOwed(owed[c], d, owed[c][d] + 1)
           /\ \A b \in Clients \ {c} : owed'[b] = owed[b]
           /\ alive' = alive /\ robbed' = robbed /\ half' = half
<1>1. Maps /\ Rest
  BY TypesParts
<1>2. /\ dev' = [dev EXCEPT ![d] = Granted(dev[d], c, v)]
      /\ proxy' = [proxy EXCEPT ![c] = [proxy[c] EXCEPT ![d] =
                                          [ctr |-> proxy[c][d].ctr + 1, valid |-> v]]]
      /\ app' = [app EXCEPT ![c] = [at |-> "add", dev |-> d]]
      /\ owed' = [owed EXCEPT ![c] = [owed[c] EXCEPT ![d] = owed[c][d] + 1]]
      /\ UNCHANGED <<scenario, half, thread, alive, robbed>>
  BY Zenon DEF Lock
<1>3. Maps' /\ Others(c)
  BY <1>1, <1>2 DEF Maps, Others, SameClient
<1>4. Rest'
  BY <1>1, <1>2 DEF Rest
<1>5. OneDevice(d, Granted(dev[d], c, v))
  BY <1>1, <1>2 DEF Maps, OneDevice
<1> QED BY <1>1, <1>2, <1>3, <1>4, <1>5 DEF Maps, Rest, AppAt, WithProxy, WithOwed

(* A step of the client c or of its thread that changes nothing else. *)
Moved(c, th, a) ==
    /\ Maps' /\ Rest' /\ Others(c) /\ SameDevices
    /\ thread'[c] = th /\ app'[c] = a /\ proxy'[c] = proxy[c]
    /\ owed' = owed /\ alive' = alive /\ robbed' = robbed /\ half' = half

AddCmd(d, v) == [code |-> "add", dev |-> d, validity |-> v]
RemCmd(d) == [code |-> "rem", dev |-> d]
Waits == [at |-> "wait"]

LEMMA CmdType ==
    ASSUME NEW d \in Devices
    PROVE  /\ \A v \in Nat : AddCmd(d, v) \in Command /\ AddCmd(d, v) # NoCmd
                             /\ AddCmd(d, v).code = "add" /\ AddCmd(d, v).dev = d
                             /\ AddCmd(d, v).validity = v
           /\ RemCmd(d) \in Command /\ RemCmd(d) # NoCmd /\ RemCmd(d).code = "rem"
           /\ RemCmd(d).dev = d
           /\ Waits \in AppType /\ Waits.at = "wait"
BY LockAssumption DEF AddCmd, RemCmd, Command, Waits, AppType

LEMMA AppTypes ==
    ASSUME NEW a \in AppType
    PROVE  /\ a.at \in {"idle", "wait", "add", "rem"}
           /\ a.at \in {"add", "rem"} => a.dev \in Devices
           /\ a.at = "idle" => a = Idle
BY DEF AppType, Idle

LEMMA AddDevEffect ==
    ASSUME TypesInv, NEW c \in Clients, AddDev(c)
    PROVE  LET d == app[c].dev
               v == proxy[c][d].valid
           IN  /\ app[c].at = "add" /\ d \in Devices /\ v \in Validities[c] /\ c \in alive
               /\ \/ thread[c].at = "none" /\ Moved(c, NewThread(d, v), Idle)
                  \/ /\ thread[c].at # "none"
                     /\ Moved(c, [thread[c] EXCEPT !.cmd = AddCmd(d, v)], Waits)
<1> DEFINE d == app[c].dev
           v == proxy[c][d].valid
<1>1. Maps /\ Rest /\ ClientOK(thread[c], app[c], proxy[c], c, c \in alive)
  BY TypesParts, ClientTypes
<1>2. app[c].at = "add" /\ UNCHANGED <<scenario, dev, half, proxy, alive, owed, robbed>>
  BY Zenon DEF AddDev
<1>3. d \in Devices /\ v \in Validities[c] /\ c \in alive
  BY <1>1, <1>2, AppTypes DEF ClientOK
<1>4. thread[c].at = "none" <=> ~ thread[c].known \/ thread[c].suicide
  BY <1>1 DEF ClientOK, Shaped
<1>5. CASE thread[c].at = "none"
  <2>1. thread' = [thread EXCEPT ![c] = NewThread(d, v)] /\ app' = [app EXCEPT ![c] = Idle]
    BY <1>4, <1>5, Zenon DEF AddDev
  <2>2. Moved(c, NewThread(d, v), Idle)
    <3> HIDE DEF d, v
    <3> QED BY <1>1, <1>2, <2>1 DEF Moved, Maps, Rest, Others, SameClient, SameDevices
  <2> QED BY <1>2, <1>3, <1>5, <2>2
<1>6. CASE thread[c].at # "none"
  <2>1. thread' = [thread EXCEPT ![c] = [thread[c] EXCEPT !.cmd = AddCmd(d, v)]]
        /\ app' = [app EXCEPT ![c] = Waits]
    BY <1>4, <1>6, Zenon DEF AddDev, AddCmd, Waits
  <2> DEFINE n == [thread[c] EXCEPT !.cmd = AddCmd(d, v)]
  <2> HIDE DEF d, v, n
  <2>2. thread' = [thread EXCEPT ![c] = n]
    BY <2>1 DEF n
  <2>3. Moved(c, n, Waits)
    BY <1>1, <1>2, <2>1, <2>2 DEF Moved, Maps, Rest, Others, SameClient, SameDevices
  <2> QED BY <1>2, <1>3, <1>6, <2>3 DEF n, d, v
<1> QED BY <1>2, <1>3, <1>5, <1>6

LEMMA RemDevEffect ==
    ASSUME TypesInv, NEW c \in Clients, RemDev(c)
    PROVE  LET d == app[c].dev
           IN  /\ app[c].at = "rem" /\ d \in Devices /\ c \in alive
               /\ \/ thread[c].at = "none" /\ Moved(c, NoThread, Idle)
                  \/ /\ thread[c].at # "none"
                     /\ Moved(c, [thread[c] EXCEPT !.cmd = RemCmd(d)], Waits)
<1> DEFINE d == app[c].dev
<1>1. Maps /\ Rest /\ ClientOK(thread[c], app[c], proxy[c], c, c \in alive)
  BY TypesParts, ClientTypes
<1>2. app[c].at = "rem" /\ UNCHANGED <<scenario, dev, half, proxy, alive, owed, robbed>>
  BY Zenon DEF RemDev
<1>3. d \in Devices /\ c \in alive
  BY <1>1, <1>2, AppTypes DEF ClientOK
<1>4. thread[c].at = "none" <=> ~ thread[c].known \/ thread[c].suicide
  BY <1>1 DEF ClientOK, Shaped
<1>5. CASE thread[c].at = "none"
  <2>1. thread' = [thread EXCEPT ![c] = NoThread] /\ app' = [app EXCEPT ![c] = Idle]
    BY <1>4, <1>5, Zenon DEF RemDev
  <2>2. Moved(c, NoThread, Idle)
    <3> HIDE DEF d
    <3> QED BY <1>1, <1>2, <2>1 DEF Moved, Maps, Rest, Others, SameClient, SameDevices
  <2> QED BY <1>2, <1>3, <1>5, <2>2
<1>6. CASE thread[c].at # "none"
  <2>1. thread' = [thread EXCEPT ![c] = [thread[c] EXCEPT !.cmd = RemCmd(d)]]
        /\ app' = [app EXCEPT ![c] = Waits]
    BY <1>4, <1>6, Zenon DEF RemDev, RemCmd, Waits
  <2> DEFINE n == [thread[c] EXCEPT !.cmd = RemCmd(d)]
  <2> HIDE DEF d, n
  <2>2. thread' = [thread EXCEPT ![c] = n]
    BY <2>1 DEF n
  <2>3. Moved(c, n, Waits)
    BY <1>1, <1>2, <2>1, <2>2 DEF Moved, Maps, Rest, Others, SameClient, SameDevices
  <2> QED BY <1>2, <1>3, <1>6, <2>3 DEF n, d
<1> QED BY <1>2, <1>3, <1>5, <1>6

(* The devices of the thread once its command is done. *)
AfterCmd(th) ==
    IF th.cmd.code = "add" THEN th.devs \cup {th.cmd.dev} ELSE th.devs \ {th.cmd.dev}

LEMMA CmdTypes ==
    ASSUME NEW cmd \in Command
    PROVE  /\ cmd # NoCmd /\ cmd.dev \in Devices /\ cmd.code \in {"add", "rem"}
           /\ cmd.code = "add" => cmd.validity \in Nat
BY LockAssumption DEF Command

LEMMA ExecuteCmdEffect ==
    ASSUME TypesInv, NEW c \in Clients, ExecuteCmd(c)
    PROVE  LET th == thread[c]
               D == AfterCmd(th)
           IN  /\ th.at = "wait" /\ th.cmd \in Command /\ c \in alive /\ app[c].at = "wait"
               /\ \/ D = {} /\ Moved(c, Ended, Idle)
                  \/ /\ D # {}
                     /\ \E val \in [Devices -> Nat] :
                           /\ \A d \in D : val[d] \in Validities[c]
                           /\ Moved(c, Refreshed(th, D, val), Idle)
<1> DEFINE th == thread[c]
           D == AfterCmd(th)
           added == IF th.cmd.dev \in th.devs THEN th
                    ELSE [th EXCEPT !.devs = th.devs \cup {th.cmd.dev},
                                    !.validity[th.cmd.dev] = th.cmd.validity]
           removed == [th EXCEPT !.devs = th.devs \ {th.cmd.dev},
                                 !.validity[th.cmd.dev] = 0]
           done == IF th.cmd.code = "add" THEN UpdatePeriod(added)
                   ELSE IF removed.devs = {} THEN removed ELSE UpdatePeriod(removed)
<1>1. Maps /\ Rest /\ ClientOK(th, app[c], proxy[c], c, c \in alive)
      /\ th \in ThreadType /\ app[c] \in AppType
  BY TypesParts, ClientTypes
<1>2. /\ th.at = "wait" /\ th.cmd # NoCmd
      /\ thread' = [thread EXCEPT ![c] = Released(done)]
      /\ app' = [app EXCEPT ![c] = IF app[c].at = "wait" THEN Idle ELSE app[c]]
      /\ UNCHANGED <<scenario, dev, half, proxy, alive, owed, robbed>>
  BY Zenon DEF ExecuteCmd, ReleaseRequester
<1>3. th.cmd \in Command /\ th.cmd.dev \in Devices /\ th.cmd.code \in {"add", "rem"}
  <2>1. th.cmd \in Command
    BY <1>1, <1>2 DEF ThreadType
  <2> QED BY <2>1, CmdTypes
<1>4. c \in alive /\ app[c].at = "wait" /\ Shaped(th, c)
  BY <1>1, <1>2 DEF ClientOK
<1>5. app' = [app EXCEPT ![c] = Idle]
  BY <1>2, <1>4
<1>6. ASSUME NEW n, Released(done) = n PROVE Moved(c, n, Idle)
  <2> HIDE DEF done, D, th
  <2>1. thread' = [thread EXCEPT ![c] = n]
    BY <1>2, <1>6
  <2>2. UNCHANGED <<scenario, dev, half, proxy, alive, owed, robbed>>
    BY <1>2
  <2> QED BY <1>1, <1>5, <2>1, <2>2 DEF Moved, Maps, Rest, Others, SameClient, SameDevices
<1>7. /\ th.devs \in SUBSET Devices /\ th.validity \in [Devices -> Nat]
      /\ \A d \in th.devs : th.validity[d] \in Validities[c]
  BY <1>1, <1>2, <1>4 DEF ThreadType, Shaped
<1>8. D \in SUBSET Devices
  BY <1>3, <1>7 DEF AfterCmd
<1>9. ASSUME NEW val \in [Devices -> Nat], D # {}, \A d \in D : val[d] \in Validities[c],
             done = UpdatePeriod(WithDevs(th, D, val))
      PROVE  Moved(c, Refreshed(th, D, val), Idle)
  <2>1. done.devs = D
    <3> HIDE DEF D, done, th
    <3>1. UpdatePeriod(WithDevs(th, D, val)).devs = D
      BY <1>1, <1>2, <1>4, <1>8, <1>9, DevsAre, Zenon
    <3> QED BY <1>9, <3>1
  <2>2. Released(done) = [done EXCEPT !.cmd = NoCmd]
    <3> HIDE DEF D, done, th
    <3> QED BY <2>1, <1>9 DEF Released
  <2>3. Released(done) = Refreshed(th, D, val)
    <3> HIDE DEF D, done, th
    <3> QED BY <2>2, <1>9 DEF Refreshed
  <2> HIDE DEF D, done, th
  <2> QED BY <2>3, <1>6
<1>10. CASE th.cmd.code = "add"
  <2> DEFINE val == IF th.cmd.dev \in th.devs THEN th.validity
                    ELSE [th.validity EXCEPT ![th.cmd.dev] = th.cmd.validity]
  <2>1. D = th.devs \cup {th.cmd.dev} /\ D # {}
    BY <1>10 DEF AfterCmd
  <2>2. th.cmd.validity \in Validities[c] /\ th.cmd.validity \in Nat
    BY <1>2, <1>3, <1>4, <1>10, CmdTypes DEF Shaped
  <2>3. val \in [Devices -> Nat] /\ \A d \in D : val[d] \in Validities[c]
    <3> HIDE DEF D, th
    <3> QED BY <1>3, <1>7, <2>1, <2>2
  <2>4. added = WithDevs(th, D, val)
    <3>1. CASE th.cmd.dev \in th.devs
      <4>1. D = th.devs /\ val = th.validity /\ added = th
        BY <2>1, <3>1
      <4> HIDE DEF D, val, added, th
      <4> QED BY <1>1, <4>1 DEF ThreadType, WithDevs
    <3>2. CASE th.cmd.dev \notin th.devs
      <4> HIDE DEF D
      <4> QED BY <2>1, <3>2 DEF WithDevs
    <3> QED BY <3>1, <3>2
  <2>5. done = UpdatePeriod(WithDevs(th, D, val))
    <3> HIDE DEF D, val, added
    <3> QED BY <1>10, <2>4
  <2>6. Moved(c, Refreshed(th, D, val), Idle)
    <3> HIDE DEF D, val, done, th
    <3> QED BY <1>9, <2>1, <2>3, <2>5
  <2> HIDE DEF val, done
  <2> QED BY <1>2, <1>3, <1>4, <2>1, <2>3, <2>6
<1>11. CASE th.cmd.code # "add"
  <2> DEFINE val == [th.validity EXCEPT ![th.cmd.dev] = 0]
  <2>1. D = th.devs \ {th.cmd.dev}
    BY <1>11 DEF AfterCmd
  <2>2. val \in [Devices -> Nat] /\ \A d \in D : val[d] \in Validities[c]
    <3> HIDE DEF D, th
    <3> QED BY <1>3, <1>7, <2>1
  <2>3. removed = WithDevs(th, D, val)
    <3> HIDE DEF D
    <3> QED BY <2>1 DEF WithDevs
  <2>4. removed.devs = D
    <3> HIDE DEF D, val, removed, th
    <3> QED BY <1>1, <2>3 DEF ThreadType, WithDevs
  <2>5. CASE D = {}
    <3>1. done = removed
      <4> HIDE DEF D, removed
      <4> QED BY <1>11, <2>4, <2>5
    <3>2. Released(done) = Ended
      <4> HIDE DEF D, removed, done
      <4> QED BY <2>4, <2>5, <3>1 DEF Released, Ended
    <3>3. Moved(c, Ended, Idle)
      <4> HIDE DEF done
      <4> QED BY <1>6, <3>2
    <3> HIDE DEF val, done, removed
    <3> QED BY <1>2, <1>3, <1>4, <2>5, <3>3
  <2>6. CASE D # {}
    <3>1. done = UpdatePeriod(WithDevs(th, D, val))
      <4> HIDE DEF D, removed, val
      <4> QED BY <1>11, <2>3, <2>4, <2>6
    <3>2. Moved(c, Refreshed(th, D, val), Idle)
      <4> HIDE DEF D, val, done, th
      <4> QED BY <1>9, <2>2, <2>6, <3>1
    <3> HIDE DEF val, done, removed
    <3> QED BY <1>2, <1>3, <1>4, <2>2, <2>6, <3>2
  <2> QED BY <2>5, <2>6
<1> QED BY <1>10, <1>11

(* The states of the thread around a renewal. *)
Sent(th) == [th EXCEPT !.at = "sent", !.lag = 0,
                       !.args = IF th.args = {} THEN th.devs ELSE th.args]
Replied(th, errs) == [th EXCEPT !.at = "reply", !.errors = errs]
Pruned(th) == [th EXCEPT !.at = "wait", !.devs = th.devs \ th.errors,
                         !.timer = th.period, !.errors = {}]

LEMMA SentIs ==
    ASSUME NEW c \in Clients, NEW th \in ThreadType, Shaped(th, c), th.at = "wait"
    PROVE  LET n == Sent(th)
           IN  /\ n \in ThreadType /\ Shaped(n, c) /\ n.at = "sent" /\ n.lag = 0
               /\ n.devs = th.devs /\ n.cmd = th.cmd /\ n.timer = th.timer
               /\ n.period = th.period
<1> DEFINE A == IF th.args = {} THEN th.devs ELSE th.args
           n == [th EXCEPT !.at = "sent", !.lag = 0, !.args = A]
<1>1. A \in SUBSET Devices /\ th.devs \subseteq A
  BY DEF ThreadType, Shaped
<1> HIDE DEF A
<1>2. /\ n \in ThreadType /\ n.at = "sent" /\ n.lag = 0 /\ n.devs = th.devs
      /\ n.cmd = th.cmd /\ n.timer = th.timer /\ n.period = th.period /\ n.args = A
      /\ n.known = th.known /\ n.suicide = th.suicide /\ n.validity = th.validity
  BY <1>1 DEF ThreadType
<1>3. Sent(th) = n
  BY DEF Sent, A
<1> HIDE DEF n
<1>4. Shaped(n, c)
  BY <1>1, <1>2 DEF Shaped
<1> QED BY <1>2, <1>3, <1>4

LEMMA RepliedIs ==
    ASSUME NEW c \in Clients, NEW th \in ThreadType, Shaped(th, c), th.at = "sent",
           NEW errs \in SUBSET Devices
    PROVE  LET n == Replied(th, errs)
           IN  /\ n \in ThreadType /\ Shaped(n, c) /\ n.at = "reply" /\ n.errors = errs
               /\ n.devs = th.devs /\ n.cmd = th.cmd /\ n.timer = th.timer
               /\ n.period = th.period
<1> DEFINE n == Replied(th, errs)
<1>1. /\ n \in ThreadType /\ n.at = "reply" /\ n.errors = errs /\ n.devs = th.devs
      /\ n.cmd = th.cmd /\ n.timer = th.timer /\ n.period = th.period /\ n.args = th.args
      /\ n.known = th.known /\ n.suicide = th.suicide /\ n.validity = th.validity
  BY DEF ThreadType, Replied
<1> HIDE DEF n
<1>2. Shaped(n, c)
  BY <1>1 DEF Shaped
<1> QED BY <1>1, <1>2 DEF n

LEMMA PrunedIs ==
    ASSUME NEW c \in Clients, NEW th \in ThreadType, Shaped(th, c), th.at = "reply",
           th.devs \ th.errors # {}
    PROVE  LET n == Pruned(th)
           IN  /\ n \in ThreadType /\ Shaped(n, c) /\ n.at = "wait" /\ n.timer = th.period
               /\ n.devs = th.devs \ th.errors /\ n.cmd = th.cmd /\ n.period = th.period
<1> DEFINE n == Pruned(th)
           D == th.devs \ th.errors
<1>1. D \in SUBSET Devices /\ D \subseteq th.devs /\ D # {} /\ th.period \in Nat
  BY DEF ThreadType
<1>2. n = [th EXCEPT !.at = "wait", !.devs = D, !.timer = th.period, !.errors = {}]
  BY DEF Pruned
<1> HIDE DEF D, n
<1>3. /\ n \in ThreadType /\ n.at = "wait" /\ n.devs = D /\ n.args = th.args
      /\ n.cmd = th.cmd /\ n.timer = th.period /\ n.period = th.period
      /\ n.known = th.known /\ n.suicide = th.suicide /\ n.validity = th.validity
  BY <1>1, <1>2 DEF ThreadType
<1>4. Shaped(n, c)
  BY <1>1, <1>3 DEF Shaped
<1> QED BY <1>3, <1>4 DEF n, D

LEMMA OneMoreLockEffect ==
    ASSUME TypesInv, NEW c \in Clients, OneMoreLock(c)
    PROVE  /\ thread[c].at = "wait" /\ thread[c].timer = 0 /\ c \in alive
           /\ Moved(c, Sent(thread[c]), app[c])
<1>1. Maps /\ Rest /\ ClientOK(thread[c], app[c], proxy[c], c, c \in alive)
  BY TypesParts, ClientTypes
<1>2. /\ thread[c].at = "wait" /\ thread[c].timer = 0
      /\ UNCHANGED <<scenario, dev, half, proxy, app, alive, owed, robbed>>
  BY Zenon DEF OneMoreLock
<1>3. c \in alive
  BY <1>1, <1>2 DEF ClientOK
<1> DEFINE n == Sent(thread[c])
<1>4. thread' = [thread EXCEPT ![c] = n]
  BY <1>1 DEF OneMoreLock, Sent, Maps
<1> HIDE DEF n
<1>5. Moved(c, n, app[c])
  BY <1>1, <1>2, <1>4 DEF Moved, Maps, Rest, Others, SameClient, SameDevices
<1> QED BY <1>2, <1>3, <1>5 DEF n

LEMMA RelockDoneEffect ==
    ASSUME TypesInv, NEW c \in Clients, RelockDone(c)
    PROVE  LET th == thread[c]
           IN  /\ th.at = "reply" /\ c \in alive
               /\ \/ /\ th.devs \ th.errors = {}
                     /\ Moved(c, Ended, IF app[c].at = "wait" THEN Idle ELSE app[c])
                  \/ th.devs \ th.errors # {} /\ Moved(c, Pruned(th), app[c])
<1> DEFINE th == thread[c]
           left == [th EXCEPT !.devs = th.devs \ th.errors]
           gone == th.devs # {} /\ left.devs = {}
           n == IF gone THEN Released(left)
                ELSE [left EXCEPT !.at = "wait", !.timer = th.period, !.errors = {}]
           a == IF app[c].at = "wait" THEN Idle ELSE app[c]
<1>1. Maps /\ Rest /\ ClientOK(th, app[c], proxy[c], c, c \in alive) /\ th \in ThreadType
  BY TypesParts, ClientTypes
<1>2. /\ th.at = "reply" /\ thread' = [thread EXCEPT ![c] = n]
      /\ IF gone THEN app' = [app EXCEPT ![c] = a] ELSE UNCHANGED app
      /\ UNCHANGED <<scenario, dev, half, proxy, alive, owed, robbed>>
  BY Zenon DEF RelockDone, ReleaseRequester
<1>3. c \in alive /\ th.devs # {}
  BY <1>1, <1>2 DEF ClientOK, Shaped
<1>4. left.devs = th.devs \ th.errors
  BY <1>1 DEF ThreadType
<1>5. CASE th.devs \ th.errors = {}
  <2>1. gone /\ n = Ended
    <3>1. gone
      <4> HIDE DEF left
      <4> QED BY <1>3, <1>4, <1>5
    <3> HIDE DEF left
    <3> QED BY <3>1, <1>4, <1>5 DEF Released, Ended
  <2> HIDE DEF gone, n, a, left
  <2>2. Moved(c, n, a)
    <3> HIDE DEF th
    <3> QED BY <1>1, <1>2, <2>1 DEF Moved, Maps, Rest, Others, SameClient, SameDevices
  <2> QED BY <1>2, <1>3, <1>5, <2>1, <2>2 DEF a
<1>6. CASE th.devs \ th.errors # {}
  <2>1. ~ gone
    <3> HIDE DEF left
    <3> QED BY <1>4, <1>6
  <2>2. n = Pruned(th)
    <3> HIDE DEF gone
    <3> QED BY <2>1, <1>1 DEF Pruned, ThreadType
  <2> HIDE DEF gone, n, a, left
  <2>3. Moved(c, n, app[c])
    <3> HIDE DEF th
    <3> QED BY <1>1, <1>2, <2>1 DEF Moved, Maps, Rest, Others, SameClient, SameDevices
  <2> QED BY <1>2, <1>3, <1>6, <2>2, <2>3
<1> QED BY <1>5, <1>6

LEMMA ReLockEffect ==
    ASSUME TypesInv, NEW c \in Clients, ReLockDevices(c)
    PROVE  LET th == thread[c]
               ok == {d \in th.args : CanRelock(dev[d], c)}
           IN  /\ th.at = "sent" /\ Maps' /\ Rest' /\ Others(c)
               /\ \A d \in Devices : dev'[d] = IF d \in ok THEN Relocked(dev[d]) ELSE dev[d]
               /\ thread'[c] = IF c \in alive THEN Replied(th, th.args \ ok) ELSE NoThread
               /\ app'[c] = app[c] /\ proxy'[c] = proxy[c]
               /\ owed' = owed /\ alive' = alive /\ robbed' = robbed /\ half' = half
<1> DEFINE th == thread[c]
           ok == {d \in th.args : CanRelock(dev[d], c)}
           n == IF c \in alive THEN Replied(th, th.args \ ok) ELSE NoThread
<1>1. Maps /\ Rest
  BY TypesParts
<1>2. /\ th.at = "sent" /\ thread' = [thread EXCEPT ![c] = n]
      /\ dev' = [d \in Devices |-> IF d \in ok THEN Relocked(dev[d]) ELSE dev[d]]
      /\ UNCHANGED <<scenario, half, proxy, app, alive, owed, robbed>>
  BY Zenon DEF ReLockDevices, Replied
<1> HIDE DEF n, ok
<1>3. /\ th.at = "sent" /\ Maps' /\ Rest' /\ Others(c)
      /\ \A d \in Devices : dev'[d] = IF d \in ok THEN Relocked(dev[d]) ELSE dev[d]
      /\ thread'[c] = n /\ app'[c] = app[c] /\ proxy'[c] = proxy[c]
      /\ owed' = owed /\ alive' = alive /\ robbed' = robbed /\ half' = half
  BY <1>1, <1>2 DEF Maps, Rest, Others, SameClient
<1> QED BY <1>3 DEF n, ok

(* What Rob does to the history, client by client. *)
Robs(by) ==
    /\ robbed \subseteq robbed'
    /\ \A p \in robbed' \ robbed :
          /\ p[2] = by /\ p[1] \in Clients \ {by}
          /\ \E d \in Devices : Holds(dev[d], p[1]) /\ dev'[d] # dev[d]
    /\ \A b \in Clients \ {by} : \A d \in Devices :
          /\ owed[b][d] > 0 /\ Holds(dev[d], b) /\ ~ Holds(dev'[d], b) => <<b, by>> \in robbed'
          /\ owed'[b][d] = IF Holds(dev'[d], b) THEN owed[b][d] ELSE 0

LEMMA RobEffect ==
    ASSUME TypesInv, NEW by \in Clients \cup {Server}, NEW after, NEW left,
           by \in Clients => left \in [Devices -> Nat], Rob(after, by, left)
    PROVE  /\ dev' = after /\ Robs(by) /\ owed' \in [Clients -> [Devices -> Nat]]
           /\ robbed' \subseteq Clients \X (Clients \cup {Server})
           /\ by \in Clients => owed'[by] = left
<1>1. owed \in [Clients -> [Devices -> Nat]] /\ robbed \subseteq Clients \X (Clients \cup {Server})
  BY TypesParts DEF Rest
<1>2. /\ dev' = after
      /\ robbed' = robbed \cup (Losers(after, by) \X {by})
      /\ owed' = [c \in Clients |-> IF c = by THEN left ELSE
                    [d \in Devices |-> IF Holds(after[d], c) THEN owed[c][d] ELSE 0]]
  BY DEF Rob
<1>3. Losers(after, by) =
        {c \in Clients \ {by} :
            \E d \in Devices : owed[c][d] > 0 /\ Holds(dev[d], c) /\ ~ Holds(after[d], c)}
  BY DEF Losers
<1>4. owed' \in [Clients -> [Devices -> Nat]] /\ (by \in Clients => owed'[by] = left)
  <2>1. \A c \in Clients : (IF c = by THEN left ELSE
           [d \in Devices |-> IF Holds(after[d], c) THEN owed[c][d] ELSE 0]) \in [Devices -> Nat]
    BY <1>1
  <2> QED BY <1>2, <2>1
<1>5. Losers(after, by) \subseteq Clients \ {by}
  BY <1>3
<1>6. robbed' \subseteq Clients \X (Clients \cup {Server})
  BY <1>1, <1>2, <1>5
<1>7. ASSUME NEW p \in robbed' \ robbed
      PROVE  /\ p[2] = by /\ p[1] \in Clients \ {by}
             /\ \E d \in Devices : Holds(dev[d], p[1]) /\ dev'[d] # dev[d]
  <2>1. p \in Losers(after, by) \X {by}
    BY <1>2, <1>7
  <2>2. p[1] \in Losers(after, by) /\ p[2] = by
    BY <2>1
  <2>3. PICK d \in Devices : Holds(dev[d], p[1]) /\ ~ Holds(after[d], p[1])
    BY <1>3, <2>2
  <2>4. dev'[d] # dev[d]
    BY <1>2, <2>3
  <2> QED BY <1>5, <2>2, <2>3, <2>4
<1>8. ASSUME NEW b \in Clients \ {by}, NEW d \in Devices
      PROVE  /\ owed[b][d] > 0 /\ Holds(dev[d], b) /\ ~ Holds(dev'[d], b)
                    => <<b, by>> \in robbed'
             /\ owed'[b][d] = IF Holds(dev'[d], b) THEN owed[b][d] ELSE 0
  <2>1. owed[b][d] > 0 /\ Holds(dev[d], b) /\ ~ Holds(after[d], b) => b \in Losers(after, by)
    BY <1>3
  <2>2. b \in Losers(after, by) => <<b, by>> \in robbed'
    BY <1>2
  <2>3. owed'[b] = [e \in Devices |-> IF Holds(after[e], b) THEN owed[b][e] ELSE 0]
    BY <1>2, Zenon
  <2> QED BY <1>2, <2>1, <2>2, <2>3
<1>9. Robs(by)
  BY <1>2, <1>7, <1>8 DEF Robs
<1> QED BY <1>2, <1>4, <1>6, <1>9

LEMMA UnlockEffect ==
    ASSUME TypesInv, NEW c \in Clients, NEW d \in Devices, NEW forced \in BOOLEAN,
           AfterUnlock(c, d, forced)
    PROVE  LET s == Unlocked(dev[d], forced)
           IN  /\ Maps' /\ Rest' /\ Others(c) /\ OneDevice(d, s) /\ Robs(c)
               /\ thread'[c] = thread[c]
               /\ app'[c] = IF s.lock_ctr = 0 \/ forced THEN AppAt("rem", d) ELSE Idle
               /\ proxy'[c] = WithProxy(proxy[c], d, s.lock_ctr,
                                        IF s.lock_ctr = 0 THEN 0 ELSE proxy[c][d].valid)
               /\ owed'[c] = WithOwed(owed[c], d,
                                      IF forced \/ owed[c][d] = 0 THEN 0 ELSE owed[c][d] - 1)
               /\ alive' = alive /\ half' = half
<1> DEFINE s == Unlocked(dev[d], forced)
           after == [dev EXCEPT ![d] = s]
           n == IF forced \/ owed[c][d] = 0 THEN 0 ELSE owed[c][d] - 1
           left == [owed[c] EXCEPT ![d] = n]
           px == [ctr |-> s.lock_ctr, valid |-> IF s.lock_ctr = 0 THEN 0 ELSE proxy[c][d].valid]
           a == IF s.lock_ctr = 0 \/ forced THEN [at |-> "rem", dev |-> d] ELSE Idle
<1>1. Maps /\ Rest /\ owed[c] \in [Devices -> Nat]
  BY TypesParts, ClientTypes
<1>2. after[d] = s /\ \A e \in Devices \ {d} : after[e] = dev[e]
  BY <1>1 DEF Maps
<1>3. /\ Rob(after, c, left)
      /\ proxy' = [proxy EXCEPT ![c][d] =
              [ctr |-> after[d].lock_ctr,
               valid |-> IF after[d].lock_ctr = 0 THEN 0 ELSE @.valid]]
      /\ app' = [app EXCEPT ![c] = IF after[d].lock_ctr = 0 \/ forced
                                     THEN [at |-> "rem", dev |-> d] ELSE Idle]
      /\ UNCHANGED <<scenario, half, thread, alive>>
  BY Zenon DEF AfterUnlock
<1>4. left \in [Devices -> Nat]
  BY <1>1
<1>5. after = [e \in Devices |-> after[e]]
  BY <1>1 DEF Maps
<1> HIDE DEF after, s, left
<1>6. proxy' = [proxy EXCEPT ![c] = [proxy[c] EXCEPT ![d] = px]] /\ app' = [app EXCEPT ![c] = a]
  BY <1>2, <1>3
<1>7. /\ dev' = after /\ Robs(c) /\ owed' \in [Clients -> [Devices -> Nat]]
      /\ robbed' \subseteq Clients \X (Clients \cup {Server})
      /\ owed'[c] = left
  BY <1>3, <1>4, RobEffect
<1> HIDE DEF px, a
<1>8. Maps' /\ Rest' /\ Others(c)
  BY <1>1, <1>3, <1>5, <1>6, <1>7 DEF Maps, Rest, Others, SameClient
<1>9. OneDevice(d, s)
  BY <1>2, <1>7 DEF OneDevice
<1>10. thread'[c] = thread[c] /\ app'[c] = a /\ proxy'[c] = [proxy[c] EXCEPT ![d] = px]
       /\ alive' = alive /\ half' = half
  BY <1>1, <1>3, <1>6 DEF Maps
<1> QED BY <1>7, <1>8, <1>9, <1>10 DEF left, s, px, a, AppAt, WithProxy, WithOwed

LEMMA ExitEffect ==
    ASSUME TypesInv, NEW c \in Clients, Exit(c)
    PROVE  /\ Maps' /\ Rest' /\ Others(c) /\ Robs(c) /\ half' = half
           /\ Runs(c) /\ alive' = alive \ {c} /\ thread'[c] = NoThread
           /\ app'[c] = app[c] /\ proxy'[c] = NoProxies
           /\ \A d \in Devices :
                 dev'[d] = IF thread[c].at = "wait" /\ d \in thread[c].devs
                           THEN Unlocked(dev[d], TRUE) ELSE dev[d]
<1> DEFINE after == [d \in Devices |-> IF thread[c].at = "wait" /\ d \in thread[c].devs
                                       THEN Unlocked(dev[d], TRUE) ELSE dev[d]]
           left == [d \in Devices |-> 0]
<1>1. Maps /\ Rest
  BY TypesParts
<1>2. /\ Rob(after, c, left) /\ Runs(c) /\ alive' = alive \ {c}
      /\ thread' = [thread EXCEPT ![c] = NoThread]
      /\ proxy' = [proxy EXCEPT ![c] = NoProxies]
      /\ UNCHANGED <<scenario, half, app>>
  BY Zenon DEF Exit
<1>3. left \in [Devices -> Nat] /\ after = [d \in Devices |-> after[d]]
  OBVIOUS
<1> HIDE DEF after, left
<1>4. /\ dev' = after /\ Robs(c) /\ owed' \in [Clients -> [Devices -> Nat]]
      /\ robbed' \subseteq Clients \X (Clients \cup {Server})
  BY <1>2, <1>3, RobEffect
<1>5. Maps' /\ Rest' /\ Others(c)
  BY <1>1, <1>2, <1>3, <1>4 DEF Maps, Rest, Others, SameClient
<1>6. thread'[c] = NoThread /\ proxy'[c] = NoProxies /\ app'[c] = app[c]
  BY <1>1, <1>2 DEF Maps
<1> QED BY <1>2, <1>4, <1>5, <1>6 DEF after

LEMMA CrashEffect ==
    ASSUME TypesInv, NEW c \in Clients, Crash(c)
    PROVE  /\ Maps' /\ Rest' /\ Others(c) /\ SameDevices /\ half' = half /\ robbed' = robbed
           /\ c \in alive /\ alive' = alive \ {c} /\ app'[c] = Idle /\ proxy'[c] = NoProxies
           /\ thread'[c] = (IF thread[c].at = "sent" THEN thread[c] ELSE NoThread)
           /\ \A b \in Clients \ {c} : owed'[b] = owed[b]
<1> DEFINE n == IF thread[c].at = "sent" THEN thread[c] ELSE NoThread
           z == [d \in Devices |-> 0]
<1>1. Maps /\ Rest
  BY TypesParts
<1>2. /\ c \in alive /\ alive' = alive \ {c}
      /\ thread' = [thread EXCEPT ![c] = n]
      /\ app' = [app EXCEPT ![c] = Idle]
      /\ proxy' = [proxy EXCEPT ![c] = NoProxies]
      /\ owed' = [owed EXCEPT ![c] = z]
      /\ UNCHANGED <<scenario, dev, half, robbed>>
  BY Zenon DEF Crash
<1>3. z \in [Devices -> Nat]
  OBVIOUS
<1> HIDE DEF n, z
<1>4. Maps' /\ Rest' /\ Others(c) /\ SameDevices
  BY <1>1, <1>2, <1>3 DEF Maps, Rest, Others, SameClient, SameDevices
<1>5. \A b \in Clients \ {c} : owed'[b] = owed[b]
  BY <1>1, <1>2 DEF Rest
<1> QED BY <1>1, <1>2, <1>4, <1>5 DEF Maps, n

(* The requests that neither lock nor unlock. *)
Asked == /\ Maps' /\ Rest' /\ \A c \in Clients : SameClient(c)
         /\ \A d \in Devices : Gentle(dev[d], dev'[d])
         /\ alive' = alive /\ half' = half /\ robbed' = robbed /\ owed' = owed

LEMMA AskedEffect ==
    ASSUME TypesInv, NEW d \in Devices, NEW r, Gentle(dev[d], r),
           dev' = [dev EXCEPT ![d] = r],
           UNCHANGED <<scenario, half, proxy, app, thread, alive, owed, robbed>>
    PROVE  Asked
<1>1. Maps /\ Rest
  BY TypesParts
<1>2. \A e \in Devices : Gentle(dev[e], dev[e])
  BY DeviceFits DEF Gentle
<1>3. \A e \in Devices : Gentle(dev[e], dev'[e])
  BY <1>1, <1>2 DEF Maps
<1>4. Maps' /\ Rest' /\ \A c \in Clients : SameClient(c)
  BY <1>1 DEF Maps, Rest, SameClient
<1> QED BY <1>3, <1>4 DEF Asked

LEMMA RequestsEffect ==
    ASSUME TypesInv, NEW d \in Devices,
           LockStatus(d) \/ \E c \in Clients : CheckLock(c, d) \/ Restart(c, d)
    PROVE  Asked
<1>1. PICK r : /\ Gentle(dev[d], r) /\ dev' = [dev EXCEPT ![d] = r]
               /\ UNCHANGED <<scenario, half, proxy, app, thread, alive, owed, robbed>>
  <2>1. CASE LockStatus(d)
    <3>1. /\ dev' = [dev EXCEPT ![d] = Reported(dev[d])]
          /\ UNCHANGED <<scenario, half, proxy, app, thread, alive, owed, robbed>>
      BY <2>1, Zenon DEF LockStatus
    <3>2. Gentle(dev[d], Reported(dev[d]))
      BY DeviceFits, ReportedGentle
    <3> QED BY <3>1, <3>2
  <2>2. ASSUME NEW c \in Clients, CheckLock(c, d)
        PROVE  \E r : /\ Gentle(dev[d], r) /\ dev' = [dev EXCEPT ![d] = r]
                      /\ UNCHANGED <<scenario, half, proxy, app, thread, alive, owed, robbed>>
    <3>1. /\ dev' = [dev EXCEPT ![d] = Checked(dev[d], c)]
          /\ UNCHANGED <<scenario, half, proxy, app, thread, alive, owed, robbed>>
      BY <2>2, Zenon DEF CheckLock
    <3>2. Gentle(dev[d], Checked(dev[d], c))
      BY DeviceFits, CheckedGentle
    <3> QED BY <3>1, <3>2
  <2>3. ASSUME NEW c \in Clients, Restart(c, d)
        PROVE  \E r : /\ Gentle(dev[d], r) /\ dev' = [dev EXCEPT ![d] = r]
                      /\ UNCHANGED <<scenario, half, proxy, app, thread, alive, owed, robbed>>
    <3>1. /\ dev' = [dev EXCEPT ![d] = Restarted(dev[d])]
          /\ UNCHANGED <<scenario, half, proxy, app, thread, alive, owed, robbed>>
      BY <2>3, Zenon DEF Restart
    <3>2. Gentle(dev[d], Restarted(dev[d]))
      BY DeviceFits, RestartedGentle
    <3> QED BY <3>1, <3>2
  <2> QED BY <2>1, <2>2, <2>3
<1> QED BY <1>1, AskedEffect

LEMMA RestartServerEffect ==
    ASSUME TypesInv, RestartServer
    PROVE  /\ Maps' /\ Rest' /\ \A c \in Clients : SameClient(c)
           /\ Robs(Server) /\ \A d \in Devices : dev'[d] = NewDevice
           /\ alive' = alive /\ half' = half
<1> DEFINE after == [d \in Devices |-> NewDevice]
<1>1. Maps /\ Rest /\ Server \notin Clients
  BY TypesParts, LockAssumption
<1>2. Rob(after, Server, {}) /\ UNCHANGED <<scenario, half, proxy, app, thread, alive>>
  BY Zenon DEF RestartServer
<1>3. after = [d \in Devices |-> after[d]] /\ \A d \in Devices : after[d] = NewDevice
  OBVIOUS
<1> HIDE DEF after
<1>4. /\ dev' = after /\ Robs(Server) /\ owed' \in [Clients -> [Devices -> Nat]]
      /\ robbed' \subseteq Clients \X (Clients \cup {Server})
  BY <1>1, <1>2, RobEffect
<1> QED BY <1>1, <1>2, <1>3, <1>4 DEF Maps, Rest, SameClient

(* The thread of a client when time passes. *)
Passed(th, n) ==
    /\ th.at = "wait" => n = [th EXCEPT !.timer = th.timer - 1]
    /\ th.at = "sent" => n = [th EXCEPT !.lag = th.lag + 1]
    /\ th.at \notin {"wait", "sent"} => n = th

LEMMA TickEffect ==
    ASSUME TypesInv, Tick
    PROVE  /\ Maps' /\ Rest' /\ half' = 1 - half /\ alive' = alive /\ owed' = owed
           /\ robbed' = robbed
           /\ \A d \in Devices : dev'[d] = Later(dev[d])
           /\ \A c \in Clients : /\ ~ Urgent(c) /\ app'[c] = app[c] /\ proxy'[c] = proxy[c]
                                 /\ Passed(thread[c], thread'[c])
<1> DEFINE n(c) == IF thread[c].at = "wait"
                   THEN [thread[c] EXCEPT !.timer = thread[c].timer - 1]
                   ELSE IF thread[c].at = "sent"
                        THEN [thread[c] EXCEPT !.lag = thread[c].lag + 1]
                        ELSE thread[c]
<1>1. Maps /\ Rest
  BY TypesParts
<1>2. /\ \A c \in Clients : ~ Urgent(c)
      /\ half' = 1 - half /\ dev' = [d \in Devices |-> Later(dev[d])]
      /\ thread' = [c \in Clients |-> n(c)]
      /\ UNCHANGED <<scenario, proxy, app, alive, owed, robbed>>
  BY Zenon DEF Tick
<1>3. \A c \in Clients : Passed(thread[c], n(c))
  BY DEF Passed
<1> HIDE DEF n
<1>4. Maps' /\ Rest'
  BY <1>1, <1>2 DEF Maps, Rest
<1> QED BY <1>1, <1>2, <1>3, <1>4 DEF Maps

(* The steps preserve the types. *)

LEMMA ProxyChange ==
    ASSUME NEW p \in ProxyType, NEW d \in Devices, NEW n \in Nat, NEW v \in Nat
    PROVE  /\ WithProxy(p, d, n, v) \in ProxyType
           /\ WithProxy(p, d, n, v)[d].ctr = n /\ WithProxy(p, d, n, v)[d].valid = v
           /\ \A e \in Devices \ {d} : WithProxy(p, d, n, v)[e] = p[e]
BY DEF ProxyType, WithProxy

LEMMA AppAtType ==
    ASSUME NEW d \in Devices
    PROVE  /\ AppAt("add", d) \in AppType /\ AppAt("add", d).at = "add" /\ AppAt("add", d).dev = d
           /\ AppAt("rem", d) \in AppType /\ AppAt("rem", d).at = "rem" /\ AppAt("rem", d).dev = d
BY DEF AppAt, AppType

LEMMA LockTypesStep ==
    ASSUME TypesInv, NEW c \in Clients, NEW d \in Devices, NEW v \in Validities[c],
           Lock(c, d, v)
    PROVE  TypesInv'
<1> DEFINE a == AppAt("add", d)
           q == WithProxy(proxy[c], d, proxy[c][d].ctr + 1, v)
<1>1. c \in alive /\ app[c].at = "idle" /\ ~ LockedByOther(dev[d], c)
  BY Zenon DEF Lock, Runs
<1>2. /\ Maps' /\ Rest' /\ Others(c) /\ OneDevice(d, Granted(dev[d], c, v))
      /\ thread'[c] = thread[c] /\ app'[c] = a /\ proxy'[c] = q /\ alive' = alive
  BY LockEffect
<1>3. /\ ClientOK(thread[c], app[c], proxy[c], c, c \in alive)
      /\ thread[c] \in ThreadType /\ proxy[c] \in ProxyType
  BY ClientTypes
<1>4. q \in ProxyType /\ q[d].valid = v
  <2>1. v \in Nat /\ proxy[c][d].ctr + 1 \in Nat
    BY <1>3, ValidityType DEF ProxyType
  <2> DEFINE p == proxy[c]
             n == proxy[c][d].ctr + 1
  <2>2. p \in ProxyType /\ n \in Nat
    BY <1>3, <2>1
  <2> HIDE DEF p, n
  <2>3. WithProxy(p, d, n, v) \in ProxyType /\ WithProxy(p, d, n, v)[d].valid = v
    BY <2>1, <2>2 DEF ProxyType, WithProxy
  <2> QED BY <2>3 DEF p, n
<1>5. a \in AppType /\ a.at = "add" /\ a.dev = d
  BY AppAtType
<1> HIDE DEF a, q
<1>6. ClientOK(thread'[c], app'[c], proxy'[c], c, c \in alive')
  BY <1>1, <1>2, <1>3, <1>4, <1>5 DEF ClientOK
<1>7. DeviceOK(Granted(dev[d], c, v))
  BY <1>1, DeviceFits, GrantedTo
<1>8. \A e \in Devices : DeviceOK(dev'[e])
  BY <1>2, <1>7, DeviceFits DEF OneDevice
<1> QED BY <1>2, <1>6, <1>8, TypesStep

LEMMA UnlockTypesStep ==
    ASSUME TypesInv, NEW c \in Clients, NEW d \in Devices, NEW forced \in BOOLEAN,
           Runs(c), AfterUnlock(c, d, forced)
    PROVE  TypesInv'
<1> DEFINE s == Unlocked(dev[d], forced)
           a == IF s.lock_ctr = 0 \/ forced THEN AppAt("rem", d) ELSE Idle
           v == IF s.lock_ctr = 0 THEN 0 ELSE proxy[c][d].valid
           q == WithProxy(proxy[c], d, s.lock_ctr, v)
<1>1. c \in alive /\ app[c].at = "idle"
  BY DEF Runs
<1>2. /\ Maps' /\ Rest' /\ Others(c) /\ OneDevice(d, s)
      /\ thread'[c] = thread[c] /\ app'[c] = a /\ proxy'[c] = q /\ alive' = alive
  BY UnlockEffect
<1>3. /\ ClientOK(thread[c], app[c], proxy[c], c, c \in alive)
      /\ thread[c] \in ThreadType /\ proxy[c] \in ProxyType
  BY ClientTypes
<1>4. DeviceOK(s)
  BY DeviceFits, UnlockedOnce
<1>5. q \in ProxyType
  <2>1. s.lock_ctr \in Nat /\ v \in Nat
    BY <1>3, <1>4 DEF ProxyType, DeviceOK, DeviceType
  <2> QED BY <1>3, <2>1, ProxyChange
<1>6. a \in AppType /\ a.at \in {"idle", "rem"}
  BY IdleType, AppAtType
<1> HIDE DEF a, q, s
<1>7. ClientOK(thread'[c], app'[c], proxy'[c], c, c \in alive')
  BY <1>1, <1>2, <1>3, <1>5, <1>6 DEF ClientOK
<1>8. \A e \in Devices : DeviceOK(dev'[e])
  BY <1>2, <1>4, DeviceFits DEF OneDevice
<1> QED BY <1>2, <1>7, <1>8, TypesStep

LEMMA NoProxiesType == NoProxies \in ProxyType
BY DEF NoProxies, ProxyType

LEMMA EndTypesStep ==
    ASSUME TypesInv, NEW c \in Clients, Exit(c) \/ Crash(c)
    PROVE  TypesInv'
<1>1. /\ ClientOK(thread[c], app[c], proxy[c], c, c \in alive)
      /\ thread[c] \in ThreadType /\ app[c] \in AppType
  BY ClientTypes
<1>2. CASE Exit(c)
  <2>1. /\ Maps' /\ Rest' /\ Others(c) /\ Runs(c) /\ alive' = alive \ {c}
        /\ thread'[c] = NoThread /\ app'[c] = app[c] /\ proxy'[c] = NoProxies
        /\ \A d \in Devices :
                 dev'[d] = IF thread[c].at = "wait" /\ d \in thread[c].devs
                           THEN Unlocked(dev[d], TRUE) ELSE dev[d]
    BY <1>2, ExitEffect
  <2>2. app[c].at = "idle"
    BY <2>1 DEF Runs
  <2>3. ClientOK(thread'[c], app'[c], proxy'[c], c, c \in alive')
    <3>1. ClientOK(NoThread, app[c], NoProxies, c, FALSE)
      BY <1>1, <2>2, NoThreadOK, NoProxiesType
    <3>2. (c \in alive') = FALSE
      BY <2>1
    <3> QED BY <2>1, <3>1, <3>2
  <2>4. \A d \in Devices : DeviceOK(dev[d]) /\ DeviceOK(Unlocked(dev[d], TRUE))
    BY DeviceFits, UnlockedOnce
  <2>5. \A d \in Devices : DeviceOK(dev'[d])
    BY <2>1, <2>4
  <2> QED BY <2>1, <2>3, <2>5, TypesStep
<1>3. CASE Crash(c)
  <2>1. /\ Maps' /\ Rest' /\ Others(c) /\ SameDevices /\ c \in alive /\ alive' = alive \ {c}
        /\ app'[c] = Idle /\ proxy'[c] = NoProxies
        /\ thread'[c] = (IF thread[c].at = "sent" THEN thread[c] ELSE NoThread)
    BY <1>3, CrashEffect
  <2>2. \A d \in Devices : DeviceOK(dev'[d])
    BY <2>1, DeviceFits DEF SameDevices
  <2>3. ClientOK(NoThread, Idle, NoProxies, c, FALSE)
    BY IdleType, NoThreadOK, NoProxiesType
  <2>4. ASSUME thread[c].at = "sent" PROVE ClientOK(thread[c], Idle, NoProxies, c, FALSE)
    BY <1>1, <2>4, IdleType, NoProxiesType DEF ClientOK
  <2>5. (c \in alive') = FALSE
    BY <2>1
  <2>6. ClientOK(thread'[c], app'[c], proxy'[c], c, c \in alive')
    BY <2>1, <2>3, <2>4, <2>5
  <2> QED BY <2>1, <2>2, <2>6, TypesStep
<1> QED BY <1>2, <1>3

LEMMA MovedTypesStep ==
    ASSUME TypesInv, NEW c \in Clients, NEW th, NEW a, Moved(c, th, a),
           ClientOK(th, a, proxy[c], c, c \in alive)
    PROVE  TypesInv'
<1>1. \A d \in Devices : DeviceOK(dev'[d])
  BY DeviceFits DEF Moved, SameDevices
<1>2. ClientOK(thread'[c], app'[c], proxy'[c], c, c \in alive')
  BY DEF Moved
<1> QED BY <1>1, <1>2, TypesStep DEF Moved

LEMMA AddDevTypesStep == ASSUME TypesInv, NEW c \in Clients, AddDev(c) PROVE TypesInv'
<1> DEFINE d == app[c].dev
           v == proxy[c][d].valid
           n == [thread[c] EXCEPT !.cmd = AddCmd(d, v)]
<1>1. /\ app[c].at = "add" /\ d \in Devices /\ v \in Validities[c] /\ c \in alive
      /\ \/ thread[c].at = "none" /\ Moved(c, NewThread(d, v), Idle)
         \/ thread[c].at # "none" /\ Moved(c, n, Waits)
  BY AddDevEffect
<1>2. /\ ClientOK(thread[c], app[c], proxy[c], c, c \in alive)
      /\ thread[c] \in ThreadType /\ proxy[c] \in ProxyType
  BY ClientTypes
<1> HIDE DEF d, v
<1>3. v \in Nat
  BY <1>1, ValidityType
<1>4. AddCmd(d, v) \in Command /\ AddCmd(d, v) # NoCmd /\ AddCmd(d, v).validity = v
      /\ Waits \in AppType /\ Waits.at = "wait"
  BY <1>1, <1>3, CmdType
<1>5. ASSUME thread[c].at # "none" PROVE ClientOK(n, Waits, proxy[c], c, c \in alive)
  <2>1. n \in ThreadType /\ Shaped(n, c) /\ n.cmd = AddCmd(d, v)
    BY <1>1, <1>2, <1>4, <1>5, CmdIs DEF ClientOK
  <2> HIDE DEF n
  <2> QED BY <1>1, <1>2, <1>4, <2>1 DEF ClientOK
<1>6. ClientOK(NewThread(d, v), Idle, proxy[c], c, c \in alive)
  BY <1>1, <1>2, NewThreadIs, IdleType DEF ClientOK
<1> HIDE DEF n
<1> QED BY <1>1, <1>5, <1>6, MovedTypesStep

LEMMA RemDevTypesStep == ASSUME TypesInv, NEW c \in Clients, RemDev(c) PROVE TypesInv'
<1> DEFINE d == app[c].dev
           n == [thread[c] EXCEPT !.cmd = RemCmd(d)]
<1>1. /\ app[c].at = "rem" /\ d \in Devices /\ c \in alive
      /\ \/ thread[c].at = "none" /\ Moved(c, NoThread, Idle)
         \/ thread[c].at # "none" /\ Moved(c, n, Waits)
  BY RemDevEffect
<1>2. /\ ClientOK(thread[c], app[c], proxy[c], c, c \in alive)
      /\ thread[c] \in ThreadType /\ proxy[c] \in ProxyType
  BY ClientTypes
<1> HIDE DEF d
<1>3. RemCmd(d) \in Command /\ RemCmd(d) # NoCmd /\ RemCmd(d).code = "rem"
      /\ Waits \in AppType /\ Waits.at = "wait"
  BY <1>1, CmdType
<1>4. ASSUME thread[c].at # "none" PROVE ClientOK(n, Waits, proxy[c], c, c \in alive)
  <2>1. n \in ThreadType /\ Shaped(n, c) /\ n.cmd = RemCmd(d)
    BY <1>1, <1>2, <1>3, <1>4, CmdIs DEF ClientOK
  <2> HIDE DEF n
  <2> QED BY <1>1, <1>2, <1>3, <2>1 DEF ClientOK
<1>5. ClientOK(NoThread, Idle, proxy[c], c, c \in alive)
  BY <1>1, <1>2, NoThreadOK, IdleType
<1> HIDE DEF n
<1> QED BY <1>1, <1>4, <1>5, MovedTypesStep

LEMMA ThreadTypesStep ==
    ASSUME TypesInv, NEW c \in Clients, ThreadStep(c) PROVE TypesInv'
<1>1. /\ ClientOK(thread[c], app[c], proxy[c], c, c \in alive)
      /\ thread[c] \in ThreadType /\ proxy[c] \in ProxyType /\ app[c] \in AppType
  BY ClientTypes
<1>2. Shaped(thread[c], c)
  BY <1>1 DEF ClientOK
<1>3. Shaped(Ended, c) /\ Ended \in ThreadType /\ Ended.cmd = NoCmd
  BY EndedType DEF Shaped
<1>4. ASSUME c \in alive, NEW a \in AppType, a.at # "wait",
             a.at = "add" => app[c] = a
      PROVE  ClientOK(Ended, a, proxy[c], c, c \in alive)
  BY <1>1, <1>3, <1>4 DEF ClientOK
<1>5. CASE ExecuteCmd(c)
  <2> DEFINE D == AfterCmd(thread[c])
  <2>1. /\ thread[c].at = "wait" /\ thread[c].cmd \in Command /\ c \in alive /\ app[c].at = "wait"
        /\ \/ D = {} /\ Moved(c, Ended, Idle)
           \/ /\ D # {}
              /\ \E val \in [Devices -> Nat] :
                           /\ \A d \in D : val[d] \in Validities[c]
                           /\ Moved(c, Refreshed(thread[c], D, val), Idle)
    BY <1>5, ExecuteCmdEffect
  <2>2. D \in SUBSET Devices
    BY <1>1, <2>1, CmdTypes DEF AfterCmd, ThreadType
  <2> HIDE DEF D
  <2>3. CASE D = {}
    BY <1>4, <2>1, <2>3, IdleType, MovedTypesStep
  <2>4. CASE D # {}
    <3>1. PICK val \in [Devices -> Nat] : /\ \A d \in D : val[d] \in Validities[c]
                                          /\ Moved(c, Refreshed(thread[c], D, val), Idle)
      BY <2>1, <2>4
    <3> DEFINE k == Refreshed(thread[c], D, val)
    <3>2. k \in ThreadType /\ Shaped(k, c) /\ k.cmd = NoCmd
      BY <1>1, <1>2, <2>1, <2>2, <2>4, <3>1, DevsAre
    <3> HIDE DEF k
    <3>3. ClientOK(k, Idle, proxy[c], c, c \in alive)
      BY <1>1, <2>1, <3>2, IdleType DEF ClientOK
    <3> QED BY <3>1, <3>3, MovedTypesStep DEF k
  <2> QED BY <2>3, <2>4
<1>6. CASE OneMoreLock(c)
  <2>1. thread[c].at = "wait" /\ c \in alive /\ Moved(c, Sent(thread[c]), app[c])
    BY <1>6, OneMoreLockEffect
  <2>2. /\ Sent(thread[c]) \in ThreadType /\ Shaped(Sent(thread[c]), c)
        /\ Sent(thread[c]).cmd = thread[c].cmd
    BY <1>1, <1>2, <2>1, SentIs
  <2>3. ClientOK(Sent(thread[c]), app[c], proxy[c], c, c \in alive)
    BY <1>1, <2>1, <2>2 DEF ClientOK
  <2> QED BY <2>1, <2>3, MovedTypesStep
<1>7. CASE ReLockDevices(c)
  <2> DEFINE th == thread[c]
             ok == {d \in th.args : CanRelock(dev[d], c)}
             n == Replied(th, th.args \ ok)
  <2>1. /\ th.at = "sent" /\ Maps' /\ Rest' /\ Others(c)
        /\ \A d \in Devices : dev'[d] = IF d \in ok THEN Relocked(dev[d]) ELSE dev[d]
        /\ thread'[c] = IF c \in alive THEN n ELSE NoThread
        /\ app'[c] = app[c] /\ proxy'[c] = proxy[c] /\ alive' = alive
    BY <1>7, ReLockEffect, Zenon
  <2>2. th.args \ ok \in SUBSET Devices
    BY <1>1 DEF ThreadType
  <2> HIDE DEF ok
  <2>3. n \in ThreadType /\ Shaped(n, c) /\ n.cmd = th.cmd /\ n.at = "reply"
    BY <1>1, <1>2, <2>1, <2>2, RepliedIs
  <2>4. \A d \in Devices : DeviceOK(dev[d]) /\ DeviceOK(Relocked(dev[d]))
    BY DeviceFits, RelockedSame
  <2>5. \A d \in Devices : DeviceOK(dev'[d])
    BY <2>1, <2>4
  <2> HIDE DEF n
  <2>6. ASSUME c \in alive PROVE ClientOK(n, app[c], proxy[c], c, c \in alive)
    BY <1>1, <2>3, <2>6 DEF ClientOK
  <2>7. ASSUME c \notin alive PROVE ClientOK(NoThread, app[c], proxy[c], c, c \in alive)
    BY <1>1, <2>7, NoThreadOK DEF ClientOK
  <2>8. ClientOK(thread'[c], app'[c], proxy'[c], c, c \in alive')
    BY <2>1, <2>6, <2>7
  <2> QED BY <2>1, <2>5, <2>8, TypesStep
<1>8. CASE RelockDone(c)
  <2> DEFINE th == thread[c]
             a == IF app[c].at = "wait" THEN Idle ELSE app[c]
  <2>1. /\ th.at = "reply" /\ c \in alive
        /\ \/ th.devs \ th.errors = {} /\ Moved(c, Ended, a)
           \/ th.devs \ th.errors # {} /\ Moved(c, Pruned(th), app[c])
    BY <1>8, RelockDoneEffect
  <2>2. a \in AppType /\ a.at # "wait" /\ (a.at = "add" => app[c] = a)
    BY <1>1, IdleType
  <2> HIDE DEF a
  <2>3. ClientOK(Ended, a, proxy[c], c, c \in alive)
    BY <1>4, <2>1, <2>2
  <2>4. ASSUME th.devs \ th.errors # {} PROVE ClientOK(Pruned(th), app[c], proxy[c], c, c \in alive)
    <3>1. Pruned(th) \in ThreadType /\ Shaped(Pruned(th), c) /\ Pruned(th).cmd = th.cmd
      BY <1>1, <1>2, <2>1, <2>4, PrunedIs
    <3> QED BY <1>1, <2>1, <3>1 DEF ClientOK
  <2> HIDE DEF th
  <2> QED BY <2>1, <2>3, <2>4, MovedTypesStep
<1> QED BY <1>5, <1>6, <1>7, <1>8 DEF ThreadStep

LEMMA SameTypesStep ==
    ASSUME TypesInv, Maps', Rest', \A c \in Clients : SameClient(c),
           \A d \in Devices : DeviceOK(dev'[d])
    PROVE  TypesInv'
<1>1. DevicesInv'
  BY DEF DevicesInv
<1>2. ASSUME NEW b \in Clients PROVE ClientOK(thread'[b], app'[b], proxy'[b], b, b \in alive')
  <2>1. ClientOK(thread[b], app[b], proxy[b], b, b \in alive)
    BY ClientTypes
  <2>2. (b \in alive') = (b \in alive)
    BY DEF SameClient
  <2> QED BY <2>1, <2>2 DEF SameClient
<1>3. ClientsInv'
  BY <1>2 DEF ClientsInv
<1> QED BY <1>1, <1>3, TypesJoined, PTL

LEMMA PassedIs ==
    ASSUME NEW c \in Clients, NEW th \in ThreadType, NEW n, Shaped(th, c), Passed(th, n),
           th.at = "wait" => th.timer # 0
    PROVE  /\ n \in ThreadType /\ Shaped(n, c) /\ n.at = th.at /\ n.devs = th.devs
           /\ n.cmd = th.cmd /\ n.period = th.period /\ n.errors = th.errors
           /\ th.at = "wait" => n.timer = th.timer - 1
           /\ th.at = "sent" => n.lag = th.lag + 1 /\ n.timer = th.timer
           /\ th.at \notin {"wait", "sent"} => n = th
<1>1. th.timer \in Nat /\ th.lag \in Nat /\ th.lag + 1 \in Nat
  BY DEF ThreadType
<1>2. CASE th.at = "wait"
  <2>1. n = [th EXCEPT !.timer = th.timer - 1] /\ th.timer - 1 \in Nat
    BY <1>1, <1>2 DEF Passed
  <2> DEFINE k == th.timer - 1
  <2> HIDE DEF k
  <2>2. n = [th EXCEPT !.timer = k] /\ k \in Nat
    BY <2>1 DEF k
  <2>3. /\ n \in ThreadType /\ n.at = th.at /\ n.devs = th.devs /\ n.cmd = th.cmd
        /\ n.period = th.period /\ n.errors = th.errors /\ n.timer = k /\ n.args = th.args
        /\ n.known = th.known /\ n.suicide = th.suicide /\ n.validity = th.validity
    BY <2>2 DEF ThreadType
  <2>4. Shaped(n, c)
    BY <2>3 DEF Shaped
  <2> QED BY <1>2, <2>3, <2>4 DEF k
<1>3. CASE th.at = "sent"
  <2>1. n = [th EXCEPT !.lag = th.lag + 1]
    BY <1>1, <1>3 DEF Passed
  <2> DEFINE k == th.lag + 1
  <2> HIDE DEF k
  <2>2. n = [th EXCEPT !.lag = k] /\ k \in Nat
    BY <1>1, <2>1 DEF k
  <2>3. /\ n \in ThreadType /\ n.at = th.at /\ n.devs = th.devs /\ n.cmd = th.cmd
        /\ n.period = th.period /\ n.errors = th.errors /\ n.lag = k /\ n.args = th.args
        /\ n.known = th.known /\ n.suicide = th.suicide /\ n.validity = th.validity
        /\ n.timer = th.timer
    BY <2>2 DEF ThreadType
  <2>4. Shaped(n, c)
    BY <2>3 DEF Shaped
  <2> QED BY <1>3, <2>3, <2>4 DEF k
<1>4. CASE th.at \notin {"wait", "sent"}
  BY <1>4 DEF Passed
<1> QED BY <1>2, <1>3, <1>4

LEMMA TickTypesStep == ASSUME TypesInv, Tick PROVE TypesInv'
<1>1. /\ Maps' /\ Rest' /\ alive' = alive
      /\ \A d \in Devices : dev'[d] = Later(dev[d])
      /\ \A c \in Clients : /\ ~ Urgent(c) /\ app'[c] = app[c] /\ proxy'[c] = proxy[c]
                            /\ Passed(thread[c], thread'[c])
  BY TickEffect
<1>2. half \in {0, 1}
  BY TypesParts DEF Rest
<1>3. \A d \in Devices : DeviceOK(Later(dev[d]))
  BY <1>2, DeviceFits, LaterSame
<1>4. DevicesInv'
  BY <1>1, <1>3 DEF DevicesInv
<1>5. ASSUME NEW b \in Clients PROVE ClientOK(thread'[b], app'[b], proxy'[b], b, b \in alive')
  <2>1. /\ ClientOK(thread[b], app[b], proxy[b], b, b \in alive)
        /\ thread[b] \in ThreadType
    BY ClientTypes
  <2>2. Shaped(thread[b], b)
    BY <2>1 DEF ClientOK
  <2>3. thread[b].at = "wait" => thread[b].timer # 0
    BY <1>1 DEF Urgent
  <2>4. /\ thread'[b] \in ThreadType /\ Shaped(thread'[b], b)
        /\ thread'[b].at = thread[b].at /\ thread'[b].cmd = thread[b].cmd
    BY <1>1, <2>1, <2>2, <2>3, PassedIs
  <2> QED BY <1>1, <2>1, <2>4 DEF ClientOK
<1>6. ClientsInv'
  BY <1>5 DEF ClientsInv
<1> QED BY <1>1, <1>4, <1>6, TypesJoined, PTL

LEMMA ServerTypesStep ==
    ASSUME TypesInv, RestartServer \/ Asked PROVE TypesInv'
<1>1. CASE RestartServer
  <2>1. \A d \in Devices : DeviceOK(dev'[d])
    BY <1>1, RestartServerEffect, NewDeviceFree DEF Free
  <2> QED BY <1>1, <2>1, RestartServerEffect, SameTypesStep
<1>2. CASE Asked
  <2>1. \A d \in Devices : DeviceOK(dev'[d])
    BY <1>2 DEF Asked, Gentle
  <2> QED BY <1>2, <2>1, SameTypesStep DEF Asked
<1> QED BY <1>1, <1>2

(* The steps of the specification, with the devices in their range. *)
LEMMA NextSteps ==
    ASSUME TypesInv, Next
    PROVE  \/ \E c \in Clients, d \in Devices :
                 \/ \E v \in Validities[c] : Lock(c, d, v)
                 \/ \E forced \in BOOLEAN : Unlock(c, d, forced)
                 \/ DestroyProxy(c, d)
           \/ \E c \in Clients :
                 AddDev(c) \/ RemDev(c) \/ Exit(c) \/ Crash(c) \/ ThreadStep(c)
           \/ Asked \/ RestartServer \/ Tick
<1>1. scenario \in Scenario
  BY LockAssumption DEF TypesInv, TypeOK
<1>2. \A c \in Clients : scenario.uses[c] \subseteq Devices
  BY <1>1 DEF Scenario
<1>3. ASSUME NEW c \in Clients, ClientStep(c)
      PROVE  \/ \E d \in Devices :
                  \/ \E v \in Validities[c] : Lock(c, d, v)
                  \/ \E forced \in BOOLEAN : Unlock(c, d, forced)
                  \/ DestroyProxy(c, d)
             \/ Asked \/ AddDev(c) \/ RemDev(c) \/ Exit(c) \/ Crash(c)
  <2>1. CASE AddDev(c) \/ RemDev(c) \/ Exit(c) \/ Crash(c)
    BY <2>1
  <2>2. ASSUME NEW d \in scenario.uses[c],
               \/ \E v \in Validities[c] : Lock(c, d, v)
               \/ \E forced \in BOOLEAN : Unlock(c, d, forced)
               \/ DestroyProxy(c, d) \/ CheckLock(c, d) \/ Restart(c, d)
        PROVE  \/ Asked
               \/ \E e \in Devices :
                  \/ \E v \in Validities[c] : Lock(c, e, v)
                  \/ \E forced \in BOOLEAN : Unlock(c, e, forced)
                  \/ DestroyProxy(c, e)
    <3>1. d \in Devices
      BY <1>2
    <3>2. CheckLock(c, d) \/ Restart(c, d) => Asked
      BY <3>1, RequestsEffect
    <3> QED BY <2>2, <3>1, <3>2
  <2> QED BY <1>3, <2>1, <2>2, Zenon DEF ClientStep
<1>4. ASSUME NEW d \in Devices, LockStatus(d) PROVE Asked
  BY <1>4, RequestsEffect
<1> QED BY <1>3, <1>4, Zenon DEF Next

LEMMA TypesNext == TypesInv /\ [Next]_vars => TypesInv'
<1> SUFFICES ASSUME TypesInv, [Next]_vars PROVE TypesInv'
  OBVIOUS
<1>1. CASE UNCHANGED vars
  BY <1>1 DEF vars, TypesInv, TypeOK, DevicesInv, ClientsInv
<1>2. CASE Next
  <2>1. ASSUME NEW c \in Clients, NEW d \in Devices, NEW v \in Validities[c], Lock(c, d, v)
        PROVE  TypesInv'
    BY <2>1, LockTypesStep
  <2>2. ASSUME NEW c \in Clients, NEW d \in Devices, NEW forced \in BOOLEAN,
               Unlock(c, d, forced)
        PROVE  TypesInv'
    BY <2>2, UnlockTypesStep DEF Unlock
  <2>3. ASSUME NEW c \in Clients, NEW d \in Devices, DestroyProxy(c, d)
        PROVE  TypesInv'
    BY <2>3, UnlockTypesStep DEF DestroyProxy
  <2>4. ASSUME NEW c \in Clients,
               AddDev(c) \/ RemDev(c) \/ Exit(c) \/ Crash(c) \/ ThreadStep(c)
        PROVE  TypesInv'
    BY <2>4, AddDevTypesStep, RemDevTypesStep, EndTypesStep, ThreadTypesStep
  <2> QED BY <1>2, <2>1, <2>2, <2>3, <2>4, NextSteps, ServerTypesStep, TickTypesStep
<1> QED BY <1>1, <1>2

LEMMA TypesInit == Init => TypesInv
<1> SUFFICES ASSUME Init PROVE TypesInv
  OBVIOUS
<1>1. Maps /\ Rest
  BY DEF Init, Maps, Rest
<1>2. DevicesInv
  BY NewDeviceFree DEF Init, DevicesInv, Free
<1>3. \A c \in Clients : ClientOK(NoThread, Idle, NoProxies, c, TRUE)
  BY NoThreadOK, IdleType, NoProxiesType
<1>4. ClientsInv
  <2>1. \A c \in Clients : /\ thread[c] = NoThread /\ app[c] = Idle /\ proxy[c] = NoProxies
                           /\ (c \in alive) = TRUE
    BY DEF Init
  <2> QED BY <1>3, <2>1 DEF ClientsInv
<1> QED BY <1>1, <1>2, <1>4, TypesJoined

(* Every record of the lock of a device, of the proxies, of the LockThread *)
(* and of its command buffer has its type; in particular a timer never     *)
(* passes 0 and a period is computed only of a thread that has devices.    *)
THEOREM LockTypes == Spec => []TypeOK
<1>1. Spec => []TypesInv
  BY TypesInit, TypesNext, PTL DEF Spec
<1>2. TypesInv => TypeOK
  BY DEF TypesInv
<1> QED BY <1>1, <1>2, PTL

-----------------------------------------------------------------------------
(* The leases of a client that was not robbed. *)

LEMMA OwnPrimed ==
    ASSUME NEW c \in Clients, Paced(thread'[c]),
           \A d \in Devices :
              /\ proxy'[c][d].ctr = owed'[c][d]
              /\ Kept(dev'[d], thread'[c], app'[c], owed'[c][d], c, d, half')
    PROVE  Own(c)'
BY DEF Own

LEMMA OwnFacts ==
    ASSUME NEW c \in Clients, Own(c), NEW d \in Devices
    PROVE  /\ Paced(thread[c]) /\ proxy[c][d].ctr = owed[c][d]
           /\ Kept(dev[d], thread[c], app[c], owed[c][d], c, d, half)
BY DEF Own

LEMMA DeviceTypes ==
    ASSUME NEW r, DeviceOK(r)
    PROVE  /\ r.since \in Nat /\ r.lock_validity \in Nat /\ r.lock_ctr \in Nat
           /\ r.device_locked \in BOOLEAN
BY DEF DeviceOK, DeviceType

LEMMA ThreadTypes ==
    ASSUME NEW th \in ThreadType
    PROVE  /\ th.at \in {"none", "wait", "sent", "reply"} /\ th.devs \in SUBSET Devices
           /\ th.timer \in Nat /\ th.period \in Nat /\ th.lag \in Nat
           /\ th.errors \in SUBSET Devices /\ th.cmd \in Command \cup {NoCmd}
BY DEF ThreadType

(* A lease in time is valid. *)
LEMMA Holding ==
    ASSUME TypesInv, NEW c \in Clients, Own(c), NEW d \in Devices, owed[c][d] > 0
    PROVE  Holds(dev[d], c) /\ LockedBy(dev[d], c)
<1> DEFINE r == dev[d]
           th == thread[c]
<1>1. /\ r.since \in Nat /\ r.lock_validity \in Nat
      /\ th.at \in {"none", "wait", "sent", "reply"} /\ th.timer \in Nat /\ th.lag \in Nat
  BY DeviceFits, DeviceTypes, ClientTypes, ThreadTypes
<1>2. half \in {0, 1} /\ (th.at = "none" => th.devs = {})
  BY TypesParts, ClientTypes DEF Rest, ClientOK, Shaped
<1>3. Paced(th) /\ LockedBy(r, c) /\ InTime(r, th, d, half)
  BY OwnFacts DEF Kept
<1> HIDE DEF r, th
<1>4. r.since <= r.lock_validity
  BY <1>1, <1>2, <1>3 DEF InTime, Paced
<1> QED BY <1>3, <1>4 DEF Holds, ValidLock, LockedBy, r

(* A step of somebody else leaves the leases of b alone. *)
LEMMA Undisturbed ==
    ASSUME NEW b \in Clients, Own(b), TypesInv, SameClient(b), half' = half,
           \A d \in Devices :
              /\ owed'[b][d] = owed[b][d]
              /\ owed[b][d] > 0 => dev'[d] = dev[d]
              /\ LockedBy(dev'[d], b) => LockedBy(dev[d], b)
    PROVE  Own(b)'
<1>1. Paced(thread'[b])
  BY DEF Own, SameClient
<1>2. ASSUME NEW d \in Devices
      PROVE  /\ proxy'[b][d].ctr = owed'[b][d]
             /\ Kept(dev'[d], thread'[b], app'[b], owed'[b][d], b, d, half')
  <2>1. /\ proxy[b][d].ctr = owed[b][d] /\ owed[b][d] \in Nat
        /\ Kept(dev[d], thread[b], app[b], owed[b][d], b, d, half)
    BY OwnFacts, ClientTypes
  <2>2. Kept(dev'[d], thread[b], app[b], owed[b][d], b, d, half)
    <3>1. CASE owed[b][d] > 0
      BY <2>1, <3>1
    <3>2. CASE owed[b][d] = 0
      BY <2>1, <3>2 DEF Kept
    <3> QED BY <2>1, <3>1, <3>2
  <2> QED BY <2>1, <2>2 DEF SameClient
<1> QED BY <1>1, <1>2, OwnPrimed

LEMMA NotRobbedBefore ==
    ASSUME NEW b, robbed \subseteq robbed', ~ Robbed(b)' PROVE ~ Robbed(b)
BY DEF Robbed

(* Somebody is robbed: a client that is not keeps its locks.               *)
LEMMA NotRobbed ==
    ASSUME TypesInv, NEW by \in Clients \cup {Server}, Robs(by), NEW b \in Clients \ {by},
           Own(b), ~ Robbed(b)', SameClient(b), half' = half,
           \A d \in Devices :
              /\ Holds(dev[d], b) /\ Holds(dev'[d], b) => dev'[d] = dev[d]
              /\ LockedBy(dev'[d], b) => LockedBy(dev[d], b)
    PROVE  Own(b)'
<1>1. ASSUME NEW d \in Devices
      PROVE  /\ owed'[b][d] = owed[b][d]
             /\ owed[b][d] > 0 => dev'[d] = dev[d]
             /\ LockedBy(dev'[d], b) => LockedBy(dev[d], b)
  <2>1. owed[b][d] \in Nat
    BY ClientTypes
  <2>2. /\ owed[b][d] > 0 /\ Holds(dev[d], b) /\ ~ Holds(dev'[d], b) => <<b, by>> \in robbed'
        /\ owed'[b][d] = IF Holds(dev'[d], b) THEN owed[b][d] ELSE 0
    BY DEF Robs
  <2>3. <<b, by>> \notin robbed'
    BY DEF Robbed
  <2>4. owed[b][d] > 0 => Holds(dev[d], b)
    BY Holding
  <2> QED BY <2>1, <2>2, <2>3, <2>4
<1> QED BY <1>1, Undisturbed

(* The types of what Own is about. *)
LEMMA KeptTypes ==
    ASSUME TypesInv, NEW c \in Clients
    PROVE  /\ half \in {0, 1} /\ thread[c] \in ThreadType /\ app[c] \in AppType
           /\ Shaped(thread[c], c)
           /\ c \in alive => (thread[c].cmd # NoCmd <=> app[c].at = "wait")
           /\ \A d \in Devices : DeviceOK(dev[d]) /\ owed[c][d] \in Nat
BY TypesParts, ClientTypes, DeviceFits DEF Rest, ClientOK

LEMMA OwnGentle ==
    ASSUME TypesInv, OwnInv, Asked PROVE OwnInv'
<1> SUFFICES ASSUME NEW b \in alive', ~ Robbed(b)' PROVE Own(b)'
  BY DEF OwnInv
<1>1. b \in Clients /\ b \in alive /\ robbed' = robbed /\ half' = half /\ SameClient(b)
  BY TypesParts DEF Asked, Rest
<1>2. Own(b)
  BY <1>1, NotRobbedBefore DEF OwnInv
<1>3. ASSUME NEW d \in Devices
      PROVE  /\ owed'[b][d] = owed[b][d]
             /\ owed[b][d] > 0 => dev'[d] = dev[d]
             /\ LockedBy(dev'[d], b) => LockedBy(dev[d], b)
  <2>1. Gentle(dev[d], dev'[d]) /\ owed' = owed
    BY DEF Asked
  <2>2. owed[b][d] > 0 => Holds(dev[d], b)
    BY <1>1, <1>2, Holding
  <2> QED BY <1>1, <2>1, <2>2 DEF Gentle
<1> QED BY <1>1, <1>2, <1>3, Undisturbed

LEMMA OwnRestartServer ==
    ASSUME TypesInv, OwnInv, RestartServer PROVE OwnInv'
<1> SUFFICES ASSUME NEW b \in alive', ~ Robbed(b)' PROVE Own(b)'
  BY DEF OwnInv
<1>1. /\ SameClient(b) /\ Robs(Server) /\ \A d \in Devices : dev'[d] = NewDevice
      /\ b \in alive /\ b \in Clients \ {Server} /\ half' = half
  BY RestartServerEffect, TypesParts, LockAssumption DEF Rest
<1>2. Own(b)
  BY <1>1, NotRobbedBefore DEF OwnInv, Robs
<1>3. ~ NewDevice.device_locked
  BY NewDeviceFree DEF Free
<1> QED BY <1>1, <1>2, <1>3, NotRobbed DEF Holds, LockedBy

(* Time passes: the lease of a device that the thread knows of ages by no  *)
(* more than the timer runs down; any other makes its client urgent.       *)
LEMMA OwnTick ==
    ASSUME TypesInv, OwnInv, Tick PROVE OwnInv'
<1> SUFFICES ASSUME NEW b \in alive', ~ Robbed(b)' PROVE Own(b)'
  BY DEF OwnInv
<1>1. /\ half' = 1 - half /\ alive' = alive /\ owed' = owed /\ robbed' = robbed
      /\ \A d \in Devices : dev'[d] = Later(dev[d])
  BY TickEffect
<1>2. b \in Clients /\ b \in alive
  BY <1>1, TypesParts DEF Rest
<1>3. Own(b)
  BY <1>1, <1>2, NotRobbedBefore DEF OwnInv
<1>4. ~ Urgent(b) /\ app'[b] = app[b] /\ proxy'[b] = proxy[b] /\ Passed(thread[b], thread'[b])
  BY <1>2, TickEffect
<1> DEFINE th == thread[b]
           n == thread'[b]
           a == app[b]
<1>5. /\ half \in {0, 1} /\ th \in ThreadType /\ a \in AppType /\ Shaped(th, b)
      /\ \A d \in Devices : DeviceOK(dev[d]) /\ owed[b][d] \in Nat
  BY <1>2, KeptTypes
<1>6. /\ th.at # "reply" /\ th.cmd = NoCmd /\ (th.at = "wait" => th.timer # 0)
      /\ (th.at = "sent" => th.lag # 1) /\ a.at \notin {"add", "rem"}
  BY <1>4 DEF Urgent
<1>7. /\ th.at \in {"none", "wait", "sent", "reply"} /\ th.timer \in Nat /\ th.lag \in Nat
      /\ th.period \in Nat /\ (th.at = "none" => th.devs = {})
  BY <1>5, ThreadTypes DEF Shaped
<1>8. /\ n.at = th.at /\ n.devs = th.devs /\ n.cmd = th.cmd
      /\ n.period = th.period /\ n.errors = th.errors
      /\ th.at = "wait" => n.timer = th.timer - 1
      /\ th.at = "sent" => n.lag = th.lag + 1 /\ n.timer = th.timer
      /\ th.at \notin {"wait", "sent"} => n = th
  BY <1>2, <1>4, <1>5, <1>6, PassedIs
<1>9. Paced(th)
  BY <1>2, <1>3 DEF Own
<1>10. Paced(n)
  <2> HIDE DEF th, n
  <2> QED BY <1>6, <1>7, <1>8, <1>9 DEF Paced
<1>11. ASSUME NEW d \in Devices
       PROVE  proxy'[b][d].ctr = owed'[b][d]
              /\ Kept(dev'[d], n, app'[b], owed'[b][d], b, d, half')
  <2> DEFINE r == dev[d]
             s == Later(dev[d])
             m == owed[b][d]
  <2>1. proxy[b][d].ctr = m /\ Kept(r, th, a, m, b, d, half)
    BY <1>2, <1>3, OwnFacts
  <2>2. /\ DeviceOK(s) /\ s.device_locked = r.device_locked /\ s.locker_client = r.locker_client
        /\ s.lock_validity = r.lock_validity /\ s.lock_ctr = r.lock_ctr
        /\ 2 * s.since + (1 - half) <= 2 * r.since + half + 1
    BY <1>5, LaterSame
  <2>3. r.since \in Nat /\ r.lock_validity \in Nat /\ s.since \in Nat /\ m \in Nat
    BY <1>5, <2>2, DeviceTypes
  <2> HIDE DEF r, s, m, th, n, a
  <2>4. ~ Announced(th, a, d) /\ ~ Leaving(th, a, d) /\ ~ Announced(n, a, d) /\ ~ Leaving(n, a, d)
    BY <1>6, <1>8 DEF Announced, Leaving
  <2>5. m > 0 => InTime(s, n, d, 1 - half)
    <3> SUFFICES ASSUME m > 0 PROVE InTime(s, n, d, 1 - half)
      OBVIOUS
    <3>1. InTime(r, th, d, half) /\ d \in th.devs
      BY <2>1, <2>4 DEF Kept
    <3>2. CASE th.at = "wait"
      BY <1>5, <1>6, <1>7, <1>8, <2>2, <2>3, <3>1, <3>2 DEF InTime
    <3>3. CASE th.at = "sent"
      BY <1>5, <1>6, <1>7, <1>8, <2>2, <2>3, <3>1, <3>3 DEF InTime
    <3> QED BY <1>6, <1>7, <3>1, <3>2, <3>3
  <2>6. Kept(s, n, a, m, b, d, 1 - half)
    BY <1>6, <1>8, <2>1, <2>2, <2>4, <2>5 DEF Kept, LockedBy
  <2> QED BY <1>1, <1>4, <2>1, <2>6 DEF s, m, a
<1> HIDE DEF th, n, a
<1> QED BY <1>2, <1>10, <1>11, OwnPrimed DEF n

(* A step that changes only the client c, or its thread, costs the others  *)
(* nothing; Own(c) is what is left to show.                                *)
LEMMA OwnMoved ==
    ASSUME TypesInv, OwnInv, NEW c \in Clients, NEW th, NEW a, Moved(c, th, a), c \in alive,
           Own(c) => /\ Paced(th)
                     /\ \A d \in Devices : Kept(dev[d], th, a, owed[c][d], c, d, half)
    PROVE  OwnInv'
<1> SUFFICES ASSUME NEW b \in alive', ~ Robbed(b)' PROVE Own(b)'
  BY DEF OwnInv
<1>1. b \in Clients /\ b \in alive
  BY TypesParts DEF Rest, Moved
<1>2. Own(b)
  BY <1>1, NotRobbedBefore DEF OwnInv, Moved
<1>3. CASE b = c
  <2>1. Paced(thread'[c])
    BY <1>2, <1>3 DEF Moved
  <2>2. ASSUME NEW d \in Devices
        PROVE  /\ proxy'[c][d].ctr = owed'[c][d]
               /\ Kept(dev'[d], thread'[c], app'[c], owed'[c][d], c, d, half')
    <3>1. proxy[c][d].ctr = owed[c][d] /\ Kept(dev[d], th, a, owed[c][d], c, d, half)
      BY <1>2, <1>3, OwnFacts
    <3> QED BY <3>1 DEF Moved, SameDevices
  <2> QED BY <1>3, <2>1, <2>2, OwnPrimed
<1>4. CASE b # c
  <2>1. SameClient(b) /\ half' = half
    BY <1>1, <1>4 DEF Moved, Others
  <2>2. \A d \in Devices :
              /\ owed'[b][d] = owed[b][d]
              /\ owed[b][d] > 0 => dev'[d] = dev[d]
              /\ LockedBy(dev'[d], b) => LockedBy(dev[d], b)
    BY DEF Moved, SameDevices
  <2> QED BY <1>1, <1>2, <2>1, <2>2, Undisturbed
<1> QED BY <1>3, <1>4

(* With one validity, the period of the thread is that of every lease. *)
LEMMA OnePeriod ==
    ASSUME SameValidity, NEW c \in Clients, NEW th \in ThreadType, Shaped(th, c),
           th.at # "none", NEW v \in Validities[c]
    PROVE  th.period = 2 * v - 1
<1>1. PICK w \in Validities[c] : th.period = 2 * w - 1
  BY DEF Shaped
<1>2. w = v
  BY DEF SameValidity
<1> QED BY <1>1, <1>2

LEMMA LeaseValidity ==
    ASSUME NEW r, DeviceOK(r), NEW c \in Clients, LockedBy(r, c)
    PROVE  r.lock_validity \in Validities[c] /\ r.lock_validity \in Nat
BY DEF DeviceOK, DeviceType, LockedBy

LEMMA OwnAddDev ==
    ASSUME SameValidity, TypesInv, OwnInv, NEW c \in Clients, AddDev(c) PROVE OwnInv'
<1> DEFINE d == app[c].dev
           v == proxy[c][d].valid
           th == thread[c]
           a == app[c]
<1>1. /\ a.at = "add" /\ d \in Devices /\ v \in Validities[c] /\ c \in alive
      /\ \/ th.at = "none" /\ Moved(c, NewThread(d, v), Idle)
         \/ th.at # "none" /\ Moved(c, [th EXCEPT !.cmd = AddCmd(d, v)], Waits)
  BY AddDevEffect
<1>2. /\ half \in {0, 1} /\ th \in ThreadType /\ a \in AppType /\ Shaped(th, c)
      /\ th.cmd = NoCmd
      /\ \A e \in Devices : DeviceOK(dev[e]) /\ owed[c][e] \in Nat
  BY <1>1, KeptTypes
<1>3. v \in Nat /\ v >= 2
  BY <1>1, ValidityType
<1>4. a.dev = d
  OBVIOUS
<1>5. CASE th.at = "none"
  <2> DEFINE n == NewThread(d, v)
  <2>1. /\ n \in ThreadType /\ Shaped(n, c) /\ n.at = "wait" /\ n.devs = {d}
        /\ n.period = 2 * v - 1 /\ n.timer = 2 * v - 1 /\ n.cmd = NoCmd
    BY <1>1, NewThreadIs
  <2>2. Moved(c, n, Idle)
    BY <1>1, <1>5
  <2> HIDE DEF n, d, v
  <2>3. ASSUME Own(c), NEW e \in Devices PROVE Kept(dev[e], n, Idle, owed[c][e], c, e, half)
    <3> DEFINE r == dev[e]
               m == owed[c][e]
    <3>1. Kept(r, th, a, m, c, e, half) /\ m \in Nat /\ DeviceOK(r)
      BY <1>2, <2>3, OwnFacts
    <3> HIDE DEF r, m, th, a
    <3>2. th.devs = {}
      BY <1>2, <1>5 DEF Shaped
    <3>3. ~ Announced(n, Idle, e) /\ ~ Leaving(n, Idle, e)
      BY <2>1, IdleType DEF Announced, Leaving
    <3>4. (Announced(th, a, e) <=> e = d) /\ ~ Leaving(th, a, e)
      BY <1>1, <1>2, <1>4 DEF Announced, Leaving
    <3>5. (m > 0 => e = d /\ r.since = 0 /\ LockedBy(r, c) /\ r.lock_ctr = m) /\ (e = d => m > 0)
      BY <3>1, <3>2, <3>4 DEF Kept, InTime
    <3>6. m > 0 => InTime(r, n, e, half)
      <4> SUFFICES ASSUME m > 0 PROVE InTime(r, n, e, half)
        OBVIOUS
      <4>1. r.lock_validity \in Validities[c]
        BY <3>1, <3>5, LeaseValidity
      <4>2. r.lock_validity = v /\ r.since = 0
        BY <1>1, <3>5, <4>1 DEF SameValidity
      <4> QED BY <1>2, <1>3, <2>1, <3>5, <4>2 DEF InTime
    <3>7. Kept(r, n, Idle, m, c, e, half)
      BY <2>1, <3>1, <3>3, <3>5, <3>6 DEF Kept
    <3> QED BY <3>7 DEF r, m
  <2>4. Paced(n)
    BY <1>3, <2>1 DEF Paced
  <2> QED BY <1>1, <2>2, <2>3, <2>4, OwnMoved
<1>6. CASE th.at # "none"
  <2> DEFINE cmd == AddCmd(d, v)
             n == [th EXCEPT !.cmd = cmd]
  <2>1. /\ cmd \in Command /\ cmd # NoCmd /\ cmd.code = "add" /\ cmd.dev = d /\ cmd.validity = v
        /\ Waits.at = "wait"
    BY <1>1, <1>3, CmdType
  <2>2. Moved(c, n, Waits)
    BY <1>1, <1>6
  <2> HIDE DEF cmd
  <2>3. /\ n.cmd = cmd /\ n.at = th.at /\ n.devs = th.devs /\ n.timer = th.timer
        /\ n.lag = th.lag /\ n.period = th.period /\ n.errors = th.errors
    BY <1>1, <1>2, <1>6, <2>1, CmdIs
  <2> HIDE DEF n, d, v
  <2>4. ASSUME Own(c), NEW e \in Devices PROVE Kept(dev[e], n, Waits, owed[c][e], c, e, half)
    <3> DEFINE r == dev[e]
               m == owed[c][e]
    <3>1. Kept(r, th, a, m, c, e, half)
      BY <2>4, OwnFacts
    <3> HIDE DEF r, m, th, a
    <3>2. (Announced(n, Waits, e) <=> Announced(th, a, e)) /\ ~ Leaving(n, Waits, e)
          /\ ~ Leaving(th, a, e)
      BY <1>1, <1>2, <1>4, <2>1, <2>3 DEF Announced, Leaving
    <3>3. InTime(r, th, e, half) => InTime(r, n, e, half)
      BY <2>3 DEF InTime
    <3>4. Kept(r, n, Waits, m, c, e, half)
      BY <2>3, <3>1, <3>2, <3>3 DEF Kept
    <3> QED BY <3>4 DEF r, m
  <2>5. Own(c) => Paced(n)
    BY <2>3 DEF Own, Paced, th
  <2> QED BY <1>1, <2>2, <2>4, <2>5, OwnMoved
<1> QED BY <1>5, <1>6

LEMMA OwnRemDev ==
    ASSUME TypesInv, OwnInv, NEW c \in Clients, RemDev(c) PROVE OwnInv'
<1> DEFINE d == app[c].dev
           th == thread[c]
           a == app[c]
<1>1. /\ a.at = "rem" /\ d \in Devices /\ c \in alive
      /\ \/ th.at = "none" /\ Moved(c, NoThread, Idle)
         \/ th.at # "none" /\ Moved(c, [th EXCEPT !.cmd = RemCmd(d)], Waits)
  BY RemDevEffect
<1>2. /\ half \in {0, 1} /\ th \in ThreadType /\ a \in AppType /\ Shaped(th, c)
      /\ th.cmd = NoCmd
      /\ \A e \in Devices : DeviceOK(dev[e]) /\ owed[c][e] \in Nat
  BY <1>1, KeptTypes
<1>3. a.dev = d
  OBVIOUS
<1>4. CASE th.at = "none"
  <2> DEFINE n == NoThread
  <2>1. n.at = "none" /\ n.devs = {} /\ n.cmd = NoCmd /\ n.timer = 0 /\ n.period = 0
    BY DEF NoThread
  <2>2. Moved(c, n, Idle)
    BY <1>1, <1>4
  <2> HIDE DEF n, d
  <2>3. ASSUME Own(c), NEW e \in Devices PROVE Kept(dev[e], n, Idle, owed[c][e], c, e, half)
    <3> DEFINE r == dev[e]
               m == owed[c][e]
    <3>1. Kept(r, th, a, m, c, e, half) /\ m \in Nat
      BY <1>2, <2>3, OwnFacts
    <3> HIDE DEF r, m, th, a
    <3>2. th.devs = {} /\ ~ Announced(th, a, e)
      BY <1>1, <1>2, <1>4 DEF Shaped, Announced
    <3>3. ~ Announced(n, Idle, e) /\ ~ Leaving(n, Idle, e)
      BY <2>1, IdleType DEF Announced, Leaving
    <3>4. Kept(r, n, Idle, m, c, e, half)
      BY <2>1, <3>1, <3>2, <3>3 DEF Kept
    <3> QED BY <3>4 DEF r, m
  <2>4. Paced(n)
    BY <2>1 DEF Paced
  <2> QED BY <1>1, <2>2, <2>3, <2>4, OwnMoved
<1>5. CASE th.at # "none"
  <2> DEFINE cmd == RemCmd(d)
             n == [th EXCEPT !.cmd = cmd]
  <2>1. cmd \in Command /\ cmd # NoCmd /\ cmd.code = "rem" /\ cmd.dev = d /\ Waits.at = "wait"
    BY <1>1, CmdType
  <2>2. Moved(c, n, Waits)
    BY <1>1, <1>5
  <2> HIDE DEF cmd
  <2>3. /\ n.cmd = cmd /\ n.at = th.at /\ n.devs = th.devs /\ n.timer = th.timer
        /\ n.lag = th.lag /\ n.period = th.period /\ n.errors = th.errors
    BY <1>1, <1>2, <1>5, <2>1, CmdIs
  <2> HIDE DEF n, d
  <2>4. ASSUME Own(c), NEW e \in Devices PROVE Kept(dev[e], n, Waits, owed[c][e], c, e, half)
    <3> DEFINE r == dev[e]
               m == owed[c][e]
    <3>1. Kept(r, th, a, m, c, e, half)
      BY <2>4, OwnFacts
    <3> HIDE DEF r, m, th, a
    <3>2. (Leaving(n, Waits, e) <=> Leaving(th, a, e)) /\ ~ Announced(n, Waits, e)
          /\ ~ Announced(th, a, e)
      BY <1>1, <1>2, <1>3, <2>1, <2>3 DEF Announced, Leaving
    <3>3. InTime(r, th, e, half) => InTime(r, n, e, half)
      BY <2>3 DEF InTime
    <3>4. Kept(r, n, Waits, m, c, e, half)
      BY <2>3, <3>1, <3>2, <3>3 DEF Kept
    <3> QED BY <3>4 DEF r, m
  <2>5. Own(c) => Paced(n)
    BY <2>3 DEF Own, Paced, th
  <2> QED BY <1>1, <2>2, <2>4, <2>5, OwnMoved
<1> QED BY <1>4, <1>5

(* A thread without devices: there is nothing left to renew. *)
LEMMA KeptByNone ==
    ASSUME NEW r, NEW c, NEW d, NEW h, NEW a, NEW n,
           n.devs = {}, n.cmd = NoCmd, ~ LockedBy(r, c), a.at # "add"
    PROVE  Kept(r, n, a, 0, c, d, h)
BY DEF Kept, Announced, Leaving

LEMMA OwnExecuteCmd ==
    ASSUME SameValidity, TypesInv, OwnInv, NEW c \in Clients, ExecuteCmd(c) PROVE OwnInv'
<1> DEFINE th == thread[c]
           a == app[c]
           D == AfterCmd(th)
<1>1. /\ th.at = "wait" /\ th.cmd \in Command /\ c \in alive /\ a.at = "wait"
      /\ \/ D = {} /\ Moved(c, Ended, Idle)
         \/ /\ D # {}
            /\ \E val \in [Devices -> Nat] :
                  /\ \A d \in D : val[d] \in Validities[c]
                  /\ Moved(c, Refreshed(th, D, val), Idle)
  BY ExecuteCmdEffect
<1>2. /\ half \in {0, 1} /\ th \in ThreadType /\ Shaped(th, c)
      /\ \A e \in Devices : DeviceOK(dev[e]) /\ owed[c][e] \in Nat
  BY KeptTypes
<1>3. th.cmd # NoCmd /\ th.cmd.dev \in Devices /\ th.cmd.code \in {"add", "rem"}
  BY <1>1, CmdTypes
<1>4. D \in SUBSET Devices
  BY <1>2, <1>3, ThreadTypes DEF AfterCmd
<1>5. ASSUME NEW e \in Devices
      PROVE  /\ Announced(th, a, e) => e \in D
             /\ e \in th.devs /\ ~ Leaving(th, a, e) => e \in D
             /\ e \in D => ~ Leaving(th, a, e) /\ (e \in th.devs \/ Announced(th, a, e))
  <2> HIDE DEF th, a
  <2> QED BY <1>1, <1>3 DEF AfterCmd, Announced, Leaving
<1>6. CASE D = {}
  <2> HIDE DEF D
  <2>1. ASSUME Own(c), NEW e \in Devices PROVE Kept(dev[e], Ended, Idle, owed[c][e], c, e, half)
    <3>1. Kept(dev[e], th, a, owed[c][e], c, e, half) /\ owed[c][e] \in Nat
      BY <1>2, <2>1, OwnFacts
    <3> HIDE DEF th, a
    <3>2. owed[c][e] = 0 /\ ~ LockedBy(dev[e], c)
      BY <1>5, <1>6, <3>1 DEF Kept
    <3> QED BY <3>2, EndedType, IdleType, KeptByNone
  <2>2. Paced(Ended)
    BY EndedType DEF Paced
  <2> QED BY <1>1, <1>6, <2>1, <2>2, OwnMoved
<1>7. CASE D # {}
  <2>1. PICK val \in [Devices -> Nat] : /\ \A d \in D : val[d] \in Validities[c]
                                        /\ Moved(c, Refreshed(th, D, val), Idle)
    BY <1>1, <1>7
  <2> DEFINE k == Refreshed(th, D, val)
  <2> HIDE DEF D
  <2>2. /\ k \in ThreadType /\ Shaped(k, c) /\ k.cmd = NoCmd /\ k.at = "wait" /\ k.devs = D
        /\ k.timer = th.timer
    BY <1>1, <1>2, <1>4, <1>7, <2>1, DevsAre
  <2> HIDE DEF k
  <2>3. /\ th.timer \in Nat
        /\ \A v \in Validities[c] : v \in Nat /\ th.period = 2 * v - 1 /\ k.period = 2 * v - 1
    BY <1>1, <1>2, <2>2, ThreadTypes, OnePeriod, ValidityType
  <2>4. Own(c) => Paced(k)
    <3>1. PICK v \in Validities[c] : TRUE
      BY <1>1, <1>2 DEF Shaped
    <3>2. k.period = th.period
      BY <2>3, <3>1
    <3> QED BY <2>2, <3>2 DEF Own, Paced, th
  <2>5. ASSUME Own(c), NEW e \in Devices PROVE Kept(dev[e], k, Idle, owed[c][e], c, e, half)
    <3> DEFINE r == dev[e]
               m == owed[c][e]
    <3>1. /\ Kept(r, th, a, m, c, e, half) /\ m \in Nat /\ DeviceOK(r)
          /\ r.since \in Nat /\ th.timer <= th.period
      BY <1>2, <2>5, OwnFacts, DeviceTypes DEF Paced
    <3> HIDE DEF r, m, th, a
    <3>2. ~ Announced(k, Idle, e) /\ ~ Leaving(k, Idle, e)
      BY <2>2, IdleType DEF Announced, Leaving
    <3>3. (m > 0 => e \in D) /\ (e \in D => m > 0)
      BY <1>5, <3>1 DEF Kept
    <3>4. m > 0 => InTime(r, k, e, half)
      <4> SUFFICES ASSUME m > 0 PROVE InTime(r, k, e, half)
        OBVIOUS
      <4>1. InTime(r, th, e, half) /\ LockedBy(r, c) /\ e \in D
        BY <3>1, <3>3 DEF Kept
      <4>2. r.lock_validity \in Nat /\ th.period = 2 * r.lock_validity - 1
        BY <2>3, <3>1, <4>1, LeaseValidity
      <4>3. CASE e \in th.devs
        BY <1>1, <2>2, <4>1, <4>3 DEF InTime
      <4>4. CASE e \notin th.devs
        BY <1>2, <2>2, <2>3, <3>1, <4>1, <4>2, <4>4 DEF InTime
      <4> QED BY <4>3, <4>4
    <3>5. Kept(r, k, Idle, m, c, e, half)
      BY <2>2, <3>1, <3>2, <3>3, <3>4 DEF Kept
    <3> QED BY <3>5 DEF r, m
  <2> QED BY <1>1, <2>1, <2>4, <2>5, OwnMoved DEF k
<1> QED BY <1>6, <1>7

LEMMA OwnOneMoreLock ==
    ASSUME TypesInv, OwnInv, NEW c \in Clients, OneMoreLock(c) PROVE OwnInv'
<1> DEFINE th == thread[c]
           a == app[c]
           n == Sent(th)
<1>1. th.at = "wait" /\ th.timer = 0 /\ c \in alive /\ Moved(c, n, a)
  BY OneMoreLockEffect
<1>2. th \in ThreadType /\ Shaped(th, c) /\ \A e \in Devices : DeviceOK(dev[e])
      /\ half \in {0, 1}
  BY KeptTypes
<1>3. /\ n.at = "sent" /\ n.lag = 0 /\ n.devs = th.devs /\ n.cmd = th.cmd
      /\ n.timer = th.timer /\ n.period = th.period
  BY <1>1, <1>2, SentIs
<1> HIDE DEF n
<1>4. ASSUME Own(c), NEW e \in Devices PROVE Kept(dev[e], n, a, owed[c][e], c, e, half)
  <2> DEFINE r == dev[e]
             m == owed[c][e]
  <2>1. Kept(r, th, a, m, c, e, half) /\ r.since \in Nat /\ r.lock_validity \in Nat
    BY <1>2, <1>4, OwnFacts, DeviceTypes
  <2> HIDE DEF r, m, th, a
  <2>2. (Announced(n, a, e) <=> Announced(th, a, e)) /\ (Leaving(n, a, e) <=> Leaving(th, a, e))
    BY <1>3 DEF Announced, Leaving
  <2>3. InTime(r, th, e, half) => InTime(r, n, e, half)
    BY <1>1, <1>2, <1>3, <2>1 DEF InTime
  <2>4. Kept(r, n, a, m, c, e, half)
    BY <1>1, <1>3, <2>1, <2>2, <2>3 DEF Kept
  <2> QED BY <2>4 DEF r, m
<1>5. Own(c) => Paced(n)
  BY <1>3 DEF Own, Paced, th
<1> QED BY <1>1, <1>4, <1>5, OwnMoved

(* The answer of a renewal: what could not be renewed is not locked any    *)
(* more, so a thread that ends has nothing to renew.                       *)
LEMMA OwnRelockDone ==
    ASSUME SameValidity, TypesInv, OwnInv, NEW c \in Clients, RelockDone(c) PROVE OwnInv'
<1> DEFINE th == thread[c]
           a == app[c]
           b == IF a.at = "wait" THEN Idle ELSE a
<1>1. /\ th.at = "reply" /\ c \in alive
      /\ \/ th.devs \ th.errors = {} /\ Moved(c, Ended, b)
         \/ th.devs \ th.errors # {} /\ Moved(c, Pruned(th), a)
  BY RelockDoneEffect
<1>2. /\ half \in {0, 1} /\ th \in ThreadType /\ a \in AppType /\ Shaped(th, c)
      /\ (th.cmd # NoCmd <=> a.at = "wait")
      /\ \A e \in Devices : DeviceOK(dev[e]) /\ owed[c][e] \in Nat
  BY <1>1, KeptTypes
<1>3. th.devs \in SUBSET Devices /\ th.devs # {}
  BY <1>1, <1>2, ThreadTypes DEF Shaped
<1>4. CASE th.devs \ th.errors = {}
  <2>1. ASSUME Own(c)
        PROVE  /\ \A e \in Devices : owed[c][e] = 0 /\ ~ LockedBy(dev[e], c)
               /\ a.at # "add"
    <3>1. PICK f \in th.devs : f \in th.errors
      BY <1>3, <1>4
    <3>2. \A e \in Devices : Kept(dev[e], th, a, owed[c][e], c, e, half)
      BY <2>1, OwnFacts
    <3>3. owed[c][f] = 0 /\ Leaving(th, a, f)
      <4> HIDE DEF th, a
      <4> QED BY <1>1, <1>3, <3>1, <3>2 DEF Kept
    <3>4. \A e \in Devices : ~ Announced(th, a, e)
      <4> HIDE DEF th, a
      <4> QED BY <1>2, <3>3 DEF Announced, Leaving
    <3>5. a.at # "add"
      <4> HIDE DEF th, a
      <4> QED BY <1>2, <3>3 DEF Leaving
    <3>6. ASSUME NEW e \in Devices PROVE owed[c][e] = 0 /\ ~ LockedBy(dev[e], c)
      <4>1. Kept(dev[e], th, a, owed[c][e], c, e, half) /\ owed[c][e] \in Nat
            /\ ~ Announced(th, a, e)
        BY <1>2, <3>2, <3>4
      <4>2. e \in th.devs => e \in th.errors
        BY <1>4
      <4> HIDE DEF th, a
      <4> QED BY <1>1, <4>1, <4>2 DEF Kept
    <3> QED BY <3>5, <3>6
  <2>2. ASSUME Own(c), NEW e \in Devices PROVE Kept(dev[e], Ended, b, owed[c][e], c, e, half)
    <3>1. owed[c][e] = 0 /\ ~ LockedBy(dev[e], c) /\ a.at # "add"
      BY <2>1, <2>2
    <3>2. b.at # "add"
      BY <3>1, IdleType
    <3> HIDE DEF b
    <3> QED BY <3>1, <3>2, EndedType, KeptByNone
  <2>3. Paced(Ended)
    BY EndedType DEF Paced
  <2>4. Moved(c, Ended, b)
    BY <1>1, <1>4
  <2> HIDE DEF b
  <2> QED BY <1>1, <2>2, <2>3, <2>4, OwnMoved
<1>5. CASE th.devs \ th.errors # {}
  <2> DEFINE n == Pruned(th)
  <2>1. /\ n.at = "wait" /\ n.timer = th.period /\ n.devs = th.devs \ th.errors
        /\ n.cmd = th.cmd /\ n.period = th.period
    BY <1>1, <1>2, <1>5, PrunedIs
  <2>2. Moved(c, n, a)
    BY <1>1, <1>5
  <2> HIDE DEF n
  <2>3. ASSUME Own(c), NEW e \in Devices PROVE Kept(dev[e], n, a, owed[c][e], c, e, half)
    <3> DEFINE r == dev[e]
               m == owed[c][e]
    <3>1. Kept(r, th, a, m, c, e, half) /\ DeviceOK(r) /\ m \in Nat
      BY <1>2, <2>3, OwnFacts
    <3>2. LockedBy(r, c) => r.lock_validity \in Nat /\ th.period = 2 * r.lock_validity - 1
      BY <1>1, <1>2, <3>1, LeaseValidity, OnePeriod
    <3> HIDE DEF r, m, th, a
    <3>3. (Announced(n, a, e) <=> Announced(th, a, e)) /\ (Leaving(n, a, e) <=> Leaving(th, a, e))
      BY <2>1 DEF Announced, Leaving
    <3>4. m > 0 => r.since = 0 /\ LockedBy(r, c) /\ (e \in th.devs => e \in n.devs)
      BY <1>1, <2>1, <3>1 DEF Kept, InTime
    <3>5. m > 0 => InTime(r, n, e, half)
      BY <1>2, <2>1, <3>2, <3>4 DEF InTime
    <3>6. Kept(r, n, a, m, c, e, half)
      BY <2>1, <3>1, <3>3, <3>4, <3>5 DEF Kept
    <3> QED BY <3>6 DEF r, m
  <2>4. Paced(n)
    BY <1>2, <2>1, ThreadTypes DEF Paced
  <2> QED BY <1>1, <2>2, <2>3, <2>4, OwnMoved
<1> QED BY <1>4, <1>5

(* The server renews: in time for every lease of a client not robbed. *)
LEMMA OwnReLock ==
    ASSUME TypesInv, OwnInv, NEW c \in Clients, ReLockDevices(c) PROVE OwnInv'
<1> DEFINE th == thread[c]
           a == app[c]
           ok == {d \in th.args : CanRelock(dev[d], c)}
           n == Replied(th, th.args \ ok)
<1>1. /\ th.at = "sent" /\ Others(c)
      /\ \A d \in Devices : dev'[d] = IF d \in ok THEN Relocked(dev[d]) ELSE dev[d]
      /\ thread'[c] = IF c \in alive THEN n ELSE NoThread
      /\ app'[c] = a /\ proxy'[c] = proxy[c]
      /\ owed' = owed /\ alive' = alive /\ robbed' = robbed /\ half' = half
  BY ReLockEffect, Zenon
<1>2. /\ half \in {0, 1} /\ th \in ThreadType /\ Shaped(th, c)
      /\ \A e \in Devices : DeviceOK(dev[e])
  BY KeptTypes
<1>3. \A d \in Devices : d \in ok => LockedBy(dev[d], c)
  BY DEF CanRelock, LockedBy
<1>4. \A d \in th.args : Holds(dev[d], c) => d \in ok
  BY DEF CanRelock, Holds
<1>5. th.args \ ok \in SUBSET Devices /\ th.devs \subseteq th.args
  BY <1>1, <1>2 DEF ThreadType, Shaped
<1> HIDE DEF ok
<1>6. /\ n.at = "reply" /\ n.errors = th.args \ ok /\ n.devs = th.devs /\ n.cmd = th.cmd
      /\ n.timer = th.timer /\ n.period = th.period
  BY <1>1, <1>2, <1>5, RepliedIs
<1> HIDE DEF n
<1>7. SUFFICES ASSUME NEW b \in alive', ~ Robbed(b)' PROVE Own(b)'
  BY DEF OwnInv
<1>8. b \in Clients /\ b \in alive
  BY <1>1, TypesParts DEF Rest
<1>9. Own(b)
  BY <1>1, <1>7, <1>8, NotRobbedBefore DEF OwnInv
<1>10. \A e \in Devices :
          LET s == Relocked(dev[e])
          IN  /\ DeviceOK(s) /\ s.since = 0
              /\ s.device_locked = dev[e].device_locked /\ s.locker_client = dev[e].locker_client
              /\ s.lock_validity = dev[e].lock_validity /\ s.lock_ctr = dev[e].lock_ctr
  BY <1>2, RelockedSame
<1>11. CASE b = c
  <2>1. thread'[c] = n /\ Paced(n)
    BY <1>1, <1>6, <1>8, <1>9, <1>11 DEF Own, Paced
  <2>2. ASSUME NEW e \in Devices
        PROVE  /\ proxy'[c][e].ctr = owed'[c][e]
               /\ Kept(dev'[e], thread'[c], app'[c], owed'[c][e], c, e, half')
    <3> DEFINE r == dev[e]
               s == dev'[e]
               m == owed[c][e]
    <3>1. proxy[c][e].ctr = m /\ Kept(r, th, a, m, c, e, half)
      BY <1>9, <1>11, OwnFacts
    <3>2. /\ s.device_locked = r.device_locked /\ s.locker_client = r.locker_client
          /\ s.lock_validity = r.lock_validity /\ s.lock_ctr = r.lock_ctr
          /\ s.since = 0 \/ (s.since = r.since /\ e \notin ok)
      BY <1>1, <1>10
    <3>3. e \in th.devs /\ m > 0 => e \in ok
      BY <1>4, <1>5, <1>9, <1>11, Holding
    <3>4. m > 0 => s.since = 0
      <4> SUFFICES ASSUME m > 0 PROVE s.since = 0
        OBVIOUS
      <4>1. e \notin th.devs => r.since = 0
        BY <3>1 DEF Kept, InTime
      <4> QED BY <3>2, <3>3, <4>1
    <3> HIDE DEF r, s, m, th, a
    <3>5. (Announced(n, a, e) <=> Announced(th, a, e)) /\ (Leaving(n, a, e) <=> Leaving(th, a, e))
      BY <1>6 DEF Announced, Leaving
    <3>6. m > 0 => InTime(s, n, e, half)
      BY <1>6, <3>4 DEF InTime
    <3>7. e \in n.devs \cap n.errors => ~ (m > 0)
      BY <1>6, <3>3
    <3>8. Kept(s, n, a, m, c, e, half)
      <4>1. m \in Nat
        BY <1>8, <1>11, KeptTypes DEF m
      <4> QED BY <1>6, <3>1, <3>2, <3>5, <3>6, <3>7, <4>1 DEF Kept, LockedBy
    <3> QED BY <1>1, <2>1, <3>1, <3>8 DEF r, s, m
  <2> QED BY <1>11, <2>1, <2>2, OwnPrimed
<1>12. CASE b # c
  <2>1. SameClient(b)
    BY <1>1, <1>8, <1>12 DEF Others
  <2>2. ASSUME NEW d \in Devices
        PROVE  /\ owed'[b][d] = owed[b][d]
               /\ owed[b][d] > 0 => dev'[d] = dev[d]
               /\ LockedBy(dev'[d], b) => LockedBy(dev[d], b)
    <3>1. owed[b][d] > 0 => LockedBy(dev[d], b)
      BY <1>8, <1>9, Holding
    <3>2. owed[b][d] > 0 => d \notin ok
      BY <1>3, <1>12, <3>1 DEF LockedBy
    <3> QED BY <1>1, <1>10, <3>2 DEF LockedBy
  <2> QED BY <1>1, <1>8, <1>9, <2>1, <2>2, Undisturbed
<1> QED BY <1>11, <1>12

LEMMA OwnLock ==
    ASSUME SameValidity, TypesInv, OwnInv, NEW c \in Clients, NEW d \in Devices,
           NEW v \in Validities[c], Lock(c, d, v)
    PROVE  OwnInv'
<1> DEFINE th == thread[c]
           a == AppAt("add", d)
           s == Granted(dev[d], c, v)
<1>1. c \in alive /\ app[c].at = "idle" /\ ~ LockedByOther(dev[d], c)
  BY Zenon DEF Lock, Runs
<1>2. /\ Others(c) /\ OneDevice(d, s) /\ thread'[c] = th /\ app'[c] = a
      /\ proxy'[c] = WithProxy(proxy[c], d, proxy[c][d].ctr + 1, v)
      /\ owed'[c] = WithOwed(owed[c], d, owed[c][d] + 1)
      /\ \A b \in Clients \ {c} : owed'[b] = owed[b]
      /\ alive' = alive /\ robbed' = robbed /\ half' = half
  BY LockEffect
<1>3. /\ half \in {0, 1} /\ th \in ThreadType /\ Shaped(th, c) /\ th.cmd = NoCmd
      /\ \A e \in Devices : DeviceOK(dev[e]) /\ owed[c][e] \in Nat
  BY <1>1, KeptTypes
<1>4. /\ DeviceOK(s) /\ LockedBy(s, c) /\ s.since = 0 /\ s.lock_validity = v
      /\ ~ LockedBy(dev[d], c) => s.lock_ctr = 1
      /\ Holds(dev[d], c) => s.lock_ctr = dev[d].lock_ctr + 1
  BY <1>1, <1>3, GrantedTo
<1>5. v \in Nat /\ v >= 2 /\ (th.at # "none" => th.period = 2 * v - 1)
  BY <1>3, ValidityType, OnePeriod
<1>6. /\ proxy'[c][d].ctr = proxy[c][d].ctr + 1 /\ owed'[c][d] = owed[c][d] + 1
      /\ \A e \in Devices \ {d} : proxy'[c][e] = proxy[c][e] /\ owed'[c][e] = owed[c][e]
  <2>1. proxy[c] \in ProxyType /\ owed[c] \in [Devices -> Nat]
    BY ClientTypes
  <2>2. proxy[c][d].ctr + 1 \in Nat
    BY <2>1 DEF ProxyType
  <2>3. proxy'[c][d].ctr = proxy[c][d].ctr + 1
        /\ \A e \in Devices \ {d} : proxy'[c][e] = proxy[c][e]
    <3> DEFINE k == proxy[c][d].ctr + 1
    <3>1. k \in Nat /\ proxy'[c] = WithProxy(proxy[c], d, k, v)
      BY <1>2, <2>2
    <3> HIDE DEF k
    <3>2. proxy'[c][d].ctr = k /\ \A e \in Devices \ {d} : proxy'[c][e] = proxy[c][e]
      BY <2>1, <3>1 DEF ProxyType, WithProxy
    <3> QED BY <3>2 DEF k
  <2> QED BY <1>2, <2>1, <2>3 DEF WithOwed
<1>7. a.at = "add" /\ a.dev = d
  BY AppAtType
<1> HIDE DEF s, a
<1>8. SUFFICES ASSUME NEW b \in alive', ~ Robbed(b)' PROVE Own(b)'
  BY DEF OwnInv
<1>9. b \in Clients /\ b \in alive
  BY <1>2, TypesParts DEF Rest
<1>10. Own(b)
  BY <1>2, <1>8, <1>9, NotRobbedBefore DEF OwnInv
<1>11. CASE b = c
  <2>1. Paced(th)
    BY <1>9, <1>10, <1>11 DEF Own
  <2>2. ASSUME NEW e \in Devices
        PROVE  /\ proxy'[c][e].ctr = owed'[c][e]
               /\ Kept(dev'[e], thread'[c], app'[c], owed'[c][e], c, e, half')
    <3> DEFINE r == dev[e]
               m == owed[c][e]
    <3>1. proxy[c][e].ctr = m /\ Kept(r, th, app[c], m, c, e, half) /\ m \in Nat
      BY <1>3, <1>10, <1>11, OwnFacts
    <3>2. ~ Announced(th, app[c], e) /\ ~ Leaving(th, app[c], e) /\ ~ Leaving(th, a, e)
          /\ (Announced(th, a, e) <=> e = d)
      BY <1>1, <1>3, <1>7 DEF Announced, Leaving
    <3>3. CASE e # d
      <4>1. Kept(r, th, a, m, c, e, half)
        <5> HIDE DEF r, m, th
        <5> QED BY <3>1, <3>2, <3>3 DEF Kept
      <4>2. dev'[e] = r /\ owed'[c][e] = m /\ proxy'[c][e] = proxy[c][e]
        BY <1>2, <1>6, <3>3 DEF OneDevice
      <4> QED BY <1>2, <3>1, <4>1, <4>2
    <3>4. CASE e = d
      <4>1. s.lock_ctr = m + 1
        <5>1. CASE m = 0
          BY <1>4, <3>1, <3>4, <5>1 DEF Kept
        <5>2. CASE m > 0
          <6>1. Holds(dev[d], c)
            BY <1>10, <1>11, <3>4, <5>2, Holding
          <6>2. dev[d].lock_ctr = m
            BY <3>1, <3>4, <5>2 DEF Kept
          <6> QED BY <1>4, <6>1, <6>2
        <5> QED BY <3>1, <5>1, <5>2
      <4>2. InTime(s, th, e, half)
        <5>1. th.timer \in Nat /\ th.period \in Nat /\ th.lag \in Nat
          BY <1>3, ThreadTypes
        <5> HIDE DEF th
        <5> QED BY <1>3, <1>4, <1>5, <2>1, <5>1 DEF InTime, Paced
      <4>3. ~ (th.at = "reply" /\ e \in th.devs \cap th.errors)
        <5> HIDE DEF th, r, m
        <5> QED BY <3>1, <3>2 DEF Kept
      <4>4. Kept(s, th, a, m + 1, c, e, half)
        <5> HIDE DEF th, r, m
        <5> QED BY <1>4, <3>1, <3>2, <3>4, <4>1, <4>2, <4>3 DEF Kept
      <4>5. dev'[e] = s /\ owed'[c][e] = m + 1 /\ proxy'[c][e].ctr = proxy[c][e].ctr + 1
        BY <1>2, <1>6, <3>4 DEF OneDevice
      <4> QED BY <1>2, <3>1, <4>4, <4>5
    <3> QED BY <3>3, <3>4
  <2> QED BY <1>2, <1>11, <2>1, <2>2, OwnPrimed
<1>12. CASE b # c
  <2>1. SameClient(b)
    BY <1>2, <1>9, <1>12 DEF Others
  <2>2. ASSUME NEW e \in Devices
        PROVE  /\ owed'[b][e] = owed[b][e]
               /\ owed[b][e] > 0 => dev'[e] = dev[e]
               /\ LockedBy(dev'[e], b) => LockedBy(dev[e], b)
    <3>1. owed[b][e] > 0 => Holds(dev[e], b)
      BY <1>9, <1>10, Holding
    <3>2. owed[b][e] > 0 => e # d
      BY <1>1, <1>12, <3>1 DEF Holds, LockedByOther
    <3>3. owed'[b][e] = owed[b][e]
      BY <1>2, <1>9, <1>12
    <3>4. e # d => dev'[e] = dev[e]
      BY <1>2 DEF OneDevice
    <3>5. ~ LockedBy(s, b)
      BY <1>4, <1>12 DEF LockedBy
    <3>6. e = d => dev'[e] = s
      BY <1>2 DEF OneDevice
    <3> QED BY <3>2, <3>3, <3>4, <3>5, <3>6
  <2> QED BY <1>2, <1>9, <1>10, <2>1, <2>2, Undisturbed
<1> QED BY <1>11, <1>12

(* A client gives back one of its locks, or all of them by force; or it    *)
(* takes the lock of another one by force, which is then robbed.           *)
LEMMA OwnUnlock ==
    ASSUME TypesInv, OwnInv, NEW c \in Clients, NEW d \in Devices, NEW forced \in BOOLEAN,
           Runs(c), AfterUnlock(c, d, forced),
           forced \/ proxy[c][d].ctr > 0, forced \/ ~ LockedByOther(dev[d], c)
    PROVE  OwnInv'
<1> DEFINE th == thread[c]
           r == dev[d]
           s == Unlocked(dev[d], forced)
           a == IF s.lock_ctr = 0 \/ forced THEN AppAt("rem", d) ELSE Idle
           v == IF s.lock_ctr = 0 THEN 0 ELSE proxy[c][d].valid
           m == owed[c][d]
           k == IF forced \/ m = 0 THEN 0 ELSE m - 1
<1>1. c \in alive /\ app[c].at = "idle"
  BY DEF Runs
<1>2. /\ Others(c) /\ OneDevice(d, s) /\ Robs(c)
      /\ thread'[c] = th /\ app'[c] = a
      /\ proxy'[c] = WithProxy(proxy[c], d, s.lock_ctr, v)
      /\ owed'[c] = WithOwed(owed[c], d, k)
      /\ alive' = alive /\ half' = half
  BY UnlockEffect
<1>3. /\ half \in {0, 1} /\ th \in ThreadType /\ Shaped(th, c) /\ th.cmd = NoCmd
      /\ \A e \in Devices : DeviceOK(dev[e]) /\ owed[c][e] \in Nat
  BY <1>1, KeptTypes
<1>4. /\ DeviceOK(s) /\ s.lock_ctr \in Nat /\ r.lock_ctr \in Nat
      /\ forced \/ r.lock_ctr <= 1 => Free(s)
      /\ ~ forced /\ r.lock_ctr > 1 =>
            /\ s.device_locked = r.device_locked /\ s.locker_client = r.locker_client
            /\ s.since = r.since /\ s.lock_validity = r.lock_validity
            /\ s.lock_ctr = r.lock_ctr - 1
  BY <1>3, UnlockedOnce, DeviceTypes
<1>5. /\ proxy'[c][d].ctr = s.lock_ctr /\ owed'[c][d] = k
      /\ \A e \in Devices \ {d} : proxy'[c][e] = proxy[c][e] /\ owed'[c][e] = owed[c][e]
  <2>1. proxy[c] \in ProxyType /\ owed[c] \in [Devices -> Nat]
    BY ClientTypes
  <2>2. v \in Nat
    BY <2>1 DEF ProxyType
  <2> HIDE DEF v, s, k
  <2>3. proxy'[c][d].ctr = s.lock_ctr /\ \A e \in Devices \ {d} : proxy'[c][e] = proxy[c][e]
    BY <1>2, <1>4, <2>1, <2>2 DEF ProxyType, WithProxy
  <2>4. owed'[c][d] = k /\ \A e \in Devices \ {d} : owed'[c][e] = owed[c][e]
    BY <1>2, <2>1 DEF WithOwed
  <2> QED BY <1>2, <2>3, <2>4
<1>6. (s.lock_ctr = 0 \/ forced) => a.at = "rem" /\ a.dev = d
  BY AppAtType
<1>7. ~ (s.lock_ctr = 0 \/ forced) => a.at = "idle"
  BY IdleType
<1> HIDE DEF s, a, v
<1>8. SUFFICES ASSUME NEW b \in alive', ~ Robbed(b)' PROVE Own(b)'
  BY DEF OwnInv
<1>9. b \in Clients /\ b \in alive
  BY <1>2, TypesParts DEF Rest
<1>10. Own(b)
  BY <1>2, <1>8, <1>9, NotRobbedBefore DEF OwnInv, Robs
<1>11. CASE b = c
  <2>1. Paced(th)
    BY <1>9, <1>10, <1>11 DEF Own
  <2>2. proxy[c][d].ctr = m /\ Kept(r, th, app[c], m, c, d, half) /\ m \in Nat
    BY <1>3, <1>10, <1>11, OwnFacts
  <2>3. s.lock_ctr = k /\ k \in Nat /\ (k = 0 => Free(s)) /\ (forced => k = 0)
        /\ (k > 0 => ~ forced /\ r.lock_ctr > 1 /\ m = k + 1)
    <3>1. CASE forced
      BY <1>4, <3>1 DEF Free
    <3>2. CASE ~ forced
      <4>1. m > 0 /\ r.lock_ctr = m
        BY <2>2, <3>2 DEF Kept
      <4>2. k = m - 1
        BY <3>2, <4>1
      <4>3. CASE m = 1
        BY <1>4, <2>2, <4>1, <4>2, <4>3 DEF Free
      <4>4. CASE m # 1
        BY <1>4, <2>2, <3>2, <4>1, <4>2, <4>4
      <4> QED BY <4>3, <4>4
    <3> QED BY <3>1, <3>2
  <2> HIDE DEF k
  <2>4. ASSUME NEW e \in Devices
        PROVE  /\ proxy'[c][e].ctr = owed'[c][e]
               /\ Kept(dev'[e], thread'[c], app'[c], owed'[c][e], c, e, half')
    <3>1. proxy[c][e].ctr = owed[c][e] /\ Kept(dev[e], th, app[c], owed[c][e], c, e, half)
      BY <1>10, <1>11, OwnFacts
    <3>2. ~ Announced(th, app[c], e) /\ ~ Leaving(th, app[c], e) /\ ~ Announced(th, a, e)
          /\ (Leaving(th, a, e) <=> e = d /\ k = 0)
      <4> HIDE DEF th
      <4> QED BY <1>1, <1>3, <1>6, <1>7, <2>3 DEF Announced, Leaving
    <3>3. CASE e # d
      <4>1. Kept(dev[e], th, a, owed[c][e], c, e, half)
        <5> HIDE DEF th
        <5> QED BY <3>1, <3>2, <3>3 DEF Kept
      <4>2. dev'[e] = dev[e] /\ owed'[c][e] = owed[c][e] /\ proxy'[c][e] = proxy[c][e]
        BY <1>2, <1>5, <3>3 DEF OneDevice
      <4> QED BY <1>2, <3>1, <4>1, <4>2
    <3>4. CASE e = d
      <4>1. dev'[e] = s /\ owed'[c][e] = k /\ proxy'[c][e].ctr = s.lock_ctr
        BY <1>2, <1>5, <3>4 DEF OneDevice
      <4>2. CASE k = 0
        <5>1. ~ LockedBy(s, c)
          BY <2>3, <4>2 DEF Free, LockedBy
        <5>2. Kept(s, th, a, k, c, e, half)
          <6> HIDE DEF th
          <6> QED BY <3>2, <3>4, <4>2, <5>1 DEF Kept
        <5> QED BY <1>2, <2>3, <4>1, <5>2
      <4>3. CASE k > 0
        <5>1. /\ s.device_locked = r.device_locked /\ s.locker_client = r.locker_client
              /\ s.since = r.since /\ s.lock_validity = r.lock_validity
          BY <1>4, <2>3, <4>3
        <5> HIDE DEF r, m, th
        <5>2. m > 0 /\ LockedBy(s, c) /\ d \in th.devs
              /\ ~ (th.at = "reply" /\ d \in th.devs \cap th.errors)
          BY <2>2, <2>3, <3>2, <3>4, <4>3, <5>1 DEF Kept, LockedBy
        <5>3. InTime(s, th, d, half)
          BY <2>2, <5>1, <5>2 DEF Kept, InTime
        <5>4. Kept(s, th, a, k, c, d, half)
          BY <2>3, <3>2, <3>4, <4>3, <5>2, <5>3 DEF Kept
        <5> QED BY <1>2, <2>3, <3>4, <4>1, <5>4
      <4> QED BY <2>3, <4>2, <4>3
    <3> QED BY <3>3, <3>4
  <2> QED BY <1>2, <1>11, <2>1, <2>4, OwnPrimed
<1>12. CASE b # c
  <2>1. SameClient(b)
    BY <1>2, <1>9, <1>12 DEF Others
  <2>2. ASSUME NEW e \in Devices
        PROVE  /\ Holds(dev[e], b) /\ Holds(dev'[e], b) => dev'[e] = dev[e]
               /\ LockedBy(dev'[e], b) => LockedBy(dev[e], b)
    <3>1. CASE e # d
      BY <1>2, <3>1 DEF OneDevice
    <3>2. CASE e = d
      <4>1. dev'[e] = s
        BY <1>2, <3>2 DEF OneDevice
      <4>2. CASE forced
        BY <1>4, <4>1, <4>2 DEF Free, Holds, LockedBy
      <4>3. CASE ~ forced
        <5>1. ~ Holds(dev[d], b)
          BY <1>12, <4>3 DEF LockedByOther, Holds
        <5>2. LockedBy(s, b) => LockedBy(dev[d], b)
          <6>1. CASE r.lock_ctr <= 1
            BY <1>4, <6>1 DEF Free, LockedBy
          <6>2. CASE r.lock_ctr > 1
            BY <1>4, <4>3, <6>2 DEF LockedBy
          <6> QED BY <1>4, <6>1, <6>2
        <5> QED BY <3>2, <4>1, <5>1, <5>2
      <4> QED BY <4>2, <4>3
    <3> QED BY <3>1, <3>2
  <2> QED BY <1>2, <1>8, <1>9, <1>10, <1>12, <2>1, <2>2, NotRobbed
<1> QED BY <1>11, <1>12

LEMMA OwnEnd ==
    ASSUME TypesInv, OwnInv, NEW c \in Clients, Exit(c) \/ Crash(c) PROVE OwnInv'
<1> SUFFICES ASSUME NEW b \in alive', ~ Robbed(b)' PROVE Own(b)'
  BY DEF OwnInv
<1>1. CASE Exit(c)
  <2>1. /\ Others(c) /\ Robs(c) /\ half' = half /\ alive' = alive \ {c}
        /\ \A d \in Devices :
                 dev'[d] = IF thread[c].at = "wait" /\ d \in thread[c].devs
                           THEN Unlocked(dev[d], TRUE) ELSE dev[d]
    BY <1>1, ExitEffect
  <2>2. b \in Clients \ {c} /\ b \in alive
    BY <2>1, TypesParts DEF Rest
  <2>3. Own(b) /\ SameClient(b)
    BY <2>1, <2>2, NotRobbedBefore DEF OwnInv, Robs, Others
  <2>4. \A d \in Devices : Free(Unlocked(dev[d], TRUE))
    BY DeviceFits, UnlockedOnce
  <2>5. \A d \in Devices :
          /\ Holds(dev[d], b) /\ Holds(dev'[d], b) => dev'[d] = dev[d]
          /\ LockedBy(dev'[d], b) => LockedBy(dev[d], b)
    BY <2>1, <2>4 DEF Free, Holds, LockedBy
  <2> QED BY <2>1, <2>2, <2>3, <2>5, NotRobbed
<1>2. CASE Crash(c)
  <2>1. /\ Others(c) /\ SameDevices /\ half' = half /\ robbed' = robbed
        /\ alive' = alive \ {c} /\ \A e \in Clients \ {c} : owed'[e] = owed[e]
    BY <1>2, CrashEffect
  <2>2. b \in Clients \ {c} /\ b \in alive
    BY <2>1, TypesParts DEF Rest
  <2>3. Own(b) /\ SameClient(b)
    BY <2>1, <2>2, NotRobbedBefore DEF OwnInv, Others
  <2> QED BY <2>1, <2>2, <2>3, Undisturbed DEF SameDevices
<1> QED BY <1>1, <1>2

LEMMA OwnNext ==
    ASSUME SameValidity PROVE TypesInv /\ OwnInv /\ [Next]_vars => OwnInv'
<1> SUFFICES ASSUME TypesInv, OwnInv, [Next]_vars PROVE OwnInv'
  OBVIOUS
<1>1. CASE UNCHANGED vars
  BY <1>1 DEF vars, OwnInv, Own, Robbed
<1>2. CASE Next
  <2>1. ASSUME NEW c \in Clients, NEW d \in Devices, NEW v \in Validities[c], Lock(c, d, v)
        PROVE  OwnInv'
    BY <2>1, OwnLock
  <2>2. ASSUME NEW c \in Clients, NEW d \in Devices, NEW forced \in BOOLEAN,
               Unlock(c, d, forced)
        PROVE  OwnInv'
    <3>1. /\ Runs(c) /\ AfterUnlock(c, d, forced) /\ (forced \/ proxy[c][d].ctr > 0)
          /\ (forced \/ ~ LockedByOther(dev[d], c))
      BY <2>2, Zenon DEF Unlock
    <3> QED BY <3>1, OwnUnlock
  <2>3. ASSUME NEW c \in Clients, NEW d \in Devices, DestroyProxy(c, d)
        PROVE  OwnInv'
    BY <2>3, OwnUnlock DEF DestroyProxy
  <2>4. ASSUME NEW c \in Clients, ThreadStep(c) PROVE OwnInv'
    BY <2>4, OwnExecuteCmd, OwnOneMoreLock, OwnReLock, OwnRelockDone DEF ThreadStep
  <2>5. ASSUME NEW c \in Clients, AddDev(c) \/ RemDev(c) \/ Exit(c) \/ Crash(c)
        PROVE  OwnInv'
    BY <2>5, OwnAddDev, OwnRemDev, OwnEnd
  <2> QED BY <1>2, <2>1, <2>2, <2>3, <2>4, <2>5, NextSteps, OwnGentle, OwnRestartServer, OwnTick
<1> QED BY <1>1, <1>2

LEMMA OwnInit == Init => OwnInv
<1> SUFFICES ASSUME Init, NEW c \in Clients PROVE Own(c)
  BY DEF OwnInv, Init
<1>1. /\ thread[c] = NoThread /\ app[c] = Idle
      /\ \A d \in Devices : proxy[c][d].ctr = 0 /\ owed[c][d] = 0 /\ dev[d] = NewDevice
  BY DEF Init, NoProxies
<1>2. NoThread.devs = {} /\ NoThread.cmd = NoCmd /\ NoThread.timer = 0 /\ NoThread.period = 0
      /\ NoThread.at = "none"
  BY DEF NoThread
<1>3. ~ LockedBy(NewDevice, c)
  BY DEF NewDevice, LockedBy
<1>4. \A d \in Devices : Kept(NewDevice, NoThread, Idle, 0, c, d, half)
  BY <1>2, <1>3, IdleType, KeptByNone
<1>5. Paced(NoThread)
  BY <1>2 DEF Paced
<1> QED BY <1>1, <1>4, <1>5 DEF Own

(* What is true of every reachable state when each client uses one         *)
(* validity.                                                               *)
LockInv == TypesInv /\ OwnInv

LEMMA LockInvariant == ASSUME SameValidity PROVE Spec => []LockInv
<1>1. Init => LockInv
  BY TypesInit, OwnInit DEF LockInv
<1>2. LockInv /\ [Next]_vars => LockInv'
  BY TypesNext, OwnNext DEF LockInv
<1> QED BY <1>1, <1>2, PTL DEF Spec

(* "The library provided an automatic system to periodically re lock the    *)
(* device until an unlock call": when each client uses one validity, a      *)
(* client that runs and was not robbed holds every lock it was granted and  *)
(* has not given back, with any number of clients, devices and nested locks *)
(* and however calls, renewals, forced unlocks, restarts and time           *)
(* interleave.                                                              *)
THEOREM LockRenewedInTime == ASSUME SameValidity PROVE Spec => []RenewedInTime
<1>1. LockInv => RenewedInTime
  <2> SUFFICES ASSUME LockInv, NEW c \in alive, NEW d \in Devices,
                      owed[c][d] > 0 /\ ~ Robbed(c)
               PROVE  Holds(dev[d], c)
    BY DEF RenewedInTime
  <2>1. c \in Clients /\ Own(c)
    BY TypesParts DEF LockInv, Rest, OwnInv
  <2> QED BY <2>1, Holding DEF LockInv
<1> QED BY <1>1, LockInvariant, PTL

(* "The locking system is re-entrant": under the same hypothesis the        *)
(* counters of the proxy and of the device are the number of locks of the   *)
(* client that it has not given back.                                       *)
THEOREM LockCounterAgrees == ASSUME SameValidity PROVE Spec => []CounterAgrees
<1>1. LockInv => CounterAgrees
  <2> SUFFICES ASSUME LockInv PROVE CounterAgrees
    OBVIOUS
  <2>1. \A d \in Devices :
          /\ dev[d].device_locked <=> dev[d].locker_client \in Clients
          /\ dev[d].device_locked <=> dev[d].lock_ctr > 0
    BY DeviceFits DEF LockInv, DeviceOK
  <2>2. ASSUME NEW c \in alive, NEW d \in Devices, ~ Robbed(c)
        PROVE  /\ proxy[c][d].ctr = owed[c][d]
               /\ owed[c][d] > 0 => dev[d].lock_ctr = owed[c][d]
    <3>1. c \in Clients /\ Own(c)
      BY <2>2, TypesParts DEF LockInv, Rest, OwnInv
    <3> QED BY <3>1, OwnFacts DEF Kept
  <2> QED BY <2>1, <2>2 DEF CounterAgrees
<1> QED BY <1>1, LockInvariant, PTL

(* Who robs somebody is an administrator or the server, or was robbed: a   *)
(* client that was not touches only devices that it has locked itself.     *)
Rightly(by) == by \in Admins \cup {Server} \/ Robbed(by)

LEMMA ForceStep ==
    ASSUME NoAccidentalForce, NEW by, Robs(by),
           (\E p \in robbed' : p \notin robbed) => Rightly(by)
    PROVE  NoAccidentalForce'
<1>1. robbed \subseteq robbed'
  BY DEF Robs
<1>2. \A q : Robbed(q) => Robbed(q)'
  BY <1>1 DEF Robbed
<1>3. ASSUME NEW p \in robbed' PROVE p[2] \in Admins \cup {Server} \/ Robbed(p[2])'
  <2>1. CASE p \in robbed
    BY <1>2, <2>1 DEF NoAccidentalForce
  <2>2. CASE p \notin robbed
    <3>1. p[2] = by /\ Rightly(by)
      BY <2>2 DEF Robs
    <3> QED BY <1>2, <3>1 DEF Rightly
  <2> QED BY <2>1, <2>2
<1> QED BY <1>3 DEF NoAccidentalForce

(* A step of c that changes only devices that c has locked, or that nobody *)
(* else holds, robs nobody.                                                *)
LEMMA NobodyRobbed ==
    ASSUME NEW c \in Clients, Robs(c),
           \A d \in Devices : dev'[d] # dev[d] =>
              \A b \in Clients \ {c} : ~ Holds(dev[d], b)
    PROVE  ~ \E p \in robbed' : p \notin robbed
BY DEF Robs

LEMMA ForceNext == LockInv /\ NoAccidentalForce /\ [Next]_vars => NoAccidentalForce'
<1> SUFFICES ASSUME LockInv, NoAccidentalForce, [Next]_vars PROVE NoAccidentalForce'
  OBVIOUS
<1> USE DEF LockInv
<1>1. ASSUME robbed' = robbed PROVE NoAccidentalForce'
  BY <1>1 DEF NoAccidentalForce, Robbed
<1>2. CASE UNCHANGED vars
  BY <1>1, <1>2 DEF vars
<1>3. ASSUME NEW c \in Clients, NEW d \in Devices, NEW forced \in BOOLEAN, Unlock(c, d, forced)
      PROVE  NoAccidentalForce'
  <2>1. AfterUnlock(c, d, forced) /\ (forced => c \in Admins)
        /\ (forced \/ ~ LockedByOther(dev[d], c))
    BY <1>3, Zenon DEF Unlock
  <2>2. Robs(c) /\ OneDevice(d, Unlocked(dev[d], forced))
    BY <2>1, UnlockEffect
  <2>3. CASE forced
    BY <2>1, <2>2, <2>3, ForceStep DEF Rightly
  <2>4. CASE ~ forced
    <3>1. \A b \in Clients \ {c} : ~ Holds(dev[d], b)
      BY <2>1, <2>4 DEF LockedByOther, Holds
    <3>2. \A e \in Devices : dev'[e] # dev[e] => e = d
      BY <2>2 DEF OneDevice
    <3> QED BY <2>2, <3>1, <3>2, NobodyRobbed, ForceStep
  <2> QED BY <2>3, <2>4
<1>4. ASSUME NEW c \in Clients, NEW d \in Devices, DestroyProxy(c, d)
      PROVE  NoAccidentalForce'
  <2>1. AfterUnlock(c, d, TRUE) /\ Runs(c) /\ proxy[c][d].ctr > 0
    BY <1>4 DEF DestroyProxy
  <2>2. Robs(c) /\ OneDevice(d, Unlocked(dev[d], TRUE)) /\ c \in alive
    BY <2>1, UnlockEffect DEF Runs
  <2>3. CASE Robbed(c)
    BY <2>2, <2>3, ForceStep DEF Rightly
  <2>4. CASE ~ Robbed(c)
    <3>1. Own(c)
      BY <2>2, <2>4 DEF OwnInv
    <3>2. owed[c][d] > 0
      BY <2>1, <3>1, OwnFacts
    <3>3. LockedBy(dev[d], c)
      BY <3>1, <3>2, Holding
    <3>4. \A b \in Clients \ {c} : ~ Holds(dev[d], b)
      BY <3>3 DEF LockedBy, Holds
    <3>5. \A e \in Devices : dev'[e] # dev[e] => e = d
      BY <2>2 DEF OneDevice
    <3> QED BY <2>2, <3>4, <3>5, NobodyRobbed, ForceStep
  <2> QED BY <2>3, <2>4
<1>5. ASSUME NEW c \in Clients, Exit(c) PROVE NoAccidentalForce'
  <2>1. /\ Robs(c) /\ Runs(c)
        /\ \A d \in Devices :
                 dev'[d] = IF thread[c].at = "wait" /\ d \in thread[c].devs
                           THEN Unlocked(dev[d], TRUE) ELSE dev[d]
    BY <1>5, ExitEffect
  <2>2. CASE Robbed(c)
    BY <2>1, <2>2, ForceStep DEF Rightly
  <2>3. CASE ~ Robbed(c)
    <3>1. Own(c) /\ app[c].at = "idle" /\ thread[c].cmd = NoCmd
      BY <2>1, <2>3, KeptTypes DEF OwnInv, Runs
    <3>2. ASSUME NEW d \in Devices, dev'[d] # dev[d], NEW b \in Clients \ {c}
          PROVE  ~ Holds(dev[d], b)
      <4>1. d \in thread[c].devs
        BY <2>1, <3>2
      <4>2. ~ Leaving(thread[c], app[c], d)
        BY <3>1 DEF Leaving
      <4>3. owed[c][d] > 0
        BY <3>1, <4>1, <4>2, OwnFacts DEF Kept
      <4>4. LockedBy(dev[d], c)
        BY <3>1, <4>3, Holding
      <4> QED BY <4>4 DEF LockedBy, Holds
    <3> QED BY <2>1, <3>2, NobodyRobbed, ForceStep
  <2> QED BY <2>2, <2>3
<1>6. ASSUME RestartServer PROVE NoAccidentalForce'
  BY <1>6, RestartServerEffect, ForceStep DEF Rightly
<1>7. ASSUME NEW c \in Clients, NEW d \in Devices, NEW v \in Validities[c], Lock(c, d, v)
      PROVE  NoAccidentalForce'
  BY <1>1, <1>7, LockEffect
<1>8. ASSUME NEW c \in Clients, AddDev(c) \/ RemDev(c) \/ Crash(c) \/ ThreadStep(c)
      PROVE  NoAccidentalForce'
  <2>1. CASE AddDev(c)
    BY <1>1, <2>1, AddDevEffect DEF Moved
  <2>2. CASE RemDev(c)
    BY <1>1, <2>2, RemDevEffect DEF Moved
  <2>3. CASE Crash(c)
    BY <1>1, <2>3, CrashEffect
  <2>4. CASE ThreadStep(c)
    <3>1. robbed' = robbed
      BY <2>4, ExecuteCmdEffect, OneMoreLockEffect, ReLockEffect, RelockDoneEffect
         DEF ThreadStep, Moved
    <3> QED BY <1>1, <3>1
  <2> QED BY <1>8, <2>1, <2>2, <2>3, <2>4
<1>9. Asked \/ Tick => NoAccidentalForce'
  BY <1>1, TickEffect DEF Asked
<1> QED BY <1>2, <1>3, <1>4, <1>5, <1>6, <1>7, <1>8, <1>9, NextSteps

(* A forced unlock that nobody asked for (the destructor of a proxy, the    *)
(* end of a process) never takes a lock from another client, unless the     *)
(* client that makes it was robbed before: under the same hypothesis.       *)
THEOREM LockNoAccidentalForce == ASSUME SameValidity PROVE Spec => []NoAccidentalForce
<1>1. Init => NoAccidentalForce
  BY DEF Init, NoAccidentalForce
<1> QED BY <1>1, ForceNext, LockInvariant, PTL DEF Spec

=============================================================================
