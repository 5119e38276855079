---------------------------- MODULE TangoMonitor ----------------------------
(***************************************************************************)
(* The recursive, timed monitor that serialises the access to devices      *)
(* (class TangoMonitor).  A monitor is an omni_mutex, a condition variable *)
(* and an owner with a nesting counter.  The mutex is held during the      *)
(* whole of get_monitor and rel_monitor except while the thread sleeps on  *)
(* the condition variable, so each of the steps below is atomic.           *)
(***************************************************************************)
EXTENDS Naturals, FiniteSets

CONSTANTS
    Threads,   \* the threads of the process
    Monitors,  \* the monitors: one per device, per class, per process
    NoThread,  \* locking_thread = nullptr
    MaxDepth   \* bound: nesting of get_monitor calls of a thread on one monitor

ASSUME MonitorAssumption ==
    /\ NoThread \notin Threads
    /\ MaxDepth \in Nat \ {0}

VARIABLES
    locked_ctr,      \* [Monitors -> Nat], the nesting counter
    locking_thread,  \* [Monitors -> Threads \cup {NoThread}]
    phase,           \* [Threads -> Phase], where the thread is in get_monitor
    wanted,          \* [Threads -> Monitors], the monitor of the current or last get_monitor
    held             \* [Threads -> [Monitors -> Nat]], acquisitions the thread has not released

vars == <<locked_ctr, locking_thread, phase, wanted, held>>

(***************************************************************************)
(* "run"     : outside get_monitor                                         *)
(* "wait"    : asleep in cond.timedwait                                    *)
(* "woken"   : signalled, not yet back with the mutex                      *)
(* "expired" : the timed wait ended by its timeout, not yet back           *)
(***************************************************************************)
Phase == {"run", "wait", "woken", "expired"}

Waiting(m) == {t \in Threads : phase[t] = "wait" /\ wanted[t] = m}
Woken(m)   == {t \in Threads : phase[t] = "woken" /\ wanted[t] = m}

Init ==
    /\ locked_ctr = [m \in Monitors |-> 0]
    /\ locking_thread = [m \in Monitors |-> NoThread]
    /\ phase = [t \in Threads |-> "run"]
    /\ wanted \in [Threads -> Monitors]
    /\ held = [t \in Threads |-> [m \in Monitors |-> 0]]

-----------------------------------------------------------------------------

(* The end of get_monitor: the caller owns the monitor once more. *)
Acquire(t, m) ==
    /\ locking_thread' = [locking_thread EXCEPT ![m] = t]
    /\ locked_ctr' = [locked_ctr EXCEPT ![m] = @ + 1]
    /\ held' = [held EXCEPT ![t][m] = @ + 1]

(* Faulty variants of the operations below. *)
ExpireNever(t) ==
    /\ phase[t] = "expired"
    /\ UNCHANGED vars

SignalNobody(m) == UNCHANGED phase

RelMonitorByAnyone(t, m) ==
    /\ phase[t] = "run"
    /\ locked_ctr[m] < MaxDepth
    /\ locked_ctr' = [locked_ctr EXCEPT ![m] = @ - 1]
    /\ held' = [held EXCEPT ![t][m] = IF @ = 0 THEN 0 ELSE @ - 1]
    /\ IF locked_ctr[m] = 1
       THEN locking_thread' = [locking_thread EXCEPT ![m] = NoThread]
       ELSE UNCHANGED locking_thread
    /\ UNCHANGED <<phase, wanted>>

(* get_monitor: a free monitor, or one the caller owns, is taken at once;   *)
(* otherwise the caller goes to sleep on the condition variable.            *)
GetMonitor(t, m) ==
    /\ phase[t] = "run"
    /\ held[t][m] < MaxDepth
    /\ wanted' = [wanted EXCEPT ![t] = m]
    /\ IF locked_ctr[m] = 0 \/ locking_thread[m] = t
       THEN Acquire(t, m) /\ UNCHANGED phase
       ELSE /\ phase' = [phase EXCEPT ![t] = "wait"]
            /\ UNCHANGED <<locked_ctr, locking_thread, held>>

(* The while loop of get_monitor after a signal: another thread may have    *)
(* taken the monitor in between, in which case the caller sleeps again.     *)
WakeUp(t) ==
    LET m == wanted[t] IN
    /\ phase[t] = "woken"
    /\ UNCHANGED wanted
    /\ IF locked_ctr[m] > 0
       THEN /\ phase' = [phase EXCEPT ![t] = "wait"]
            /\ UNCHANGED <<locked_ctr, locking_thread, held>>
       ELSE Acquire(t, m) /\ phase' = [phase EXCEPT ![t] = "run"]

(* cond.timedwait ends by its timeout. *)
Expire(t) ==
    /\ phase[t] = "wait"
    /\ phase' = [phase EXCEPT ![t] = "expired"]
    /\ UNCHANGED <<locked_ctr, locking_thread, wanted, held>>

(* A spurious return of cond.timedwait, which the condition variable allows. *)
Spurious(t) ==
    /\ phase[t] = "wait"
    /\ phase' = [phase EXCEPT ![t] = "woken"]
    /\ UNCHANGED <<locked_ctr, locking_thread, wanted, held>>

(* get_monitor throws API_CommandTimedOut: the test is on the return value  *)
(* of wait() alone, not on locked_ctr.                                      *)
ThrowTimedOut(t) ==
    /\ phase[t] = "expired"
    /\ phase' = [phase EXCEPT ![t] = "run"]
    /\ UNCHANGED <<locked_ctr, locking_thread, wanted, held>>

(* cond.signal(): one of the sleeping threads, if there is one, wakes up. *)
Signal(m) ==
    IF Waiting(m) = {}
    THEN UNCHANGED phase
    ELSE \E w \in Waiting(m) : phase' = [phase EXCEPT ![w] = "woken"]

(* rel_monitor by a thread that does not own the monitor returns at once.   *)
(* Such calls happen: PollThread::poll_cmd releases the monitor in its      *)
(* exception handler, even when it was get_monitor that threw.              *)
RelMonitorNotOwner(t, m) ==
    /\ phase[t] = "run"
    /\ locked_ctr[m] = 0 \/ locking_thread[m] # t
    /\ UNCHANGED vars

(* rel_monitor by the owner: the last release frees the monitor and signals *)
(* one of the threads that sleep.                                           *)
RelMonitor(t, m) ==
    /\ phase[t] = "run"
    /\ locked_ctr[m] # 0 /\ locking_thread[m] = t
    /\ locked_ctr' = [locked_ctr EXCEPT ![m] = @ - 1]
    /\ held' = [held EXCEPT ![t][m] = @ - 1]
    /\ IF locked_ctr[m] = 1
       THEN /\ locking_thread' = [locking_thread EXCEPT ![m] = NoThread]
            /\ Signal(m)
       ELSE UNCHANGED <<locking_thread, phase>>
    /\ UNCHANGED wanted

-----------------------------------------------------------------------------

Next ==
    \E t \in Threads :
        \/ \E m \in Monitors : GetMonitor(t, m)
        \/ WakeUp(t)
        \/ Expire(t)
        \/ Spurious(t)
        \/ ThrowTimedOut(t)
        \/ \E m \in Monitors : RelMonitor(t, m) \/ RelMonitorNotOwner(t, m)

(***************************************************************************)
(* Fairness: a runnable thread gets the mutex and goes on, and a timed     *)
(* wait ends.  Nothing is assumed of what runs outside the monitor: a      *)
(* thread may never ask for a monitor, and may keep one for ever.          *)
(***************************************************************************)
Fairness ==
    \A t \in Threads :
        /\ WF_vars(WakeUp(t))
        /\ WF_vars(Expire(t))
        /\ WF_vars(ThrowTimedOut(t))

Spec == Init /\ [][Next]_vars

FairSpec == Spec /\ Fairness

-----------------------------------------------------------------------------

(* The members of the monitors and the places of the threads in            *)
(* get_monitor have their types; no counter goes below zero.               *)
TypeOK ==
    /\ locked_ctr \in [Monitors -> Nat]
    /\ locking_thread \in [Monitors -> Threads \cup {NoThread}]
    /\ phase \in [Threads -> Phase]
    /\ wanted \in [Threads -> Monitors]
    /\ held \in [Threads -> [Monitors -> Nat]]

(* Ownership: the nesting counter of a monitor is exactly the number of     *)
(* acquisitions its owner has not released, and no other thread has any: a  *)
(* release by the wrong thread, or one too many after a timed out           *)
(* get_monitor, never frees a monitor under its owner (rel_monitor).        *)
Ownership ==
    \A m \in Monitors :
        /\ (locking_thread[m] = NoThread) <=> (locked_ctr[m] = 0)
        /\ \A t \in Threads :
              held[t][m] = IF locking_thread[m] = t THEN locked_ctr[m] ELSE 0

(* No lost wake-up: a free monitor with sleeping threads has at least one   *)
(* of them on its way to take it, although rel_monitor signals only one     *)
(* thread and a timeout may remove any of them from the queue.              *)
NoLostWakeUp ==
    \A m \in Monitors :
        locked_ctr[m] = 0 /\ Waiting(m) # {} => Woken(m) # {}

(* A set of threads every one of which sleeps on a monitor that another one *)
(* of the set owns: the deadlock of two devices calling each other.         *)
DeadlockedSet(S) ==
    \A t \in S : phase[t] = "wait" /\ locking_thread[wanted[t]] \in S

(* The timeout of get_monitor breaks every circular wait, whatever the      *)
(* number of threads in it.                                                 *)
CircularWaitBroken ==
    \A S \in (SUBSET Threads) \ {{}} : DeadlockedSet(S) ~> ~ DeadlockedSet(S)

=============================================================================
