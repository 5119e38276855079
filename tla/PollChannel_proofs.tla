------------------------- MODULE PollChannel_proofs -------------------------
(***************************************************************************)
(* Proofs about the channel of a polling thread, for any set of requesters *)
(* and any scenario: its types, that nothing is executed twice, that the   *)
(* front of an empty work list is never taken, and that a requester that   *)
(* has the channel for itself is acknowledged only what was executed.      *)
(***************************************************************************)
EXTENDS PollChannel, TLAPS

Place == RequesterPlace \cup PollerPlace

(* A signal leaves every thread alone, or moves one that slept to the      *)
(* place behind its wait.                                                  *)
Moves(place, after) ==
    /\ after \in [Threads -> Place]
    /\ \A t \in Threads :
          \/ after[t] = place[t]
          \/ place[t] = "asleep" /\ after[t] = "woken"
          \/ place[t] = "queued" /\ after[t] = "queue_woken"
          \/ place[t] = "posted" /\ after[t] = "ack_woken"

LEMMA WakeMoves ==
    ASSUME NEW place \in [Threads -> Place], NEW t \in Threads, place[t] \in SleepPlace
    PROVE  Moves(place, Wake(place, t))
<1>1. /\ place[t] = "asleep" => WokenPlace[place[t]] = "woken"
      /\ place[t] = "queued" => WokenPlace[place[t]] = "queue_woken"
      /\ place[t] = "posted" => WokenPlace[place[t]] = "ack_woken"
  BY DEF WokenPlace
<1> QED BY <1>1 DEF Moves, Wake, SleepPlace, Place, RequesterPlace, PollerPlace

LEMMA SignalMoves ==
    ASSUME NEW place \in [Threads -> Place], NEW after \in AfterSignal(place)
    PROVE  Moves(place, after)
<1>1. CASE after = place
  BY <1>1 DEF Moves
<1>2. CASE after # place
  <2>1. PICK t \in Sleepers(place) : after = Wake(place, t)
    BY <1>2 DEF AfterSignal
  <2> QED BY <2>1, WakeMoves DEF Sleepers
<1> QED BY <1>1, <1>2

-----------------------------------------------------------------------------
(* What a step of each kind does to the buffer and to the places of the    *)
(* threads, where signals are concerned.                                   *)

(* The buffer is filled and somebody is signalled. *)
LEMMA FillStep ==
    ASSUME TypeOK, NEW r \in Requesters, NEW k \in RequestKind, NEW q \in Requests,
           pc[r] \notin SleepPlace, Fill(r, k, q)
    PROVE  /\ shared_cmd' \in Buffer
           /\ shared_cmd'.target = q
           /\ k = "trigger" => shared_cmd'.trigger /\ shared_cmd'.cmd_pending = shared_cmd.cmd_pending
                               /\ shared_cmd'.cmd_code = shared_cmd.cmd_code
           /\ k # "trigger" => shared_cmd'.cmd_pending /\ shared_cmd'.cmd_code = "object"
                               /\ shared_cmd'.trigger = shared_cmd.trigger
           /\ Moves([pc EXCEPT ![r] = IF k = "post" THEN "idle" ELSE "posted"], pc')
           /\ pc'[r] = IF k = "post" THEN "idle" ELSE "posted"
<1>1. pc \in [Threads -> Place] /\ r \in Threads
  BY DEF TypeOK, Place, Threads
<1>2. PICK after \in AfterSignal(pc) :
        pc' = [after EXCEPT ![r] = IF k = "post" THEN "idle" ELSE "posted"]
  BY DEF Fill
<1>3. Moves(pc, after)
  BY <1>1, SignalMoves
<1>4. Moves([pc EXCEPT ![r] = IF k = "post" THEN "idle" ELSE "posted"], pc')
      /\ pc'[r] = IF k = "post" THEN "idle" ELSE "posted"
  BY <1>1, <1>2, <1>3 DEF Moves, Place, RequesterPlace
<1> QED BY <1>4 DEF Fill, TypeOK, Buffer

(* A thread goes elsewhere and signals. *)
LEMMA GoAndSignal ==
    ASSUME TypeOK, NEW t \in Threads, NEW p \in Place,
           pc' \in AfterSignal([pc EXCEPT ![t] = p])
    PROVE  Moves([pc EXCEPT ![t] = p], pc')
<1>1. [pc EXCEPT ![t] = p] \in [Threads -> Place]
  BY DEF TypeOK, Place
<1> QED BY <1>1, SignalMoves

(* The places of requesters and of the polling thread stay apart.          *)
LEMMA PlacesApart ==
    ASSUME TypeOK, NEW t \in Threads,
           NEW p \in IF t = Poller THEN PollerPlace ELSE RequesterPlace,
           Moves([pc EXCEPT ![t] = p], pc')
    PROVE  /\ pc' \in [Threads -> RequesterPlace \cup PollerPlace]
           /\ \A u \in Threads : pc'[u] \in IF u = Poller THEN PollerPlace ELSE RequesterPlace
BY DEF TypeOK, Moves, Place, RequesterPlace, PollerPlace

-----------------------------------------------------------------------------

LEMMA TypeStep == ASSUME TypeOK, [Next]_vars PROVE TypeOK'
<1> USE ChannelAssumption
<1>t. Poller \in Threads /\ Requesters \subseteq Threads /\ \A r \in Requesters : r # Poller
  BY DEF Threads
<1>p. ASSUME NEW t \in Threads, NEW p \in IF t = Poller THEN PollerPlace ELSE RequesterPlace,
             pc' = [pc EXCEPT ![t] = p] \/ pc' \in AfterSignal([pc EXCEPT ![t] = p])
      PROVE  /\ pc' \in [Threads -> RequesterPlace \cup PollerPlace]
             /\ \A u \in Threads : pc'[u] \in IF u = Poller THEN PollerPlace ELSE RequesterPlace
  <2>1. p \in Place
    BY <1>p DEF Place
  <2>2. Moves([pc EXCEPT ![t] = p], pc')
    <3>1. CASE pc' = [pc EXCEPT ![t] = p]
      BY <2>1, <3>1 DEF Moves, TypeOK, Place
    <3>2. CASE pc' \in AfterSignal([pc EXCEPT ![t] = p])
      BY <2>1, <3>2, GoAndSignal
    <3> QED BY <1>p, <3>1, <3>2
  <2> QED BY <1>p, <2>2, PlacesApart
<1>f. ASSUME NEW r \in Requesters, NEW k \in RequestKind, NEW q \in Requests,
             pc[r] \notin SleepPlace, Fill(r, k, q)
      PROVE  /\ shared_cmd' \in Buffer
             /\ pc' \in [Threads -> RequesterPlace \cup PollerPlace]
             /\ \A u \in Threads : pc'[u] \in IF u = Poller THEN PollerPlace ELSE RequesterPlace
  <2> DEFINE p == IF k = "post" THEN "idle" ELSE "posted"
  <2>1. p \in RequesterPlace /\ r \in Threads /\ r # Poller
    BY <1>t DEF RequesterPlace
  <2>2. shared_cmd' \in Buffer /\ Moves([pc EXCEPT ![r] = p], pc')
    BY <1>f, FillStep
  <2> QED BY <2>1, <2>2, PlacesApart
<1>1. ASSUME NEW r \in Requesters, NEW k \in RequestKind, Request(r, k) PROVE TypeOK'
  <2>1. <<r, sent[r] + 1>> \in Requests /\ pc[r] \notin SleepPlace
    BY <1>1, <1>t DEF Request, Requests, TypeOK, SleepPlace
  <2>2. sent' \in [Threads -> Nat] /\ kind' \in [Requesters -> RequestKind]
    BY <1>1, <1>t DEF Request, TypeOK
  <2>3. CASE Busy(k)
    <3>1. "queued" \in RequesterPlace
      BY DEF RequesterPlace
    <3>2. shared_cmd' = shared_cmd /\ pc' = [pc EXCEPT ![r] = "queued"]
      BY <1>1, <2>3 DEF Request
    <3> QED BY <1>1, <1>t, <1>p, <2>2, <3>1, <3>2 DEF Request, TypeOK
  <2>4. CASE ~ Busy(k)
    <3>1. Fill(r, k, <<r, sent[r] + 1>>)
      BY <1>1, <2>4 DEF Request
    <3> QED BY <1>1, <1>f, <2>1, <2>2, <3>1 DEF Request, TypeOK
  <2> QED BY <2>3, <2>4
<1>2. ASSUME NEW r \in Requesters, Dequeue(r) PROVE TypeOK'
  <2>1. /\ Current(r) \in Requests /\ pc[r] \notin SleepPlace /\ kind[r] \in RequestKind
        /\ Fill(r, kind[r], Current(r))
    BY <1>2, <1>t DEF Dequeue, Current, Requests, TypeOK, SleepPlace
  <2> QED BY <1>2, <1>f, <2>1 DEF Dequeue, TypeOK
<1>3. ASSUME NEW r \in Requesters, Confirm(r) \/ ConfirmExpired(r) PROVE TypeOK'
  <2>1. Current(r) \in Requests /\ "idle" \in RequesterPlace /\ "posted" \in RequesterPlace
    BY <1>t DEF Current, Requests, TypeOK, RequesterPlace
  <2>2. /\ pc' \in [Threads -> RequesterPlace \cup PollerPlace]
        /\ \A u \in Threads : pc'[u] \in IF u = Poller THEN PollerPlace ELSE RequesterPlace
    <3>1. \E p \in {"idle", "posted"} :
             pc' = [pc EXCEPT ![r] = p] \/ pc' \in AfterSignal([pc EXCEPT ![r] = p])
      BY <1>3 DEF Confirm, ConfirmExpired
    <3> QED BY <1>t, <1>p, <2>1, <3>1
  <2>3. shared_cmd' \in Buffer /\ acked' \subseteq Requests
    <3>1. shared_cmd' \in {shared_cmd, [shared_cmd EXCEPT !.cmd_pending = TRUE, !.cmd_code = "exit"]}
      BY <1>3 DEF Confirm, ConfirmExpired
    <3>2. acked' \in {acked, acked \cup {Current(r)}}
      BY <1>3 DEF Confirm, ConfirmExpired
    <3>3. shared_cmd' \in Buffer
      BY <3>1 DEF TypeOK, Buffer
    <3> QED BY <2>1, <3>2, <3>3 DEF TypeOK
  <2> QED BY <1>3, <2>2, <2>3 DEF Confirm, ConfirmExpired, TypeOK
<1>4. ASSUME NEW r \in Requesters, Expire(r) \/ Kill(r) \/ Joined(r) PROVE TypeOK'
  <2>1. {"ack_expired", "joining", "gone"} \subseteq RequesterPlace
    BY DEF RequesterPlace
  <2>2. /\ pc' \in [Threads -> RequesterPlace \cup PollerPlace]
        /\ \A u \in Threads : pc'[u] \in IF u = Poller THEN PollerPlace ELSE RequesterPlace
    BY <1>4, <1>t, <1>p, <2>1 DEF Expire, Kill, Joined
  <2> QED BY <1>4, <2>2 DEF Expire, Kill, Joined, TypeOK, Buffer
<1>5. ASSUME PollerStep PROVE TypeOK'
  <2>0. {"loop", "asleep", "poll", "execute", "trigger", "self", "exited", "undefined"} \subseteq PollerPlace
    BY DEF PollerPlace
  <2>1. /\ pc' \in [Threads -> RequesterPlace \cup PollerPlace]
        /\ \A u \in Threads : pc'[u] \in IF u = Poller THEN PollerPlace ELSE RequesterPlace
    <3> DEFINE Goes(p) == pc' = [pc EXCEPT ![Poller] = p] \/ pc' \in AfterSignal([pc EXCEPT ![Poller] = p])
    <3>1. CASE GetCommand \/ GetCommandAtOnce \/ EndOfWait
      <4>1. Goes("asleep") \/ Goes("poll") \/ Goes("execute") \/ Goes("trigger") \/ Goes("undefined")
        BY <3>1 DEF GetCommand, GetCommandAtOnce, EndOfWait, TakeCommand
      <4> QED BY <1>t, <1>p, <2>0, <4>1
    <3>2. CASE ExecuteCmd \/ OneMoreTrigg \/ OneMorePoll
      <4>1. Goes("loop") \/ Goes("exited")
        BY <3>2 DEF ExecuteCmd, OneMoreTrigg, OneMorePoll
      <4> QED BY <1>t, <1>p, <2>0, <4>1
    <3>3. CASE SelfRequest \/ SelfExecute
      <4>1. Goes("self") \/ Goes("poll") \/ Goes("trigger")
        BY <3>3 DEF SelfRequest, SelfExecute
      <4> QED BY <1>t, <1>p, <2>0, <4>1
    <3> QED BY <1>5, <3>1, <3>2, <3>3 DEF PollerStep
  <2>2. CASE GetCommand \/ GetCommandAtOnce \/ EndOfWait
    <3>1. /\ UNCHANGED <<scenario, shared_cmd, works_empty, kind, sent, executed, acked>>
          /\ local_cmd' \in {local_cmd, shared_cmd}
          /\ trigger_work' \in {trigger_work, shared_cmd.target}
      BY <2>2 DEF GetCommand, GetCommandAtOnce, EndOfWait, TakeCommand
    <3>2. local_cmd' \in Buffer /\ trigger_work' \in Requests \cup {NoRequest}
      BY <3>1 DEF TypeOK, Buffer
    <3> QED BY <2>1, <3>1, <3>2 DEF TypeOK
  <2>3. CASE ExecuteCmd
    <3>1. shared_cmd' \in {shared_cmd, [shared_cmd EXCEPT !.cmd_pending = FALSE]}
      BY <2>3 DEF ExecuteCmd
    <3>2. executed' \in {executed, executed \cup {<<"cmd", local_cmd.target>>}}
      BY <2>3 DEF ExecuteCmd
    <3>3. local_cmd.target \in Requests \cup {NoRequest} /\ shared_cmd' \in Buffer
      BY <3>1 DEF TypeOK, Buffer
    <3>4. executed' \subseteq {"cmd", "trigger"} \X (Requests \cup {NoRequest})
      BY <3>2, <3>3 DEF TypeOK
    <3>5. works_empty' \in BOOLEAN
      BY <2>3 DEF ExecuteCmd, TypeOK
    <3> QED BY <2>1, <2>3, <3>3, <3>4, <3>5 DEF ExecuteCmd, TypeOK
  <2>4. CASE OneMoreTrigg
    <3>1. shared_cmd' \in Buffer /\ trigger_work' \in Requests \cup {NoRequest}
      BY <2>4 DEF OneMoreTrigg, TypeOK, Buffer
    <3>2. executed' \subseteq {"cmd", "trigger"} \X (Requests \cup {NoRequest})
      BY <2>4 DEF OneMoreTrigg, TypeOK
    <3> QED BY <2>1, <2>4, <3>1, <3>2 DEF OneMoreTrigg, TypeOK
  <2>7. CASE OneMorePoll
    BY <2>1, <2>7 DEF OneMorePoll, TypeOK
  <2>5. CASE SelfRequest
    <3>1. <<Poller, sent[Poller] + 1>> \in Requests /\ sent' \in [Threads -> Nat]
      BY <1>t, <2>5 DEF SelfRequest, Requests, TypeOK
    <3> QED BY <2>1, <2>5, <3>1 DEF SelfRequest, TypeOK, Buffer
  <2>6. CASE SelfExecute
    <3>1. shared_cmd' \in {shared_cmd, [shared_cmd EXCEPT !.cmd_pending = FALSE]}
      BY <2>6 DEF SelfExecute
    <3>2. executed' \in {executed, executed \cup {<<"cmd", local_cmd.target>>}}
      BY <2>6 DEF SelfExecute
    <3>3. local_cmd.target \in Requests \cup {NoRequest} /\ shared_cmd' \in Buffer
      BY <3>1 DEF TypeOK, Buffer
    <3>4. executed' \subseteq {"cmd", "trigger"} \X (Requests \cup {NoRequest})
      BY <3>2, <3>3 DEF TypeOK
    <3>5. works_empty' \in BOOLEAN
      BY <2>6 DEF SelfExecute, TypeOK
    <3> QED BY <2>1, <2>6, <3>3, <3>4, <3>5 DEF SelfExecute, TypeOK
  <2> QED BY <1>5, <2>2, <2>3, <2>4, <2>5, <2>6, <2>7 DEF PollerStep
<1>6. ASSUME NEW t \in Threads, Spurious(t) PROVE TypeOK'
  <2>1. pc \in [Threads -> Place] /\ pc' = Wake(pc, t) /\ pc[t] \in SleepPlace
    BY <1>6 DEF Spurious, TypeOK, Place
  <2>2. Moves(pc, pc')
    BY <2>1, WakeMoves
  <2>3. [pc EXCEPT ![t] = pc[t]] = pc
    BY <2>1
  <2>4. /\ pc' \in [Threads -> RequesterPlace \cup PollerPlace]
        /\ \A u \in Threads : pc'[u] \in IF u = Poller THEN PollerPlace ELSE RequesterPlace
    BY <2>2, <2>3, PlacesApart DEF TypeOK
  <2> QED BY <1>6, <2>4 DEF Spurious, TypeOK
<1>7. ASSUME UNCHANGED vars PROVE TypeOK'
  BY <1>7 DEF vars, TypeOK
<1> QED BY <1>1, <1>2, <1>3, <1>4, <1>5, <1>6, <1>7 DEF Next

LEMMA TypeInit == Init => TypeOK
BY ChannelAssumption
   DEF Init, TypeOK, Buffer, Threads, RequesterPlace, PollerPlace, RequestKind

(* The buffer, its copy and the places of the threads stay in their types, *)
(* whoever uses the channel.                                               *)
THEOREM ChannelTypes == Spec => []TypeOK
BY TypeInit, TypeStep, PTL DEF Spec

-----------------------------------------------------------------------------

(* A request that has filled the buffer, or left a trace of its execution  *)
(* or acknowledgement.                                                     *)
Seen(q) ==
    \/ q \in {shared_cmd.target, local_cmd.target, trigger_work}
    \/ <<"cmd", q>> \in executed \/ <<"trigger", q>> \in executed

QueuePlace == {"queued", "queue_woken"}

(* Requests are numbered: none is seen before it is made, nor while its    *)
(* requester still waits for the buffer.                                   *)
FreshInv ==
    \A t \in Threads, n \in Nat :
        Seen(<<t, n>>) => n <= sent[t] /\ (pc[t] \in QueuePlace => n # sent[t])

(* What is in the buffer or was taken from it has not been executed.       *)
OnceInv ==
    /\ shared_cmd.cmd_pending /\ shared_cmd.cmd_code = "object"
          => <<"cmd", shared_cmd.target>> \notin executed
    /\ shared_cmd.trigger
          => shared_cmd.target # NoRequest /\ <<"trigger", shared_cmd.target>> \notin executed
    /\ pc[Poller] = "execute" /\ local_cmd.cmd_code = "object"
          => <<"cmd", local_cmd.target>> \notin executed
    /\ pc[Poller] = "trigger" => trigger_work # NoRequest
    /\ trigger_work # NoRequest
          => pc[Poller] \in {"trigger", "self"} /\ <<"trigger", trigger_work>> \notin executed

(* The polling thread is woken from a wait without a timeout by a signal   *)
(* that comes with a command or a trigger.                                 *)
WokenInv ==
    ~ scenario.spurious =>
        /\ pc[Poller] # "undefined"
        /\ pc[Poller] = "woken" /\ works_empty => shared_cmd.cmd_pending \/ shared_cmd.trigger

(* A requester r that has the channel for itself: the polling thread never *)
(* executes a command that is not pending any more; r leaves the wait for  *)
(* the buffer only when the buffer is free; from then on until r returns   *)
(* its command is in the buffer, and in the copy of it, or executed.       *)
InHand(r) ==
    /\ shared_cmd.cmd_pending /\ shared_cmd.cmd_code = "object"
    /\ shared_cmd.target = Current(r)
    /\ pc[Poller] = "execute" => local_cmd.cmd_code = "object" /\ local_cmd.target = Current(r)
AloneWith(r) ==
    /\ \A q \in Requesters \ {r} : pc[q] = "idle"
    /\ ~ shared_cmd.trigger /\ kind[r] # "trigger" /\ pc[Poller] \notin {"trigger", "self"}
    /\ pc[Poller] = "execute" => shared_cmd.cmd_pending
    /\ pc[r] = "queue_woken" => ~ shared_cmd.cmd_pending
    /\ pc[r] \in {"posted", "ack_woken", "ack_expired"}
          => InHand(r) \/ <<"cmd", Current(r)>> \in executed
    /\ pc[r] = "idle" /\ Current(r) \in acked => <<"cmd", Current(r)>> \in executed
AloneInv == \A r \in Requesters : Alone(r) => AloneWith(r)

(* Only requests that were made are acknowledged, each when it returns.    *)
AckedInv ==
    /\ \A r \in Requesters, n \in Nat : <<r, n>> \in acked => n <= sent[r]
    /\ \A r \in Requesters : pc[r] \notin {"idle", "joining", "gone"} => Current(r) \notin acked

-----------------------------------------------------------------------------
(* The places after a step, as the invariants need them. *)

(* The thread u goes to a place of P by itself; the others move only if    *)
(* they are woken.                                                         *)
GoesTo(u, P) == \E p \in P : Moves([pc EXCEPT ![u] = p], pc')

LEMMA StepMoves ==
    ASSUME TypeOK
    PROVE  /\ \A r \in Requesters :
                 /\ \A k \in RequestKind : Request(r, k) => GoesTo(r, {"queued", "idle", "posted"})
                 /\ Dequeue(r) => GoesTo(r, {"idle", "posted"})
                 /\ Confirm(r) \/ ConfirmExpired(r) => GoesTo(r, {"idle", "posted"})
                 /\ Expire(r) => GoesTo(r, {"ack_expired"})
                 /\ Kill(r) => GoesTo(r, {"joining"})
                 /\ Joined(r) => GoesTo(r, {"gone"})
           /\ PollerStep => GoesTo(Poller, PollerPlace \ {"woken"})
           /\ \A t \in Threads : Spurious(t) => Moves(pc, pc')
<1> USE ChannelAssumption
<1>t. Poller \in Threads /\ Requesters \subseteq Threads /\ pc \in [Threads -> Place]
  BY DEF Threads, TypeOK, Place
<1>0. ASSUME NEW u \in Threads, NEW p \in Place,
             pc' = [pc EXCEPT ![u] = p] \/ pc' \in AfterSignal([pc EXCEPT ![u] = p])
      PROVE  Moves([pc EXCEPT ![u] = p], pc')
  <2>1. CASE pc' = [pc EXCEPT ![u] = p]
    BY <1>t, <2>1 DEF Moves
  <2> QED BY <1>0, <2>1, GoAndSignal
<1>p. {"queued", "idle", "posted", "ack_expired", "joining", "gone"} \subseteq Place
  BY DEF Place, RequesterPlace
<1>1. ASSUME NEW r \in Requesters, NEW k \in RequestKind, Request(r, k)
      PROVE  GoesTo(r, {"queued", "idle", "posted"})
  <2>1. CASE Busy(k)
    BY <1>0, <1>1, <1>t, <1>p, <2>1 DEF Request, GoesTo
  <2>2. CASE ~ Busy(k)
    <3>1. /\ <<r, sent[r] + 1>> \in Requests /\ pc[r] \notin SleepPlace
          /\ Fill(r, k, <<r, sent[r] + 1>>)
      BY <1>1, <1>t, <2>2 DEF Request, Requests, TypeOK, SleepPlace
    <3>2. Moves([pc EXCEPT ![r] = IF k = "post" THEN "idle" ELSE "posted"], pc')
      BY <3>1, FillStep
    <3> QED BY <3>2 DEF GoesTo
  <2> QED BY <2>1, <2>2
<1>2. ASSUME NEW r \in Requesters, Dequeue(r) PROVE GoesTo(r, {"idle", "posted"})
  <2>1. /\ Current(r) \in Requests /\ pc[r] \notin SleepPlace /\ kind[r] \in RequestKind
        /\ Fill(r, kind[r], Current(r))
    BY <1>2, <1>t DEF Dequeue, Current, Requests, TypeOK, SleepPlace
  <2>2. Moves([pc EXCEPT ![r] = IF kind[r] = "post" THEN "idle" ELSE "posted"], pc')
    BY <2>1, FillStep
  <2> QED BY <2>2 DEF GoesTo
<1>3. ASSUME NEW r \in Requesters, Confirm(r) \/ ConfirmExpired(r)
      PROVE  GoesTo(r, {"idle", "posted"})
  <2>1. \E p \in {"idle", "posted"} :
           pc' = [pc EXCEPT ![r] = p] \/ pc' \in AfterSignal([pc EXCEPT ![r] = p])
    BY <1>3 DEF Confirm, ConfirmExpired
  <2> QED BY <1>0, <1>t, <1>p, <2>1 DEF GoesTo
<1>4. ASSUME NEW r \in Requesters
      PROVE  /\ Expire(r) => GoesTo(r, {"ack_expired"})
             /\ Kill(r) => GoesTo(r, {"joining"})
             /\ Joined(r) => GoesTo(r, {"gone"})
  BY <1>0, <1>t, <1>p DEF Expire, Kill, Joined, GoesTo
<1>5. ASSUME PollerStep PROVE GoesTo(Poller, PollerPlace \ {"woken"})
  <2> DEFINE Goes(p) == pc' = [pc EXCEPT ![Poller] = p] \/ pc' \in AfterSignal([pc EXCEPT ![Poller] = p])
  <2>1. \/ Goes("asleep") \/ Goes("poll") \/ Goes("execute") \/ Goes("trigger") \/ Goes("undefined")
        \/ Goes("loop") \/ Goes("exited") \/ Goes("self")
    BY <1>5 DEF PollerStep, GetCommand, GetCommandAtOnce, EndOfWait, TakeCommand, ExecuteCmd,
                OneMoreTrigg, OneMorePoll, SelfRequest, SelfExecute
  <2>2. {"asleep", "poll", "execute", "trigger", "undefined", "loop", "exited", "self"} \subseteq Place
        /\ {"asleep", "poll", "execute", "trigger", "undefined", "loop", "exited", "self"}
               \subseteq PollerPlace \ {"woken"}
    BY DEF Place, PollerPlace
  <2> QED BY <1>0, <1>t, <2>1, <2>2 DEF GoesTo
<1>6. ASSUME NEW t \in Threads, Spurious(t) PROVE Moves(pc, pc')
  BY <1>6, <1>t, WakeMoves DEF Spurious
<1> QED BY <1>1, <1>2, <1>3, <1>4, <1>5, <1>6

(* No thread enters the wait for the buffer but by a request. *)
LEMMA StepQueues ==
    ASSUME TypeOK, [Next]_vars, \A r \in Requesters, k \in RequestKind : ~ Request(r, k)
    PROVE  \A t \in Threads : pc'[t] \in QueuePlace => pc[t] \in QueuePlace
<1> USE ChannelAssumption
<1>t. Poller \in Threads /\ Requesters \subseteq Threads /\ pc \in [Threads -> Place]
  BY DEF Threads, TypeOK, Place
<1>1. ASSUME NEW u \in Threads, NEW P, P \cap QueuePlace = {}, GoesTo(u, P)
      PROVE  \A t \in Threads : pc'[t] \in QueuePlace => pc[t] \in QueuePlace
  <2>1. PICK p \in P : Moves([pc EXCEPT ![u] = p], pc')
    BY <1>1 DEF GoesTo
  <2>2. p \notin QueuePlace
    BY <1>1
  <2> QED BY <1>t, <2>1, <2>2 DEF Moves, QueuePlace
<1>2. ASSUME Moves(pc, pc')
      PROVE  \A t \in Threads : pc'[t] \in QueuePlace => pc[t] \in QueuePlace
  BY <1>2 DEF Moves, QueuePlace
<1>3. /\ {"idle", "posted"} \cap QueuePlace = {} /\ {"ack_expired"} \cap QueuePlace = {}
      /\ {"joining"} \cap QueuePlace = {} /\ {"gone"} \cap QueuePlace = {}
      /\ (PollerPlace \ {"woken"}) \cap QueuePlace = {}
  BY DEF QueuePlace, PollerPlace
<1>4. ASSUME NEW r \in Requesters,
             Dequeue(r) \/ Confirm(r) \/ ConfirmExpired(r) \/ Expire(r) \/ Kill(r) \/ Joined(r)
      PROVE  \A t \in Threads : pc'[t] \in QueuePlace => pc[t] \in QueuePlace
  BY <1>t, <1>1, <1>3, <1>4, StepMoves
<1>5. ASSUME PollerStep
      PROVE  \A t \in Threads : pc'[t] \in QueuePlace => pc[t] \in QueuePlace
  BY <1>t, <1>1, <1>3, <1>5, StepMoves
<1>6. ASSUME NEW t \in Threads, Spurious(t)
      PROVE  \A u \in Threads : pc'[u] \in QueuePlace => pc[u] \in QueuePlace
  BY <1>2, <1>6, StepMoves
<1> QED BY <1>4, <1>5, <1>6 DEF Next, vars

-----------------------------------------------------------------------------

LEMMA FreshStep == ASSUME TypeOK, FreshInv, [Next]_vars PROVE FreshInv'
<1> USE ChannelAssumption
<1>t. /\ Poller \in Threads /\ Requesters \subseteq Threads /\ Poller \notin Requesters
      /\ sent \in [Threads -> Nat]
  BY DEF Threads, TypeOK
<1>0. ASSUME sent' = sent, \A q \in Requests : Seen(q)' => Seen(q),
             \A t \in Threads : pc'[t] \in QueuePlace => pc[t] \in QueuePlace
      PROVE  FreshInv'
  BY <1>0 DEF FreshInv, Requests
<1>1. ASSUME NEW r \in Requesters, NEW k \in RequestKind, Request(r, k) PROVE FreshInv'
  <2>1. sent' = [sent EXCEPT ![r] = @ + 1] /\ sent[r] \in Nat /\ <<r, sent[r] + 1>> \in Requests
    BY <1>1, <1>t DEF Request, Requests
  <2>2. \A q \in Requests : Seen(q)' => Seen(q) \/ (q = <<r, sent[r] + 1>> /\ pc'[r] \notin QueuePlace)
    <3>0. UNCHANGED <<local_cmd, trigger_work, executed>>
      BY <1>1 DEF Request
    <3>1. CASE Busy(k)
      BY <1>1, <3>0, <3>1 DEF Request, Seen
    <3>2. CASE ~ Busy(k)
      <4>1. Fill(r, k, <<r, sent[r] + 1>>) /\ pc[r] \notin SleepPlace
        BY <1>1, <3>2 DEF Request, SleepPlace
      <4>2. shared_cmd'.target = <<r, sent[r] + 1>> /\ pc'[r] \notin QueuePlace
        BY <2>1, <4>1, FillStep DEF QueuePlace
      <4> QED BY <3>0, <4>2 DEF Seen
    <3> QED BY <3>1, <3>2
  <2>3. \A t \in Threads \ {r} : pc'[t] \in QueuePlace => pc[t] \in QueuePlace
    <3>1. PICK p \in {"queued", "idle", "posted"} : Moves([pc EXCEPT ![r] = p], pc')
      BY <1>1, StepMoves DEF GoesTo
    <3> QED BY <3>1, <1>t DEF Moves, QueuePlace, TypeOK
  <2>4. ASSUME NEW t \in Threads, NEW n \in Nat, Seen(<<t, n>>)'
        PROVE  n <= sent'[t] /\ (pc'[t] \in QueuePlace => n # sent'[t])
    <3>1. <<t, n>> \in Requests
      BY DEF Requests
    <3>2. CASE Seen(<<t, n>>)
      BY <1>t, <2>1, <2>3, <3>2 DEF FreshInv
    <3>3. CASE ~ Seen(<<t, n>>)
      <4>1. t = r /\ n = sent[r] + 1 /\ pc'[r] \notin QueuePlace
        BY <2>2, <2>4, <3>1, <3>3
      <4> QED BY <1>t, <2>1, <4>1
    <3> QED BY <3>2, <3>3
  <2> QED BY <2>4 DEF FreshInv
<1>2. ASSUME NEW r \in Requesters, Dequeue(r) PROVE FreshInv'
  <2>1. /\ Current(r) \in Requests /\ pc[r] \notin SleepPlace /\ kind[r] \in RequestKind
        /\ Fill(r, kind[r], Current(r)) /\ UNCHANGED <<sent, local_cmd, trigger_work, executed>>
    BY <1>2, <1>t DEF Dequeue, Current, Requests, TypeOK, SleepPlace
  <2>2. shared_cmd'.target = <<r, sent[r]>> /\ pc'[r] \notin QueuePlace
    BY <2>1, FillStep DEF QueuePlace, Current
  <2>3. \A t \in Threads : pc'[t] \in QueuePlace => pc[t] \in QueuePlace
    <3>1. PICK p \in {"idle", "posted"} : Moves([pc EXCEPT ![r] = p], pc')
      BY <1>2, StepMoves DEF GoesTo
    <3> QED BY <3>1, <1>t DEF Moves, QueuePlace, TypeOK
  <2>4. ASSUME NEW t \in Threads, NEW n \in Nat, Seen(<<t, n>>)'
        PROVE  n <= sent'[t] /\ (pc'[t] \in QueuePlace => n # sent'[t])
    <3>1. Seen(<<t, n>>) \/ <<t, n>> = <<r, sent[r]>>
      BY <2>1, <2>2, <2>4 DEF Seen
    <3>2. CASE Seen(<<t, n>>)
      BY <2>1, <2>3, <3>2 DEF FreshInv
    <3>3. CASE t = r /\ n = sent[r]
      BY <1>t, <2>1, <2>2, <3>3
    <3> QED BY <3>1, <3>2, <3>3
  <2> QED BY <2>4 DEF FreshInv
<1>3. CASE SelfRequest
  <2>1. /\ sent' = [sent EXCEPT ![Poller] = @ + 1] /\ sent[Poller] \in Nat
        /\ UNCHANGED <<trigger_work, executed>> /\ shared_cmd'.target = <<Poller, sent[Poller] + 1>>
        /\ local_cmd' = shared_cmd' /\ pc' = [pc EXCEPT ![Poller] = "self"]
    BY <1>3, <1>t DEF SelfRequest, TypeOK, Buffer
  <2>2. \A t \in Threads : pc'[t] \in QueuePlace => pc[t] \in QueuePlace /\ t # Poller
    BY <1>t, <2>1 DEF QueuePlace, TypeOK
  <2>3. ASSUME NEW t \in Threads, NEW n \in Nat, Seen(<<t, n>>)'
        PROVE  n <= sent'[t] /\ (pc'[t] \in QueuePlace => n # sent'[t])
    <3>1. Seen(<<t, n>>) \/ <<t, n>> = <<Poller, sent[Poller] + 1>>
      BY <2>1, <2>3 DEF Seen
    <3>2. CASE Seen(<<t, n>>)
      BY <1>t, <2>1, <2>2, <3>2 DEF FreshInv
    <3>3. CASE t = Poller /\ n = sent[Poller] + 1
      BY <1>t, <2>1, <2>2, <3>3
    <3> QED BY <3>1, <3>2, <3>3
  <2> QED BY <2>3 DEF FreshInv
<1>4. ASSUME \A r \in Requesters : ~ Dequeue(r) /\ \A k \in RequestKind : ~ Request(r, k),
             ~ SelfRequest
      PROVE  FreshInv'
  <2>1. \A t \in Threads : pc'[t] \in QueuePlace => pc[t] \in QueuePlace
    BY <1>4, StepQueues
  <2>2. sent' = sent
    BY <1>4 DEF Next, vars, Confirm, ConfirmExpired, Expire, Kill, Joined, PollerStep, GetCommand,
          GetCommandAtOnce, EndOfWait, TakeCommand, ExecuteCmd, OneMoreTrigg, OneMorePoll,
          SelfExecute, Spurious
  <2>3. ASSUME NEW q \in Requests, Seen(q)' PROVE Seen(q)
    <3>1. ASSUME NEW r \in Requesters, Confirm(r) \/ ConfirmExpired(r) \/ Expire(r) \/ Kill(r) \/ Joined(r)
          PROVE  Seen(q)
      <4>1. UNCHANGED <<local_cmd, trigger_work, executed>> /\ shared_cmd'.target = shared_cmd.target
        BY <3>1 DEF Confirm, ConfirmExpired, Expire, Kill, Joined, TypeOK, Buffer
      <4> QED BY <2>3, <4>1 DEF Seen
    <3>2. CASE GetCommand \/ GetCommandAtOnce \/ EndOfWait \/ OneMorePoll
      <4>1. UNCHANGED <<shared_cmd, executed>> /\ local_cmd' \in {local_cmd, shared_cmd}
            /\ trigger_work' \in {trigger_work, shared_cmd.target}
        BY <3>2 DEF GetCommand, GetCommandAtOnce, EndOfWait, TakeCommand, OneMorePoll
      <4> QED BY <2>3, <4>1 DEF Seen
    <3>3. CASE ExecuteCmd \/ OneMoreTrigg \/ SelfExecute
      <4>1. /\ local_cmd' = local_cmd /\ shared_cmd'.target = shared_cmd.target
            /\ trigger_work' \in {trigger_work, NoRequest}
            /\ executed' \subseteq executed \cup {<<"cmd", local_cmd.target>>, <<"trigger", trigger_work>>}
        BY <3>3 DEF ExecuteCmd, OneMoreTrigg, SelfExecute, TypeOK, Buffer
      <4>2. q # NoRequest
        BY DEF Requests, Threads
      <4> QED BY <2>3, <4>1, <4>2 DEF Seen
    <3>4. ASSUME NEW t \in Threads, Spurious(t) PROVE Seen(q)
      BY <2>3, <3>4 DEF Spurious, Seen
    <3>5. CASE UNCHANGED vars
      BY <2>3, <3>5 DEF vars, Seen
    <3> QED BY <1>4, <3>1, <3>2, <3>3, <3>4, <3>5 DEF Next, PollerStep
  <2> QED BY <1>0, <2>1, <2>2, <2>3
<1> QED BY <1>1, <1>2, <1>3, <1>4

(* The polling thread stays where it is, or is woken, when another acts. *)
LEMMA PollerKept ==
    ASSUME TypeOK, NEW r \in Requesters, NEW P, GoesTo(r, P)
    PROVE  \/ pc'[Poller] = pc[Poller]
           \/ pc[Poller] = "asleep" /\ pc'[Poller] = "woken"
<1>1. PICK p \in P : Moves([pc EXCEPT ![r] = p], pc')
  BY DEF GoesTo
<1>2. Poller \in Threads /\ r \in Threads /\ r # Poller /\ pc[Poller] \in PollerPlace
      /\ pc \in [Threads -> RequesterPlace \cup PollerPlace]
  BY ChannelAssumption DEF Threads, TypeOK
<1> QED BY <1>1, <1>2 DEF Moves, PollerPlace

LEMMA OnceStep == ASSUME TypeOK, FreshInv, OnceInv, [Next]_vars PROVE OnceInv'
<1> USE ChannelAssumption
<1>t. Poller \in Threads /\ Requesters \subseteq Threads /\ Poller \notin Requesters
      /\ sent \in [Threads -> Nat]
  BY DEF Threads, TypeOK
<1>n. ASSUME NEW t \in Threads, NEW n \in Nat, ~ Seen(<<t, n>>)
      PROVE  <<t, n>> # NoRequest /\ <<"cmd", <<t, n>>>> \notin executed /\ <<"trigger", <<t, n>>>> \notin executed
  BY <1>n DEF Seen, Threads
<1>f. ASSUME NEW r \in Requesters, NEW k \in RequestKind, NEW n \in Nat, pc[r] \notin SleepPlace,
             Fill(r, k, <<r, n>>), ~ Seen(<<r, n>>), UNCHANGED <<local_cmd, trigger_work, executed>>,
             pc'[Poller] = pc[Poller] \/ (pc[Poller] = "asleep" /\ pc'[Poller] = "woken")
      PROVE  OnceInv'
  <2>1. <<r, n>> \in Requests
    BY <1>t DEF Requests
  <2>2. shared_cmd'.target = <<r, n>>
    BY <1>f, <2>1, FillStep
  <2> QED BY <1>f, <1>t, <1>n, <2>2 DEF OnceInv
<1>1. ASSUME NEW r \in Requesters, NEW k \in RequestKind, Request(r, k) PROVE OnceInv'
  <2>1. pc'[Poller] = pc[Poller] \/ (pc[Poller] = "asleep" /\ pc'[Poller] = "woken")
    BY <1>1, StepMoves, PollerKept
  <2>2. UNCHANGED <<local_cmd, trigger_work, executed>> /\ pc[r] \notin SleepPlace
        /\ sent[r] + 1 \in Nat /\ ~ Seen(<<r, sent[r] + 1>>)
    BY <1>1, <1>t DEF Request, SleepPlace, FreshInv
  <2>3. CASE Busy(k)
    BY <1>1, <2>1, <2>2, <2>3 DEF Request, OnceInv
  <2>4. CASE ~ Busy(k)
    BY <1>1, <1>f, <2>1, <2>2, <2>4 DEF Request
  <2> QED BY <2>3, <2>4
<1>2. ASSUME NEW r \in Requesters, Dequeue(r) PROVE OnceInv'
  <2>1. pc'[Poller] = pc[Poller] \/ (pc[Poller] = "asleep" /\ pc'[Poller] = "woken")
    BY <1>2, StepMoves, PollerKept
  <2>2. UNCHANGED <<local_cmd, trigger_work, executed>> /\ pc[r] \notin SleepPlace
        /\ sent[r] \in Nat /\ ~ Seen(<<r, sent[r]>>) /\ kind[r] \in RequestKind
    BY <1>2, <1>t DEF Dequeue, SleepPlace, FreshInv, QueuePlace, TypeOK
  <2> QED BY <1>2, <1>f, <2>1, <2>2 DEF Dequeue, Current
<1>3. ASSUME NEW r \in Requesters,
             Confirm(r) \/ ConfirmExpired(r) \/ Expire(r) \/ Kill(r) \/ Joined(r)
      PROVE  OnceInv'
  <2>1. pc'[Poller] = pc[Poller] \/ (pc[Poller] = "asleep" /\ pc'[Poller] = "woken")
    BY <1>3, StepMoves, PollerKept
  <2>2. /\ UNCHANGED <<local_cmd, trigger_work, executed>>
        /\ shared_cmd' \in {shared_cmd, [shared_cmd EXCEPT !.cmd_pending = TRUE, !.cmd_code = "exit"]}
    BY <1>3 DEF Confirm, ConfirmExpired, Expire, Kill, Joined
  <2>3. /\ shared_cmd'.target = shared_cmd.target /\ shared_cmd'.trigger = shared_cmd.trigger
        /\ shared_cmd'.cmd_code = "exit" \/ shared_cmd' = shared_cmd
    BY <2>2 DEF TypeOK, Buffer
  <2> QED BY <2>1, <2>2, <2>3 DEF OnceInv
<1>4. CASE GetCommand \/ GetCommandAtOnce \/ EndOfWait
  <2>1. UNCHANGED <<shared_cmd, executed>> /\ trigger_work = NoRequest
    BY <1>4 DEF GetCommand, GetCommandAtOnce, EndOfWait, TakeCommand, OnceInv
  <2>2. \/ pc'[Poller] \notin {"execute", "trigger"} /\ UNCHANGED trigger_work
        \/ pc'[Poller] = "execute" /\ shared_cmd.cmd_pending /\ local_cmd' = shared_cmd /\ UNCHANGED trigger_work
        \/ pc'[Poller] = "trigger" /\ shared_cmd.trigger /\ trigger_work' = shared_cmd.target
    BY <1>4, <1>t DEF GetCommand, GetCommandAtOnce, EndOfWait, TakeCommand, TypeOK
  <2> QED BY <2>1, <2>2 DEF OnceInv
<1>p. ASSUME NEW p \in PollerPlace \ {"asleep"}, pc' \in AfterSignal([pc EXCEPT ![Poller] = p])
      PROVE  pc'[Poller] = p
  <2>1. Moves([pc EXCEPT ![Poller] = p], pc')
    BY <1>p, <1>t, GoAndSignal DEF Place
  <2> QED BY <1>p, <1>t, <2>1 DEF Moves, PollerPlace, TypeOK
<1>l. {"loop", "poll", "trigger"} \subseteq PollerPlace \ {"asleep"}
  BY DEF PollerPlace
<1>5. CASE ExecuteCmd
  <2>1. trigger_work = NoRequest /\ UNCHANGED <<local_cmd, trigger_work>>
    BY <1>5 DEF ExecuteCmd, OnceInv
  <2>2. CASE local_cmd.cmd_code = "exit"
    BY <1>5, <1>t, <2>1, <2>2 DEF ExecuteCmd, OnceInv, TypeOK
  <2>3. CASE local_cmd.cmd_code # "exit"
    <3>1. pc'[Poller] = "loop" /\ executed' = executed \cup {<<"cmd", local_cmd.target>>}
      BY <1>5, <1>p, <1>l, <2>3 DEF ExecuteCmd
    <3>2. /\ shared_cmd'.target = shared_cmd.target /\ shared_cmd'.trigger = shared_cmd.trigger
          /\ ~ shared_cmd'.cmd_pending
      BY <1>5, <2>3 DEF ExecuteCmd, TypeOK, Buffer
    <3> QED BY <2>1, <3>1, <3>2 DEF OnceInv
  <2> QED BY <2>2, <2>3
<1>6. CASE OneMoreTrigg
  <2>1. pc'[Poller] = "loop" /\ trigger_work' = NoRequest
        /\ executed' = executed \cup {<<"trigger", trigger_work>>}
    BY <1>6, <1>p, <1>l DEF OneMoreTrigg
  <2>2. /\ shared_cmd'.target = shared_cmd.target /\ shared_cmd'.cmd_pending = shared_cmd.cmd_pending
        /\ shared_cmd'.cmd_code = shared_cmd.cmd_code /\ ~ shared_cmd'.trigger
    BY <1>6 DEF OneMoreTrigg, TypeOK, Buffer
  <2> QED BY <2>1, <2>2 DEF OnceInv
<1>7. CASE OneMorePoll
  BY <1>7, <1>t DEF OneMorePoll, OnceInv, TypeOK
<1>8. CASE SelfRequest
  <2>1. pc'[Poller] = "self" /\ UNCHANGED <<trigger_work, executed>>
        /\ shared_cmd'.target = <<Poller, sent[Poller] + 1>>
    BY <1>8, <1>t DEF SelfRequest, TypeOK, Buffer
  <2>2. sent[Poller] + 1 \in Nat /\ ~ Seen(<<Poller, sent[Poller] + 1>>)
    BY <1>t DEF FreshInv
  <2> QED BY <1>t, <1>n, <2>1, <2>2 DEF OnceInv
<1>9. CASE SelfExecute
  <2>1. pc'[Poller] = (IF trigger_work = NoRequest THEN "poll" ELSE "trigger")
        /\ executed' = executed \cup {<<"cmd", local_cmd.target>>} /\ trigger_work' = trigger_work
    BY <1>9, <1>p, <1>l DEF SelfExecute
  <2>2. /\ shared_cmd'.target = shared_cmd.target /\ shared_cmd'.trigger = shared_cmd.trigger
        /\ ~ shared_cmd'.cmd_pending
    BY <1>9 DEF SelfExecute, TypeOK, Buffer
  <2> QED BY <2>1, <2>2 DEF OnceInv
<1>10. ASSUME NEW t \in Threads, Spurious(t) PROVE OnceInv'
  <2>1. pc'[Poller] = pc[Poller] \/ (pc[Poller] = "asleep" /\ pc'[Poller] = "woken")
    <3>1. Moves(pc, pc') /\ pc[Poller] \in PollerPlace
      BY <1>10, <1>t, StepMoves DEF TypeOK
    <3> QED BY <1>t, <3>1 DEF Moves, PollerPlace
  <2> QED BY <1>10, <2>1 DEF Spurious, OnceInv
<1>11. CASE UNCHANGED vars
  BY <1>11 DEF vars, OnceInv
<1> QED BY <1>1, <1>2, <1>3, <1>4, <1>5, <1>6, <1>7, <1>8, <1>9, <1>10, <1>11 DEF Next, PollerStep

LEMMA WokenStep == ASSUME TypeOK, WokenInv, [Next]_vars PROVE WokenInv'
<1> USE ChannelAssumption
<1>t. Poller \in Threads /\ Requesters \subseteq Threads /\ Poller \notin Requesters
      /\ pc \in [Threads -> RequesterPlace \cup PollerPlace]
  BY DEF Threads, TypeOK
<1>0. ASSUME UNCHANGED <<scenario, works_empty>>,
             \/ pc'[Poller] = pc[Poller]
             \/ pc[Poller] = "asleep" /\ pc'[Poller] = "woken",
             \/ shared_cmd'.cmd_pending \/ shared_cmd'.trigger
             \/ UNCHANGED <<pc, shared_cmd>>
             \/ shared_cmd' = shared_cmd /\ pc'[Poller] = pc[Poller]
      PROVE  WokenInv'
  BY <1>0 DEF WokenInv
<1>1. ASSUME NEW r \in Requesters, NEW k \in RequestKind, Request(r, k) PROVE WokenInv'
  <2>1. pc'[Poller] = pc[Poller] \/ (pc[Poller] = "asleep" /\ pc'[Poller] = "woken")
    BY <1>1, StepMoves, PollerKept
  <2>2. UNCHANGED <<scenario, works_empty>> /\ <<r, sent[r] + 1>> \in Requests /\ pc[r] \notin SleepPlace
    BY <1>1, <1>t DEF Request, Requests, TypeOK, SleepPlace
  <2>3. CASE Busy(k)
    <3>1. shared_cmd' = shared_cmd /\ pc'[Poller] = pc[Poller]
      BY <1>1, <1>t, <2>3 DEF Request
    <3> QED BY <1>0, <2>1, <2>2, <3>1
  <2>4. CASE ~ Busy(k)
    <3>1. Fill(r, k, <<r, sent[r] + 1>>)
      BY <1>1, <2>4 DEF Request
    <3>2. shared_cmd'.cmd_pending \/ shared_cmd'.trigger
      BY <2>2, <3>1, FillStep
    <3> QED BY <1>0, <2>1, <2>2, <3>2
  <2> QED BY <2>3, <2>4
<1>2. ASSUME NEW r \in Requesters, Dequeue(r) PROVE WokenInv'
  <2>1. pc'[Poller] = pc[Poller] \/ (pc[Poller] = "asleep" /\ pc'[Poller] = "woken")
    BY <1>2, StepMoves, PollerKept
  <2>2. /\ Current(r) \in Requests /\ pc[r] \notin SleepPlace /\ kind[r] \in RequestKind
        /\ Fill(r, kind[r], Current(r)) /\ UNCHANGED <<scenario, works_empty>>
    BY <1>2, <1>t DEF Dequeue, Current, Requests, TypeOK, SleepPlace
  <2>3. shared_cmd'.cmd_pending \/ shared_cmd'.trigger
    BY <2>2, FillStep
  <2> QED BY <1>0, <2>1, <2>2, <2>3
<1>3. ASSUME NEW r \in Requesters,
             Confirm(r) \/ ConfirmExpired(r) \/ Expire(r) \/ Kill(r) \/ Joined(r)
      PROVE  WokenInv'
  <2>1. pc'[Poller] = pc[Poller] \/ (pc[Poller] = "asleep" /\ pc'[Poller] = "woken")
    BY <1>3, StepMoves, PollerKept
  <2>2. UNCHANGED <<scenario, works_empty>>
    BY <1>3 DEF Confirm, ConfirmExpired, Expire, Kill, Joined
  <2>3. \/ shared_cmd' = [shared_cmd EXCEPT !.cmd_pending = TRUE, !.cmd_code = "exit"]
        \/ shared_cmd' = shared_cmd /\ pc'[Poller] = pc[Poller]
    BY <1>3, <1>t DEF Confirm, ConfirmExpired, Expire, Kill, Joined
  <2>4. shared_cmd' = [shared_cmd EXCEPT !.cmd_pending = TRUE, !.cmd_code = "exit"]
          => shared_cmd'.cmd_pending
    BY DEF TypeOK, Buffer
  <2> QED BY <1>0, <2>1, <2>2, <2>3, <2>4
<1>4. CASE GetCommand \/ GetCommandAtOnce \/ EndOfWait
  <2>1. scenario' = scenario
    BY <1>4 DEF GetCommand, GetCommandAtOnce, EndOfWait, TakeCommand
  <2>2. ASSUME ~ scenario.spurious PROVE pc'[Poller] \in {"asleep", "poll", "execute", "trigger"}
    <3>1. CASE GetCommand \/ GetCommandAtOnce
      BY <1>t, <3>1 DEF GetCommand, GetCommandAtOnce, TakeCommand
    <3>2. CASE EndOfWait
      BY <1>t, <2>2, <3>2 DEF EndOfWait, TakeCommand, WokenInv
    <3> QED BY <1>4, <3>1, <3>2
  <2> QED BY <2>1, <2>2 DEF WokenInv
<1>5. CASE ExecuteCmd \/ OneMoreTrigg \/ OneMorePoll \/ SelfRequest \/ SelfExecute
  <2>1. \E p \in {"loop", "exited", "self", "poll", "trigger"} :
           pc' = [pc EXCEPT ![Poller] = p] \/ pc' \in AfterSignal([pc EXCEPT ![Poller] = p])
    BY <1>5 DEF ExecuteCmd, OneMoreTrigg, OneMorePoll, SelfRequest, SelfExecute
  <2>2. pc'[Poller] \in {"loop", "exited", "self", "poll", "trigger"}
    <3>1. PICK p \in {"loop", "exited", "self", "poll", "trigger"} :
             pc' = [pc EXCEPT ![Poller] = p] \/ pc' \in AfterSignal([pc EXCEPT ![Poller] = p])
      BY <2>1
    <3>2. CASE pc' = [pc EXCEPT ![Poller] = p]
      BY <1>t, <3>2
    <3>3. CASE pc' \in AfterSignal([pc EXCEPT ![Poller] = p])
      <4>1. p \in Place
        BY DEF Place, PollerPlace
      <4>2. Moves([pc EXCEPT ![Poller] = p], pc')
        BY <1>t, <3>3, <4>1, GoAndSignal
      <4> QED BY <1>t, <4>2 DEF Moves
    <3> QED BY <3>1, <3>2, <3>3
  <2> QED BY <2>2 DEF WokenInv
<1>6. ASSUME NEW t \in Threads, Spurious(t) PROVE WokenInv'
  BY <1>6 DEF Spurious, WokenInv
<1>7. CASE UNCHANGED vars
  BY <1>7 DEF vars, WokenInv
<1> QED BY <1>1, <1>2, <1>3, <1>4, <1>5, <1>6, <1>7 DEF Next, PollerStep

LEMMA AckedStep == ASSUME TypeOK, AckedInv, [Next]_vars PROVE AckedInv'
<1> USE ChannelAssumption
<1>t. /\ Poller \in Threads /\ Requesters \subseteq Threads /\ Poller \notin Requesters
      /\ pc \in [Threads -> RequesterPlace \cup PollerPlace] /\ sent \in [Threads -> Nat]
  BY DEF Threads, TypeOK
<1> DEFINE Rest == {"idle", "joining", "gone"}
<1>0. ASSUME UNCHANGED <<acked>>, \A r \in Requesters : sent'[r] = sent[r],
             \A r \in Requesters : pc'[r] \notin Rest => pc[r] \notin Rest
      PROVE  AckedInv'
  BY <1>0 DEF AckedInv, Current
<1>m. ASSUME NEW u \in Threads, NEW P, GoesTo(u, P), NEW r \in Requesters, r # u, pc'[r] \notin Rest
      PROVE  pc[r] \notin Rest
  <2>1. PICK p \in P : Moves([pc EXCEPT ![u] = p], pc')
    BY <1>m DEF GoesTo
  <2> QED BY <1>m, <1>t, <2>1 DEF Moves
<1>1. ASSUME NEW r \in Requesters, NEW k \in RequestKind, Request(r, k) PROVE AckedInv'
  <2>1. sent' = [sent EXCEPT ![r] = @ + 1] /\ sent[r] \in Nat /\ acked' = acked
    BY <1>1, <1>t DEF Request
  <2>2. \A q \in Requesters \ {r} : pc'[q] \notin Rest => pc[q] \notin Rest
    BY <1>1, <1>m, <1>t, StepMoves
  <2>3. \A q \in Requesters, n \in Nat : <<q, n>> \in acked' => n <= sent'[q]
    BY <1>t, <2>1 DEF AckedInv
  <2>4. \A q \in Requesters : pc'[q] \notin Rest => <<q, sent'[q]>> \notin acked'
    BY <1>t, <2>1, <2>2 DEF AckedInv, Current
  <2> QED BY <2>3, <2>4 DEF AckedInv, Current
<1>2. ASSUME NEW r \in Requesters, Dequeue(r) PROVE AckedInv'
  <2>1. \A q \in Requesters : pc'[q] \notin Rest => pc[q] \notin Rest
    BY <1>2, <1>m, <1>t, StepMoves DEF Dequeue
  <2> QED BY <1>0, <1>2, <2>1 DEF Dequeue
<1>3. ASSUME NEW r \in Requesters, Confirm(r) \/ ConfirmExpired(r) PROVE AckedInv'
  <2>1. \A q \in Requesters : pc'[q] \notin Rest => pc[q] \notin Rest
    <3>1. pc[r] \notin Rest
      BY <1>3 DEF Confirm, ConfirmExpired
    <3> QED BY <1>3, <1>m, <1>t, <3>1, StepMoves
  <2>2. sent' = sent /\ Current(r) = <<r, sent[r]>> /\ sent[r] \in Nat
    BY <1>3, <1>t DEF Confirm, ConfirmExpired, Current
  <2>3. CASE acked' = acked
    BY <1>0, <2>1, <2>2, <2>3
  <2>4. CASE acked' # acked
    <3>1. acked' = acked \cup {<<r, sent[r]>>} /\ pc' = [pc EXCEPT ![r] = "idle"]
      BY <1>3, <2>2, <2>4 DEF Confirm, ConfirmExpired
    <3>2. \A q \in Requesters, n \in Nat : <<q, n>> \in acked' => n <= sent'[q]
      BY <2>2, <3>1 DEF AckedInv
    <3>3. \A q \in Requesters : pc'[q] \notin Rest => <<q, sent'[q]>> \notin acked'
      BY <1>t, <2>1, <2>2, <3>1 DEF AckedInv, Current
    <3> QED BY <3>2, <3>3 DEF AckedInv, Current
  <2> QED BY <2>3, <2>4
<1>4. ASSUME NEW r \in Requesters, Expire(r) \/ Kill(r) \/ Joined(r) PROVE AckedInv'
  <2>1. \A q \in Requesters \ {r} : pc'[q] \notin Rest => pc[q] \notin Rest
    BY <1>4, <1>m, <1>t, StepMoves
  <2>2. pc'[r] \notin Rest => pc[r] \notin Rest
    <3>1. CASE Expire(r)
      BY <3>1 DEF Expire
    <3>2. CASE Kill(r) \/ Joined(r)
      <4>1. PICK p \in Rest : Moves([pc EXCEPT ![r] = p], pc')
        BY <3>2, StepMoves DEF GoesTo
      <4> QED BY <1>t, <4>1 DEF Moves
    <3> QED BY <1>4, <3>1, <3>2
  <2> QED BY <1>0, <1>4, <2>1, <2>2 DEF Expire, Kill, Joined
<1>5. ASSUME PollerStep PROVE AckedInv'
  <2>1. \A q \in Requesters : pc'[q] \notin Rest => pc[q] \notin Rest
    BY <1>5, <1>m, <1>t, StepMoves
  <2>2. acked' = acked /\ \A r \in Requesters : sent'[r] = sent[r]
    BY <1>5, <1>t DEF PollerStep, GetCommand, GetCommandAtOnce, EndOfWait, TakeCommand, ExecuteCmd,
          OneMoreTrigg, OneMorePoll, SelfRequest, SelfExecute
  <2> QED BY <1>0, <2>1, <2>2
<1>6. ASSUME NEW t \in Threads, Spurious(t) PROVE AckedInv'
  <2>1. \A q \in Requesters : pc'[q] \notin Rest => pc[q] \notin Rest
    BY <1>6, <1>t, StepMoves DEF Moves
  <2> QED BY <1>0, <1>6, <2>1 DEF Spurious
<1>7. CASE UNCHANGED vars
  BY <1>7 DEF vars, AckedInv, Current
<1> QED BY <1>1, <1>2, <1>3, <1>4, <1>5, <1>6, <1>7 DEF Next

LEMMA AloneStep == ASSUME TypeOK, AckedInv, AloneInv, [Next]_vars PROVE AloneInv'
<1> USE ChannelAssumption
<1>s. scenario' = scenario
  BY DEF Next, vars, Request, Dequeue, Confirm, ConfirmExpired, Expire, Kill, Joined, PollerStep,
         GetCommand, GetCommandAtOnce, EndOfWait, TakeCommand, ExecuteCmd, OneMoreTrigg, OneMorePoll,
         SelfRequest, SelfExecute, Spurious
<1> SUFFICES ASSUME NEW r \in Requesters, Alone(r) PROVE AloneWith(r)'
  BY <1>s DEF AloneInv, Alone
<1>a. AloneWith(r)
  BY DEF AloneInv
<1>t. /\ Poller \in Threads /\ Requesters \subseteq Threads /\ Poller \notin Requesters
      /\ r \in Threads /\ r # Poller
      /\ pc \in [Threads -> RequesterPlace \cup PollerPlace] /\ sent \in [Threads -> Nat]
      /\ Current(r) = <<r, sent[r]>> /\ <<r, sent[r]>> \in Requests
      /\ <<r, sent[r] + 1>> \in Requests
  BY DEF Threads, TypeOK, Current, Requests
<1>q. ASSUME NEW u \in {r, Poller}, NEW p, Moves([pc EXCEPT ![u] = p], pc')
      PROVE  \A q \in Requesters \ {r} : pc'[q] = "idle"
  BY <1>a, <1>t, <1>q DEF Moves, AloneWith
<1>k. ASSUME NEW p, Moves([pc EXCEPT ![r] = p], pc')
      PROVE  pc'[Poller] = pc[Poller] \/ (pc[Poller] = "asleep" /\ pc'[Poller] = "woken")
  BY <1>k, PollerKept DEF GoesTo
(* The buffer is filled while nothing is pending. *)
<1>f. ASSUME NEW k \in RequestKind \ {"trigger"}, NEW n \in Nat, Fill(r, k, <<r, n>>),
             pc[r] \notin SleepPlace, ~ shared_cmd.cmd_pending, <<r, n>> \notin acked,
             sent'[r] = n, kind'[r] = k, UNCHANGED <<local_cmd, executed, acked>>
      PROVE  AloneWith(r)'
  <2>1. <<r, n>> \in Requests
    BY <1>t DEF Requests
  <2>2. /\ shared_cmd'.target = <<r, n>> /\ shared_cmd'.cmd_pending /\ shared_cmd'.cmd_code = "object"
        /\ ~ shared_cmd'.trigger
        /\ Moves([pc EXCEPT ![r] = IF k = "post" THEN "idle" ELSE "posted"], pc')
        /\ pc'[r] = IF k = "post" THEN "idle" ELSE "posted"
    BY <1>a, <1>f, <2>1, FillStep DEF AloneWith
  <2>3. pc'[Poller] # "execute" /\ pc'[Poller] \notin {"trigger", "self"}
    BY <1>a, <1>f, <1>k, <2>2 DEF AloneWith
  <2>4. \A q \in Requesters \ {r} : pc'[q] = "idle"
    BY <1>q, <2>2
  <2>5. Current(r)' = <<r, n>>
    BY <1>f DEF Current
  <2> QED BY <1>f, <2>2, <2>3, <2>4, <2>5 DEF AloneWith, InHand
<1>1. ASSUME NEW k \in RequestKind, Request(r, k) PROVE AloneWith(r)'
  <2>1. /\ k # "trigger" /\ sent'[r] = sent[r] + 1 /\ sent[r] + 1 \in Nat /\ kind'[r] = k
        /\ UNCHANGED <<local_cmd, executed, acked>> /\ pc[r] = "idle"
        /\ <<r, sent[r] + 1>> \notin acked
    BY <1>1, <1>t DEF Request, Alone, AckedInv, TypeOK
  <2>2. CASE ~ Busy(k)
    BY <1>1, <1>f, <2>1, <2>2 DEF Request, Busy, SleepPlace
  <2>3. CASE Busy(k)
    <3>1. pc' = [pc EXCEPT ![r] = "queued"] /\ shared_cmd' = shared_cmd
      BY <1>1, <2>3 DEF Request
    <3> QED BY <1>a, <1>t, <2>1, <3>1 DEF AloneWith
  <2> QED BY <2>2, <2>3
<1>2. ASSUME Dequeue(r) PROVE AloneWith(r)'
  <2>1. /\ kind[r] \in RequestKind \ {"trigger"} /\ ~ shared_cmd.cmd_pending /\ pc[r] \notin SleepPlace
        /\ <<r, sent[r]>> \notin acked /\ Fill(r, kind[r], <<r, sent[r]>>) /\ sent[r] \in Nat
        /\ UNCHANGED <<local_cmd, executed, acked, sent, kind>>
    BY <1>2, <1>a, <1>t DEF Dequeue, AloneWith, AckedInv, TypeOK, SleepPlace
  <2> QED BY <1>f, <2>1
<1>3. ASSUME Confirm(r) \/ ConfirmExpired(r) PROVE AloneWith(r)'
  <2>1. /\ UNCHANGED <<local_cmd, executed, sent, kind>> /\ pc[r] \in {"ack_woken", "ack_expired"}
        /\ Current(r) \notin acked /\ Current(r)' = Current(r)
    BY <1>3 DEF Confirm, ConfirmExpired, AckedInv, Current
  <2>2. CASE ~ shared_cmd.cmd_pending
    <3>1. pc' = [pc EXCEPT ![r] = "idle"] /\ shared_cmd' = shared_cmd
      BY <1>3, <1>a, <2>2 DEF Confirm, ConfirmExpired, Busy, AloneWith
    <3>2. <<"cmd", Current(r)>> \in executed
      BY <1>a, <2>1, <2>2 DEF AloneWith, InHand
    <3> QED BY <1>a, <1>t, <2>1, <3>1, <3>2 DEF AloneWith
  <2>3. CASE shared_cmd.cmd_pending
    <3>0. Busy(kind[r]) /\ acked' = acked
      BY <1>3, <1>a, <2>3 DEF Confirm, ConfirmExpired, Busy, AloneWith
    <3>1. CASE shared_cmd' = shared_cmd /\ pc' \in {[pc EXCEPT ![r] = "idle"], [pc EXCEPT ![r] = "posted"]}
      <4>1. pc'[r] \in {"idle", "posted"} /\ pc'[Poller] = pc[Poller]
            /\ \A q \in Requesters \ {r} : pc'[q] = pc[q]
        BY <1>t, <3>1
      <4> QED BY <1>a, <2>1, <3>0, <3>1, <4>1 DEF AloneWith, InHand
    <3>2. CASE ~ (shared_cmd' = shared_cmd /\ pc' \in {[pc EXCEPT ![r] = "idle"], [pc EXCEPT ![r] = "posted"]})
      <4>1. shared_cmd' = [shared_cmd EXCEPT !.cmd_pending = TRUE, !.cmd_code = "exit"]
            /\ pc' \in AfterSignal([pc EXCEPT ![r] = "idle"])
        BY <1>3, <3>0, <3>2 DEF Confirm, ConfirmExpired
      <4>2. shared_cmd'.cmd_pending /\ shared_cmd'.trigger = shared_cmd.trigger
        BY <4>1 DEF TypeOK, Buffer
      <4>3. Moves([pc EXCEPT ![r] = "idle"], pc')
        BY <1>t, <4>1, GoAndSignal DEF Place, RequesterPlace
      <4>4. pc'[r] = "idle"
        BY <1>t, <4>3 DEF Moves
      <4> QED BY <1>a, <1>q, <1>k, <2>1, <3>0, <4>2, <4>3, <4>4 DEF AloneWith
    <3> QED BY <3>1, <3>2
  <2> QED BY <2>2, <2>3
<1>4. ASSUME Expire(r) \/ Joined(r) PROVE AloneWith(r)'
  <2>1. /\ UNCHANGED <<shared_cmd, local_cmd, executed, acked, sent, kind>>
        /\ (pc[r] = "posted" /\ pc'[r] = "ack_expired") \/ pc'[r] = "gone"
        /\ \A t \in Threads \ {r} : pc'[t] = pc[t]
    BY <1>4, <1>t DEF Expire, Joined
  <2>2. Current(r)' = Current(r)
    BY <2>1 DEF Current
  <2> QED BY <1>a, <1>t, <2>1, <2>2 DEF AloneWith, InHand
<1>5. ASSUME Kill(r) PROVE AloneWith(r)'
  <2>1. UNCHANGED <<local_cmd, executed, acked, sent, kind>>
    BY <1>5 DEF Kill
  <2>2. shared_cmd'.cmd_pending /\ shared_cmd'.trigger = shared_cmd.trigger
    BY <1>5 DEF Kill, TypeOK, Buffer
  <2>3. Moves([pc EXCEPT ![r] = "joining"], pc')
    BY <1>5, <1>t, GoAndSignal DEF Kill, Place, RequesterPlace
  <2>4. pc'[r] = "joining"
    BY <1>t, <2>3 DEF Moves
  <2> QED BY <1>a, <1>q, <1>k, <2>1, <2>2, <2>3, <2>4 DEF AloneWith
<1>6. ASSUME NEW q \in Requesters \ {r} PROVE
        /\ \A k \in RequestKind : ~ Request(q, k)
        /\ ~ Dequeue(q) /\ ~ Confirm(q) /\ ~ ConfirmExpired(q) /\ ~ Expire(q) /\ ~ Kill(q) /\ ~ Joined(q)
  BY <1>a DEF AloneWith, Alone, Request, Dequeue, Confirm, ConfirmExpired, Expire, Kill, Joined
<1>7. CASE GetCommand \/ GetCommandAtOnce \/ EndOfWait
  <2>1. UNCHANGED <<shared_cmd, executed, acked, sent, kind>>
    BY <1>7 DEF GetCommand, GetCommandAtOnce, EndOfWait, TakeCommand
  <2>2. \/ pc'[Poller] \notin {"execute", "trigger", "self"} /\ local_cmd' = local_cmd
        \/ pc'[Poller] = "execute" /\ shared_cmd.cmd_pending /\ local_cmd' = shared_cmd
    BY <1>7, <1>t, <1>a DEF GetCommand, GetCommandAtOnce, EndOfWait, TakeCommand, AloneWith
  <2>3. \A q \in Requesters : pc'[q] = pc[q]
    BY <1>7, <1>t DEF GetCommand, GetCommandAtOnce, EndOfWait, TakeCommand
  <2>4. Current(r)' = Current(r)
    BY <2>1 DEF Current
  <2> QED BY <1>a, <2>1, <2>2, <2>3, <2>4 DEF AloneWith, InHand
<1>8. CASE ExecuteCmd
  <2>1. UNCHANGED <<local_cmd, acked, sent, kind>> /\ Current(r)' = Current(r)
        /\ pc[Poller] = "execute" /\ shared_cmd.cmd_pending
    BY <1>8, <1>a DEF ExecuteCmd, Current, AloneWith
  <2>2. CASE local_cmd.cmd_code = "exit"
    <3>1. pc' = [pc EXCEPT ![Poller] = "exited"] /\ UNCHANGED <<shared_cmd, executed>>
      BY <1>8, <2>2 DEF ExecuteCmd
    <3> QED BY <1>a, <1>t, <2>1, <3>1 DEF AloneWith, InHand
  <2>3. CASE local_cmd.cmd_code # "exit"
    <3>1. /\ executed' = executed \cup {<<"cmd", local_cmd.target>>}
          /\ shared_cmd' = [shared_cmd EXCEPT !.cmd_pending = FALSE]
          /\ pc' \in AfterSignal([pc EXCEPT ![Poller] = "loop"])
      BY <1>8, <2>3 DEF ExecuteCmd
    <3>2. ~ shared_cmd'.cmd_pending /\ shared_cmd'.trigger = shared_cmd.trigger
      BY <3>1 DEF TypeOK, Buffer
    <3>3. Moves([pc EXCEPT ![Poller] = "loop"], pc')
      BY <1>t, <3>1, GoAndSignal DEF Place, PollerPlace
    <3>4. pc'[Poller] = "loop"
      BY <1>t, <3>3 DEF Moves
    <3>5. pc'[r] \in {"posted", "ack_woken", "ack_expired"} => pc[r] \in {"posted", "ack_woken", "ack_expired"}
      BY <1>t, <3>3 DEF Moves
    <3>6. pc'[r] = "idle" => pc[r] = "idle"
      BY <1>t, <3>3 DEF Moves
    <3> QED BY <1>a, <1>q, <2>1, <3>1, <3>2, <3>3, <3>4, <3>5, <3>6 DEF AloneWith, InHand
  <2> QED BY <2>2, <2>3
<1>9. CASE OneMorePoll
  <2>1. UNCHANGED <<shared_cmd, local_cmd, executed, acked, sent, kind>> /\ Current(r)' = Current(r)
        /\ pc' = [pc EXCEPT ![Poller] = "loop"]
    BY <1>9 DEF OneMorePoll, Current
  <2> QED BY <1>a, <1>t, <2>1 DEF AloneWith, InHand
<1>10. ~ OneMoreTrigg /\ ~ SelfRequest /\ ~ SelfExecute /\ \A t \in Threads : ~ Spurious(t)
  BY <1>a DEF AloneWith, Alone, OneMoreTrigg, SelfRequest, SelfExecute, Spurious
<1>11. CASE UNCHANGED vars
  BY <1>a, <1>11 DEF vars, AloneWith, InHand, Current
<1> QED BY <1>1, <1>2, <1>3, <1>4, <1>5, <1>6, <1>7, <1>8, <1>9, <1>10, <1>11 DEF Next, PollerStep

-----------------------------------------------------------------------------

ChannelInv == TypeOK /\ FreshInv /\ OnceInv /\ WokenInv /\ AckedInv /\ AloneInv

LEMMA ChannelInit == Init => ChannelInv
<1> SUFFICES ASSUME Init PROVE ChannelInv
  OBVIOUS
<1>1. TypeOK
  BY TypeInit
<1>2. /\ Poller \in Threads /\ Requesters \subseteq Threads /\ Poller \notin Requesters
      /\ pc[Poller] = "loop" /\ \A r \in Requesters : pc[r] = "idle"
  BY ChannelAssumption DEF Init, Threads
<1>3. FreshInv
  BY ChannelAssumption DEF Init, FreshInv, Seen, Threads, QueuePlace
<1>4. OnceInv /\ WokenInv /\ AckedInv
  BY <1>2 DEF Init, OnceInv, WokenInv, AckedInv, Current
<1>5. AloneInv
  BY <1>2 DEF Init, AloneInv, AloneWith, Current
<1> QED BY <1>1, <1>3, <1>4, <1>5 DEF ChannelInv

LEMMA ChannelStep == ChannelInv /\ [Next]_vars => ChannelInv'
BY TypeStep, FreshStep, OnceStep, WokenStep, AckedStep, AloneStep DEF ChannelInv

LEMMA ChannelInvHolds == Spec => []ChannelInv
BY ChannelInit, ChannelStep, PTL DEF Spec

(* Whoever uses the channel, in whatever order, and even if waits return by *)
(* themselves, execute_cmd and one_more_trigg never do the same request     *)
(* twice: the flag that announced it is cleared by its execution.           *)
THEOREM ChannelNeverTwice == Spec => []NeverTwice
<1>1. ChannelInv => NeverTwice
  BY DEF ChannelInv, OnceInv, NeverTwice
<1> QED BY <1>1, ChannelInvHolds, PTL

(* get_command never comes back to one_more_poll with an empty work list,  *)
(* as long as the wait without a timeout ends by a signal only.            *)
THEOREM ChannelNoPollOfEmptyList == Spec => []NoPollOfEmptyList
<1>1. ChannelInv => NoPollOfEmptyList
  BY DEF ChannelInv, WokenInv, NoPollOfEmptyList
<1> QED BY <1>1, ChannelInvHolds, PTL

(* A requester that shares the channel with nobody is told that its command *)
(* was executed only if it was, however often its waits time out and        *)
(* although its wait for the buffer does not test the buffer again.         *)
THEOREM ChannelAckMeansServedAlone == Spec => []AckMeansServedAlone
<1>1. ChannelInv => AckMeansServedAlone
  BY DEF ChannelInv, AloneInv, AloneWith, AckMeansServedAlone, Served, Work
<1> QED BY <1>1, ChannelInvHolds, PTL

=============================================================================
