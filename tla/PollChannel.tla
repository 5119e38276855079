----------------------------- MODULE PollChannel -----------------------------
(***************************************************************************)
(* The channel between the threads that configure or trigger polling and   *)
(* one polling thread: a single PollThCmd buffer (shared_cmd), protected   *)
(* by one mutex with one condition variable (poll_mon) on which everybody  *)
(* sleeps, the polling thread included.                                    *)
(*                                                                         *)
(* A requester is a thread that runs DServer::add_obj_polling,             *)
(* upd_obj_polling_period, rem_obj_polling, Util::trigger_attr_polling ... *)
(* The fields dev, name, type and index of the buffer are abstracted to    *)
(* the request that wrote them last (target).  What a command does to the  *)
(* work list is PollWorks; here only works.empty() matters.                *)
(***************************************************************************)
EXTENDS Naturals, FiniteSets

CONSTANTS
    Requesters,       \* threads that use the channel
    Poller,           \* the polling thread
    MaxSelf,          \* bound: requests of the polling thread to itself
    Kills,            \* the requesters that may ask the thread to exit
    Scenarios,        \* who may use the channel, see below
    NoRequest

(***************************************************************************)
(* "confirm" : add_obj_polling, rem_obj_polling: wait until it is executed *)
(* "create"  : add_obj_polling that created the thread                     *)
(* "post"    : upd_obj_polling_period, and every local request: no wait    *)
(* "trigger" : trigger_attr_polling, trigger_cmd_polling                   *)
(***************************************************************************)
RequestKind == {"confirm", "create", "post", "trigger"}

(***************************************************************************)
(* A scenario says what each requester asks for in a behaviour and at most *)
(* how often (the bound on requests), whether polled objects change their  *)
(* own polling, and whether a wait on the condition variable may return by *)
(* itself.                                                                 *)
(***************************************************************************)
Scenario ==
    [kinds : [Requesters -> SUBSET RequestKind], max : [Requesters -> Nat],
     self : BOOLEAN, spurious : BOOLEAN]

ASSUME ChannelAssumption ==
    /\ Poller \notin Requesters
    /\ MaxSelf \in Nat
    /\ Kills \subseteq Requesters
    /\ Scenarios \subseteq Scenario
    /\ NoRequest \notin (Requesters \cup {Poller}) \X Nat

VARIABLES
    scenario,      \* chosen at the start, never changed
    shared_cmd,    \* the buffer
    local_cmd,     \* the polling thread's copy of it
    trigger_work,  \* the triggered object it polls, NoRequest if none
    works_empty,   \* works.empty()
    pc,            \* where each thread is
    kind,          \* the kind of the current or last request of a requester
    sent,          \* [Requesters \cup {Poller} -> Nat], requests made so far
    executed,      \* <<"cmd", q>>, <<"trigger", q>>: what the polling thread did
    acked          \* the requests that returned normally after having waited

vars == <<scenario, shared_cmd, local_cmd, trigger_work, works_empty, pc, kind, sent,
          executed, acked>>

Threads == Requesters \cup {Poller}
Requests == Threads \X Nat
Current(t) == <<t, sent[t]>>

Buffer == [cmd_pending : BOOLEAN, trigger : BOOLEAN,
           cmd_code : {"none", "object", "exit"}, target : Requests \cup {NoRequest}]

(* Where a thread sleeps, and where the signal or the timeout leaves it. *)
SleepPlace == {"asleep", "queued", "posted"}
WokenPlace == [asleep |-> "woken", queued |-> "queue_woken", posted |-> "ack_woken"]

RequesterPlace == {"idle", "queued", "queue_woken", "posted", "ack_woken",
                   "ack_expired", "joining", "gone"}
PollerPlace == {"loop", "asleep", "woken", "poll", "execute", "trigger", "self",
                "exited", "undefined"}

Init ==
    /\ scenario \in Scenarios
    /\ shared_cmd = [cmd_pending |-> FALSE, trigger |-> FALSE,
                     cmd_code |-> "none", target |-> NoRequest]
    /\ local_cmd = shared_cmd
    /\ trigger_work = NoRequest
    /\ works_empty = TRUE
    /\ pc = [t \in Threads |-> IF t = Poller THEN "loop" ELSE "idle"]
    /\ kind = [r \in Requesters |-> "post"]
    /\ sent = [t \in Threads |-> 0]
    /\ executed = {}
    /\ acked = {}

-----------------------------------------------------------------------------
(* cond.signal(): one of the threads that sleep, whichever it is, wakes up. *)

Sleepers(place) == {t \in Threads : place[t] \in SleepPlace}
Wake(place, t) == [place EXCEPT ![t] = WokenPlace[@]]
AfterSignal(place) ==
    IF Sleepers(place) = {} THEN {place}
    ELSE {Wake(place, t) : t \in Sleepers(place)}

-----------------------------------------------------------------------------
(* Requesters. *)

(* Faulty variant: the buffer is filled without waiting for its previous    *)
(* content to be consumed.                                                  *)
BusyNever(k) == FALSE

(* The condition tested before the buffer is filled: a command looks at     *)
(* cmd_pending, a trigger at trigger only.                                  *)
Busy(k) == IF k = "trigger" THEN shared_cmd.trigger ELSE shared_cmd.cmd_pending

(* Faulty variant: the polling thread is not signalled. *)
FillSilently(r, k, q) ==
    /\ shared_cmd' = [shared_cmd EXCEPT !.cmd_pending = TRUE,
                                        !.cmd_code = "object", !.target = q]
    /\ pc' = [pc EXCEPT ![r] = IF k = "post" THEN "idle" ELSE "posted"]

(* The buffer is filled, the condition variable signalled; the requester    *)
(* then waits for the execution, except for a local or period request.      *)
Fill(r, k, q) ==
    /\ shared_cmd' = IF k = "trigger"
                     THEN [shared_cmd EXCEPT !.trigger = TRUE, !.target = q]
                     ELSE [shared_cmd EXCEPT !.cmd_pending = TRUE,
                                             !.cmd_code = "object", !.target = q]
    /\ \E after \in AfterSignal(pc) :
          pc' = [after EXCEPT ![r] = IF k = "post" THEN "idle" ELSE "posted"]

(* The polling thread of a device is looked up by name; it is forgotten     *)
(* when it is killed, not when it exits for another reason.                 *)
ThreadKnown == \A r \in Requesters : pc[r] \notin {"joining", "gone"}

(* A requester that shares the channel with nobody: no other one sends      *)
(* commands, triggers or kills the thread, whose signals would end a wait   *)
(* for the buffer too early, and it triggers nothing itself.                *)
Alone(r) ==
    /\ \A q \in Requesters \ {r} : scenario.kinds[q] = {}
    /\ Kills \subseteq {r} /\ "trigger" \notin scenario.kinds[r]
    /\ ~ scenario.self /\ ~ scenario.spurious

(* The caller of add_obj_polling and the like, up to its first wait.        *)
Request(r, k) ==
    /\ pc[r] = "idle" /\ ThreadKnown
    /\ k \in scenario.kinds[r] /\ sent[r] < scenario.max[r]
    /\ sent' = [sent EXCEPT ![r] = @ + 1]
    /\ kind' = [kind EXCEPT ![r] = k]
    /\ IF Busy(k)
       THEN pc' = [pc EXCEPT ![r] = "queued"] /\ UNCHANGED shared_cmd
       ELSE Fill(r, k, <<r, sent[r] + 1>>)
    /\ UNCHANGED <<scenario, local_cmd, trigger_work, works_empty, executed, acked>>

(* "if(shared_cmd.cmd_pending) mon.wait();": after the wait the condition   *)
(* is not tested again.                                                     *)
Dequeue(r) ==
    /\ pc[r] = "queue_woken"
    /\ Fill(r, kind[r], Current(r))
    /\ UNCHANGED <<scenario, local_cmd, trigger_work, works_empty, kind, sent, executed, acked>>

(* "while(shared_cmd.cmd_pending) mon.wait(DEFAULT_TIMEOUT)" after a signal. *)
Confirm(r) ==
    /\ pc[r] = "ack_woken"
    /\ IF Busy(kind[r])
       THEN pc' = [pc EXCEPT ![r] = "posted"] /\ UNCHANGED acked
       ELSE pc' = [pc EXCEPT ![r] = "idle"] /\ acked' = acked \cup {Current(r)}
    /\ UNCHANGED <<scenario, shared_cmd, local_cmd, trigger_work, works_empty, kind, sent,
                   executed>>

(* The same after a timeout: "Polling thread blocked !!!" is thrown if the  *)
(* command is still pending; if this request had created the polling        *)
(* thread, its command is replaced by POLL_EXIT.                            *)
ConfirmExpired(r) ==
    /\ pc[r] = "ack_expired"
    /\ IF ~ Busy(kind[r])
       THEN /\ pc' = [pc EXCEPT ![r] = "idle"]
            /\ acked' = acked \cup {Current(r)}
            /\ UNCHANGED shared_cmd
       ELSE /\ UNCHANGED acked
            /\ IF kind[r] = "create"
               THEN /\ shared_cmd' = [shared_cmd EXCEPT !.cmd_pending = TRUE,
                                                        !.cmd_code = "exit"]
                    /\ pc' \in AfterSignal([pc EXCEPT ![r] = "idle"])
               ELSE pc' = [pc EXCEPT ![r] = "idle"] /\ UNCHANGED shared_cmd
    /\ UNCHANGED <<scenario, local_cmd, trigger_work, works_empty, kind, sent, executed>>

(* POLL_EXIT, sent when the last object of the thread goes or when the      *)
(* server stops: the buffer is filled without looking at it, and the caller *)
(* joins with the thread.                                                   *)
Kill(r) ==
    /\ r \in Kills /\ pc[r] = "idle" /\ ThreadKnown
    /\ shared_cmd' = [shared_cmd EXCEPT !.cmd_pending = TRUE, !.cmd_code = "exit"]
    /\ pc' \in AfterSignal([pc EXCEPT ![r] = "joining"])
    /\ UNCHANGED <<scenario, local_cmd, trigger_work, works_empty, kind, sent, executed, acked>>

Joined(r) ==
    /\ pc[r] = "joining" /\ pc[Poller] = "exited"
    /\ pc' = [pc EXCEPT ![r] = "gone"]
    /\ UNCHANGED <<scenario, shared_cmd, local_cmd, trigger_work, works_empty, kind, sent,
                   executed, acked>>

-----------------------------------------------------------------------------
(* The polling thread. *)

(* get_command after its wait: a command first, then a trigger; otherwise   *)
(* POLL_TIME_OUT, and one_more_poll takes the front of the work list, which *)
(* is undefined behaviour if the list is empty.                             *)
TakeCommand ==
    /\ \/ /\ shared_cmd.cmd_pending
          /\ local_cmd' = shared_cmd
          /\ pc' = [pc EXCEPT ![Poller] = "execute"]
          /\ UNCHANGED trigger_work
       \/ /\ ~ shared_cmd.cmd_pending /\ shared_cmd.trigger
          /\ local_cmd' = shared_cmd
          /\ trigger_work' = shared_cmd.target
          /\ pc' = [pc EXCEPT ![Poller] = "trigger"]
       \/ /\ ~ shared_cmd.cmd_pending /\ ~ shared_cmd.trigger
          /\ pc' = [pc EXCEPT ![Poller] = IF works_empty THEN "undefined" ELSE "poll"]
          /\ UNCHANGED <<local_cmd, trigger_work>>
    /\ UNCHANGED <<scenario, shared_cmd, works_empty, kind, sent, executed, acked>>

(* get_command: sleep only if nothing is pending; a late thread (sleep has  *)
(* no value) does not sleep at all.                                         *)
GetCommand ==
    /\ pc[Poller] = "loop"
    /\ \/ /\ shared_cmd.cmd_pending \/ shared_cmd.trigger \/ ~ works_empty
          /\ TakeCommand
       \/ /\ ~ shared_cmd.cmd_pending /\ ~ shared_cmd.trigger
          /\ pc' = [pc EXCEPT ![Poller] = "asleep"]
          /\ UNCHANGED <<scenario, shared_cmd, local_cmd, trigger_work, works_empty, kind,
                         sent, executed, acked>>

(* get_command with a sleep of exactly zero: the buffer is not looked at.   *)
GetCommandAtOnce ==
    /\ pc[Poller] = "loop" /\ ~ works_empty
    /\ pc' = [pc EXCEPT ![Poller] = "poll"]
    /\ UNCHANGED <<scenario, shared_cmd, local_cmd, trigger_work, works_empty, kind, sent,
                   executed, acked>>

(* Faulty variant: the wait has a timeout even if works is empty. *)
EndOfWaitAlwaysTimed ==
    /\ pc[Poller] \in {"woken", "asleep"}
    /\ TakeCommand

(* The wait ends: by a signal, or by its timeout if works is not empty. *)
EndOfWait ==
    /\ pc[Poller] = "woken" \/ (pc[Poller] = "asleep" /\ ~ works_empty)
    /\ TakeCommand

(* Faulty variants: the last block of execute_cmd does not clear            *)
(* cmd_pending, or does not signal.                                         *)
ExecuteCmdKeepsPending ==
    /\ pc[Poller] = "execute"
    /\ local_cmd.cmd_code = "object"
    /\ executed' = executed \cup {<<"cmd", local_cmd.target>>}
    /\ works_empty' \in BOOLEAN
    /\ pc' \in AfterSignal([pc EXCEPT ![Poller] = "loop"])
    /\ UNCHANGED <<scenario, shared_cmd, local_cmd, trigger_work, kind, sent, acked>>

ExecuteCmdSilent ==
    /\ pc[Poller] = "execute"
    /\ executed' = executed \cup {<<"cmd", local_cmd.target>>}
    /\ works_empty' \in BOOLEAN
    /\ shared_cmd' = [shared_cmd EXCEPT !.cmd_pending = FALSE]
    /\ pc' = [pc EXCEPT ![Poller] = "loop"]
    /\ UNCHANGED <<scenario, local_cmd, trigger_work, kind, sent, acked>>

(* execute_cmd: the command is executed on the local copy, then cmd_pending *)
(* is cleared and one thread signalled; omni_thread::exit() does neither.   *)
ExecuteCmd ==
    /\ pc[Poller] = "execute"
    /\ IF local_cmd.cmd_code = "exit"
       THEN /\ pc' = [pc EXCEPT ![Poller] = "exited"]
            /\ UNCHANGED <<shared_cmd, works_empty, executed>>
       ELSE /\ executed' = executed \cup {<<"cmd", local_cmd.target>>}
            /\ works_empty' \in BOOLEAN
            /\ shared_cmd' = [shared_cmd EXCEPT !.cmd_pending = FALSE]
            /\ pc' \in AfterSignal([pc EXCEPT ![Poller] = "loop"])
    /\ UNCHANGED <<scenario, local_cmd, trigger_work, kind, sent, acked>>

(* one_more_trigg: the object is polled, then trigger is cleared. *)
OneMoreTrigg ==
    /\ pc[Poller] = "trigger"
    /\ executed' = executed \cup {<<"trigger", trigger_work>>}
    /\ trigger_work' = NoRequest
    /\ shared_cmd' = [shared_cmd EXCEPT !.trigger = FALSE]
    /\ pc' \in AfterSignal([pc EXCEPT ![Poller] = "loop"])
    /\ UNCHANGED <<scenario, local_cmd, works_empty, kind, sent, acked>>

(* one_more_poll: the polled item goes back to the list, or is dropped.     *)
OneMorePoll ==
    /\ pc[Poller] = "poll"
    /\ works_empty' \in BOOLEAN
    /\ pc' = [pc EXCEPT ![Poller] = "loop"]
    /\ UNCHANGED <<scenario, shared_cmd, local_cmd, trigger_work, kind, sent, executed, acked>>

(* A polled command or attribute that changes its own polling: the request  *)
(* comes from the polling thread, which fills the buffer without the mutex, *)
(* copies it (set_local_cmd) and calls execute_cmd itself.                  *)
SelfRequest ==
    /\ pc[Poller] \in {"poll", "trigger"}
    /\ scenario.self /\ sent[Poller] < MaxSelf
    /\ sent' = [sent EXCEPT ![Poller] = @ + 1]
    /\ shared_cmd' = [shared_cmd EXCEPT !.cmd_pending = TRUE, !.cmd_code = "object",
                                        !.target = <<Poller, sent[Poller] + 1>>]
    /\ local_cmd' = shared_cmd'
    /\ pc' = [pc EXCEPT ![Poller] = "self"]
    /\ UNCHANGED <<scenario, trigger_work, works_empty, kind, executed, acked>>

SelfExecute ==
    /\ pc[Poller] = "self"
    /\ executed' = executed \cup {<<"cmd", local_cmd.target>>}
    /\ works_empty' \in BOOLEAN
    /\ shared_cmd' = [shared_cmd EXCEPT !.cmd_pending = FALSE]
    /\ pc' \in AfterSignal([pc EXCEPT ![Poller] =
                              IF trigger_work = NoRequest THEN "poll" ELSE "trigger"])
    /\ UNCHANGED <<scenario, local_cmd, trigger_work, kind, sent, acked>>

-----------------------------------------------------------------------------

(* mon.wait(DEFAULT_TIMEOUT) ends by its timeout. *)
Expire(r) ==
    /\ pc[r] = "posted"
    /\ pc' = [pc EXCEPT ![r] = "ack_expired"]
    /\ UNCHANGED <<scenario, shared_cmd, local_cmd, trigger_work, works_empty, kind, sent,
                   executed, acked>>

Spurious(t) ==
    /\ scenario.spurious
    /\ pc[t] \in SleepPlace
    /\ pc' = Wake(pc, t)
    /\ UNCHANGED <<scenario, shared_cmd, local_cmd, trigger_work, works_empty, kind, sent,
                   executed, acked>>

PollerStep ==
    \/ GetCommand \/ GetCommandAtOnce \/ EndOfWait
    \/ ExecuteCmd \/ OneMoreTrigg \/ OneMorePoll
    \/ SelfRequest \/ SelfExecute

Next ==
    \/ \E r \in Requesters :
          \/ \E k \in RequestKind : Request(r, k)
          \/ Dequeue(r) \/ Confirm(r) \/ ConfirmExpired(r) \/ Expire(r)
          \/ Kill(r) \/ Joined(r)
    \/ PollerStep
    \/ \E t \in Threads : Spurious(t)

(***************************************************************************)
(* Fairness: a thread that was woken gets the mutex, and the polling       *)
(* thread runs: no poll and no command blocks for ever, a timed wait ends, *)
(* and a sleep of exactly zero does not happen every time (strong fairness *)
(* of GetCommand).  Requests and timeouts of requesters are not fair.      *)
(***************************************************************************)
Fairness ==
    /\ \A r \in Requesters : WF_vars(Dequeue(r)) /\ WF_vars(Confirm(r))
    /\ SF_vars(GetCommand)
    /\ WF_vars(EndOfWait \/ ExecuteCmd \/ OneMoreTrigg \/ OneMorePoll \/ SelfExecute)

Spec == Init /\ [][Next]_vars

FairSpec == Spec /\ Fairness

-----------------------------------------------------------------------------

(* The buffer, its copy and the places of the threads have their types:    *)
(* a requester never ends up in a place of the polling thread.             *)
TypeOK ==
    /\ scenario \in Scenario
    /\ shared_cmd \in Buffer
    /\ local_cmd \in Buffer
    /\ trigger_work \in Requests \cup {NoRequest}
    /\ works_empty \in BOOLEAN
    /\ pc \in [Threads -> RequesterPlace \cup PollerPlace]
    /\ \A t \in Threads : pc[t] \in IF t = Poller THEN PollerPlace ELSE RequesterPlace
    /\ kind \in [Requesters -> RequestKind]
    /\ sent \in [Threads -> Nat]
    /\ executed \subseteq {"cmd", "trigger"} \X (Requests \cup {NoRequest})
    /\ acked \subseteq Requests

(* The work asked for by the request r has now: what the polling thread     *)
(* must have done before the request returns.                               *)
Work(r) == <<IF kind[r] = "trigger" THEN "trigger" ELSE "cmd", Current(r)>>

(* "Wait for thread to execute command": a request that waited and returned *)
(* without an exception was executed by the polling thread, on the device   *)
(* and the object it named.                                                 *)
Served(r) == pc[r] = "idle" /\ Current(r) \in acked => Work(r) \in executed

AckMeansServed == \A r \in Requesters : Served(r)

(* The same for a sender that has the channel for itself, which is what the *)
(* monitor of the administration device ensures between its own commands.   *)
AckMeansServedAlone == \A r \in Requesters : Alone(r) => Served(r)

(* A command or a trigger is not executed twice, whatever the threads that  *)
(* use the channel: cmd_pending and trigger are cleared by the same         *)
(* execution that consumed them.                                            *)
NeverTwice ==
    /\ pc[Poller] = "execute" /\ local_cmd.cmd_code = "object"
          => <<"cmd", local_cmd.target>> \notin executed
    /\ pc[Poller] = "trigger" => <<"trigger", trigger_work>> \notin executed

(* "If the work list is empty, the thread waits for ever" (get_command):    *)
(* one_more_poll is never called with an empty work list, whoever sends     *)
(* and wakes, as long as the wait does not return by itself.                *)
NoPollOfEmptyList == ~ scenario.spurious => pc[Poller] # "undefined"

(* A posted command reaches the polling thread although the signal of the   *)
(* poster may wake up any sleeper, and although the thread may be asleep    *)
(* without a timeout.                                                       *)
CommandTaken ==
    \A r \in Requesters :
        (Alone(r) /\ shared_cmd.cmd_pending)
            ~> (~ shared_cmd.cmd_pending \/ pc[Poller] = "exited")

(* "wait in case of previous cmd still not executed": the untimed wait      *)
(* before the buffer is filled ends once the previous command is executed.  *)
(* It does not if the thread has exited because its creation timed out:     *)
(* POLL_EXIT leaves cmd_pending set, and the thread known.                  *)
QueueLeft ==
    \A r \in Requesters :
        (Alone(r) /\ pc[r] = "queued") ~> (pc[r] # "queued" \/ pc[Poller] = "exited")

=============================================================================
