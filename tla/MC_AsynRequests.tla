--------------------------- MODULE MC_AsynRequests ---------------------------
(* Instances of AsynRequests for TLC: two proxies and two threads. *)
EXTENDS AsynRequests

CONSTANTS p1, p2, t1, t2

Own(first, second) == [t \in Users |-> IF t = t1 THEN first ELSE second]

Quiet == [own |-> Own({p1, p2}, {}), polled |-> {}, called |-> {}, mine |-> {}, all |-> {},
          push |-> FALSE, faults |-> FALSE, redoFails |-> FALSE, cancelAll |-> FALSE, bound |-> 3]

(* One thread polls for replies while the server stops and comes back. *)
Polling == [Quiet EXCEPT !.polled = {"cmd", "write"}, !.faults = TRUE, !.bound = 2]

(* One proxy, one kind of request, all cancelled at once. *)
Cancelling == [Quiet EXCEPT !.own = Own({p1}, {}), !.polled = {"read"}, !.cancelAll = TRUE]

(* Two threads poll for the replies of their own proxies. *)
Apart == [Quiet EXCEPT !.own = Own({p1}, {p2}), !.polled = {"cmd"}, !.bound = 2]

(* One thread, callbacks: every call on its proxies; calls on ApiUtil. *)
Pulling == [Quiet EXCEPT !.called = {"cmd"}, !.mine = Calls, !.all = {"poll"}, !.bound = 2]
PullingAll == [Quiet EXCEPT !.called = {"cmd"}, !.all = Calls, !.bound = 2]

(* One thread, callbacks of all kinds, the server stops. *)
Failing == [Quiet EXCEPT !.own = Own({p1}, {}), !.called = Kinds, !.mine = {"poll"},
                         !.faults = TRUE, !.bound = 2]

(* Two threads, each with its proxy, that do not wait for ever. *)
Shared == [Quiet EXCEPT !.own = Own({p1}, {p2}), !.called = {"cmd"}, !.mine = {"poll", "timed"}, !.bound = 2]

(* The push sub-model, given up at any time. *)
Pushing == [Quiet EXCEPT !.own = Own({p1}, {p2}), !.called = {"cmd"}, !.push = TRUE, !.bound = 2]

MCScenarios == {Polling, Cancelling, Apart, Pulling, PullingAll, Failing, Shared, Pushing}

(* All of them use the library in the ways the properties ask for. *)
ASSUME MCAssumption == \A s \in MCScenarios : Counted(s)

(* The reply of an attribute read or written again after a reconnection. *)
MCRedone == {[Polling EXCEPT !.polled = {"write"}, !.redoFails = TRUE]}
=============================================================================
