------------------------- MODULE MC_EventConsumer -------------------------
EXTENDS EventConsumer

MCEvents == 1 .. 2
MCValues == 0 .. 1

(* Two attributes of a server that is restarted. *)
Restarted == [late |-> FALSE, stops |-> 0, loss |-> 0, ids |-> <<1, 2>>, again |-> FALSE,
              changes |-> <<0, 0>>, runs |-> 2]
(* A heartbeat is lost. *)
Losses == [Restarted EXCEPT !.loss = 1, !.runs = 1, !.changes = <<1, 0>>]
(* Two subscriptions to one attribute, given back. *)
Twice == [Restarted EXCEPT !.ids = <<1, 1>>, !.again = TRUE]
TwiceBack == [Twice EXCEPT !.runs = 1, !.changes = <<2, 0>>]
(* Attributes that are polled later. *)
Late == [Restarted EXCEPT !.late = TRUE]
(* The polling of an attribute is stopped. *)
Stops == [Restarted EXCEPT !.stops = 1, !.runs = 1, !.changes = <<1, 0>>]
(* An attribute that changes and changes back, and a restart. *)
Back == [Restarted EXCEPT !.ids = <<1>>, !.changes = <<2, 0>>]

MCScenarios == {Losses, Twice, TwiceBack, Late, Stops, Back}
MCBack == {Back}

=============================================================================
