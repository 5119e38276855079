---------------------------- MODULE MC_PollWorks ----------------------------
EXTENDS PollWorks

Attr(d, n) == [dev |-> d, type |-> "attr", name |-> n]
Cmd(d, n) == [dev |-> d, type |-> "cmd", name |-> n]

TwoPeriods == {0, 2, 3}
FromPeriodic == {<<p, q>> \in TwoPeriods \X TwoPeriods : p # 0}
BetweenPeriods == {<<p, q>> \in TwoPeriods \X TwoPeriods : p # 0 /\ q # 0 /\ p # q}

(* An attribute and a command of two devices, and a second attribute, which *)
(* may share a work with the first.                                         *)
ThreeObjects == {Attr("d1", "a"), Attr("d1", "b"), Cmd("d2", "c")}

(* Two attributes of one device; every change from a period. *)
Changing ==
    [objects |-> {Attr("d1", "a"), Attr("d1", "b")}, periods |-> TwoPeriods,
     updates |-> FromPeriodic, self_updates |-> BetweenPeriods, self_rem |-> FALSE,
     needed_times |-> {0, 1}]

(* Two works that compete for the thread. *)
Competing ==
    [objects |-> {Attr("d1", "a"), Cmd("d2", "c")}, periods |-> TwoPeriods,
     updates |-> {}, self_updates |-> {}, self_rem |-> FALSE, needed_times |-> {0, 1}]

(* Attributes that share a work and ask for the period they already have,   *)
(* with another work in the list.                                           *)
Renewing ==
    [objects |-> ThreeObjects, periods |-> {3}, updates |-> {}, self_updates |-> {<<3, 3>>},
     self_rem |-> FALSE, needed_times |-> {0, 1}]

(* Objects that stop their own polling. *)
Stopping == [Competing EXCEPT !.periods = {3}, !.self_rem = TRUE,
                              !.needed_times = {1}]

All == {Changing, Competing, Renewing, Stopping}

(* Two devices with attributes of the same name, one externally triggered   *)
(* and given a period.                                                      *)
SameName == {Attr("d1", "a"), Attr("d2", "a")}
FromTriggered ==
    {[objects |-> SameName, periods |-> TwoPeriods, updates |-> {<<0, 2>>, <<0, 3>>},
      self_updates |-> {}, self_rem |-> FALSE, needed_times |-> {0, 1}]}
=============================================================================
