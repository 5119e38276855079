---------------------------- MODULE MC_DeviceLock ----------------------------
EXTENDS DeviceLock

CONSTANTS c1, c2, d1, d2

BothClients == {c1, c2}
BothDevices == {d1, d2}
OneAdmin == {c2}

Nest(n11, n12, n21, n22) ==
    [c \in BothClients |-> [d \in BothDevices |->
        CASE c = c1 /\ d = d1 -> n11 [] c = c1 /\ d = d2 -> n12
          [] c = c2 /\ d = d1 -> n21 [] c = c2 /\ d = d2 -> n22]]

(* Two clients compete for a device, lock it twice, end or crash. *)
Competing == [uses |-> [c \in BothClients |-> {d1}], nest |-> Nest(2, 0, 2, 0),
              mortal |-> BothClients]

(* The thread of one client renews two locks, of which another client may   *)
(* take one away.                                                           *)
Renewing == [uses |-> [c \in BothClients |-> IF c = c1 THEN BothDevices ELSE {d1}],
             nest |-> Nest(1, 1, 0, 0), mortal |-> {}]

All == {Competing, Renewing}
TwoLocks == {Renewing}

(* Each client uses one validity. *)
OneValidity == [c \in BothClients |-> {2}]

(* A client that locks two devices of the server for different times. *)
TwoValidities == [c \in BothClients |-> IF c = c1 THEN {2, 4} ELSE {}]
=============================================================================
