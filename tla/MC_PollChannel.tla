--------------------------- MODULE MC_PollChannel ---------------------------
EXTENDS PollChannel

CONSTANTS admin, local, trig

AdminOnly == {admin}
AdminAndTrigger == {admin, trig}
AdminAndLocal == {admin, local}

(* The administration device alone: its requests are serialised by its own  *)
(* monitor, so that one requester stands for all of them.                   *)
ByAdmin ==
    [kinds |-> [r \in AdminAndTrigger |-> IF r = admin THEN {"confirm", "post"} ELSE {}],
     max |-> [r \in AdminAndTrigger |-> 4],
     self |-> FALSE, spurious |-> FALSE]

(* The administration device, which creates the thread, a device whose code *)
(* triggers the polling of its own objects, and objects that change their   *)
(* own polling; waits may return by themselves.                             *)
ByAll ==
    [kinds |-> [r \in AdminAndTrigger |->
                   IF r = admin THEN {"create", "post"} ELSE {"trigger"}],
     max |-> [r \in AdminAndTrigger |-> IF r = admin THEN 2 ELSE 1],
     self |-> TRUE, spurious |-> TRUE]

AloneAndAll == {ByAdmin, ByAll}

(* The administration device and DeviceImpl::poll_object called by device   *)
(* code in another thread.                                                  *)
ByAdminAndLocal ==
    {[kinds |-> [r \in AdminAndLocal |-> IF r = admin THEN {"confirm"} ELSE {"post"}],
      max |-> [r \in AdminAndLocal |-> 2],
      self |-> FALSE, spurious |-> FALSE]}
=============================================================================
