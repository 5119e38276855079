------------------------------ MODULE BlackBox ------------------------------
(***************************************************************************)
(* The black box of a device: who asked what of it, in a ring (classes     *)
(* BlackBox and BlackBoxElt).  The slots are never cleared: an insertion   *)
(* assigns only some of the fields of a slot, and which ones depends on    *)
(* the operation and on the caller.  Each public operation holds the mutex *)
(* sync, so it is one step.  Requests are numbered in order; the number    *)
(* stands for the names, source and date, which every insertion sets.      *)
(***************************************************************************)
EXTENDS Naturals, Sequences

CONSTANTS
    Depths,       \* the depths a black box may be created with
    Clients,      \* client processes, told apart by their identification
    NoClient,
    IdlVersions,  \* the IDL versions a device may implement
    MaxRequests   \* bound: requests in one behaviour

ASSUME BoxAssumption ==
    /\ Depths \subseteq Nat \ {0}
    /\ NoClient \notin Clients
    /\ IdlVersions \subseteq 1 .. 6
    /\ MaxRequests \in Nat

VARIABLES
    max_elt, insert_elt, nb_elt,  \* the members of BlackBox
    idl_version,  \* of the device; never changes
    box,      \* [0 .. max_elt - 1 -> slot]
    requests  \* the requests made, oldest first, with their real origin

box_vars == <<max_elt, insert_elt, nb_elt, idl_version, box, requests>>

(* Who calls, as get_client_host finds it: one of the server's own threads *)
(* ("polling", "init", "user thread"), a client of another process reached *)
(* by TCP or by a UNIX socket, or a client in the server's process whose   *)
(* call came through the ORB.                                              *)
ServerThreads == {"polling", "init", "user thread"}
Remote  == {"tcp", "unix"}
Hosts   == ServerThreads \cup Remote \cup {"collocated"}

(* The operations, as far as the insertions tell them apart. *)
Ops == {"command", "read", "write"}

EmptySlot == [req |-> 0, op |-> "", host |-> "", client_ident |-> FALSE, client |-> NoClient]

BoxInit ==
    /\ max_elt \in Depths
    /\ insert_elt = 0
    /\ nb_elt = 0
    /\ idl_version \in IdlVersions
    /\ box = [i \in 0 .. max_elt - 1 |-> EmptySlot]
    /\ requests = <<>>

-----------------------------------------------------------------------------

IncIndexes ==
    /\ insert_elt' = IF insert_elt + 1 = max_elt THEN 0 ELSE insert_elt + 1
    /\ nb_elt' = IF nb_elt # max_elt THEN nb_elt + 1 ELSE nb_elt

(* insert_attr without identification, called by read_attributes,           *)
(* read_attributes_2 and read_attributes_3 (the "read" of Insert), has a    *)
(* case for each of the IDL versions 1 to 4 of the device and none for the  *)
(* later ones: op_type then keeps the operation of the slot's previous      *)
(* request.                                                                 *)
OpType(s, op) == IF op = "read" /\ idl_version > 4 THEN s.op ELSE op

(* Faulty variant: the identification of the slot's previous request        *)
(* survives.                                                                *)
InsertKeepingIdent(s, op, h) == [s EXCEPT !.req = Len(requests) + 1, !.op = op, !.host = h]

(* The slot after insert_cmd_nl, insert_op_nl, insert_corba_attr and the   *)
(* insert_attr operations for reading and for IDL 1 to 3 writing.          *)
InsertResettingIdent(s, op, h) ==
    [s EXCEPT !.req = Len(requests) + 1, !.op = op, !.host = h, !.client_ident = FALSE]

(* The slot after insert_attr_nl_4 and insert_attr_wr_nl, for writing with *)
(* IDL 4 and later: client_ident keeps the value it had.                   *)
InsertWriting(s, h) == [s EXCEPT !.req = Len(requests) + 1, !.op = "write", !.host = h]

(* update_client_host, called for the slot just inserted unless the name   *)
(* of the host begins like one of the server's own threads.                *)
UpdateClientHost(s, h, c) ==
    IF h \in ServerThreads THEN s ELSE [s EXCEPT !.client_ident = TRUE, !.client = c]

(* The client of a request is known if it is remote and identifies itself. *)
Record(op, h, c) ==
    requests' = Append(requests, [req |-> Len(requests) + 1, op |-> op, host |-> h,
                                  client |-> IF h \in Remote THEN c ELSE NoClient])

(* Operations without an identification of the client. *)
Insert(op, h) ==
    /\ Len(requests) < MaxRequests
    /\ box' = [box EXCEPT ![insert_elt] = InsertResettingIdent(@, OpType(@, op), h)]
    /\ IncIndexes
    /\ Record(op, h, NoClient)
    /\ UNCHANGED <<max_elt, idl_version>>

(* insert_cmd_cl_ident, insert_op, insert_attr for reading with IDL 4 and  *)
(* for pipes: an operation other than writing attributes.                  *)
InsertClIdent(h, c) ==
    /\ Len(requests) < MaxRequests
    /\ idl_version >= 4
    /\ box' = [box EXCEPT ![insert_elt] = UpdateClientHost(InsertResettingIdent(@, "command", h), h, c)]
    /\ IncIndexes
    /\ Record("command", h, c)
    /\ UNCHANGED <<max_elt, idl_version>>

(* insert_attr for writing with IDL 4, and insert_wr_attr. *)
InsertWrAttr(h, c) ==
    /\ Len(requests) < MaxRequests
    /\ idl_version >= 4
    /\ box' = [box EXCEPT ![insert_elt] = UpdateClientHost(InsertWriting(@, h), h, c)]
    /\ IncIndexes
    /\ Record("write", h, c)
    /\ UNCHANGED <<max_elt, idl_version>>

BoxNext ==
    \/ \E op \in Ops, h \in Hosts : Insert(op, h)
    \/ \E h \in Hosts, c \in Clients : InsertClIdent(h, c)
    \/ \E h \in Hosts, c \in Clients : InsertWrAttr(h, c)

BoxSpec == BoxInit /\ [][BoxNext]_box_vars

-----------------------------------------------------------------------------

(* build_info_as_str: the client is named for remote requests only. *)
BuildInfo(s) ==
    [req |-> s.req, op |-> s.op, host |-> s.host,
     client |-> IF s.host \in Remote /\ s.client_ident THEN s.client ELSE NoClient]

(* The index of the reading loop after k turns. *)
ReadIndex ==
    LET index[k \in 0 .. max_elt] ==
            IF k = 0 THEN IF insert_elt = 0 THEN max_elt - 1 ELSE insert_elt - 1
            ELSE IF index[k - 1] = 0 THEN max_elt - 1 ELSE index[k - 1] - 1
    IN  index

Smaller(a, b) == IF a < b THEN a ELSE b

(* read(wanted_elt), for a positive argument and a box that is not empty:  *)
(* the newest request first.                                               *)
Read(wanted_elt) ==
    [k \in 1 .. Smaller(Smaller(wanted_elt, max_elt), nb_elt) |-> BuildInfo(box[ReadIndex[k - 1]])]

-----------------------------------------------------------------------------

(* The indexes stay within the box (inc_indexes) and the slots hold        *)
(* operations, origins and clients.                                        *)
BoxTypeOK ==
    /\ max_elt \in Depths
    /\ insert_elt \in 0 .. max_elt - 1
    /\ nb_elt \in 0 .. max_elt
    /\ box \in [0 .. max_elt - 1 -> [req : 0 .. MaxRequests, op : Ops \cup {""}, host : Hosts \cup {""},
                                     client_ident : BOOLEAN, client : Clients \cup {NoClient}]]
    /\ idl_version \in IdlVersions
    /\ requests \in Seq([req : 1 .. MaxRequests, op : Ops, host : Hosts, client : Clients \cup {NoClient}])

(* What the black box reports is what happened: the newest requests,       *)
(* newest first, each with its own operation, origin and client.  In       *)
(* particular the identification that an earlier request left in a reused  *)
(* slot is never shown for a later one, although the writing operations do *)
(* not clear it.                                                           *)
ReadFaithful ==
    nb_elt > 0 => \A wanted \in 1 .. max_elt + 1 :
        LET n == Smaller(wanted, Smaller(max_elt, Len(requests)))
        IN  Read(wanted) = [k \in 1 .. n |-> requests[Len(requests) - k + 1]]
=============================================================================
