--------------------------- MODULE Device_proofs ----------------------------
(***************************************************************************)
(* Proofs about the two objects of a device that every request meets: its  *)
(* monitor, for any set of threads and of monitors, and its black box, for *)
(* every depth and any number of requests.                                 *)
(***************************************************************************)
EXTENDS TangoMonitor, BlackBox, LoopTheorems, TLAPS

-----------------------------------------------------------------------------
(* The monitor. *)

(* Every step of get_monitor and rel_monitor keeps the counters and the     *)
(* owner in their types.                                                    *)
LEMMA TypeStep ==
    ASSUME TypeOK, Ownership, [Next]_vars
    PROVE  TypeOK'
<1> USE MonitorAssumption DEF TypeOK, Phase
<1>0. ASSUME NEW t \in Threads, NEW m \in Monitors, Acquire(t, m)
      PROVE  /\ locked_ctr' \in [Monitors -> Nat]
             /\ locking_thread' \in [Monitors -> Threads \cup {NoThread}]
             /\ held' \in [Threads -> [Monitors -> Nat]]
  <2>1. [held[t] EXCEPT ![m] = @ + 1] \in [Monitors -> Nat]
    OBVIOUS
  <2>2. held' = [held EXCEPT ![t] = [held[t] EXCEPT ![m] = @ + 1]]
    BY <1>0 DEF Acquire
  <2>3. held' \in [Threads -> [Monitors -> Nat]]
    BY <2>1, <2>2
  <2> QED BY <1>0, <2>3 DEF Acquire
<1>1. ASSUME NEW t \in Threads, NEW m \in Monitors, GetMonitor(t, m)
      PROVE  TypeOK'
  BY <1>0, <1>1 DEF GetMonitor
<1>2. ASSUME NEW t \in Threads, WakeUp(t)
      PROVE  TypeOK'
  BY <1>0, <1>2 DEF WakeUp
<1>3. ASSUME NEW t \in Threads, Expire(t) \/ Spurious(t) \/ ThrowTimedOut(t)
      PROVE  TypeOK'
  BY <1>3 DEF Expire, Spurious, ThrowTimedOut
<1>4. ASSUME NEW t \in Threads, NEW m \in Monitors, RelMonitor(t, m)
      PROVE  TypeOK'
  <2>1. locked_ctr[m] \in Nat \ {0} /\ held[t][m] = locked_ctr[m]
    BY <1>4 DEF RelMonitor, Ownership
  <2>2. locked_ctr' \in [Monitors -> Nat] /\ held' \in [Threads -> [Monitors -> Nat]]
    <3>1. [held[t] EXCEPT ![m] = @ - 1] \in [Monitors -> Nat]
      BY <2>1
    <3>2. held' = [held EXCEPT ![t] = [held[t] EXCEPT ![m] = @ - 1]]
      BY <1>4 DEF RelMonitor
    <3>3. held' \in [Threads -> [Monitors -> Nat]]
      BY <3>1, <3>2
    <3> QED BY <1>4, <2>1, <3>3 DEF RelMonitor
  <2>3. locking_thread' \in [Monitors -> Threads \cup {NoThread}] /\ UNCHANGED wanted
    BY <1>4 DEF RelMonitor
  <2>4. phase' \in [Threads -> Phase]
    BY <1>4 DEF RelMonitor, Signal
  <2> QED BY <2>2, <2>3, <2>4
<1>5. ASSUME UNCHANGED vars
      PROVE  TypeOK'
  BY <1>5 DEF vars
<1> QED BY <1>1, <1>2, <1>3, <1>4, <1>5 DEF Next, RelMonitorNotOwner

(* A monitor changes hands only when it is free, and only its owner counts  *)
(* it down.                                                                 *)
LEMMA OwnershipStep ==
    ASSUME TypeOK, Ownership, [Next]_vars
    PROVE  Ownership'
<1> USE MonitorAssumption DEF TypeOK, Ownership
<1>1. ASSUME NEW t \in Threads, NEW m \in Monitors,
             locked_ctr[m] = 0 \/ locking_thread[m] = t, Acquire(t, m)
      PROVE  Ownership'
  BY <1>1 DEF Acquire
<1>2. ASSUME NEW t \in Threads, NEW m \in Monitors, GetMonitor(t, m)
      PROVE  Ownership'
  BY <1>1, <1>2 DEF GetMonitor
<1>3. ASSUME NEW t \in Threads, WakeUp(t)
      PROVE  Ownership'
  <2>1. CASE locked_ctr[wanted[t]] > 0
    BY <1>3, <2>1 DEF WakeUp
  <2>2. CASE locked_ctr[wanted[t]] = 0
    BY <1>1, <1>3, <2>2 DEF WakeUp
  <2> QED BY <2>1, <2>2
<1>4. ASSUME NEW t \in Threads, Expire(t) \/ Spurious(t) \/ ThrowTimedOut(t)
      PROVE  Ownership'
  BY <1>4 DEF Expire, Spurious, ThrowTimedOut
<1>5. ASSUME NEW t \in Threads, NEW m \in Monitors, RelMonitor(t, m)
      PROVE  Ownership'
  <2>1. CASE locked_ctr[m] = 1
    BY <1>5, <2>1 DEF RelMonitor
  <2>2. CASE locked_ctr[m] # 1
    BY <1>5, <2>2 DEF RelMonitor
  <2> QED BY <2>1, <2>2
<1>6. ASSUME UNCHANGED vars
      PROVE  Ownership'
  BY <1>6 DEF vars
<1> QED BY <1>2, <1>3, <1>4, <1>5, <1>6 DEF Next, RelMonitorNotOwner

(* The last release signals a sleeper; a sleeper that is signalled leaves   *)
(* "woken" only by finding the monitor locked or by locking it.             *)
LEMMA NoLostWakeUpStep ==
    ASSUME TypeOK, NoLostWakeUp, [Next]_vars
    PROVE  NoLostWakeUp'
<1> USE DEF TypeOK, NoLostWakeUp, Waiting, Woken, Phase
<1>1. ASSUME NEW t \in Threads, NEW m \in Monitors, GetMonitor(t, m)
      PROVE  NoLostWakeUp'
  <2>1. CASE locked_ctr[m] = 0 \/ locking_thread[m] = t
    BY <1>1, <2>1 DEF GetMonitor, Acquire
  <2>2. CASE ~ (locked_ctr[m] = 0 \/ locking_thread[m] = t)
    BY <1>1, <2>2 DEF GetMonitor
  <2> QED BY <2>1, <2>2
<1>2. ASSUME NEW t \in Threads, WakeUp(t)
      PROVE  NoLostWakeUp'
  <2>1. CASE locked_ctr[wanted[t]] > 0
    BY <1>2, <2>1 DEF WakeUp
  <2>2. CASE locked_ctr[wanted[t]] = 0
    <3>1. /\ locked_ctr' = [locked_ctr EXCEPT ![wanted[t]] = 1]
          /\ phase' = [phase EXCEPT ![t] = "run"]
          /\ wanted' = wanted
      BY <1>2, <2>2 DEF WakeUp, Acquire
    <3> QED BY <3>1
  <2>3. locked_ctr[wanted[t]] > 0 \/ locked_ctr[wanted[t]] = 0
    OBVIOUS
  <2> QED BY <2>1, <2>2, <2>3
<1>3. ASSUME NEW t \in Threads, Expire(t) \/ Spurious(t) \/ ThrowTimedOut(t)
      PROVE  NoLostWakeUp'
  BY <1>3 DEF Expire, Spurious, ThrowTimedOut
<1>4. ASSUME NEW t \in Threads, NEW m \in Monitors, RelMonitor(t, m)
      PROVE  NoLostWakeUp'
  <2>1. CASE locked_ctr[m] = 1
    <3>1. CASE Waiting(m) = {}
      BY <1>4, <2>1, <3>1 DEF RelMonitor, Signal
    <3>2. CASE Waiting(m) # {}
      BY <1>4, <2>1, <3>2 DEF RelMonitor, Signal
    <3> QED BY <3>1, <3>2
  <2>2. CASE locked_ctr[m] # 1
    BY <1>4, <2>2 DEF RelMonitor
  <2> QED BY <2>1, <2>2
<1>5. ASSUME UNCHANGED vars
      PROVE  NoLostWakeUp'
  BY <1>5 DEF vars
<1> QED BY <1>1, <1>2, <1>3, <1>4, <1>5 DEF Next, RelMonitorNotOwner

(* The conjunction of the three invariants is inductive. *)
THEOREM MonitorInvariant == Spec => [](TypeOK /\ Ownership /\ NoLostWakeUp)
<1>1. Init => TypeOK /\ Ownership /\ NoLostWakeUp
  BY MonitorAssumption
     DEF Init, TypeOK, Phase, Ownership, NoLostWakeUp, Waiting, Woken
<1>2. TypeOK /\ Ownership /\ NoLostWakeUp /\ [Next]_vars
         => (TypeOK /\ Ownership /\ NoLostWakeUp)'
  BY TypeStep, OwnershipStep, NoLostWakeUpStep
<1> QED BY <1>1, <1>2, PTL DEF Spec

(* The counters, the owner and the threads stay in their types. *)
THEOREM MonitorTypes == Spec => []TypeOK
BY MonitorInvariant, PTL

(* get_monitor and rel_monitor give mutual exclusion with exact nesting.    *)
THEOREM MonitorOwnership == Spec => []Ownership
BY MonitorInvariant, PTL

(* The single signal of rel_monitor is enough: no thread sleeps on a free   *)
(* monitor unless another one is on its way to take it.                     *)
THEOREM MonitorNoLostWakeUp == Spec => []NoLostWakeUp
BY MonitorInvariant, PTL

-----------------------------------------------------------------------------
(* The black box.  The slots are never cleared, so what a slot holds is no  *)
(* use by itself: the invariant speaks of what build_info_as_str shows of   *)
(* it, which depends on the host just written and not only on the           *)
(* identification that an earlier request left.                             *)

BoxSlot ==
    [req : 0 .. MaxRequests, op : Ops \cup {""}, host : Hosts \cup {""},
     client_ident : BOOLEAN, client : Clients \cup {NoClient}]

BoxRequest == [req : 1 .. MaxRequests, op : Ops, host : Hosts, client : Clients \cup {NoClient}]

(* The k-th slot behind insert_elt. *)
SlotOf(k) == IF insert_elt >= k THEN insert_elt - k ELSE max_elt + insert_elt - k

(* A report s shows the request r: all of it, unless r is a reading of a    *)
(* device of IDL 5 or later, whose op_type insert_attr does not write.      *)
Shown(s, r) ==
    /\ s.req = r.req /\ s.host = r.host /\ s.client = r.client
    /\ s.op = r.op \/ (idl_version > 4 /\ r.op = "read")

BoxInv ==
    /\ BoxTypeOK
    /\ Len(requests) <= MaxRequests
    /\ nb_elt < max_elt => insert_elt = nb_elt
    /\ nb_elt = Smaller(max_elt, Len(requests))
    /\ \A k \in 1 .. nb_elt : Shown(BuildInfo(box[SlotOf(k)]), requests[Len(requests) - k + 1])

(* What the three inserting operations do: s is written into the slot at    *)
(* insert_elt for the request r, and is reported as r.                      *)
Inserts(s, r) ==
    /\ Len(requests) < MaxRequests
    /\ s \in BoxSlot /\ r \in BoxRequest
    /\ Shown(BuildInfo(s), r)
    /\ box' = [box EXCEPT ![insert_elt] = s]
    /\ requests' = Append(requests, r)
    /\ IncIndexes
    /\ UNCHANGED <<max_elt, idl_version>>

LEMMA BoxTypes ==
    ASSUME BoxTypeOK
    PROVE  /\ max_elt \in Nat \ {0} /\ insert_elt \in 0 .. max_elt - 1 /\ nb_elt \in 0 .. max_elt
           /\ box \in [0 .. max_elt - 1 -> BoxSlot]
           /\ requests \in Seq(BoxRequest) /\ Len(requests) \in Nat
           /\ box[insert_elt] \in BoxSlot
<1>1. requests \in Seq(BoxRequest)
  BY DEF BoxTypeOK, BoxRequest
<1>2. Len(requests) \in Nat
  BY <1>1
<1>3. insert_elt \in 0 .. max_elt - 1 /\ box \in [0 .. max_elt - 1 -> BoxSlot]
  BY DEF BoxTypeOK, BoxSlot
<1>4. max_elt \in Nat \ {0} /\ nb_elt \in 0 .. max_elt
  BY BoxAssumption DEF BoxTypeOK
<1> QED BY <1>1, <1>2, <1>3, <1>4

LEMMA ReqInRange == ASSUME NEW n \in 1 .. MaxRequests PROVE n \in 0 .. MaxRequests
BY BoxAssumption

(* What an insertion leaves in the slot s. *)
Wrote(s, op, h) == s \in BoxSlot /\ s.req = Len(requests) + 1 /\ s.op = op /\ s.host = h

LEMMA ResettingWrote ==
    ASSUME NEW o \in BoxSlot, NEW op \in Ops \cup {""}, NEW h \in Hosts,
           Len(requests) + 1 \in 1 .. MaxRequests,
           NEW s, s = InsertResettingIdent(o, op, h)
    PROVE  Wrote(s, op, h) /\ s.client_ident = FALSE
<1>1. PICK n \in 1 .. MaxRequests : n = Len(requests) + 1
  OBVIOUS
<1>2. s = [o EXCEPT !.req = n, !.op = op, !.host = h, !.client_ident = FALSE]
  BY <1>1 DEF InsertResettingIdent
<1>3. s.req = n /\ s.op = op /\ s.host = h
  BY <1>2 DEF BoxSlot
<1>4. s.client_ident = FALSE
  BY <1>2 DEF BoxSlot
<1>5. n \in 0 .. MaxRequests
  BY ReqInRange
<1>6. s \in BoxSlot
  BY <1>2, <1>5 DEF BoxSlot
<1> QED BY <1>1, <1>3, <1>4, <1>6 DEF Wrote

LEMMA WritingWrote ==
    ASSUME NEW o \in BoxSlot, NEW h \in Hosts,
           Len(requests) + 1 \in 1 .. MaxRequests,
           NEW s, s = InsertWriting(o, h)
    PROVE  Wrote(s, "write", h)
<1>1. PICK n \in 1 .. MaxRequests : n = Len(requests) + 1
  OBVIOUS
<1>2. s = [o EXCEPT !.req = n, !.op = "write", !.host = h]
  BY <1>1 DEF InsertWriting
<1>3. s.req = n /\ s.op = "write" /\ s.host = h
  BY <1>2 DEF BoxSlot
<1>4. n \in 0 .. MaxRequests
  BY ReqInRange
<1>5. s \in BoxSlot
  BY <1>2, <1>4 DEF BoxSlot, Ops
<1> QED BY <1>1, <1>3, <1>5 DEF Wrote

(* update_client_host writes client_ident and the client unless the caller  *)
(* is a thread of the server, for which no client is shown: whatever was    *)
(* in client_ident, the report names the right client.                      *)
LEMMA UpdatingWrote ==
    ASSUME NEW o, NEW op, NEW h \in Hosts, NEW c \in Clients, Wrote(o, op, h),
           NEW s, s = UpdateClientHost(o, h, c)
    PROVE  Wrote(s, op, h) /\ BuildInfo(s).client = IF h \in Remote THEN c ELSE NoClient
<1>1. CASE h \in ServerThreads
  <2>1. s = o /\ s.host = h /\ h \notin Remote
    BY <1>1 DEF UpdateClientHost, Wrote, ServerThreads, Remote
  <2>2. BuildInfo(s).client = NoClient
    BY <2>1 DEF BuildInfo
  <2> QED BY <2>1, <2>2
<1>2. CASE h \notin ServerThreads
  <2>1. s = [o EXCEPT !.client_ident = TRUE, !.client = c]
    BY <1>2 DEF UpdateClientHost
  <2>2. o \in BoxSlot
    BY DEF Wrote
  <2>3. s.req = o.req /\ s.op = o.op /\ s.host = o.host /\ s.client = c
    BY <2>1, <2>2 DEF BoxSlot
  <2>4. s.client_ident = TRUE
    BY <2>1, <2>2 DEF BoxSlot
  <2>5. s \in BoxSlot
    BY <2>1, <2>2 DEF BoxSlot
  <2>6. s.host = h /\ Wrote(s, op, h)
    BY <2>3, <2>5 DEF Wrote
  <2>7. BuildInfo(s).client = IF s.host \in Remote THEN s.client ELSE NoClient
    BY <2>4, <2>5 DEF BuildInfo, BoxSlot
  <2> QED BY <2>3, <2>6, <2>7
<1> QED BY <1>1, <1>2

LEMMA WroteInserts ==
    ASSUME BoxInv, NEW op \in Ops, NEW h \in Hosts, NEW c \in Clients \cup {NoClient},
           NEW slot_op, slot_op = op \/ (idl_version > 4 /\ op = "read"),
           Len(requests) < MaxRequests, Record(op, h, c),
           IncIndexes, UNCHANGED <<max_elt, idl_version>>,
           NEW s, Wrote(s, slot_op, h), box' = [box EXCEPT ![insert_elt] = s],
           BuildInfo(s).client = IF h \in Remote THEN c ELSE NoClient
    PROVE  \E r : Inserts(s, r)
<1>1. PICK n, k : n = Len(requests) + 1 /\ k = IF h \in Remote THEN c ELSE NoClient
  OBVIOUS
<1>2. Len(requests) \in Nat /\ MaxRequests \in Nat
  BY BoxTypes, BoxAssumption DEF BoxInv
<1>3. n \in 1 .. MaxRequests
  BY <1>1, <1>2
<1>4. PICK r : r = [req |-> n, op |-> op, host |-> h, client |-> k]
  OBVIOUS
<1>5. r \in BoxRequest
  BY <1>1, <1>3, <1>4 DEF BoxRequest
<1>6. requests' = Append(requests, r)
  BY <1>1, <1>4 DEF Record
<1>7. BuildInfo(s).req = n /\ BuildInfo(s).op = slot_op /\ BuildInfo(s).host = h /\ BuildInfo(s).client = k
  BY <1>1 DEF BuildInfo, Wrote
<1>8. r.req = n /\ r.op = op /\ r.host = h /\ r.client = k
  BY <1>4
<1>9. Shown(BuildInfo(s), r)
  BY <1>7, <1>8 DEF Shown
<1> QED BY <1>5, <1>6, <1>9 DEF Inserts, Wrote

LEMMA StepInserts ==
    ASSUME BoxInv, BoxNext
    PROVE  \E s, r : Inserts(s, r)
<1>1. PICK o \in BoxSlot : o = box[insert_elt]
  BY BoxTypes DEF BoxInv
<1>2. Len(requests) < MaxRequests => Len(requests) + 1 \in 1 .. MaxRequests
  BY BoxTypes, BoxAssumption DEF BoxInv
<1>3. ASSUME NEW op \in Ops, NEW h \in Hosts, Insert(op, h)
      PROVE  \E s, r : Inserts(s, r)
  <2>1. PICK p : p = OpType(o, op)
    OBVIOUS
  <2>2. p \in Ops \cup {""} /\ (p = op \/ (idl_version > 4 /\ op = "read"))
    BY <2>1 DEF OpType, BoxSlot
  <2>3. PICK s : s = InsertResettingIdent(o, p, h)
    OBVIOUS
  <2>4. /\ Len(requests) < MaxRequests /\ box' = [box EXCEPT ![insert_elt] = s]
        /\ IncIndexes /\ Record(op, h, NoClient) /\ UNCHANGED <<max_elt, idl_version>>
    BY <1>1, <1>3, <2>1, <2>3 DEF Insert
  <2>5. Wrote(s, p, h) /\ s.client_ident = FALSE
    BY <1>2, <2>2, <2>3, <2>4, ResettingWrote
  <2>6. BuildInfo(s).client = NoClient
    BY <2>5 DEF BuildInfo, Wrote, BoxSlot
  <2> QED BY <2>2, <2>4, <2>5, <2>6, WroteInserts
<1>4. ASSUME NEW h \in Hosts, NEW c \in Clients, InsertClIdent(h, c)
      PROVE  \E s, r : Inserts(s, r)
  <2>1. PICK w : w = InsertResettingIdent(o, "command", h)
    OBVIOUS
  <2>2. PICK s : s = UpdateClientHost(w, h, c)
    OBVIOUS
  <2>3. /\ Len(requests) < MaxRequests /\ box' = [box EXCEPT ![insert_elt] = s]
        /\ IncIndexes /\ Record("command", h, c) /\ UNCHANGED <<max_elt, idl_version>>
    BY <1>1, <1>4, <2>1, <2>2 DEF InsertClIdent
  <2>4. "command" \in Ops
    BY DEF Ops
  <2>5. Wrote(w, "command", h)
    BY <1>2, <2>1, <2>3, <2>4, ResettingWrote
  <2>6. Wrote(s, "command", h) /\ BuildInfo(s).client = IF h \in Remote THEN c ELSE NoClient
    BY <2>2, <2>5, UpdatingWrote
  <2> QED BY <2>3, <2>4, <2>6, WroteInserts
<1>5. ASSUME NEW h \in Hosts, NEW c \in Clients, InsertWrAttr(h, c)
      PROVE  \E s, r : Inserts(s, r)
  <2>1. PICK w : w = InsertWriting(o, h)
    OBVIOUS
  <2>2. PICK s : s = UpdateClientHost(w, h, c)
    OBVIOUS
  <2>3. /\ Len(requests) < MaxRequests /\ box' = [box EXCEPT ![insert_elt] = s]
        /\ IncIndexes /\ Record("write", h, c) /\ UNCHANGED <<max_elt, idl_version>>
    BY <1>1, <1>5, <2>1, <2>2 DEF InsertWrAttr
  <2>4. "write" \in Ops
    BY DEF Ops
  <2>5. Wrote(w, "write", h)
    BY <1>2, <2>1, <2>3, WritingWrote
  <2>6. Wrote(s, "write", h) /\ BuildInfo(s).client = IF h \in Remote THEN c ELSE NoClient
    BY <2>2, <2>5, UpdatingWrote
  <2> QED BY <2>3, <2>4, <2>6, WroteInserts
<1> QED BY <1>3, <1>4, <1>5 DEF BoxNext

(* The step of inc_indexes, seen from the reader: the new slot is the       *)
(* first one, and each of the others is one further away.                   *)
LEMMA SlotStep ==
    ASSUME BoxTypeOK, nb_elt < max_elt => insert_elt = nb_elt, IncIndexes, UNCHANGED max_elt
    PROVE  /\ insert_elt' \in 0 .. max_elt - 1
           /\ nb_elt' = IF nb_elt < max_elt THEN nb_elt + 1 ELSE max_elt
           /\ nb_elt' < max_elt => insert_elt' = nb_elt'
           /\ SlotOf(1)' = insert_elt
           /\ \A k \in 2 .. nb_elt' : SlotOf(k)' = SlotOf(k - 1) /\ SlotOf(k - 1) \in (0 .. max_elt - 1) \ {insert_elt}
<1>1. max_elt \in Nat \ {0} /\ insert_elt \in 0 .. max_elt - 1 /\ nb_elt \in 0 .. max_elt
  BY BoxTypes
<1>2. /\ insert_elt' = IF insert_elt + 1 = max_elt THEN 0 ELSE insert_elt + 1
      /\ nb_elt' = IF nb_elt < max_elt THEN nb_elt + 1 ELSE max_elt
  BY <1>1 DEF IncIndexes
<1>3. insert_elt' \in 0 .. max_elt - 1 /\ (nb_elt' < max_elt => insert_elt' = nb_elt')
  BY <1>1, <1>2
<1>4. SlotOf(1)' = insert_elt
  BY <1>1, <1>2 DEF SlotOf
<1>5. ASSUME NEW k \in 2 .. nb_elt'
      PROVE  SlotOf(k)' = SlotOf(k - 1) /\ SlotOf(k - 1) \in (0 .. max_elt - 1) \ {insert_elt}
  <2>1. k \in 2 .. max_elt
    BY <1>1, <1>2
  <2>2. SlotOf(k)' = SlotOf(k - 1)
    BY <1>1, <1>2, <2>1 DEF SlotOf
  <2>3. SlotOf(k - 1) \in (0 .. max_elt - 1) \ {insert_elt}
    BY <1>1, <2>1 DEF SlotOf
  <2> QED BY <2>2, <2>3
<1> QED BY <1>2, <1>3, <1>4, <1>5

LEMMA InsertsStep ==
    ASSUME BoxInv, NEW s, NEW r, Inserts(s, r)
    PROVE  BoxInv'
<1>1. /\ max_elt \in Nat \ {0} /\ insert_elt \in 0 .. max_elt - 1 /\ nb_elt \in 0 .. max_elt
      /\ box \in [0 .. max_elt - 1 -> BoxSlot]
      /\ requests \in Seq(BoxRequest) /\ Len(requests) \in Nat
  BY BoxTypes DEF BoxInv
<1>2. /\ s \in BoxSlot /\ r \in BoxRequest /\ Len(requests) < MaxRequests
      /\ box' = [box EXCEPT ![insert_elt] = s] /\ requests' = Append(requests, r)
      /\ max_elt' = max_elt /\ idl_version' = idl_version
  BY DEF Inserts
<1>3. /\ insert_elt' \in 0 .. max_elt - 1
      /\ nb_elt' = IF nb_elt < max_elt THEN nb_elt + 1 ELSE max_elt
      /\ nb_elt' < max_elt => insert_elt' = nb_elt'
      /\ SlotOf(1)' = insert_elt
      /\ \A k \in 2 .. nb_elt' : SlotOf(k)' = SlotOf(k - 1) /\ SlotOf(k - 1) \in (0 .. max_elt - 1) \ {insert_elt}
  BY SlotStep DEF BoxInv, Inserts
<1>4. /\ requests' \in Seq(BoxRequest) /\ Len(requests') = Len(requests) + 1
      /\ requests'[Len(requests) + 1] = r
      /\ \A i \in 1 .. Len(requests) : requests'[i] = requests[i]
  BY <1>1, <1>2
<1>5. box' \in [0 .. max_elt - 1 -> BoxSlot]
  BY <1>1, <1>2
<1>6. BoxTypeOK'
  <2>1. max_elt' \in Depths /\ idl_version' \in IdlVersions
    BY <1>2 DEF BoxInv, BoxTypeOK
  <2>2. insert_elt' \in 0 .. max_elt' - 1 /\ nb_elt' \in 0 .. max_elt'
    BY <1>1, <1>2, <1>3
  <2>3. box' \in [0 .. max_elt' - 1 -> BoxSlot]
    BY <1>2, <1>5
  <2> QED BY <2>1, <2>2, <2>3, <1>4 DEF BoxTypeOK, BoxSlot, BoxRequest
<1>7. nb_elt' = Smaller(max_elt, Len(requests))'
  <2>1. nb_elt = IF max_elt < Len(requests) THEN max_elt ELSE Len(requests)
    BY DEF BoxInv, Smaller
  <2>2. nb_elt' = IF max_elt' < Len(requests') THEN max_elt' ELSE Len(requests')
    BY <1>1, <1>2, <1>3, <1>4, <2>1
  <2> QED BY <2>2 DEF Smaller
<1>8. ASSUME NEW k \in 1 .. nb_elt'
      PROVE  Shown(BuildInfo(box[SlotOf(k)]), requests[Len(requests) - k + 1])'
  <2>1. CASE k = 1
    <3>1. box'[SlotOf(k)'] = s /\ requests'[Len(requests') - k + 1] = r
      BY <1>1, <1>2, <1>3, <1>4, <2>1
    <3>2. Shown(BuildInfo(s), r)
      BY DEF Inserts
    <3> QED BY <1>2, <3>1, <3>2 DEF Shown, BuildInfo
  <2>2. CASE k # 1
    <3>1. k \in 2 .. nb_elt' /\ k - 1 \in 1 .. nb_elt /\ nb_elt <= Len(requests)
      BY <1>1, <1>3, <2>2 DEF BoxInv, Smaller
    <3>2. box'[SlotOf(k)'] = box[SlotOf(k - 1)]
      BY <1>1, <1>2, <1>3, <3>1
    <3>3. Len(requests') - k + 1 = Len(requests) - (k - 1) + 1 /\ Len(requests) - (k - 1) + 1 \in 1 .. Len(requests)
      BY <1>1, <1>4, <3>1
    <3>4. requests'[Len(requests') - k + 1] = requests[Len(requests) - (k - 1) + 1]
      BY <1>4, <3>3
    <3>5. Shown(BuildInfo(box[SlotOf(k - 1)]), requests[Len(requests) - (k - 1) + 1])
      BY <3>1 DEF BoxInv
    <3> QED BY <1>2, <3>2, <3>4, <3>5 DEF Shown, BuildInfo
  <2> QED BY <2>1, <2>2
<1>9. Len(requests') <= MaxRequests /\ MaxRequests \in Nat
  BY <1>1, <1>2, <1>4, BoxAssumption
<1> QED BY <1>2, <1>3, <1>6, <1>7, <1>8, <1>9 DEF BoxInv

(* BoxInv is inductive. *)
THEOREM BoxInvariant == BoxSpec => []BoxInv
<1>1. ASSUME BoxInit PROVE BoxInv
  <2>1. max_elt \in Nat \ {0} /\ insert_elt = 0 /\ nb_elt = 0 /\ requests = <<>> /\ Len(requests) = 0 /\ MaxRequests \in Nat
    BY <1>1, BoxAssumption DEF BoxInit
  <2>2. EmptySlot \in BoxSlot
    BY <2>1 DEF EmptySlot, BoxSlot
  <2>3. box \in [0 .. max_elt - 1 -> BoxSlot] /\ requests \in Seq(BoxRequest)
    BY <1>1, <2>1, <2>2 DEF BoxInit
  <2>4. BoxTypeOK
    <3>1. /\ max_elt \in Depths /\ idl_version \in IdlVersions
          /\ insert_elt \in 0 .. max_elt - 1 /\ nb_elt \in 0 .. max_elt
      BY <1>1, <2>1 DEF BoxInit
    <3> QED BY <2>3, <3>1 DEF BoxTypeOK, BoxSlot, BoxRequest
  <2> QED BY <2>1, <2>4 DEF BoxInv, Smaller
<1>2. ASSUME BoxInv, [BoxNext]_box_vars PROVE BoxInv'
  <2>1. CASE BoxNext
    BY <1>2, <2>1, StepInserts, InsertsStep
  <2>2. CASE UNCHANGED box_vars
    BY <1>2, <2>2 DEF box_vars, BoxInv, BoxTypeOK, Shown, BuildInfo, SlotOf
  <2> QED BY <1>2, <2>1, <2>2
<1> QED BY <1>1, <1>2, PTL DEF BoxSpec

-----------------------------------------------------------------------------
(* read(). *)

LastIndex == IF insert_elt = 0 THEN max_elt - 1 ELSE insert_elt - 1
Before(i) == IF i = 0 THEN max_elt - 1 ELSE i - 1

(* The reading loop visits the slots behind insert_elt one by one. *)
LEMMA ReadIndexIs ==
    ASSUME BoxTypeOK
    PROVE  \A k \in 0 .. max_elt - 1 : ReadIndex[k] = SlotOf(k + 1)
<1> DEFINE n == max_elt - 1
           closed == [k \in 0 .. max_elt |-> IF k = max_elt THEN Before(SlotOf(k)) ELSE SlotOf(k + 1)]
           G == {k \in 0 .. n : ReadIndex[k] = SlotOf(k + 1)}
<1>1. max_elt \in Nat \ {0} /\ insert_elt \in 0 .. max_elt - 1 /\ n \in Nat
  BY BoxTypes
<1>2. LastIndex = SlotOf(1) /\ \A k \in 1 .. n : Before(SlotOf(k)) = SlotOf(k + 1)
  BY <1>1 DEF LastIndex, SlotOf, Before
<1>3. closed = [k \in 0 .. max_elt |-> IF k = 0 THEN LastIndex ELSE Before(closed[k - 1])]
  <2>1. ASSUME NEW k \in 0 .. max_elt
        PROVE  closed[k] = IF k = 0 THEN LastIndex ELSE Before(closed[k - 1])
    <3>1. CASE k = 0
      BY <1>1, <1>2, <3>1
    <3>2. CASE k # 0
      <4>1. k - 1 \in 0 .. max_elt /\ k - 1 # max_elt /\ (k - 1) + 1 = k
        BY <1>1, <3>2
      <4>2. closed[k - 1] = SlotOf(k)
        BY <4>1
      <4>3. closed[k] = Before(SlotOf(k))
        <5>1. CASE k = max_elt
          BY <1>1, <5>1
        <5>2. CASE k # max_elt
          <6>1. k \in 1 .. n
            BY <1>1, <3>2, <5>2
          <6> QED BY <1>2, <5>2, <6>1
        <5> QED BY <5>1, <5>2
      <4> QED BY <3>2, <4>2, <4>3
    <3> QED BY <3>1, <3>2
  <2> QED BY <2>1
<1> HIDE DEF closed
<1>4. ReadIndex = [k \in 0 .. max_elt |-> IF k = 0 THEN LastIndex ELSE Before(ReadIndex[k - 1])]
  BY <1>3 DEF ReadIndex, LastIndex, Before
<1>5. ReadIndex[0] = LastIndex /\ \A k \in 1 .. n : ReadIndex[k] = Before(ReadIndex[k - 1])
  BY <1>1, <1>4
<1>6. 0 \in G
  BY <1>1, <1>2, <1>5
<1>7. ASSUME NEW m \in 1 .. n, m - 1 \in G PROVE m \in G
  <2>1. ReadIndex[m - 1] = SlotOf((m - 1) + 1)
    BY <1>7
  <2>2. m \in 0 .. n /\ (m - 1) + 1 = m
    BY <1>1
  <2>3. ReadIndex[m] = Before(SlotOf(m))
    BY <1>5, <2>1, <2>2
  <2> QED BY <1>2, <2>2, <2>3
<1> HIDE DEF G
<1>8. 0 .. n \subseteq G
  BY <1>1, <1>6, <1>7, UpTo
<1> QED BY <1>8 DEF G

(* read() gives the right number of requests, newest first, each as Shown. *)
ReadShown ==
    \A asked \in 1 .. max_elt + 1 :
        LET n == Smaller(asked, Smaller(max_elt, Len(requests)))
        IN  /\ DOMAIN Read(asked) = 1 .. n
            /\ \A k \in 1 .. n : Shown(Read(asked)[k], requests[Len(requests) - k + 1])

LEMMA InvReadShown == BoxInv => ReadShown
<1>1. SUFFICES ASSUME BoxInv, NEW asked \in 1 .. max_elt + 1
               PROVE  LET n == Smaller(asked, Smaller(max_elt, Len(requests)))
                      IN  /\ DOMAIN Read(asked) = 1 .. n
                          /\ \A k \in 1 .. n : Shown(Read(asked)[k], requests[Len(requests) - k + 1])
  BY DEF ReadShown
<1> DEFINE n == Smaller(asked, Smaller(max_elt, Len(requests)))
<1>2. max_elt \in Nat \ {0} /\ nb_elt \in 0 .. max_elt /\ Len(requests) \in Nat /\ BoxTypeOK
  BY <1>1, BoxTypes DEF BoxInv
<1>3. nb_elt = Smaller(max_elt, Len(requests))
  BY <1>1 DEF BoxInv
<1>4. Smaller(Smaller(asked, max_elt), nb_elt) = n /\ n \in 0 .. nb_elt
  BY <1>2, <1>3 DEF Smaller
<1> HIDE DEF n
<1>5. Read(asked) = [k \in 1 .. n |-> BuildInfo(box[ReadIndex[k - 1]])]
  BY <1>4 DEF Read
<1>6. ASSUME NEW k \in 1 .. n
      PROVE  Shown(Read(asked)[k], requests[Len(requests) - k + 1])
  <2>1. k \in 1 .. nb_elt /\ k - 1 \in 0 .. max_elt - 1 /\ (k - 1) + 1 = k
    BY <1>2, <1>4
  <2>2. ReadIndex[k - 1] = SlotOf(k)
    BY <1>2, <2>1, ReadIndexIs
  <2>3. Shown(BuildInfo(box[SlotOf(k)]), requests[Len(requests) - k + 1])
    BY <1>1, <2>1 DEF BoxInv
  <2> QED BY <1>5, <2>2, <2>3
<1> QED BY <1>5, <1>6 DEF n

(* For every IDL version, read() reports as many requests as it is asked    *)
(* for and the box still has, in the reverse order of their arrival, each   *)
(* with its own origin and client, and with its own operation unless it is  *)
(* a reading whose op_type insert_attr left alone.                          *)
THEOREM BoxReadOrigins == BoxSpec => []ReadShown
BY BoxInvariant, InvReadShown, PTL

(* For devices up to IDL 4, for which insert_attr knows what to write, the  *)
(* report is exactly what happened, whatever the depth of the box and       *)
(* however often its slots were reused.                                     *)
THEOREM BoxReadFaithful == BoxSpec => [](idl_version <= 4 => ReadFaithful)
<1>1. ASSUME BoxInv, ReadShown, idl_version <= 4 PROVE ReadFaithful
  <2>1. SUFFICES ASSUME NEW asked \in 1 .. max_elt + 1
                 PROVE  LET n == Smaller(asked, Smaller(max_elt, Len(requests)))
                        IN  Read(asked) = [k \in 1 .. n |-> requests[Len(requests) - k + 1]]
    BY DEF ReadFaithful
  <2> DEFINE n == Smaller(asked, Smaller(max_elt, Len(requests)))
  <2>2. /\ max_elt \in Nat \ {0} /\ requests \in Seq(BoxRequest) /\ Len(requests) \in Nat
    BY <1>1, BoxTypes DEF BoxInv
  <2>3. n \in 0 .. Len(requests)
    BY <2>2 DEF Smaller
  <2>4. /\ DOMAIN Read(asked) = 1 .. n
        /\ \A k \in 1 .. n : Shown(Read(asked)[k], requests[Len(requests) - k + 1])
    BY <1>1 DEF ReadShown
  <2> HIDE DEF n
  <2>5. ASSUME NEW k \in 1 .. n
        PROVE  Read(asked)[k] = requests[Len(requests) - k + 1]
    <3>1. Len(requests) - k + 1 \in 1 .. Len(requests)
      BY <2>2, <2>3
    <3>2. requests[Len(requests) - k + 1] \in BoxRequest
      BY <2>2, <3>1
    <3>3. Shown(Read(asked)[k], requests[Len(requests) - k + 1])
      BY <2>4
    <3>4. PICK s : Read(asked)[k] = BuildInfo(s)
      <4>1. DOMAIN Read(asked) = 1 .. Smaller(Smaller(asked, max_elt), nb_elt)
        BY DEF Read
      <4>2. k \in 1 .. Smaller(Smaller(asked, max_elt), nb_elt)
        BY <2>4, <4>1
      <4> QED BY <4>2 DEF Read
    <3>5. ASSUME NEW a, NEW b \in BoxRequest, a = BuildInfo(s), Shown(a, b)
          PROVE  a = b
      <4>1. ~ (idl_version > 4)
        <5>1. idl_version \in IdlVersions
          BY <1>1 DEF BoxInv, BoxTypeOK
        <5>2. idl_version \in Int
          BY <5>1, BoxAssumption
        <5> QED BY <1>1, <5>2
      <4>2. PICK x, y, z, w : a = [req |-> x, op |-> y, host |-> z, client |-> w]
        BY <3>5 DEF BuildInfo
      <4>3. b = [req |-> b.req, op |-> b.op, host |-> b.host, client |-> b.client]
        BY DEF BoxRequest
      <4>4. x = b.req /\ y = b.op /\ z = b.host /\ w = b.client
        BY <3>5, <4>1, <4>2 DEF Shown
      <4> QED BY <4>2, <4>3, <4>4
    <3> QED BY <3>2, <3>3, <3>4, <3>5
  <2>6. Read(asked) = [k \in 1 .. n |-> Read(asked)[k]]
    BY <2>4 DEF Read
  <2>7. Read(asked) = [k \in 1 .. n |-> requests[Len(requests) - k + 1]]
    BY <2>5, <2>6
  <2> QED BY <2>7 DEF n
<1> QED BY <1>1, BoxInvariant, BoxReadOrigins, PTL

=============================================================================
