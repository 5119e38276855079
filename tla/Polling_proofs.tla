--------------------------- MODULE Polling_proofs ---------------------------
(***************************************************************************)
(* Proofs about polling: the ring buffer of a polled object, and the work  *)
(* list of a polling thread.                                               *)
(*                                                                         *)
(* The ring buffer, for every depth and any number of insertions: its      *)
(* types, where the newest entries are, and that it implements BoundedLog. *)
(* The two indexes are not independent: until the ring is full, insert_elt *)
(* is the number of entries.  Without that fact the slot of the oldest     *)
(* entry of a ring that is not full is not known, so IndexInv is part of   *)
(* each inductive invariant.                                               *)
(*                                                                         *)
(* The work list, for any devices, objects, periods and clock: it says     *)
(* what the devices say.  Tuning, discarding and sleeping only rearrange   *)
(* the list (Picks); the commands add and remove one name (GoodList).      *)
(* WorksInv extends the claim to the middle of a poll, when the first work *)
(* is out of the list and an object of it may change its own period.       *)
(***************************************************************************)
EXTENDS PollRing, PollWorks, FiniteSetTheorems, SequenceTheorems, LoopTheorems, TLAPS

IndexInv == nb_elt < max_elt => insert_elt = nb_elt

(* What holds of the indexes and the slots in every state. *)
RingInv ==
    /\ max_elt \in Nat \ {0}
    /\ insert_elt \in 0 .. max_elt - 1
    /\ nb_elt \in 0 .. max_elt
    /\ ring \in [0 .. max_elt - 1 -> Slot]
    /\ inserted \in Seq([no : Objects, err : BOOLEAN, when : Nat])
    /\ Len(inserted) <= MaxInserts
    /\ IndexInv

(* The date of an insertion is a date. *)
LEMMA DateType == ASSUME RingInv, NEW g \in Gaps PROVE LastDate + g \in Nat
<1>1. g \in Nat
  BY RingAssumption
<1>2. LastDate \in Nat
  <2>1. CASE inserted = <<>>
    BY <2>1 DEF LastDate
  <2>2. CASE inserted # <<>>
    <3>1. Len(inserted) \in 1 .. Len(inserted)
      BY <2>2 DEF RingInv
    <3>2. inserted \in Seq([no : Objects, err : BOOLEAN, when : Nat])
      BY DEF RingInv
    <3>3. inserted[Len(inserted)] \in [no : Objects, err : BOOLEAN, when : Nat]
      BY <3>1, <3>2, ElementOfSeq
    <3> QED BY <2>2, <3>3 DEF LastDate
  <2> QED BY <2>1, <2>2
<1> QED BY <1>1, <1>2

(* An insertion numbers its object, and leaves a well-formed slot behind.  *)
LEMMA CountType ==
    ASSUME RingInv, NEW err \in BOOLEAN, NEW t \in Nat, Len(inserted) < MaxInserts, Count(err, t)
    PROVE  /\ inserted' \in Seq([no : Objects, err : BOOLEAN, when : Nat])
           /\ Len(inserted') = Len(inserted) + 1
           /\ Len(inserted) + 1 \in Objects
<1>1. Len(inserted) \in Nat
  BY DEF RingInv
<1>2. Len(inserted) + 1 \in Objects
  BY <1>1, RingAssumption DEF Objects
<1>3. [no |-> Len(inserted) + 1, err |-> err, when |-> t] \in [no : Objects, err : BOOLEAN, when : Nat]
  BY <1>2
<1> QED BY <1>2, <1>3 DEF RingInv, Count

(* The indexes after an insertion. *)
LEMMA IndexStep ==
    ASSUME RingInv, IncIndexes, UNCHANGED max_elt
    PROVE  /\ insert_elt' \in 0 .. max_elt - 1
           /\ nb_elt' \in 0 .. max_elt
           /\ IndexInv'
BY DEF RingInv, IncIndexes, IndexInv

(* RingInv is inductive. *)
LEMMA RingInvStep == ASSUME RingInv, [Next]_vars PROVE RingInv'
<1> USE DEF RingInv
<1>1. ASSUME NEW g \in Gaps, InsertData(LastDate + g) PROVE RingInv'
  <2> DEFINE t == LastDate + g
  <2>1. t \in Nat
    BY DateType
  <2> HIDE DEF t
  <2>2. InsertData(t)
    BY <1>1 DEF t
  <2>3. Len(inserted) + 1 \in Objects /\ inserted' \in Seq([no : Objects, err : BOOLEAN, when : Nat])
        /\ Len(inserted') <= MaxInserts
    <3>1. Len(inserted) < MaxInserts /\ Count(FALSE, t) /\ FALSE \in BOOLEAN
      BY <2>2 DEF InsertData
    <3>2. Len(inserted) \in Nat
      BY DEF RingInv
    <3> HIDE DEF RingInv
    <3>3. /\ inserted' \in Seq([no : Objects, err : BOOLEAN, when : Nat])
          /\ Len(inserted') = Len(inserted) + 1
          /\ Len(inserted) + 1 \in Objects
      BY <2>1, <3>1, CountType, Zenon
    <3> QED BY <3>1, <3>2, <3>3, RingAssumption
  <2>4. [value |-> Len(inserted) + 1, except |-> Null, when |-> t] \in Slot
    BY <2>1, <2>3 DEF Slot
  <2>5. ring' \in [0 .. max_elt - 1 -> Slot]
    BY <2>2, <2>4 DEF InsertData
  <2> QED BY <2>2, <2>3, <2>5, IndexStep DEF InsertData
<1>2. ASSUME NEW g \in Gaps, InsertExcept(LastDate + g) PROVE RingInv'
  <2> DEFINE t == LastDate + g
             s == [value  |-> IF kind \in {"cmd_result", "attr_value"} THEN Null ELSE ring[insert_elt].value,
                   except |-> Len(inserted) + 1,
                   when   |-> t]
  <2>1. t \in Nat
    BY DateType
  <2> HIDE DEF t
  <2>2. InsertExcept(t)
    BY <1>2 DEF t
  <2>3. Len(inserted) + 1 \in Objects /\ inserted' \in Seq([no : Objects, err : BOOLEAN, when : Nat])
        /\ Len(inserted') <= MaxInserts
    <3>1. Len(inserted) < MaxInserts /\ Count(TRUE, t) /\ TRUE \in BOOLEAN
      BY <2>2 DEF InsertExcept
    <3>2. Len(inserted) \in Nat
      BY DEF RingInv
    <3> HIDE DEF RingInv
    <3>3. /\ inserted' \in Seq([no : Objects, err : BOOLEAN, when : Nat])
          /\ Len(inserted') = Len(inserted) + 1
          /\ Len(inserted) + 1 \in Objects
      BY <2>1, <3>1, CountType, Zenon
    <3> QED BY <3>1, <3>2, <3>3, RingAssumption
  <2>4. s \in Slot
    BY <2>1, <2>3 DEF Slot
  <2>5. ring' = [ring EXCEPT ![insert_elt] = s]
    BY <2>2 DEF InsertExcept
  <2>6. ring' \in [0 .. max_elt - 1 -> Slot]
    BY <2>4, <2>5
  <2> QED BY <2>2, <2>3, <2>6, IndexStep DEF InsertExcept
<1>3. CASE Delete
  <2>1. EmptySlot \in Slot
    BY DEF EmptySlot, Slot
  <2> QED BY <1>3, <2>1 DEF Delete, IndexInv
<1>4. CASE UNCHANGED vars
  BY <1>4 DEF vars, IndexInv
<1> QED BY <1>1, <1>2, <1>3, <1>4 DEF Next

LEMMA RingInvInit == Init => RingInv
BY RingAssumption DEF Init, RingInv, IndexInv, EmptySlot, Slot

(* The indexes of a polling ring and its slots keep their types, and       *)
(* insert_elt counts the entries until the ring is full.                   *)
THEOREM RingInvariant == Spec => []RingInv
<1> QED BY RingInvInit, RingInvStep, PTL DEF Spec

-----------------------------------------------------------------------------

(* The members of PollRing and its slots have their types. *)
THEOREM RingTypes == Spec => []TypeOK
<1> DEFINE Rest == kind \in Kinds /\ freed \in [Objects -> Nat] /\ alive \in BOOLEAN
<1>1. Init => Rest
  BY DEF Init
<1>2. ASSUME Rest, [Next]_vars PROVE Rest'
  <2>1. ASSUME NEW objs, Free(objs) PROVE freed' \in [Objects -> Nat]
    BY <1>2, <2>1 DEF Free
  <2>2. ASSUME NEW g \in Gaps, InsertData(LastDate + g) PROVE Rest'
    BY <1>2, <2>1, <2>2 DEF InsertData
  <2>3. ASSUME NEW g \in Gaps, InsertExcept(LastDate + g) PROVE Rest'
    BY <1>2, <2>1, <2>3 DEF InsertExcept
  <2>4. CASE Delete
    BY <1>2, <2>1, <2>4 DEF Delete
  <2>5. CASE UNCHANGED vars
    BY <1>2, <2>5 DEF vars
  <2> QED BY <1>2, <2>2, <2>3, <2>4, <2>5 DEF Next
<1>3. Spec => []Rest
  BY <1>1, <1>2, PTL DEF Spec
<1>4. RingInv /\ Rest => TypeOK
  BY DEF RingInv, TypeOK
<1> QED BY <1>3, <1>4, RingInvariant, PTL

-----------------------------------------------------------------------------

(* Where an insertion moves the entries: the new one is behind the new     *)
(* insert_elt, the k-th newest becomes the (k + 1)-th in its slot.         *)
LEMMA SlotStep ==
    ASSUME RingInv, IncIndexes, UNCHANGED max_elt
    PROVE  /\ nb_elt' = IF nb_elt < max_elt THEN nb_elt + 1 ELSE max_elt
           /\ SlotOf(1)' = insert_elt
           /\ \A k \in 2 .. nb_elt' : /\ SlotOf(k)' = SlotOf(k - 1)
                                     /\ SlotOf(k)' # insert_elt
                                     /\ SlotOf(k)' \in 0 .. max_elt - 1
BY DEF RingInv, IncIndexes, IndexInv, SlotOf

(* What an insertion does to the ring, whichever of the two it is. *)
Inserts(e) ==
    /\ alive /\ alive'
    /\ \E s : ring' = [ring EXCEPT ![insert_elt] = s] /\ Entry(s) = e
    /\ inserted' = Append(inserted, e)
    /\ IncIndexes
    /\ UNCHANGED max_elt

LEMMA InsertDataInserts ==
    ASSUME RingInv, NEW g \in Gaps, InsertData(LastDate + g)
    PROVE  Inserts([no |-> Len(inserted) + 1, err |-> FALSE, when |-> LastDate + g])
<1> DEFINE t == LastDate + g
           s == [value |-> Len(inserted) + 1, except |-> Null, when |-> t]
<1>1. Entry(s) = [no |-> Len(inserted) + 1, err |-> FALSE, when |-> t]
  BY DEF Entry
<1>2. ring' = [ring EXCEPT ![insert_elt] = s]
  BY DEF InsertData
<1> QED BY <1>1, <1>2 DEF InsertData, Inserts, Count

LEMMA InsertExceptInserts ==
    ASSUME RingInv, NEW g \in Gaps, InsertExcept(LastDate + g)
    PROVE  Inserts([no |-> Len(inserted) + 1, err |-> TRUE, when |-> LastDate + g])
<1> DEFINE t == LastDate + g
           s == [value  |-> IF kind \in {"cmd_result", "attr_value"} THEN Null ELSE ring[insert_elt].value,
                 except |-> Len(inserted) + 1,
                 when   |-> t]
<1>1. Len(inserted) + 1 # Null
  BY DEF RingInv, Null
<1>2. Entry(s) = [no |-> Len(inserted) + 1, err |-> TRUE, when |-> t]
  BY <1>1 DEF Entry
<1>3. ring' = [ring EXCEPT ![insert_elt] = s]
  BY DEF InsertExcept
<1> QED BY <1>2, <1>3 DEF InsertExcept, Inserts, Count

(* The entries readers find after an insertion. *)
LEMMA EntriesStep ==
    ASSUME RingInv, NEW e, Inserts(e)
    PROVE  /\ nb_elt' = IF nb_elt < max_elt THEN nb_elt + 1 ELSE max_elt
           /\ Entry(ring[SlotOf(1)])' = e
           /\ \A k \in 2 .. nb_elt' : Entry(ring[SlotOf(k)])' = Entry(ring[SlotOf(k - 1)])
<1>1. PICK s : ring' = [ring EXCEPT ![insert_elt] = s] /\ Entry(s) = e
  BY DEF Inserts
<1>2. IncIndexes /\ UNCHANGED max_elt
  BY DEF Inserts
<1>3. ring'[insert_elt] = s /\ \A i \in 0 .. max_elt - 1 : i # insert_elt => ring'[i] = ring[i]
  BY <1>1 DEF RingInv
<1>4. /\ nb_elt' = IF nb_elt < max_elt THEN nb_elt + 1 ELSE max_elt
      /\ SlotOf(1)' = insert_elt
      /\ \A k \in 2 .. nb_elt' : /\ SlotOf(k)' = SlotOf(k - 1)
                                /\ SlotOf(k)' # insert_elt
                                /\ SlotOf(k)' \in 0 .. max_elt - 1
  BY <1>2, SlotStep
<1>5. Entry(ring[SlotOf(1)])' = e
  BY <1>1, <1>3, <1>4 DEF Entry
<1>6. ASSUME NEW k \in 2 .. nb_elt' PROVE Entry(ring[SlotOf(k)])' = Entry(ring[SlotOf(k - 1)])
  <2>1. ring'[SlotOf(k)'] = ring[SlotOf(k - 1)]
    BY <1>3, <1>4
  <2> QED BY <2>1 DEF Entry
<1> QED BY <1>4, <1>5, <1>6

-----------------------------------------------------------------------------

LEMMA SlotsInsert == ASSUME RingInv, SlotsFaithful, NEW e, Inserts(e) PROVE SlotsFaithful'
<1>1. /\ nb_elt' = IF nb_elt < max_elt THEN nb_elt + 1 ELSE max_elt
      /\ Entry(ring[SlotOf(1)])' = e
      /\ \A k \in 2 .. nb_elt' : Entry(ring[SlotOf(k)])' = Entry(ring[SlotOf(k - 1)])
  BY EntriesStep
<1>2. /\ Len(inserted) \in Nat
      /\ Len(inserted') = Len(inserted) + 1
      /\ inserted'[Len(inserted) + 1] = e
      /\ \A i \in 1 .. Len(inserted) : inserted'[i] = inserted[i]
      /\ max_elt' = max_elt
      /\ max_elt \in Nat /\ nb_elt \in 0 .. max_elt
  BY DEF RingInv, Inserts
<1>3. /\ nb_elt = IF Len(inserted) < max_elt THEN Len(inserted) ELSE max_elt
      /\ \A k \in 1 .. nb_elt : Entry(ring[SlotOf(k)]) = inserted[Len(inserted) - k + 1]
  BY DEF SlotsFaithful, Inserts
<1>4. nb_elt' = IF Len(inserted') < max_elt' THEN Len(inserted') ELSE max_elt'
  BY <1>1, <1>2, <1>3
<1>5. ASSUME NEW k \in 1 .. nb_elt'
      PROVE  Entry(ring[SlotOf(k)])' = inserted'[Len(inserted') - k + 1]
  <2>1. CASE k = 1
    BY <1>1, <1>2, <2>1
  <2>2. CASE k # 1
    <3>1. k \in 2 .. nb_elt' /\ k - 1 \in 1 .. nb_elt
      BY <1>1, <1>2, <2>2
    <3>2. Entry(ring[SlotOf(k)])' = inserted[Len(inserted) - (k - 1) + 1]
      BY <1>1, <1>3, <3>1
    <3>3. Len(inserted) - (k - 1) + 1 \in 1 .. Len(inserted)
      BY <1>2, <1>3, <3>1
    <3>4. Len(inserted') - k + 1 = Len(inserted) - (k - 1) + 1
      BY <1>2, <3>1
    <3> QED BY <1>2, <3>2, <3>3, <3>4
  <2> QED BY <2>1, <2>2
<1> QED BY <1>4, <1>5 DEF SlotsFaithful

(* Whatever the depth of the ring and however often it has been filled,    *)
(* the k-th newest result or exception is in the k-th slot behind          *)
(* insert_elt, where get_last_*, the histories and get_delta_t look.       *)
THEOREM RingSlots == Spec => []SlotsFaithful
<1>1. Init => SlotsFaithful
  BY RingAssumption DEF Init, SlotsFaithful
<1>2. ASSUME RingInv, SlotsFaithful, [Next]_vars PROVE SlotsFaithful'
  <2>1. ASSUME NEW g \in Gaps, InsertData(LastDate + g) PROVE SlotsFaithful'
    BY <1>2, <2>1, InsertDataInserts, SlotsInsert
  <2>2. ASSUME NEW g \in Gaps, InsertExcept(LastDate + g) PROVE SlotsFaithful'
    BY <1>2, <2>2, InsertExceptInserts, SlotsInsert
  <2>3. CASE Delete
    BY <2>3 DEF Delete, SlotsFaithful
  <2>4. CASE UNCHANGED vars
    BY <1>2, <2>4 DEF vars, SlotsFaithful, Entry, SlotOf
  <2> QED BY <1>2, <2>1, <2>2, <2>3, <2>4 DEF Next
<1> QED BY <1>1, <1>2, RingInvariant, PTL DEF Spec

-----------------------------------------------------------------------------

(* An insertion is a push of the abstract log. *)
LEMMA InsertIsPush ==
    ASSUME RingInv, NEW e \in [no : Objects \cup {Null}, err : BOOLEAN, when : Nat], Inserts(e)
    PROVE  Log!PushOne
<1>1. /\ nb_elt' = IF nb_elt < max_elt THEN nb_elt + 1 ELSE max_elt
      /\ Entry(ring[SlotOf(1)])' = e
      /\ \A k \in 2 .. nb_elt' : Entry(ring[SlotOf(k)])' = Entry(ring[SlotOf(k - 1)])
  BY EntriesStep
<1>2. max_elt' = max_elt /\ max_elt \in Nat \ {0} /\ nb_elt \in 0 .. max_elt
  BY DEF RingInv, Inserts
<1>3. Len(Contents) = nb_elt
  BY <1>2 DEF Contents
<1>4. nb_elt' \in Nat /\ nb_elt' = Log!Kept(nb_elt) /\ 1 \in 1 .. nb_elt'
  BY <1>1, <1>2 DEF Log!Kept
<1>5. Contents' = [k \in 1 .. nb_elt' |-> Entry(ring[SlotOf(k)])']
  BY DEF Contents
<1>6. Len(Contents') = nb_elt' /\ Contents'[1] = e
  BY <1>1, <1>4, <1>5
<1>7. ASSUME NEW k \in 1 .. nb_elt'
      PROVE  Entry(ring[SlotOf(k)])' = IF k = 1 THEN Contents'[1] ELSE Contents[k - 1]
  <2>1. CASE k = 1
    BY <1>1, <1>6, <2>1
  <2>2. CASE k # 1
    <3>1. k \in 2 .. nb_elt' /\ k - 1 \in 1 .. nb_elt
      BY <1>1, <1>2, <2>2
    <3>2. Contents[k - 1] = Entry(ring[SlotOf(k - 1)])
      BY <3>1 DEF Contents
    <3> QED BY <1>1, <2>2, <3>1, <3>2
  <2> QED BY <2>1, <2>2
<1>8. Contents' = [k \in 1 .. Log!Kept(Len(Contents)) |-> IF k = 1 THEN Contents'[1] ELSE Contents[k - 1]]
  BY <1>3, <1>4, <1>5, <1>7
<1>9. Len(Contents') > 0 /\ Contents'[1] \in [no : Objects \cup {Null}, err : BOOLEAN, when : Nat]
  BY <1>4, <1>6
<1> QED BY <1>2, <1>8, <1>9 DEF Log!PushOne, Log!Push

(* The polling ring implements the bounded log: every insertion puts its   *)
(* entry first and pushes at most the oldest one out, and the destructor   *)
(* is the only step that removes anything else.                            *)
THEOREM RingIsBoundedLog == Spec => IsBoundedLog
<1>1. ASSUME Init PROVE Log!LogInit
  <2>1. nb_elt = 0 /\ max_elt \in Nat
    BY <1>1, RingAssumption DEF Init
  <2>2. Contents = <<>>
    BY <2>1 DEF Contents
  <2> QED BY <2>1, <2>2 DEF Log!LogInit
<1>2. ASSUME RingInv, [Next]_vars PROVE [Log!LogNext]_(Log!vars)
  <2>1. ASSUME NEW g \in Gaps, InsertData(LastDate + g) PROVE Log!PushOne
    <3> DEFINE e == [no |-> Len(inserted) + 1, err |-> FALSE, when |-> LastDate + g]
    <3>1. Len(inserted) + 1 \in Objects /\ LastDate + g \in Nat
      BY <1>2, <2>1, DateType, RingAssumption DEF InsertData, Objects, RingInv
    <3>2. e \in [no : Objects \cup {Null}, err : BOOLEAN, when : Nat]
      BY <3>1
    <3>3. Inserts(e)
      BY <1>2, <2>1, InsertDataInserts
    <3> HIDE DEF e
    <3> QED BY <1>2, <3>2, <3>3, InsertIsPush
  <2>2. ASSUME NEW g \in Gaps, InsertExcept(LastDate + g) PROVE Log!PushOne
    <3> DEFINE e == [no |-> Len(inserted) + 1, err |-> TRUE, when |-> LastDate + g]
    <3>1. Len(inserted) + 1 \in Objects /\ LastDate + g \in Nat
      BY <1>2, <2>2, DateType, RingAssumption DEF InsertExcept, Objects, RingInv
    <3>2. e \in [no : Objects \cup {Null}, err : BOOLEAN, when : Nat]
      BY <3>1
    <3>3. Inserts(e)
      BY <1>2, <2>2, InsertExceptInserts
    <3> HIDE DEF e
    <3> QED BY <1>2, <3>2, <3>3, InsertIsPush
  <2>3. CASE Delete
    <3>1. Contents' = <<>>
      BY <2>3 DEF Delete, Contents
    <3> QED BY <2>3, <3>1 DEF Delete, Log!LogNext, Log!Flush
  <2>4. CASE UNCHANGED vars
    <3>1. Contents' = Contents
      BY <2>4 DEF vars, Contents, Entry, SlotOf
    <3> QED BY <2>4, <3>1 DEF vars, Log!vars
  <2> QED BY <1>2, <2>1, <2>2, <2>3, <2>4 DEF Next, Log!LogNext
<1> QED BY <1>1, <1>2, RingInvariant, PTL DEF Spec, IsBoundedLog, Log!LogSpec

-----------------------------------------------------------------------------
(* The loops of the readers. *)

LEMMA ReadIndexDef ==
    ASSUME RingInv
    PROVE  ReadIndex[0] = LastIndex /\ \A k \in 1 .. max_elt : ReadIndex[k] = Before(ReadIndex[k - 1])
<1> DEFINE n == max_elt
           S == 0 .. max_elt - 1
           step == [x \in (1 .. n) \X S |-> Before(x[2])]
<1>1. n \in Nat /\ LastIndex \in S /\ \A i \in S : Before(i) \in S
  BY DEF RingInv, LastIndex, Before
<1> HIDE DEF n, S
<1>2. step \in Turns(n, S) /\ \A k \in 1 .. n : \A i \in S : step[<<k, i>>] = Before(i)
  BY <1>1 DEF Turns
<1> HIDE DEF step
<1>3. \E f : IsLoop(n, S, LastIndex, step, f)
  BY <1>1, <1>2, LoopExists
<1>4. PICK f \in [0 .. n -> S] : f[0] = LastIndex /\ \A k \in 1 .. n : f[k] = step[<<k, f[k - 1]>>]
  BY <1>3 DEF IsLoop
<1>5. \A k \in 1 .. n : k - 1 \in 0 .. n /\ f[k - 1] \in S
  BY <1>1, <1>4
<1>6. \A k \in 1 .. n : f[k] = Before(f[k - 1])
  BY <1>2, <1>4, <1>5
<1>7. f = [k \in 0 .. n |-> IF k = 0 THEN LastIndex ELSE Before(f[k - 1])]
  <2>1. ASSUME NEW k \in 0 .. n PROVE f[k] = IF k = 0 THEN LastIndex ELSE Before(f[k - 1])
    <3>1. CASE k = 0
      BY <1>4, <3>1
    <3>2. CASE k # 0
      <4>1. k \in 1 .. n
        BY <1>1, <3>2
      <4> QED BY <1>6, <3>2, <4>1
    <3> QED BY <3>1, <3>2
  <2> QED BY <1>4, <2>1
<1>8. ReadIndex = [k \in 0 .. n |-> IF k = 0 THEN LastIndex ELSE Before(ReadIndex[k - 1])]
  BY <1>7 DEF ReadIndex, n
<1> HIDE DEF ReadIndex
<1>9. ReadIndex[0] = LastIndex /\ \A k \in 1 .. n : ReadIndex[k] = Before(ReadIndex[k - 1])
  BY <1>1, <1>8
<1> QED BY <1>9 DEF n

(* After k turns a reader is at the slot of the (k + 1)-th newest entry,   *)
(* for as many turns as the ring has slots.                                *)
LEMMA ReadIndexIs ==
    ASSUME RingInv
    PROVE  \A k \in 0 .. max_elt - 1 : ReadIndex[k] = SlotOf(k + 1)
<1> DEFINE n == max_elt - 1
           G == {k \in 0 .. n : ReadIndex[k] = SlotOf(k + 1)}
<1>1. max_elt \in Nat \ {0} /\ insert_elt \in 0 .. max_elt - 1 /\ n \in Nat
  BY DEF RingInv
<1>2. 0 \in G
  <2>1. ReadIndex[0] = SlotOf(0 + 1)
    BY <1>1, ReadIndexDef DEF LastIndex, SlotOf
  <2> QED BY <1>1, <2>1
<1>3. ASSUME NEW m \in 1 .. n, m - 1 \in G PROVE m \in G
  <2>1. ReadIndex[m - 1] = SlotOf((m - 1) + 1)
    BY <1>3
  <2>2. m \in 1 .. max_elt /\ m \in 0 .. n /\ (m - 1) + 1 = m
    BY <1>1
  <2>3. ReadIndex[m] = Before(SlotOf(m))
    BY <2>1, <2>2, ReadIndexDef
  <2>4. Before(SlotOf(m)) = SlotOf(m + 1)
    BY <1>1, <2>2 DEF Before, SlotOf
  <2> QED BY <2>2, <2>3, <2>4
<1> HIDE DEF G
<1>4. 0 .. n \subseteq G
  BY <1>1, <1>2, <1>3, UpTo
<1> QED BY <1>4 DEF G

(* The slot a reader visits, and what it finds there. *)
LEMMA ReadFacts ==
    ASSUME RingInv, SlotsFaithful, alive
    PROVE  /\ nb_elt <= Len(inserted)
           /\ \A k \in 1 .. nb_elt : Entry(ring[ReadIndex[k - 1]]) = inserted[Len(inserted) - k + 1]
           /\ \A k \in 1 .. nb_elt - 1 : Entry(ring[Before(ReadIndex[k - 1])]) = inserted[Len(inserted) - k]
<1>1. max_elt \in Nat \ {0} /\ insert_elt \in 0 .. max_elt - 1 /\ nb_elt \in 0 .. max_elt /\ Len(inserted) \in Nat
  BY DEF RingInv
<1>2. /\ nb_elt <= Len(inserted)
      /\ \A k \in 1 .. nb_elt : Entry(ring[SlotOf(k)]) = inserted[Len(inserted) - k + 1]
  BY <1>1 DEF SlotsFaithful
<1>3. ASSUME NEW k \in 1 .. nb_elt PROVE ReadIndex[k - 1] = SlotOf(k)
  <2>1. k - 1 \in 0 .. max_elt - 1 /\ (k - 1) + 1 = k
    BY <1>1
  <2>2. ReadIndex[k - 1] = SlotOf((k - 1) + 1)
    BY <2>1, ReadIndexIs
  <2> QED BY <2>1, <2>2
<1>4. ASSUME NEW k \in 1 .. nb_elt - 1
      PROVE  Entry(ring[Before(ReadIndex[k - 1])]) = inserted[Len(inserted) - k]
  <2>1. k \in 1 .. nb_elt /\ k + 1 \in 1 .. nb_elt /\ Len(inserted) - (k + 1) + 1 = Len(inserted) - k
    BY <1>1
  <2>2. Before(SlotOf(k)) = SlotOf(k + 1)
    BY <1>1 DEF Before, SlotOf
  <2>3. Entry(ring[SlotOf(k + 1)]) = inserted[Len(inserted) - (k + 1) + 1]
    BY <1>2, <2>1
  <2> QED BY <1>3, <2>1, <2>2, <2>3
<1> QED BY <1>2, <1>3, <1>4

(* get_cmd_history and get_attr_history give, for any length asked for and *)
(* any depth, exactly the newest insertions, the oldest first.             *)
THEOREM RingHistory == Spec => []HistoryFaithful
<1>1. ASSUME RingInv, SlotsFaithful PROVE HistoryFaithful
  <2>1. SUFFICES ASSUME alive, NEW asked \in 1 .. max_elt + 1
                 PROVE  GetHistory(HistoryLength(asked)) = Newest(HistoryLength(asked))
    BY DEF HistoryFaithful
  <2> DEFINE n == HistoryLength(asked)
             l == Len(inserted)
  <2>2. max_elt \in Nat \ {0} /\ nb_elt \in 0 .. max_elt /\ l \in Nat
    BY <1>1 DEF RingInv
  <2>3. n \in 0 .. nb_elt
    BY <2>2 DEF HistoryLength
  <2>4. /\ nb_elt <= l
        /\ \A k \in 1 .. nb_elt : Entry(ring[ReadIndex[k - 1]]) = inserted[l - k + 1]
    BY <1>1, <2>1, ReadFacts
  <2> HIDE DEF n
  <2>5. Newest(n) = [k \in 1 .. n |-> inserted[l - n + k]]
    <3>1. inserted \in Seq([no : Objects, err : BOOLEAN, when : Nat])
      BY <1>1 DEF RingInv
    <3> DEFINE m == l - n + 1
               s == SubSeq(inserted, m, l)
    <3>2. m \in Int /\ l \in Int /\ m .. l \subseteq 1 .. l /\ l - m + 1 = n /\ (IF m <= l THEN l - m + 1 ELSE 0) = n
      BY <2>2, <2>3, <2>4
    <3> HIDE DEF m
    <3> DEFINE R == [no : Objects, err : BOOLEAN, when : Nat]
    <3> HIDE DEF R
    <3>3. \A i \in m .. l : inserted[i] \in R
      <4>1. inserted \in Seq(R)
        BY <3>1 DEF R
      <4>2. \A i \in 1 .. l : inserted[i] \in R
        BY <4>1
      <4> QED BY <3>2, <4>2
    <3>4. /\ s \in Seq(R)
          /\ Len(s) = IF m <= l THEN l - m + 1 ELSE 0
          /\ \A i \in 1 .. l - m + 1 : s[i] = inserted[m + i - 1]
      BY <3>2, <3>3, SubSeqProperties
    <3> HIDE DEF s
    <3>5. s = [k \in 1 .. n |-> inserted[l - n + k]]
      <4>1. DOMAIN s = 1 .. n /\ s = [k \in 1 .. n |-> s[k]]
        BY <3>2, <3>4
      <4>2. ASSUME NEW k \in 1 .. n PROVE s[k] = inserted[l - n + k]
        <5>1. m + k - 1 = l - n + k /\ k \in 1 .. l - m + 1
          BY <2>2, <2>3, <3>2 DEF m
        <5> QED BY <3>4, <5>1
      <4> QED BY <4>1, <4>2
    <3> QED BY <3>5 DEF Newest, s, m
  <2>6. ASSUME NEW k \in 1 .. n PROVE Entry(ring[ReadIndex[n - k]]) = inserted[l - n + k]
    <3>1. n - k + 1 \in 1 .. nb_elt /\ (n - k + 1) - 1 = n - k /\ l - (n - k + 1) + 1 = l - n + k
      BY <2>2, <2>3
    <3>2. Entry(ring[ReadIndex[(n - k + 1) - 1]]) = inserted[l - (n - k + 1) + 1]
      BY <2>4, <3>1
    <3> QED BY <3>1, <3>2
  <2>7. GetHistory(n) = Newest(n)
    BY <2>5, <2>6 DEF GetHistory
  <2> QED BY <2>7 DEF n
<1> QED BY <1>1, RingInvariant, RingSlots, PTL

(* The differences of get_delta_t are those between consecutive            *)
(* insertions, the most recent first, however many are wanted.             *)
THEOREM RingDeltas == Spec => []DeltasFaithful
<1> DEFINE Dead == ~ alive => nb_elt = 0
<1>1. Init => Dead
  BY DEF Init
<1>2. ASSUME Dead, [Next]_vars PROVE Dead'
  <2>1. ASSUME NEW g \in Gaps, InsertData(LastDate + g) PROVE alive'
    BY <2>1 DEF InsertData
  <2>2. ASSUME NEW g \in Gaps, InsertExcept(LastDate + g) PROVE alive'
    BY <2>2 DEF InsertExcept
  <2>3. CASE Delete
    BY <2>3 DEF Delete
  <2>4. CASE UNCHANGED vars
    BY <1>2, <2>4 DEF vars
  <2> QED BY <1>2, <2>1, <2>2, <2>3, <2>4 DEF Next
<1>3. ASSUME RingInv, SlotsFaithful, Dead PROVE DeltasFaithful
  <2>1. SUFFICES ASSUME nb_elt >= 2, NEW nb \in 1 .. max_elt + 1
                 PROVE  GetDeltaT(nb) = [k \in 1 .. (IF nb < nb_elt THEN nb ELSE nb_elt - 1) |->
                            inserted[Len(inserted) - k + 1].when - inserted[Len(inserted) - k].when]
    BY DEF DeltasFaithful
  <2> DEFINE d == IF nb < nb_elt THEN nb ELSE nb_elt - 1
  <2>2. max_elt \in Nat \ {0} /\ nb_elt \in 0 .. max_elt /\ alive
    BY <1>3, <2>1 DEF RingInv
  <2>3. DeltaLength(nb) = d /\ d \in 1 .. nb_elt - 1
    BY <2>1, <2>2 DEF DeltaLength
  <2> HIDE DEF d
  <2>4. /\ \A k \in 1 .. nb_elt : Entry(ring[ReadIndex[k - 1]]) = inserted[Len(inserted) - k + 1]
        /\ \A k \in 1 .. nb_elt - 1 : Entry(ring[Before(ReadIndex[k - 1])]) = inserted[Len(inserted) - k]
    BY <1>3, <2>2, ReadFacts
  <2>5. ASSUME NEW k \in 1 .. d
        PROVE  /\ ring[ReadIndex[k - 1]].when = inserted[Len(inserted) - k + 1].when
               /\ ring[Before(ReadIndex[k - 1])].when = inserted[Len(inserted) - k].when
    <3>1. k \in 1 .. nb_elt /\ k \in 1 .. nb_elt - 1
      BY <2>2, <2>3
    <3>2. \A s : Entry(s).when = s.when
      BY DEF Entry
    <3> QED BY <2>4, <3>1, <3>2
  <2>6. GetDeltaT(nb) = [k \in 1 .. d |-> inserted[Len(inserted) - k + 1].when - inserted[Len(inserted) - k].when]
    BY <2>3, <2>5 DEF GetDeltaT
  <2> QED BY <2>6 DEF d
<1> QED BY <1>1, <1>2, <1>3, RingInvariant, RingSlots, PTL DEF Spec

-----------------------------------------------------------------------------
(* Who owns the results and exceptions.  FreedOnce counts the slots that   *)
(* point to an object; that there is exactly one, or none after the object *)
(* was deleted, is preserved slot by slot.  The result and the exception   *)
(* of a slot are different objects: insert_except keeps the result of IDL  *)
(* 3 and later while it deletes the exception.                             *)

PointsTo(s, o) == o = s.value \/ o = s.except

Nowhere(o) == \A i \in 0 .. max_elt - 1 : ~ PointsTo(ring[i], o)

InOneSlot(o) ==
    \E i \in 0 .. max_elt - 1 :
        PointsTo(ring[i], o) /\ \A j \in 0 .. max_elt - 1 : PointsTo(ring[j], o) => j = i

Distinct(s) == s.value = s.except => s.value = Null

OwnerInv ==
    /\ freed \in [Objects -> Nat]
    /\ \A i \in 0 .. max_elt - 1 : Distinct(ring[i])
    /\ \A o \in Objects :
          IF o <= Len(inserted)
          THEN (freed[o] = 0 /\ InOneSlot(o)) \/ (freed[o] = 1 /\ Nowhere(o))
          ELSE freed[o] = 0 /\ Nowhere(o)

(* An insertion into the slot s0, which becomes s, that deletes the        *)
(* objects objs: exactly those s0 points to and s does not.                *)
LEMMA OwnerInsert ==
    ASSUME RingInv, OwnerInv, NEW s, NEW objs,
           ring' = [ring EXCEPT ![insert_elt] = s], max_elt' = max_elt,
           Free(objs),
           Len(inserted) + 1 \in Objects, Len(inserted') = Len(inserted) + 1,
           PointsTo(s, Len(inserted) + 1), Distinct(s),
           \A o \in Objects : o \in objs => PointsTo(ring[insert_elt], o),
           \A o \in Objects : o # Len(inserted) + 1 =>
               (PointsTo(s, o) <=> PointsTo(ring[insert_elt], o) /\ o \notin objs)
    PROVE  OwnerInv'
<1> DEFINE p == insert_elt
           new == Len(inserted) + 1
<1>1. /\ max_elt \in Nat /\ p \in 0 .. max_elt - 1 /\ Len(inserted) \in Nat
      /\ freed \in [Objects -> Nat] /\ Objects \subseteq Nat
  BY DEF RingInv, OwnerInv, Objects
<1>2. /\ ring'[p] = s
      /\ \A i \in 0 .. max_elt - 1 : i # p => ring'[i] = ring[i]
  BY <1>1 DEF RingInv
<1>3. /\ freed' \in [Objects -> Nat]
      /\ \A o \in Objects : freed'[o] = IF o \in objs THEN freed[o] + 1 ELSE freed[o]
  BY <1>1 DEF Free
<1>4. ASSUME NEW o \in Objects
      PROVE  IF o <= Len(inserted')
             THEN (freed'[o] = 0 /\ InOneSlot(o)') \/ (freed'[o] = 1 /\ Nowhere(o)')
             ELSE freed'[o] = 0 /\ Nowhere(o)'
  <2> DEFINE Old(i) == PointsTo(ring[i], o)
             Now(i) == PointsTo(ring'[i], o)
             All == 0 .. max_elt - 1
  <2>1. /\ p \in All /\ \A i \in All : i # p => (Now(i) <=> Old(i))
        /\ o \in objs => Old(p)
        /\ o # new => (Now(p) <=> Old(p) /\ o \notin objs)
        /\ o = new => Now(p)
    BY <1>1, <1>2
  <2>2. /\ InOneSlot(o)' <=> \E i \in All : Now(i) /\ \A j \in All : Now(j) => j = i
        /\ Nowhere(o)' <=> \A i \in All : ~ Now(i)
        /\ InOneSlot(o) <=> \E i \in All : Old(i) /\ \A j \in All : Old(j) => j = i
        /\ Nowhere(o) <=> \A i \in All : ~ Old(i)
    BY DEF InOneSlot, Nowhere, PointsTo
  <2>3. IF o <= Len(inserted)
        THEN (freed[o] = 0 /\ InOneSlot(o)) \/ (freed[o] = 1 /\ Nowhere(o))
        ELSE freed[o] = 0 /\ Nowhere(o)
    BY DEF OwnerInv
  <2>4. o \in Nat /\ freed[o] \in Nat /\ freed'[o] = IF o \in objs THEN freed[o] + 1 ELSE freed[o]
    BY <1>1, <1>3
  <2> HIDE DEF Old, Now, All
  <2>5. CASE o = new
    <3>1. freed[o] = 0 /\ \A i \in All : ~ Old(i)
      BY <1>1, <2>2, <2>3, <2>4, <2>5
    <3>2. o \notin objs
      BY <2>1, <3>1
    <3>3. freed'[o] = 0 /\ InOneSlot(o)'
      BY <2>1, <2>2, <2>4, <2>5, <3>1, <3>2
    <3> QED BY <2>4, <2>5, <3>3
  <2>6. CASE o < new
    <3>1. o <= Len(inserted) /\ o <= Len(inserted') /\ o # new
      BY <1>1, <2>4, <2>6
    <3>2. CASE freed[o] = 1 /\ Nowhere(o)
      <4>1. o \notin objs /\ Nowhere(o)'
        BY <2>1, <2>2, <3>1, <3>2
      <4> QED BY <2>4, <3>1, <3>2, <4>1
    <3>3. CASE freed[o] = 0 /\ InOneSlot(o) /\ o \in objs
      <4>1. Nowhere(o)' /\ freed'[o] = 1
        BY <2>1, <2>2, <2>4, <3>1, <3>3
      <4> QED BY <3>1, <4>1
    <3>4. CASE freed[o] = 0 /\ InOneSlot(o) /\ o \notin objs
      <4>1. \A i \in All : Now(i) <=> Old(i)
        BY <2>1, <3>1, <3>4
      <4>2. InOneSlot(o)' /\ freed'[o] = 0
        BY <2>2, <2>4, <3>4, <4>1
      <4> QED BY <3>1, <4>2
    <3> QED BY <2>3, <3>1, <3>2, <3>3, <3>4
  <2>7. CASE o > new
    <3>1. ~ (o <= Len(inserted)) /\ ~ (o <= Len(inserted')) /\ o # new
      BY <1>1, <2>4, <2>7
    <3>2. freed[o] = 0 /\ \A i \in All : ~ Old(i)
      BY <2>2, <2>3, <3>1
    <3>3. o \notin objs /\ \A i \in All : ~ Now(i)
      BY <2>1, <3>1, <3>2
    <3> QED BY <2>2, <2>4, <3>1, <3>2, <3>3
  <2> QED BY <1>1, <2>4, <2>5, <2>6, <2>7
<1>5. \A i \in 0 .. max_elt - 1 : Distinct(ring'[i])
  BY <1>1, <1>2 DEF OwnerInv
<1>6. \A i \in 0 .. max_elt' - 1 : Distinct(ring[i])'
  BY <1>5 DEF Distinct
<1> QED BY <1>3, <1>4, <1>6 DEF OwnerInv

LEMMA OwnerStep == ASSUME RingInv, OwnerInv, [Next]_vars PROVE OwnerInv'
<1>1. /\ max_elt \in Nat /\ insert_elt \in 0 .. max_elt - 1 /\ Len(inserted) \in Nat
      /\ ring \in [0 .. max_elt - 1 -> Slot] /\ Null \notin Objects
      /\ inserted \in Seq([no : Objects, err : BOOLEAN, when : Nat])
  BY DEF RingInv, Objects, Null
<1>2. ASSUME NEW t, InsertData(t) PROVE OwnerInv'
  <2> DEFINE new == Len(inserted) + 1
             s == [value |-> new, except |-> Null, when |-> t]
             objs == {ring[insert_elt].value, ring[insert_elt].except}
  <2>1. ring' = [ring EXCEPT ![insert_elt] = s] /\ max_elt' = max_elt /\ Free(objs)
    BY <1>2 DEF InsertData
  <2>2. new \in Objects /\ Len(inserted') = new
    BY <1>1, <1>2, RingAssumption DEF InsertData, Count, Objects
  <2>3. PointsTo(s, new) /\ \A o \in Objects : PointsTo(s, o) <=> o = new
    BY <1>1 DEF PointsTo
  <2>4. \A o \in Objects : o \in objs <=> PointsTo(ring[insert_elt], o)
    BY DEF PointsTo
  <2>5. Distinct(s)
    BY <1>1, <2>2 DEF Distinct
  <2> HIDE DEF s, objs
  <2> QED BY <2>1, <2>2, <2>3, <2>4, <2>5, OwnerInsert
<1>3. ASSUME NEW t, InsertExcept(t) PROVE OwnerInv'
  <2> DEFINE new == Len(inserted) + 1
             old == ring[insert_elt]
             drops == kind \in {"cmd_result", "attr_value"}
             s == [value |-> IF drops THEN Null ELSE old.value, except |-> new, when |-> t]
             objs == {old.except, IF drops THEN old.value ELSE Null}
  <2>1. ring' = [ring EXCEPT ![insert_elt] = s] /\ max_elt' = max_elt /\ Free(objs)
    BY <1>3 DEF InsertExcept, DroppedByExcept
  <2>2. new \in Objects /\ Len(inserted') = new
    BY <1>1, <1>3, RingAssumption DEF InsertExcept, Count, Objects
  <2>3. PointsTo(s, new)
    BY DEF PointsTo
  <2>4. \A o \in Objects : o \in objs => PointsTo(ring[insert_elt], o)
    BY <1>1 DEF PointsTo
  <2>5. ASSUME NEW o \in Objects, o # new
        PROVE  PointsTo(s, o) <=> PointsTo(ring[insert_elt], o) /\ o \notin objs
    <3>1. Distinct(old)
      BY <1>1 DEF OwnerInv
    <3> QED BY <1>1, <2>5, <3>1 DEF PointsTo, Distinct
  <2>6. Distinct(s)
    <3>1. ~ (new <= Len(inserted))
      BY <1>1
    <3>2. Nowhere(new)
      BY <2>2, <3>1 DEF OwnerInv
    <3>3. old.value # new
      BY <1>1, <3>2 DEF Nowhere, PointsTo
    <3> QED BY <1>1, <2>2, <3>3 DEF Distinct
  <2> HIDE DEF s, objs
  <2> QED BY <2>1, <2>2, <2>3, <2>4, <2>5, <2>6, OwnerInsert
<1>4. CASE Delete
  <2>1. /\ ring' = [i \in DOMAIN ring |-> EmptySlot] /\ max_elt' = max_elt /\ inserted' = inserted
        /\ freed' = [o \in Objects |-> IF o \in Pointers THEN freed[o] + 1 ELSE freed[o]]
    BY <1>4 DEF Delete, Free
  <2>2. \A i \in 0 .. max_elt - 1 : ring'[i] = EmptySlot
    BY <1>1, <2>1
  <2>3. \A i \in 0 .. max_elt' - 1 : Distinct(ring[i])'
    BY <2>1, <2>2 DEF Distinct, EmptySlot
  <2>4. ASSUME NEW o \in Objects PROVE Nowhere(o)'
    BY <1>1, <2>1, <2>2 DEF Nowhere, PointsTo, EmptySlot
  <2>5. ASSUME NEW o \in Objects PROVE o \in Pointers <=> ~ Nowhere(o)
    BY <1>1 DEF Nowhere, PointsTo, Pointers
  <2>6. ASSUME NEW o \in Objects
        PROVE  IF o <= Len(inserted') THEN freed'[o] = 1 ELSE freed'[o] = 0
    <3>1. IF o <= Len(inserted)
          THEN (freed[o] = 0 /\ InOneSlot(o)) \/ (freed[o] = 1 /\ Nowhere(o))
          ELSE freed[o] = 0 /\ Nowhere(o)
      BY DEF OwnerInv
    <3>2. InOneSlot(o) => ~ Nowhere(o)
      BY DEF InOneSlot, Nowhere
    <3>3. o \in Nat /\ freed'[o] = IF Nowhere(o) THEN freed[o] ELSE freed[o] + 1
      BY <2>1, <2>5 DEF Objects
    <3> QED BY <1>1, <2>1, <3>1, <3>2, <3>3
  <2>7. freed' \in [Objects -> Nat]
    BY <2>1 DEF OwnerInv
  <2> QED BY <2>3, <2>4, <2>6, <2>7 DEF OwnerInv
<1>5. CASE UNCHANGED vars
  BY <1>5 DEF vars, OwnerInv, InOneSlot, Nowhere, PointsTo, Distinct
<1> QED BY <1>2, <1>3, <1>4, <1>5 DEF Next

(* Every result and exception is pointed to by exactly one slot until it   *)
(* is deleted, once: by the insertion that reuses its slot, or by the      *)
(* destructor.                                                             *)
THEOREM RingFreedOnce == Spec => []FreedOnce
<1>1. ASSUME Init PROVE OwnerInv
  <2>1. inserted = <<>> /\ freed = [o \in Objects |-> 0] /\ ring = [i \in 0 .. max_elt - 1 |-> EmptySlot]
    BY <1>1 DEF Init
  <2>2. \A o \in Objects : ~ (o <= Len(inserted)) /\ freed[o] = 0 /\ Nowhere(o)
    BY <2>1 DEF Objects, Nowhere, PointsTo, EmptySlot, Null
  <2>3. \A i \in 0 .. max_elt - 1 : Distinct(ring[i])
    BY <2>1 DEF Distinct, EmptySlot
  <2>4. freed \in [Objects -> Nat]
    BY <2>1
  <2> QED BY <2>2, <2>3, <2>4 DEF OwnerInv
<1>2. ASSUME RingInv, OwnerInv PROVE FreedOnce
  <2>1. DOMAIN ring = 0 .. max_elt - 1 /\ Len(inserted) \in Nat /\ Len(inserted) <= MaxInserts
    BY <1>2 DEF RingInv
  <2>2. SUFFICES ASSUME NEW o \in 1 .. Len(inserted)
                 PROVE  freed[o] + Cardinality({i \in DOMAIN ring : o \in {ring[i].value, ring[i].except}}) = 1
    BY DEF FreedOnce
  <2> DEFINE C == {i \in DOMAIN ring : o \in {ring[i].value, ring[i].except}}
  <2>3. C = {i \in 0 .. max_elt - 1 : PointsTo(ring[i], o)}
    BY <2>1 DEF PointsTo
  <2> HIDE DEF C
  <2>4. o \in Objects /\ o <= Len(inserted)
    BY <2>1, RingAssumption DEF Objects
  <2>5. CASE freed[o] = 0 /\ InOneSlot(o)
    <3>1. PICK i \in 0 .. max_elt - 1 :
              PointsTo(ring[i], o) /\ \A j \in 0 .. max_elt - 1 : PointsTo(ring[j], o) => j = i
      BY <2>5 DEF InOneSlot
    <3>2. C = {i}
      BY <2>3, <3>1
    <3>3. Cardinality(C) = 1
      BY <3>2, FS_Singleton
    <3> QED BY <2>5, <3>3 DEF C
  <2>6. CASE freed[o] = 1 /\ Nowhere(o)
    <3>1. C = {}
      BY <2>3, <2>6 DEF Nowhere
    <3>2. Cardinality(C) = 0
      BY <3>1, FS_EmptySet
    <3> QED BY <2>6, <3>2 DEF C
  <2> QED BY <1>2, <2>4, <2>5, <2>6 DEF OwnerInv
<1> QED BY <1>1, <1>2, OwnerStep, RingInvariant, PTL DEF Spec

-----------------------------------------------------------------------------
-----------------------------------------------------------------------------
(* The work list of a polling thread. *)

(* The k-th name of the item w is that of the object o. *)
Is(w, k, o) == w.dev = o.dev /\ w.type = o.type /\ w.name[k] = o.name

(* A list without empty items in which no object is twice. *)
GoodList(ws) ==
    /\ ws \in Seq(WorkItem)
    /\ \A i \in 1 .. Len(ws) : ws[i].name # <<>>
    /\ \A o \in PollObjs : \A i, j \in 1 .. Len(ws) :
          \A k \in 1 .. Len(ws[i].name), l \in 1 .. Len(ws[j].name) :
              Is(ws[i], k, o) /\ Is(ws[j], l, o) => i = j /\ k = l

(* The object o is in the list, in an item of period u. *)
InList(ws, o, u) == \E i \in 1 .. Len(ws) : Polls(ws[i], o) /\ ws[i].update = u

Listed(ws, o) == \E i \in 1 .. Len(ws) : Polls(ws[i], o)

(* No two items could be one. *)
SameKey(v, w) == v.dev = w.dev /\ v.type = w.type /\ v.update = w.update
MergedList(ws) ==
    \A i, j \in 1 .. Len(ws) : Merges(ws[i].type) /\ SameKey(ws[i], ws[j]) => i = j

(* No item of the list could be one with w. *)
NewKey(ws, w) == \A i \in 1 .. Len(ws) : ~ (Merges(w.type) /\ SameKey(ws[i], w))

(* The items of r have devices, types and periods of items of s. *)
KeysIn(r, s) == \A i \in 1 .. Len(r) : \E j \in 1 .. Len(s) : SameKey(r[i], s[j])

(* No item has the period of the externally triggered works. *)
NonZero(ws) == \A i \in 1 .. Len(ws) : ws[i].update # 0

(* The list r has, in some order, the items of s at the indexes I; only the *)
(* dates and the times needed may differ.                                   *)
SameWork(v, w) == v.dev = w.dev /\ v.type = w.type /\ v.name = w.name /\ v.update = w.update
IsPick(r, s, I, g) ==
    /\ g \in [1 .. Len(r) -> I]
    /\ \A k, l \in 1 .. Len(r) : g[k] = g[l] => k = l
    /\ \A i \in I : \E k \in 1 .. Len(r) : g[k] = i
    /\ \A k \in 1 .. Len(r) : SameWork(r[k], s[g[k]])
Picks(r, s, I) == r \in Seq(WorkItem) /\ \E g : IsPick(r, s, I, g)

-----------------------------------------------------------------------------
(* Sequences. *)

LEMMA ItemNames == ASSUME NEW w \in WorkItem PROVE Len(w.name) \in Nat
<1>1. w.name \in Seq({o.name : o \in PollObjs})
  BY DEF WorkItem
<1> QED BY <1>1

ObjNames == {o.name : o \in PollObjs}

LEMMA ItemTypes ==
    ASSUME NEW w \in WorkItem
    PROVE  /\ w.name \in Seq(ObjNames) /\ w.date \in Int /\ w.needed \in Int
           /\ w.update \in Periods /\ w.update \in Nat
<1>1. w.name \in Seq(ObjNames) /\ w.date \in Int /\ w.needed \in Int /\ w.update \in Periods
  BY DEF WorkItem, ObjNames
<1>2. Periods \subseteq Nat
  BY WorksAssumption
<1> QED BY <1>1, <1>2

LEMMA MinIndex ==
    ASSUME NEW I, I \subseteq Nat, I # {}
    PROVE  Min(I) \in I /\ \A k \in I : Min(I) <= k
<1>1. \E m \in I : \A k \in I : m <= k
  BY LeastNat
<1> QED BY <1>1 DEF Min

LEMMA InsertAtIs ==
    ASSUME NEW S, NEW s \in Seq(S), NEW e \in S, NEW i \in 1 .. Len(s)
    PROVE  /\ InsertAt(s, i, e) \in Seq(S)
           /\ Len(InsertAt(s, i, e)) = Len(s) + 1
           /\ \A k \in 1 .. Len(s) + 1 :
                 InsertAt(s, i, e)[k] = IF k < i THEN s[k] ELSE IF k = i THEN e ELSE s[k - 1]
<1>1. Len(s) \in Nat /\ i \in Nat /\ i >= 1 /\ i <= Len(s)
  OBVIOUS
<1>2. PICK a, b : a = SubSeq(s, 1, i - 1) /\ b = SubSeq(s, i, Len(s))
  OBVIOUS
<1>3. a \in Seq(S) /\ Len(a) = i - 1 /\ \A k \in 1 .. i - 1 : a[k] = s[k]
  BY <1>1, <1>2
<1>4. b \in Seq(S) /\ Len(b) = Len(s) - i + 1 /\ \A k \in 1 .. Len(s) - i + 1 : b[k] = s[i + k - 1]
  <2>1. i \in Int /\ Len(s) \in Int /\ \A k \in i .. Len(s) : s[k] \in S
    BY <1>1
  <2>2. /\ SubSeq(s, i, Len(s)) \in Seq(S)
        /\ Len(SubSeq(s, i, Len(s))) = IF i <= Len(s) THEN Len(s) - i + 1 ELSE 0
        /\ \A k \in 1 .. Len(s) - i + 1 : SubSeq(s, i, Len(s))[k] = s[i + k - 1]
    BY <2>1, SubSeqProperties
  <2> QED BY <1>1, <1>2, <2>2
<1>5. PICK c : c = a \o <<e>>
  OBVIOUS
<1>6. c \in Seq(S) /\ Len(c) = i /\ c[i] = e /\ \A k \in 1 .. i - 1 : c[k] = s[k]
  BY <1>1, <1>3, <1>5
<1>7. PICK d : d = c \o b
  OBVIOUS
<1>8. /\ d \in Seq(S) /\ Len(d) = Len(s) + 1
      /\ \A k \in 1 .. i : d[k] = c[k]
      /\ \A k \in 1 .. Len(s) - i + 1 : d[i + k] = b[k]
  <2>1. /\ d \in Seq(S) /\ Len(d) = Len(c) + Len(b)
        /\ \A k \in 1 .. Len(c) + Len(b) : d[k] = IF k <= Len(c) THEN c[k] ELSE b[k - Len(c)]
    BY <1>4, <1>6, <1>7, ConcatProperties
  <2>2. \A k \in 1 .. Len(s) - i + 1 : i + k \in 1 .. i + Len(b) /\ (i + k) - i = k /\ ~ (i + k <= i)
    BY <1>1, <1>4
  <2>3. \A k \in 1 .. i : k \in 1 .. i + Len(b) /\ k <= i
    BY <1>1, <1>4
  <2> QED BY <1>1, <1>4, <1>6, <2>1, <2>2, <2>3
<1>9. ASSUME NEW k \in 1 .. Len(s) + 1
      PROVE  d[k] = IF k < i THEN s[k] ELSE IF k = i THEN e ELSE s[k - 1]
  <2>1. CASE k <= i
    BY <1>1, <1>6, <1>8, <2>1
  <2>2. CASE k > i
    <3>1. k - i \in 1 .. Len(s) - i + 1 /\ i + (k - i) = k /\ i + (k - i) - 1 = k - 1
      BY <1>1, <2>2
    <3>2. d[k] = b[k - i] /\ b[k - i] = s[i + (k - i) - 1]
      BY <1>4, <1>8, <3>1
    <3> QED BY <1>1, <2>2, <3>1, <3>2
  <2> QED BY <1>1, <2>1, <2>2
<1> QED BY <1>2, <1>5, <1>7, <1>8, <1>9 DEF InsertAt

LEMMA RemoveAtIs ==
    ASSUME NEW S, NEW s \in Seq(S), NEW i \in 1 .. Len(s)
    PROVE  /\ RemoveAt(s, i) \in Seq(S)
           /\ Len(RemoveAt(s, i)) = Len(s) - 1
           /\ \A k \in 1 .. Len(s) - 1 : RemoveAt(s, i)[k] = IF k < i THEN s[k] ELSE s[k + 1]
<1>1. Len(s) \in Nat /\ i \in Nat /\ i >= 1 /\ i <= Len(s)
  OBVIOUS
<1>2. PICK a, b : a = SubSeq(s, 1, i - 1) /\ b = SubSeq(s, i + 1, Len(s))
  OBVIOUS
<1>3. a \in Seq(S) /\ Len(a) = i - 1 /\ \A k \in 1 .. i - 1 : a[k] = s[k]
  BY <1>1, <1>2
<1>4. b \in Seq(S) /\ Len(b) = Len(s) - i /\ \A k \in 1 .. Len(s) - i : b[k] = s[i + k]
  BY <1>1, <1>2
<1>5. PICK d : d = a \o b
  OBVIOUS
<1>6. /\ d \in Seq(S) /\ Len(d) = Len(s) - 1
      /\ \A k \in 1 .. i - 1 : d[k] = a[k]
      /\ \A k \in 1 .. Len(s) - i : d[(i - 1) + k] = b[k]
  BY <1>1, <1>3, <1>4, <1>5
<1>7. ASSUME NEW k \in 1 .. Len(s) - 1
      PROVE  d[k] = IF k < i THEN s[k] ELSE s[k + 1]
  <2>1. CASE k < i
    BY <1>1, <1>3, <1>6, <2>1
  <2>2. CASE ~ (k < i)
    <3>1. k - i + 1 \in 1 .. Len(s) - i /\ (i - 1) + (k - i + 1) = k /\ i + (k - i + 1) = k + 1
      BY <1>1, <2>2
    <3>2. d[k] = b[k - i + 1] /\ b[k - i + 1] = s[i + (k - i + 1)]
      BY <1>4, <1>6, <3>1
    <3> QED BY <2>2, <3>1, <3>2
  <2> QED BY <2>1, <2>2
<1> QED BY <1>2, <1>5, <1>6, <1>7 DEF RemoveAt

-----------------------------------------------------------------------------
(* Rearranged lists. *)

LEMMA SameWorkPolls ==
    ASSUME NEW v, NEW w, SameWork(v, w), NEW o
    PROVE  /\ Polls(v, o) <=> Polls(w, o)
           /\ \A k : Is(v, k, o) <=> Is(w, k, o)
BY DEF SameWork, Polls, Is

LEMMA PicksFacts ==
    ASSUME NEW s, GoodList(s), NEW I \in SUBSET (1 .. Len(s)), NEW r, Picks(r, s, I)
    PROVE  /\ GoodList(r)
           /\ \A o, u : InList(r, o, u) <=> \E i \in I : Polls(s[i], o) /\ s[i].update = u
           /\ MergedList(s) => MergedList(r)
           /\ KeysIn(r, s)
<1>1. PICK g : IsPick(r, s, I, g)
  BY DEF Picks
<1>2. /\ \A k \in 1 .. Len(r) : g[k] \in I /\ g[k] \in 1 .. Len(s)
      /\ \A k, l \in 1 .. Len(r) : g[k] = g[l] => k = l
      /\ \A i \in I : \E k \in 1 .. Len(r) : g[k] = i
      /\ \A k \in 1 .. Len(r) : SameWork(r[k], s[g[k]])
  BY <1>1 DEF IsPick
<1>3. GoodList(r)
  <2>1. r \in Seq(WorkItem)
    BY DEF Picks
  <2>2. ASSUME NEW k \in 1 .. Len(r) PROVE r[k].name # <<>>
    BY <1>2 DEF GoodList, SameWork
  <2>3. ASSUME NEW o \in PollObjs, NEW i \in 1 .. Len(r), NEW j \in 1 .. Len(r),
               NEW k \in 1 .. Len(r[i].name), NEW l \in 1 .. Len(r[j].name),
               Is(r[i], k, o), Is(r[j], l, o)
        PROVE  i = j /\ k = l
    <3>1. /\ r[i].name = s[g[i]].name /\ r[j].name = s[g[j]].name
          /\ g[i] \in 1 .. Len(s) /\ g[j] \in 1 .. Len(s)
      BY <1>2 DEF SameWork
    <3>2. Is(s[g[i]], k, o) /\ Is(s[g[j]], l, o)
      BY <1>2, <2>3 DEF SameWork, Is
    <3>3. g[i] = g[j] /\ k = l
      BY <3>1, <3>2 DEF GoodList
    <3> QED BY <1>2, <3>3
  <2> QED BY <2>1, <2>2, <2>3 DEF GoodList
<1>4. ASSUME NEW o, NEW u
      PROVE  InList(r, o, u) <=> \E i \in I : Polls(s[i], o) /\ s[i].update = u
  <2>1. ASSUME NEW k \in 1 .. Len(r), Polls(r[k], o), r[k].update = u
        PROVE  \E i \in I : Polls(s[i], o) /\ s[i].update = u
    <3>1. g[k] \in I /\ SameWork(r[k], s[g[k]])
      BY <1>2
    <3>2. Polls(s[g[k]], o) /\ s[g[k]].update = u
      BY <2>1, <3>1, SameWorkPolls DEF SameWork
    <3> QED BY <3>1, <3>2
  <2>2. ASSUME NEW i \in I, Polls(s[i], o), s[i].update = u
        PROVE  InList(r, o, u)
    <3>1. PICK k \in 1 .. Len(r) : g[k] = i
      BY <1>2
    <3>2. SameWork(r[k], s[i])
      BY <1>2, <3>1
    <3>3. Polls(r[k], o) /\ r[k].update = u
      BY <2>2, <3>2, SameWorkPolls DEF SameWork
    <3> QED BY <3>3 DEF InList
  <2> QED BY <2>1, <2>2 DEF InList
<1>5. ASSUME MergedList(s) PROVE MergedList(r)
  <2>1. ASSUME NEW i \in 1 .. Len(r), NEW j \in 1 .. Len(r), Merges(r[i].type), SameKey(r[i], r[j])
        PROVE  i = j
    <3>1. SameWork(r[i], s[g[i]]) /\ SameWork(r[j], s[g[j]]) /\ g[i] \in 1 .. Len(s) /\ g[j] \in 1 .. Len(s)
      BY <1>2
    <3>2. Merges(s[g[i]].type) /\ SameKey(s[g[i]], s[g[j]])
      BY <2>1, <3>1 DEF SameWork, SameKey
    <3>3. g[i] = g[j]
      BY <1>5, <3>1, <3>2 DEF MergedList
    <3> QED BY <1>2, <3>3
  <2> QED BY <2>1 DEF MergedList
<1>6. KeysIn(r, s)
  BY <1>2 DEF KeysIn, SameKey, SameWork
<1> QED BY <1>3, <1>4, <1>5, <1>6

LEMMA KeysInFacts ==
    ASSUME NEW r, NEW s, KeysIn(r, s)
    PROVE  /\ NonZero(s) => NonZero(r)
           /\ \A w : NewKey(s, w) => NewKey(r, w)
BY DEF KeysIn, NonZero, NewKey, SameKey

LEMMA PicksTrans ==
    ASSUME NEW s, NEW r, NEW q, Picks(r, s, 1 .. Len(s)), Picks(q, r, 1 .. Len(r))
    PROVE  Picks(q, s, 1 .. Len(s))
<1>1. PICK g : IsPick(r, s, 1 .. Len(s), g)
  BY DEF Picks
<1>2. PICK f : IsPick(q, r, 1 .. Len(r), f)
  BY DEF Picks
<1> DEFINE h == [k \in 1 .. Len(q) |-> g[f[k]]]
<1>3. \A k \in 1 .. Len(q) : f[k] \in 1 .. Len(r) /\ g[f[k]] \in 1 .. Len(s)
  BY <1>1, <1>2 DEF IsPick
<1>4. h \in [1 .. Len(q) -> 1 .. Len(s)] /\ \A k \in 1 .. Len(q) : h[k] = g[f[k]]
  BY <1>3
<1> HIDE DEF h
<1>5. \A k, l \in 1 .. Len(q) : h[k] = h[l] => k = l
  BY <1>1, <1>2, <1>3, <1>4 DEF IsPick
<1>6. ASSUME NEW i \in 1 .. Len(s) PROVE \E k \in 1 .. Len(q) : h[k] = i
  <2>1. PICK j \in 1 .. Len(r) : g[j] = i
    BY <1>1 DEF IsPick
  <2>2. PICK k \in 1 .. Len(q) : f[k] = j
    BY <1>2 DEF IsPick
  <2> QED BY <1>4, <2>1, <2>2
<1>7. ASSUME NEW k \in 1 .. Len(q) PROVE SameWork(q[k], s[h[k]])
  <2>1. SameWork(q[k], r[f[k]]) /\ SameWork(r[f[k]], s[g[f[k]]])
    BY <1>1, <1>2, <1>3 DEF IsPick
  <2> QED BY <1>4, <2>1 DEF SameWork
<1>8. IsPick(q, s, 1 .. Len(s), h)
  BY <1>4, <1>5, <1>6, <1>7 DEF IsPick
<1>9. q \in Seq(WorkItem)
  BY DEF Picks
<1> QED BY <1>8, <1>9 DEF Picks

(* Item by item. *)
LEMMA PicksEach ==
    ASSUME NEW s, NEW r \in Seq(WorkItem), Len(r) = Len(s),
           \A k \in 1 .. Len(s) : SameWork(r[k], s[k])
    PROVE  Picks(r, s, 1 .. Len(s))
<1> DEFINE g == [k \in 1 .. Len(r) |-> k]
<1>1. g \in [1 .. Len(r) -> 1 .. Len(s)] /\ \A k \in 1 .. Len(r) : g[k] = k
  OBVIOUS
<1> HIDE DEF g
<1>2. IsPick(r, s, 1 .. Len(s), g)
  BY <1>1 DEF IsPick
<1> QED BY <1>2 DEF Picks

-----------------------------------------------------------------------------
(* insert_in_list. *)

(* The list r is s with w put at the place p. *)
Put(r, s, w, p) ==
    /\ r \in Seq(WorkItem) /\ Len(r) = Len(s) + 1
    /\ \A k \in 1 .. Len(s) + 1 : r[k] = IF k < p THEN s[k] ELSE IF k = p THEN w ELSE s[k - 1]

LEMMA InsertIs ==
    ASSUME NEW ws \in Seq(WorkItem), NEW w \in WorkItem
    PROVE  \E p \in 1 .. Len(ws) + 1 : Put(Insert(ws, w), ws, w, p)
<1> DEFINE I == {i \in 1 .. Len(ws) : ~ (ws[i].date < w.date)}
<1>0. Len(ws) \in Nat
  OBVIOUS
<1>1. CASE I = {}
  <2>1. Insert(ws, w) = Append(ws, w)
    BY <1>1 DEF Insert, SelectInSeq
  <2>2. Put(Append(ws, w), ws, w, Len(ws) + 1)
    BY <1>0 DEF Put
  <2> QED BY <1>0, <2>1, <2>2
<1>2. CASE I # {}
  <2>1. I \subseteq Nat
    BY <1>0
  <2>2. Min(I) \in I
    <3> HIDE DEF I
    <3> QED BY <1>2, <2>1, MinIndex
  <2>3. Min(I) \in 1 .. Len(ws) /\ Min(I) # 0
    BY <2>2
  <2>4. Insert(ws, w) = InsertAt(ws, Min(I), w)
    BY <1>2, <2>3 DEF Insert, SelectInSeq
  <2> HIDE DEF I
  <2>5. ASSUME NEW i \in 1 .. Len(ws) PROVE Put(InsertAt(ws, i, w), ws, w, i)
    <3>1. /\ InsertAt(ws, i, w) \in Seq(WorkItem) /\ Len(InsertAt(ws, i, w)) = Len(ws) + 1
          /\ \A k \in 1 .. Len(ws) + 1 :
                InsertAt(ws, i, w)[k] = IF k < i THEN ws[k] ELSE IF k = i THEN w ELSE ws[k - 1]
      BY InsertAtIs
    <3> QED BY <3>1 DEF Put
  <2>6. Min(I) \in 1 .. Len(ws) + 1
    BY <1>0, <2>3
  <2> QED BY <2>3, <2>4, <2>5, <2>6
<1> QED BY <1>1, <1>2

LEMMA PutPicks ==
    ASSUME NEW s \in Seq(WorkItem), NEW w \in WorkItem, NEW p \in 1 .. Len(s) + 1, NEW r, Put(r, s, w, p)
    PROVE  Picks(r, Append(s, w), 1 .. Len(s) + 1)
<1> DEFINE g == [k \in 1 .. Len(r) |-> IF k < p THEN k ELSE IF k = p THEN Len(s) + 1 ELSE k - 1]
<1>1. /\ Len(s) \in Nat /\ Len(r) = Len(s) + 1 /\ r \in Seq(WorkItem)
      /\ \A k \in 1 .. Len(s) + 1 : r[k] = IF k < p THEN s[k] ELSE IF k = p THEN w ELSE s[k - 1]
  BY DEF Put
<1>2. \A k \in 1 .. Len(r) : g[k] = IF k < p THEN k ELSE IF k = p THEN Len(s) + 1 ELSE k - 1
  OBVIOUS
<1>3. g \in [1 .. Len(r) -> 1 .. Len(s) + 1]
  BY <1>1
<1> HIDE DEF g
<1>4. \A k, l \in 1 .. Len(r) : g[k] = g[l] => k = l
  BY <1>1, <1>2
<1>5. ASSUME NEW i \in 1 .. Len(s) + 1 PROVE \E k \in 1 .. Len(r) : g[k] = i
  <2>1. CASE i = Len(s) + 1
    <3>1. p \in 1 .. Len(r) /\ g[p] = Len(s) + 1
      BY <1>1, <1>2
    <3> QED BY <2>1, <3>1
  <2>2. CASE i # Len(s) + 1 /\ i < p
    <3>1. i \in 1 .. Len(r) /\ g[i] = i
      BY <1>1, <1>2, <2>2
    <3> QED BY <3>1
  <2>3. CASE i # Len(s) + 1 /\ ~ (i < p)
    <3>1. i + 1 \in 1 .. Len(r) /\ ~ (i + 1 < p) /\ i + 1 # p /\ (i + 1) - 1 = i
      BY <1>1, <2>3
    <3>2. g[i + 1] = (i + 1) - 1
      BY <1>2, <3>1
    <3> QED BY <3>1, <3>2
  <2> QED BY <2>1, <2>2, <2>3
<1>6. ASSUME NEW k \in 1 .. Len(r) PROVE r[k] = Append(s, w)[g[k]]
  <2>1. Append(s, w)[Len(s) + 1] = w /\ \A j \in 1 .. Len(s) : Append(s, w)[j] = s[j]
    OBVIOUS
  <2>2. CASE k = p
    BY <1>1, <1>2, <2>1, <2>2
  <2>3. CASE k < p
    <3>1. g[k] = k /\ k \in 1 .. Len(s) /\ r[k] = s[k]
      BY <1>1, <1>2, <2>3
    <3> QED BY <2>1, <3>1
  <2>4. CASE k > p
    <3>1. g[k] = k - 1 /\ k - 1 \in 1 .. Len(s) /\ r[k] = s[k - 1]
      BY <1>1, <1>2, <2>4
    <3> QED BY <2>1, <3>1
  <2>5. k < p \/ k = p \/ k > p
    BY <1>1
  <2> QED BY <2>2, <2>3, <2>4, <2>5
<1>7. IsPick(r, Append(s, w), 1 .. Len(s) + 1, g)
  BY <1>3, <1>4, <1>5, <1>6 DEF IsPick, SameWork
<1> QED BY <1>1, <1>7 DEF Picks

(* The item w is another version of the first one, which then goes. *)
LEMMA TailPutPicks ==
    ASSUME NEW s \in Seq(WorkItem), s # <<>>, NEW w \in WorkItem, SameWork(w, s[1]),
           NEW p \in 1 .. Len(s) + 1, NEW r, Put(r, s, w, p)
    PROVE  Picks(Tail(r), s, 1 .. Len(s))
<1> DEFINE t == Tail(r)
           g == [k \in 1 .. Len(s) |-> IF p = 1 \/ k >= p THEN k ELSE IF k = p - 1 THEN 1 ELSE k + 1]
<1>1. /\ Len(s) \in Nat \ {0} /\ Len(r) = Len(s) + 1 /\ r \in Seq(WorkItem)
      /\ \A k \in 1 .. Len(s) + 1 : r[k] = IF k < p THEN s[k] ELSE IF k = p THEN w ELSE s[k - 1]
  BY DEF Put
<1>2. t \in Seq(WorkItem) /\ Len(t) = Len(s) /\ \A k \in 1 .. Len(s) : t[k] = r[k + 1]
  BY <1>1
<1> HIDE DEF t
<1>3. \A k \in 1 .. Len(s) : g[k] = IF p = 1 \/ k >= p THEN k ELSE IF k = p - 1 THEN 1 ELSE k + 1
  OBVIOUS
<1>4. g \in [1 .. Len(s) -> 1 .. Len(s)]
  BY <1>1
<1> HIDE DEF g
<1>5. ASSUME NEW k \in 1 .. Len(s), NEW l \in 1 .. Len(s), g[k] = g[l] PROVE k = l
  <2>1. /\ g[k] = IF p = 1 \/ k >= p THEN k ELSE IF k = p - 1 THEN 1 ELSE k + 1
        /\ g[l] = IF p = 1 \/ l >= p THEN l ELSE IF l = p - 1 THEN 1 ELSE l + 1
    BY <1>3
  <2>2. CASE p = 1
    BY <1>5, <2>1, <2>2
  <2>3. CASE p # 1
    <3>1. k \in Int /\ l \in Int /\ p \in Int /\ k >= 1 /\ l >= 1 /\ p >= 2
      BY <1>1, <2>3
    <3>2. ASSUME NEW i \in 1 .. Len(s)
          PROVE  \/ i >= p /\ g[i] = i
                 \/ i = p - 1 /\ g[i] = 1
                 \/ i < p - 1 /\ g[i] = i + 1
      BY <1>3, <2>3, <3>1
    <3>3. PICK a, b : a = g[k] /\ b = g[l]
      OBVIOUS
    <3>4. (k >= p /\ a = k) \/ (k = p - 1 /\ a = 1) \/ (k < p - 1 /\ a = k + 1)
      BY <3>2, <3>3
    <3>5. (l >= p /\ a = l) \/ (l = p - 1 /\ a = 1) \/ (l < p - 1 /\ a = l + 1)
      BY <1>5, <3>2, <3>3
    <3> QED BY <3>1, <3>4, <3>5
  <2> QED BY <2>2, <2>3
<1>6. ASSUME NEW i \in 1 .. Len(s) PROVE \E k \in 1 .. Len(s) : g[k] = i
  <2>1. CASE p = 1 \/ i >= p
    BY <1>3, <2>1
  <2>2. CASE p # 1 /\ ~ (i >= p) /\ i = 1
    <3>1. p - 1 \in 1 .. Len(s) /\ g[p - 1] = 1
      BY <1>1, <1>3, <2>2
    <3> QED BY <2>2, <3>1
  <2>3. CASE p # 1 /\ ~ (i >= p) /\ i # 1
    <3>1. i - 1 \in 1 .. Len(s) /\ g[i - 1] = i
      BY <1>1, <1>3, <2>3
    <3> QED BY <3>1
  <2> QED BY <2>1, <2>2, <2>3
<1>7. ASSUME NEW k \in 1 .. Len(s) PROVE SameWork(t[k], s[g[k]])
  <2>1. t[k] = r[k + 1] /\ k + 1 \in 1 .. Len(s) + 1
    BY <1>1, <1>2
  <2>2. CASE p = 1 \/ k >= p
    <3>0. p \in Int /\ ~ (k + 1 < p) /\ k + 1 # p /\ (k + 1) - 1 = k
      BY <1>1, <2>2
    <3>1. g[k] = k
      BY <1>3, <2>2
    <3>2. r[k + 1] = s[(k + 1) - 1]
      BY <1>1, <2>1, <3>0
    <3> QED BY <2>1, <3>0, <3>1, <3>2 DEF SameWork
  <2>3. CASE p # 1 /\ k = p - 1
    <3>0. p \in Int /\ ~ (k >= p) /\ ~ (k + 1 < p) /\ k + 1 = p
      BY <1>1, <2>3
    <3>1. g[k] = 1
      BY <1>3, <2>3, <3>0
    <3>2. r[k + 1] = w
      BY <1>1, <2>1, <3>0
    <3> QED BY <2>1, <3>1, <3>2
  <2>4. CASE p # 1 /\ k < p - 1
    <3>1. g[k] = k + 1 /\ r[k + 1] = s[k + 1]
      BY <1>1, <1>3, <2>1, <2>4
    <3> QED BY <2>1, <3>1 DEF SameWork
  <2> QED BY <1>1, <2>2, <2>3, <2>4
<1>8. IsPick(t, s, 1 .. Len(s), g)
  BY <1>2, <1>4, <1>5, <1>6, <1>7 DEF IsPick
<1> QED BY <1>2, <1>8 DEF Picks, t

LEMMA RemoveAtPicks ==
    ASSUME NEW s \in Seq(WorkItem), NEW i \in 1 .. Len(s)
    PROVE  Picks(RemoveAt(s, i), s, (1 .. Len(s)) \ {i})
<1> DEFINE I == (1 .. Len(s)) \ {i}
<1>1. PICK r : r = RemoveAt(s, i)
  OBVIOUS
<1>2. /\ Len(s) \in Nat /\ r \in Seq(WorkItem) /\ Len(r) = Len(s) - 1
      /\ \A k \in 1 .. Len(s) - 1 : r[k] = IF k < i THEN s[k] ELSE s[k + 1]
  BY <1>1, RemoveAtIs, SMTT(30)
<1> DEFINE g == [k \in 1 .. Len(r) |-> IF k < i THEN k ELSE k + 1]
<1>3. \A k \in 1 .. Len(r) : g[k] = IF k < i THEN k ELSE k + 1
  OBVIOUS
<1>4. g \in [1 .. Len(r) -> I]
  BY <1>2
<1> HIDE DEF g
<1>5. \A k, l \in 1 .. Len(r) : g[k] = g[l] => k = l
  BY <1>2, <1>3
<1>6. ASSUME NEW j \in I PROVE \E k \in 1 .. Len(r) : g[k] = j
  <2>1. CASE j < i
    <3>1. j \in 1 .. Len(r) /\ g[j] = j
      BY <1>2, <1>3, <2>1
    <3> QED BY <3>1
  <2>2. CASE j > i
    <3>1. j - 1 \in 1 .. Len(r) /\ g[j - 1] = j
      BY <1>2, <1>3, <2>2
    <3> QED BY <3>1
  <2> QED BY <2>1, <2>2
<1>7. ASSUME NEW k \in 1 .. Len(r) PROVE r[k] = s[g[k]]
  BY <1>2, <1>3
<1>8. IsPick(r, s, I, g)
  BY <1>4, <1>5, <1>6, <1>7 DEF IsPick, SameWork
<1> QED BY <1>1, <1>2, <1>8 DEF Picks

(* An item that can be added to a list: it has names, each object once, and *)
(* none of those of the list.                                               *)
New(ws, w) ==
    /\ w \in WorkItem /\ w.name # <<>>
    /\ \A o \in PollObjs : \A k, l \in 1 .. Len(w.name) : Is(w, k, o) /\ Is(w, l, o) => k = l
    /\ \A o \in PollObjs : Polls(w, o) => ~ Listed(ws, o)

LEMMA AppendGood ==
    ASSUME NEW ws, GoodList(ws), NEW w, New(ws, w)
    PROVE  /\ GoodList(Append(ws, w))
           /\ \A o, u : InList(Append(ws, w), o, u) <=> InList(ws, o, u) \/ (Polls(w, o) /\ w.update = u)
           /\ MergedList(ws) /\ NewKey(ws, w) => MergedList(Append(ws, w))
<1>1. ws \in Seq(WorkItem) /\ Len(ws) \in Nat /\ w \in WorkItem
  BY DEF GoodList, New
<1>2. PICK r : r = Append(ws, w)
  OBVIOUS
<1>3. /\ r \in Seq(WorkItem) /\ Len(r) = Len(ws) + 1 /\ r[Len(ws) + 1] = w
      /\ \A i \in 1 .. Len(ws) : r[i] = ws[i]
  BY <1>1, <1>2
<1>4. \A i \in 1 .. Len(r) : i \in 1 .. Len(ws) \/ i = Len(ws) + 1
  BY <1>1, <1>3
<1>5. \A i \in 1 .. Len(ws) : i \in 1 .. Len(r) /\ i # Len(ws) + 1
  BY <1>1, <1>3
<1>6. GoodList(r)
  <2>1. ASSUME NEW i \in 1 .. Len(r) PROVE r[i].name # <<>>
    BY <1>3, <1>4 DEF GoodList, New
  <2>2. ASSUME NEW o \in PollObjs, NEW i \in 1 .. Len(r), NEW j \in 1 .. Len(r),
               NEW k \in 1 .. Len(r[i].name), NEW l \in 1 .. Len(r[j].name),
               Is(r[i], k, o), Is(r[j], l, o)
        PROVE  i = j /\ k = l
    <3>1. Polls(r[i], o) /\ Polls(r[j], o)
      BY <2>2 DEF Is, Polls, Contains
    <3>2. CASE i \in 1 .. Len(ws) /\ j \in 1 .. Len(ws)
      BY <1>3, <2>2, <3>2 DEF GoodList
    <3>3. CASE i = Len(ws) + 1 /\ j = Len(ws) + 1
      BY <1>3, <2>2, <3>3 DEF New
    <3>4. CASE i \in 1 .. Len(ws) /\ j = Len(ws) + 1
      BY <1>3, <3>1, <3>4 DEF New, Listed
    <3>5. CASE i = Len(ws) + 1 /\ j \in 1 .. Len(ws)
      BY <1>3, <3>1, <3>5 DEF New, Listed
    <3> QED BY <1>4, <3>2, <3>3, <3>4, <3>5
  <2> QED BY <1>3, <2>1, <2>2 DEF GoodList
<1>7. ASSUME NEW o, NEW u
      PROVE  InList(r, o, u) <=> InList(ws, o, u) \/ (Polls(w, o) /\ w.update = u)
  <2>1. ASSUME NEW i \in 1 .. Len(r), Polls(r[i], o), r[i].update = u
        PROVE  InList(ws, o, u) \/ (Polls(w, o) /\ w.update = u)
    BY <1>3, <1>4, <2>1 DEF InList
  <2>2. ASSUME NEW i \in 1 .. Len(ws), Polls(ws[i], o), ws[i].update = u
        PROVE  InList(r, o, u)
    BY <1>3, <1>5, <2>2 DEF InList
  <2>3. ASSUME Polls(w, o), w.update = u
        PROVE  InList(r, o, u)
    <3>1. Len(ws) + 1 \in 1 .. Len(r)
      BY <1>1, <1>3
    <3> QED BY <1>3, <2>3, <3>1 DEF InList
  <2> QED BY <2>1, <2>2, <2>3 DEF InList
<1>8. ASSUME MergedList(ws), NewKey(ws, w) PROVE MergedList(r)
  <2>1. ASSUME NEW i \in 1 .. Len(r), NEW j \in 1 .. Len(r), Merges(r[i].type), SameKey(r[i], r[j])
        PROVE  i = j
    <3>1. CASE i \in 1 .. Len(ws) /\ j \in 1 .. Len(ws)
      BY <1>3, <1>8, <2>1, <3>1 DEF MergedList
    <3>2. CASE i \in 1 .. Len(ws) /\ j = Len(ws) + 1
      <4>1. Merges(w.type) /\ SameKey(ws[i], w)
        BY <1>3, <2>1, <3>2 DEF SameKey
      <4> QED BY <1>8, <3>2, <4>1 DEF NewKey
    <3>3. CASE i = Len(ws) + 1 /\ j \in 1 .. Len(ws)
      <4>1. Merges(w.type) /\ SameKey(ws[j], w)
        BY <1>3, <2>1, <3>3 DEF SameKey
      <4> QED BY <1>8, <3>3, <4>1 DEF NewKey
    <3> QED BY <1>4, <3>1, <3>2, <3>3
  <2> QED BY <2>1 DEF MergedList
<1> QED BY <1>2, <1>6, <1>7, <1>8

(* insert_in_list adds the item, wherever its date puts it. *)
LEMMA InsertGood ==
    ASSUME NEW ws, GoodList(ws), NEW w, New(ws, w)
    PROVE  /\ GoodList(Insert(ws, w))
           /\ \A o, u : InList(Insert(ws, w), o, u) <=> InList(ws, o, u) \/ (Polls(w, o) /\ w.update = u)
           /\ MergedList(ws) /\ NewKey(ws, w) => MergedList(Insert(ws, w))
           /\ KeysIn(Insert(ws, w), Append(ws, w))
<1>1. ws \in Seq(WorkItem) /\ Len(ws) \in Nat /\ w \in WorkItem
  BY DEF GoodList, New
<1>2. PICK p \in 1 .. Len(ws) + 1 : Put(Insert(ws, w), ws, w, p)
  BY <1>1, InsertIs
<1>3. PICK s, r : s = Append(ws, w) /\ r = Insert(ws, w)
  OBVIOUS
<1>4. Len(s) = Len(ws) + 1
  BY <1>1, <1>3
<1>5. Picks(r, s, 1 .. Len(s))
  BY <1>1, <1>2, <1>3, <1>4, PutPicks
<1>6. /\ GoodList(s)
      /\ \A o, u : InList(s, o, u) <=> InList(ws, o, u) \/ (Polls(w, o) /\ w.update = u)
      /\ MergedList(ws) /\ NewKey(ws, w) => MergedList(s)
  BY <1>3, AppendGood
<1>7. /\ GoodList(r)
      /\ \A o, u : InList(r, o, u) <=> InList(s, o, u)
      /\ MergedList(s) => MergedList(r)
      /\ KeysIn(r, s)
  BY <1>5, <1>6, PicksFacts DEF InList
<1> QED BY <1>3, <1>6, <1>7

LEMMA InsertKeys ==
    ASSUME NEW ws, GoodList(ws), NEW w, New(ws, w)
    PROVE  /\ NonZero(ws) /\ w.update # 0 => NonZero(Insert(ws, w))
           /\ \A v : NewKey(ws, v) /\ ~ SameKey(w, v) => NewKey(Insert(ws, w), v)
<1>1. ws \in Seq(WorkItem) /\ Len(ws) \in Nat /\ w \in WorkItem
  BY DEF GoodList, New
<1>2. PICK s, r : s = Append(ws, w) /\ r = Insert(ws, w)
  OBVIOUS
<1>3. \A i \in 1 .. Len(s) : s[i] = w \/ \E j \in 1 .. Len(ws) : s[i] = ws[j]
  BY <1>1, <1>2
<1>4. KeysIn(r, s)
  BY <1>2, InsertGood
<1>5. NonZero(ws) /\ w.update # 0 => NonZero(s)
  BY <1>3 DEF NonZero
<1>6. \A v : NewKey(ws, v) /\ ~ SameKey(w, v) => NewKey(s, v)
  BY <1>3 DEF NewKey
<1> QED BY <1>2, <1>4, <1>5, <1>6, KeysInFacts

-----------------------------------------------------------------------------
(* An object leaves an item, or joins one. *)

(* The list r is ws with other names in the item i. *)
Renamed(r, ws, i, names) ==
    /\ r \in Seq(WorkItem) /\ Len(r) = Len(ws)
    /\ \A j \in 1 .. Len(ws) : j # i => r[j] = ws[j]
    /\ SameKey(r[i], ws[i]) /\ r[i].name = names

LEMMA RenameIs ==
    ASSUME NEW ws \in Seq(WorkItem), NEW i \in 1 .. Len(ws), NEW names \in Seq(ObjNames)
    PROVE  Renamed([ws EXCEPT ![i].name = names], ws, i, names)
<1>1. PICK v : v = [ws[i] EXCEPT !.name = names]
  OBVIOUS
<1>2. ws[i] \in WorkItem
  OBVIOUS
<1>3. v \in WorkItem /\ SameKey(v, ws[i]) /\ v.name = names
  BY <1>1, <1>2 DEF WorkItem, ObjNames, SameKey
<1>4. [ws EXCEPT ![i].name = names] = [ws EXCEPT ![i] = v]
  BY <1>1
<1>5. PICK r : r = [ws EXCEPT ![i] = v]
  OBVIOUS
<1>6. r \in Seq(WorkItem) /\ Len(r) = Len(ws) /\ r[i] = v /\ \A j \in 1 .. Len(ws) : j # i => r[j] = ws[j]
  BY <1>3, <1>5
<1> QED BY <1>3, <1>4, <1>5, <1>6 DEF Renamed

LEMMA RenamedKeys ==
    ASSUME NEW ws \in Seq(WorkItem), NEW i \in 1 .. Len(ws), NEW names, NEW r, Renamed(r, ws, i, names)
    PROVE  KeysIn(r, ws) /\ (MergedList(ws) => MergedList(r))
<1>1. Len(r) = Len(ws) /\ \A j \in 1 .. Len(ws) : SameKey(r[j], ws[j])
  BY DEF Renamed, SameKey
<1>2. KeysIn(r, ws)
  BY <1>1 DEF KeysIn
<1>3. ASSUME MergedList(ws) PROVE MergedList(r)
  BY <1>1, <1>3 DEF MergedList, SameKey
<1> QED BY <1>2, <1>3

(* An item polls the objects that its names are those of. *)
LEMMA PollsPlace ==
    ASSUME NEW w \in WorkItem, NEW o
    PROVE  Polls(w, o) <=> \E k \in 1 .. Len(w.name) : Is(w, k, o)
BY DEF Polls, Contains, Is

LEMMA AddNameIs ==
    ASSUME NEW ws \in Seq(WorkItem), NEW i \in 1 .. Len(ws), NEW n \in ObjNames
    PROVE  Renamed([ws EXCEPT ![i].name = Append(@, n)], ws, i, Append(ws[i].name, n))
<1>1. ws[i].name \in Seq(ObjNames)
  <2>1. ws[i] \in WorkItem
    OBVIOUS
  <2> QED BY <2>1 DEF WorkItem, ObjNames
<1>2. PICK names : names = Append(ws[i].name, n)
  OBVIOUS
<1>3. names \in Seq(ObjNames)
  BY <1>1, <1>2
<1>4. [ws EXCEPT ![i].name = Append(@, n)] = [ws EXCEPT ![i].name = names]
  BY <1>2
<1> QED BY <1>2, <1>3, <1>4, RenameIs

(* The list r is ws with the object o in an item of period p. *)
NameAdded(r, ws, o, p) ==
    /\ GoodList(r) /\ KeysIn(r, ws) /\ (MergedList(ws) => MergedList(r))
    /\ \A x \in PollObjs : \A u : InList(r, x, u) <=> InList(ws, x, u) \/ (x = o /\ u = p)

LEMMA AddNameGood ==
    ASSUME NEW ws, GoodList(ws), NEW i \in 1 .. Len(ws), NEW o \in PollObjs,
           ws[i].dev = o.dev, ws[i].type = o.type, ~ Listed(ws, o),
           NEW r, Renamed(r, ws, i, Append(ws[i].name, o.name))
    PROVE  NameAdded(r, ws, o, ws[i].update)
<1>1. ws \in Seq(WorkItem) /\ Len(ws) \in Nat /\ ws[i] \in WorkItem
  BY DEF GoodList
<1>2. PICK old, names : old = ws[i].name /\ names = Append(old, o.name)
  OBVIOUS
<1>3. old \in Seq(ObjNames) /\ o.name \in ObjNames
  BY <1>1, <1>2 DEF WorkItem, ObjNames
<1>4. /\ names \in Seq(ObjNames) /\ Len(names) = Len(old) + 1 /\ Len(old) \in Nat
      /\ names[Len(old) + 1] = o.name /\ \A k \in 1 .. Len(old) : names[k] = old[k]
  BY <1>2, <1>3
<1>5. Renamed(r, ws, i, names)
  BY <1>2
<1>6. KeysIn(r, ws) /\ (MergedList(ws) => MergedList(r))
  BY <1>1, <1>5, RenamedKeys
<1>7. /\ r \in Seq(WorkItem) /\ Len(r) = Len(ws) /\ r[i].name = names
      /\ r[i].dev = ws[i].dev /\ r[i].type = ws[i].type /\ r[i].update = ws[i].update
      /\ \A j \in 1 .. Len(ws) : j # i => r[j] = ws[j]
  BY <1>5 DEF Renamed, SameKey
<1>8. ASSUME NEW x, NEW k \in 1 .. Len(r[i].name), Is(r[i], k, x)
      PROVE  \/ k \in 1 .. Len(ws[i].name) /\ Is(ws[i], k, x)
             \/ k = Len(old) + 1 /\ x.dev = o.dev /\ x.type = o.type /\ x.name = o.name
  <2>1. k \in 1 .. Len(old) \/ k = Len(old) + 1
    BY <1>4, <1>7
  <2> QED BY <1>2, <1>4, <1>7, <1>8, <2>1 DEF Is
<1>9. ASSUME NEW j \in 1 .. Len(ws), NEW k \in 1 .. Len(ws[j].name) PROVE ~ Is(ws[j], k, o)
  BY PollsPlace, <1>1 DEF Listed
<1>10. \A x \in PollObjs : x.dev = o.dev /\ x.type = o.type /\ x.name = o.name => x = o
  BY WorksAssumption
<1>11. GoodList(r)
  <2>1. ASSUME NEW j \in 1 .. Len(r) PROVE r[j].name # <<>>
    <3>1. names # <<>>
      BY <1>4
    <3> QED BY <1>7, <3>1 DEF GoodList
  <2>2. ASSUME NEW x \in PollObjs, NEW a \in 1 .. Len(r), NEW b \in 1 .. Len(r),
               NEW k \in 1 .. Len(r[a].name), NEW l \in 1 .. Len(r[b].name),
               Is(r[a], k, x), Is(r[b], l, x)
        PROVE  a = b /\ k = l
    <3>0. ASSUME NEW j \in 1 .. Len(r), NEW m \in 1 .. Len(r[j].name), Is(r[j], m, x)
          PROVE  \/ m \in 1 .. Len(ws[j].name) /\ Is(ws[j], m, x)
                 \/ j = i /\ m = Len(old) + 1 /\ x = o
      <4>1. CASE j = i
        <5>1. m \in 1 .. Len(r[i].name) /\ Is(r[i], m, x)
          BY <3>0, <4>1
        <5>2. \/ m \in 1 .. Len(ws[i].name) /\ Is(ws[i], m, x)
              \/ m = Len(old) + 1 /\ x.dev = o.dev /\ x.type = o.type /\ x.name = o.name
          BY <1>8, <5>1
        <5> QED BY <1>10, <4>1, <5>2
      <4>2. CASE j # i
        BY <1>7, <3>0, <4>2
      <4> QED BY <4>1, <4>2
    <3>1. \/ k \in 1 .. Len(ws[a].name) /\ Is(ws[a], k, x)
          \/ a = i /\ k = Len(old) + 1 /\ x = o
      BY <2>2, <3>0
    <3>2. \/ l \in 1 .. Len(ws[b].name) /\ Is(ws[b], l, x)
          \/ b = i /\ l = Len(old) + 1 /\ x = o
      BY <2>2, <3>0
    <3>3. CASE x = o
      BY <1>7, <1>9, <3>1, <3>2, <3>3
    <3>4. CASE x # o
      BY <1>7, <3>1, <3>2, <3>4 DEF GoodList
    <3> QED BY <3>3, <3>4
  <2>3. r \in Seq(WorkItem)
    BY <1>7
  <2> QED BY <2>1, <2>2, <2>3 DEF GoodList
<1>12. ASSUME NEW x \in PollObjs, NEW u
       PROVE  InList(r, x, u) <=> InList(ws, x, u) \/ (x = o /\ u = ws[i].update)
  <2>1. Polls(r[i], x) <=> Polls(ws[i], x) \/ x = o
    <3>1. r[i] \in WorkItem
      BY <1>7
    <3>2. ASSUME NEW k \in 1 .. Len(r[i].name), Is(r[i], k, x) PROVE Polls(ws[i], x) \/ x = o
      BY <1>1, <1>8, <1>10, <3>2, PollsPlace
    <3>3. ASSUME NEW k \in 1 .. Len(ws[i].name), Is(ws[i], k, x) PROVE Polls(r[i], x)
      <4>1. k \in 1 .. Len(r[i].name) /\ Is(r[i], k, x)
        BY <1>2, <1>4, <1>7, <3>3 DEF Is
      <4> QED BY <3>1, <4>1, PollsPlace
    <3>4. Polls(r[i], o)
      <4>1. Len(old) + 1 \in 1 .. Len(r[i].name) /\ Is(r[i], Len(old) + 1, o)
        BY <1>4, <1>7 DEF Is
      <4> QED BY <3>1, <4>1, PollsPlace
    <3> QED BY <1>1, <3>1, <3>2, <3>3, <3>4, PollsPlace
  <2> QED BY <1>7, <2>1 DEF InList
<1> QED BY <1>6, <1>11, <1>12 DEF NameAdded

LEMMA IndexOfIs ==
    ASSUME NEW ws \in Seq(WorkItem), NEW o
    PROVE  \/ IndexOf(ws, o) = 0 /\ ~ Listed(ws, o)
           \/ IndexOf(ws, o) \in 1 .. Len(ws) /\ Polls(ws[IndexOf(ws, o)], o) /\ Listed(ws, o)
<1> DEFINE I == {i \in 1 .. Len(ws) : Polls(ws[i], o)}
<1>1. CASE I = {}
  <2>1. IndexOf(ws, o) = 0
    BY <1>1 DEF IndexOf, SelectInSeq
  <2> QED BY <1>1, <2>1 DEF Listed
<1>2. CASE I # {}
  <2>1. IndexOf(ws, o) = Min(I)
    BY <1>2 DEF IndexOf, SelectInSeq
  <2>2. I \subseteq Nat
    OBVIOUS
  <2>3. Min(I) \in I
    <3> HIDE DEF I
    <3> QED BY <1>2, <2>2, MinIndex
  <2>4. PICK m \in I : m = Min(I)
    BY <2>3
  <2> QED BY <2>1, <2>4 DEF Listed
<1> QED BY <1>1, <1>2

LEMMA RemoveFirstIs ==
    ASSUME NEW S, NEW s \in Seq(S), NEW e, Contains(s, e)
    PROVE  \E i \in 1 .. Len(s) : s[i] = e /\ RemoveFirst(s, e) = RemoveAt(s, i)
<1> DEFINE I == {i \in 1 .. Len(s) : s[i] = e}
<1>1. I # {} /\ \E i \in 1 .. Len(s) : s[i] = e
  BY DEF Contains
<1>2. RemoveFirst(s, e) = RemoveAt(s, Min(I))
  BY <1>1 DEF RemoveFirst, SelectInSeq
<1>3. I \subseteq Nat
  OBVIOUS
<1>4. Min(I) \in I
  <2> HIDE DEF I
  <2> QED BY <1>1, <1>3, MinIndex
<1>5. PICK m \in I : m = Min(I)
  BY <1>4
<1> QED BY <1>2, <1>5

(* The object o leaves the item i. *)
LEMMA RemoveOneGood ==
    ASSUME NEW ws, GoodList(ws), NEW o \in PollObjs, NEW i \in 1 .. Len(ws), NEW m \in 1 .. Len(ws[i].name),
           Is(ws[i], m, o), RemoveAt(ws[i].name, m) # <<>>,
           NEW r, Renamed(r, ws, i, RemoveAt(ws[i].name, m))
    PROVE  /\ GoodList(r)
           /\ \A x \in PollObjs : \A u : InList(r, x, u) <=> InList(ws, x, u) /\ x # o
<1>1. ws \in Seq(WorkItem) /\ Len(ws) \in Nat /\ ws[i] \in WorkItem
  BY DEF GoodList
<1>2. PICK old, names : old = ws[i].name /\ names = RemoveAt(old, m)
  OBVIOUS
<1>3. old \in Seq(ObjNames) /\ Len(old) \in Nat /\ m \in 1 .. Len(old)
  BY <1>1, <1>2 DEF WorkItem, ObjNames
<1>4. /\ names \in Seq(ObjNames) /\ Len(names) = Len(old) - 1
      /\ \A k \in 1 .. Len(old) - 1 : names[k] = IF k < m THEN old[k] ELSE old[k + 1]
  BY <1>2, <1>3, RemoveAtIs
<1>5. /\ r \in Seq(WorkItem) /\ Len(r) = Len(ws) /\ r[i].name = names
      /\ r[i].dev = ws[i].dev /\ r[i].type = ws[i].type /\ r[i].update = ws[i].update
      /\ \A j \in 1 .. Len(ws) : j # i => r[j] = ws[j]
  BY <1>2 DEF Renamed, SameKey
<1>6. \A k \in 1 .. Len(names) : \E n \in 1 .. Len(old) :
          n # m /\ names[k] = old[n] /\ ((k < m /\ n = k) \/ (~ (k < m) /\ n = k + 1))
  <2> TAKE k \in 1 .. Len(names)
  <2>1. CASE k < m
    BY <1>3, <1>4, <2>1
  <2>2. CASE ~ (k < m)
    <3>1. k + 1 \in 1 .. Len(old) /\ k + 1 # m /\ names[k] = old[k + 1]
      BY <1>3, <1>4, <2>2
    <3> QED BY <2>2, <3>1
  <2> QED BY <2>1, <2>2
<1>7. \A n \in 1 .. Len(old) : n # m => \E k \in 1 .. Len(names) : names[k] = old[n]
  <2> TAKE n \in 1 .. Len(old)
  <2>1. HAVE n # m
  <2>2. CASE n < m
    <3>1. n \in 1 .. Len(names) /\ names[n] = old[n]
      BY <1>3, <1>4, <2>2
    <3> QED BY <3>1
  <2>3. CASE n > m
    <3>1. n - 1 \in 1 .. Len(old) - 1 /\ ~ (n - 1 < m) /\ (n - 1) + 1 = n
      BY <1>3, <2>3
    <3>2. names[n - 1] = old[n] /\ n - 1 \in 1 .. Len(names)
      BY <1>4, <3>1
    <3> QED BY <3>2
  <2> QED BY <1>3, <2>1, <2>2, <2>3
<1>8. ASSUME NEW x \in PollObjs, NEW j \in 1 .. Len(r), NEW k \in 1 .. Len(r[j].name), Is(r[j], k, x)
      PROVE  \E n \in 1 .. Len(ws[j].name) :
                /\ Is(ws[j], n, x) /\ ~ (j = i /\ n = m)
                /\ j # i => n = k
                /\ j = i => (k < m /\ n = k) \/ (~ (k < m) /\ n = k + 1)
  <2>1. CASE j = i
    <3>1. PICK n \in 1 .. Len(old) :
              n # m /\ names[k] = old[n] /\ ((k < m /\ n = k) \/ (~ (k < m) /\ n = k + 1))
      BY <1>5, <1>6, <2>1
    <3>2. Is(ws[i], n, x) /\ n \in 1 .. Len(ws[i].name)
      BY <1>2, <1>5, <1>8, <2>1, <3>1 DEF Is
    <3> QED BY <2>1, <3>1, <3>2
  <2>2. CASE j # i
    <3>1. r[j] = ws[j]
      BY <1>5, <2>2
    <3> QED BY <1>8, <2>2, <3>1
  <2> QED BY <2>1, <2>2
<1>9. GoodList(r)
  <2>1. ASSUME NEW j \in 1 .. Len(r) PROVE r[j].name # <<>>
    <3>1. names # <<>>
      BY <1>2
    <3> QED BY <1>5, <3>1 DEF GoodList
  <2>2. ASSUME NEW x \in PollObjs, NEW a \in 1 .. Len(r), NEW b \in 1 .. Len(r),
               NEW k \in 1 .. Len(r[a].name), NEW l \in 1 .. Len(r[b].name),
               Is(r[a], k, x), Is(r[b], l, x)
        PROVE  a = b /\ k = l
    <3>1. PICK n \in 1 .. Len(ws[a].name) :
                /\ Is(ws[a], n, x)
                /\ a # i => n = k
                /\ a = i => (k < m /\ n = k) \/ (~ (k < m) /\ n = k + 1)
      BY <1>8, <2>2
    <3>2. PICK p \in 1 .. Len(ws[b].name) :
                /\ Is(ws[b], p, x)
                /\ b # i => p = l
                /\ b = i => (l < m /\ p = l) \/ (~ (l < m) /\ p = l + 1)
      BY <1>8, <2>2, SMTT(30)
    <3>3. a = b /\ n = p
      BY <1>5, <3>1, <3>2 DEF GoodList
    <3>4. CASE a # i
      BY <3>1, <3>2, <3>3, <3>4
    <3>5. CASE a = i
      <4>1. k \in Int /\ l \in Int /\ m \in Int
        BY <1>3, <1>4, <1>5, <3>3, <3>5
      <4>2. (k < m /\ n = k) \/ (~ (k < m) /\ n = k + 1)
        BY <3>1, <3>5
      <4>3. (l < m /\ n = l) \/ (~ (l < m) /\ n = l + 1)
        BY <3>2, <3>3, <3>5
      <4> QED BY <3>3, <4>1, <4>2, <4>3
    <3> QED BY <3>4, <3>5
  <2>3. r \in Seq(WorkItem)
    BY <1>5
  <2> QED BY <2>1, <2>2, <2>3 DEF GoodList
<1>10. ASSUME NEW x \in PollObjs, NEW j \in 1 .. Len(r)
       PROVE  Polls(r[j], x) <=> Polls(ws[j], x) /\ x # o
  <2>1. r[j] \in WorkItem /\ ws[j] \in WorkItem /\ j \in 1 .. Len(ws)
    BY <1>1, <1>5
  <2>2. ASSUME NEW k \in 1 .. Len(r[j].name), Is(r[j], k, x) PROVE Polls(ws[j], x) /\ x # o
    <3>1. PICK n \in 1 .. Len(ws[j].name) : Is(ws[j], n, x) /\ ~ (j = i /\ n = m)
      BY <1>8, <2>2
    <3>2. x # o
      BY <1>2, <1>3, <2>1, <3>1 DEF GoodList
    <3> QED BY <2>1, <3>1, <3>2, PollsPlace
  <2>3. ASSUME NEW n \in 1 .. Len(ws[j].name), Is(ws[j], n, x), x # o PROVE Polls(r[j], x)
    <3>1. CASE j # i
      BY <1>5, <2>1, <2>3, <3>1, PollsPlace
    <3>2. CASE j = i
      <4>1. n # m
        <5>1. SUFFICES ASSUME n = m PROVE x = o
          BY <2>3
        <5>2. x.dev = o.dev /\ x.type = o.type /\ x.name = o.name
          BY <2>3, <3>2, <5>1 DEF Is
        <5> QED BY <5>2, WorksAssumption
      <4>2. PICK k \in 1 .. Len(names) : names[k] = old[n]
        BY <1>2, <1>7, <3>2, <4>1
      <4>3. k \in 1 .. Len(r[j].name) /\ Is(r[j], k, x)
        BY <1>2, <1>5, <2>3, <3>2, <4>2 DEF Is
      <4> QED BY <2>1, <4>3, PollsPlace
    <3> QED BY <3>1, <3>2
  <2> QED BY <2>1, <2>2, <2>3, PollsPlace
<1>11. \A j \in 1 .. Len(ws) : r[j].update = ws[j].update
  BY <1>5
<1>12. ASSUME NEW x \in PollObjs, NEW u PROVE InList(r, x, u) <=> InList(ws, x, u) /\ x # o
  BY <1>5, <1>10, <1>11 DEF InList
<1> QED BY <1>9, <1>12

(* The object leaves the list, with its item if that has no other object. *)
LEMMA RemoveNameGood ==
    ASSUME NEW ws, GoodList(ws), NEW o \in PollObjs, NEW r, r = RemoveName(ws, o)
    PROVE  /\ GoodList(r) /\ KeysIn(r, ws) /\ (MergedList(ws) => MergedList(r))
           /\ \A x \in PollObjs : \A u : InList(r, x, u) <=> InList(ws, x, u) /\ x # o
<1>1. ws \in Seq(WorkItem) /\ Len(ws) \in Nat
  BY DEF GoodList
<1>2. CASE IndexOf(ws, o) = 0 /\ ~ Listed(ws, o)
  <2>1. r = ws
    BY <1>2 DEF RemoveName
  <2>2. KeysIn(r, ws)
    BY <2>1 DEF KeysIn, SameKey
  <2>3. \A x \in PollObjs : \A u : InList(ws, x, u) => x # o
    BY <1>2 DEF InList, Listed
  <2>4. \A x \in PollObjs : \A u : InList(r, x, u) <=> InList(ws, x, u)
    BY <2>1
  <2>5. GoodList(r) /\ (MergedList(ws) => MergedList(r))
    BY <2>1
  <2> QED BY <2>2, <2>3, <2>4, <2>5
<1>3. CASE IndexOf(ws, o) # 0 /\ Listed(ws, o)
  <2>1. PICK i \in 1 .. Len(ws) : i = IndexOf(ws, o) /\ Polls(ws[i], o)
    BY <1>1, <1>3, IndexOfIs
  <2>2. ws[i] \in WorkItem
    BY <1>1
  <2>3. ws[i].name \in Seq(ObjNames) /\ Contains(ws[i].name, o.name)
    BY <2>1, <2>2 DEF WorkItem, ObjNames, Polls
  <2>4. PICK m \in 1 .. Len(ws[i].name) :
            ws[i].name[m] = o.name /\ RemoveFirst(ws[i].name, o.name) = RemoveAt(ws[i].name, m)
    BY <2>3, RemoveFirstIs
  <2>5. Is(ws[i], m, o)
    BY <2>1, <2>4 DEF Is, Polls
  <2>6. PICK names : names = RemoveAt(ws[i].name, m)
    OBVIOUS
  <2>7. names \in Seq(ObjNames) /\ Len(names) = Len(ws[i].name) - 1
    BY <2>3, <2>6, RemoveAtIs
  <2>8. r = IF names = <<>> THEN RemoveAt(ws, i) ELSE [ws EXCEPT ![i].name = names]
    BY <1>3, <2>1, <2>4, <2>6 DEF RemoveName
  <2>9. CASE names = <<>>
    <3>1. r = RemoveAt(ws, i)
      BY <2>8, <2>9
    <3>2. Picks(r, ws, (1 .. Len(ws)) \ {i})
      BY <1>1, <3>1, RemoveAtPicks
    <3>3. PICK I : I = (1 .. Len(ws)) \ {i}
      OBVIOUS
    <3>4. I \in SUBSET (1 .. Len(ws)) /\ Picks(r, ws, I)
      BY <3>2, <3>3
    <3>5. /\ GoodList(r) /\ KeysIn(r, ws) /\ (MergedList(ws) => MergedList(r))
          /\ \A x, u : InList(r, x, u) <=> \E j \in I : Polls(ws[j], x) /\ ws[j].update = u
      BY <3>4, PicksFacts
    <3>6. ASSUME NEW x \in PollObjs
          PROVE  /\ Polls(ws[i], x) <=> x = o
                 /\ \A j \in I : ~ Polls(ws[j], o)
      <4>1. Len(ws[i].name) = 1 /\ m = 1
        <5>1. Len(names) = 0 /\ Len(ws[i].name) \in Nat
          BY <2>3, <2>9
        <5>2. PICK n \in Nat : n = Len(ws[i].name)
          BY <5>1
        <5>3. 0 = n - 1 /\ m \in 1 .. n
          BY <2>7, <5>1, <5>2
        <5>4. n = 1 /\ m = 1
          BY <5>3
        <5> QED BY <5>2, <5>4
      <4>2. Polls(ws[i], x) => x.dev = o.dev /\ x.type = o.type /\ x.name = o.name
        BY <2>4, <2>5, <4>1 DEF Polls, Contains, Is
      <4>3. \A j \in 1 .. Len(ws) : Polls(ws[j], o) => j = i
        BY <1>1, <2>5, PollsPlace DEF GoodList
      <4> QED BY <2>1, <3>3, <4>2, <4>3, WorksAssumption
    <3>7. ASSUME NEW x \in PollObjs, NEW u PROVE InList(r, x, u) <=> InList(ws, x, u) /\ x # o
      <4>1. CASE x = o
        BY <3>5, <3>6, <4>1 DEF InList
      <4>2. CASE x # o
        <5>1. \A j \in 1 .. Len(ws) : Polls(ws[j], x) => j \in I
          BY <3>3, <3>6, <4>2
        <5>2. I \subseteq 1 .. Len(ws)
          BY <3>3
        <5>3. InList(ws, x, u) <=> \E j \in I : Polls(ws[j], x) /\ ws[j].update = u
          BY <5>1, <5>2 DEF InList
        <5> QED BY <3>5, <4>2, <5>3
      <4> QED BY <4>1, <4>2
    <3> QED BY <3>5, <3>7
  <2>10. CASE names # <<>>
    <3>1. r = [ws EXCEPT ![i].name = names]
      BY <2>8, <2>10
    <3>2. Renamed(r, ws, i, names)
      BY <1>1, <2>7, <3>1, RenameIs
    <3>3. KeysIn(r, ws) /\ (MergedList(ws) => MergedList(r))
      BY <1>1, <3>2, RenamedKeys
    <3>4. /\ GoodList(r)
          /\ \A x \in PollObjs : \A u : InList(r, x, u) <=> InList(ws, x, u) /\ x # o
      BY <2>5, <2>6, <2>10, <3>2, RemoveOneGood
    <3> QED BY <3>3, <3>4
  <2> QED BY <2>9, <2>10
<1> QED BY <1>1, <1>2, <1>3, IndexOfIs

-----------------------------------------------------------------------------
(* add_insert_in_list. *)

LEMMA MergeIndexIs ==
    ASSUME NEW ws \in Seq(WorkItem), NEW w
    PROVE  \/ IndexToMerge(ws, w) = 0 /\ NewKey(ws, w)
           \/ IndexToMerge(ws, w) \in 1 .. Len(ws) /\ SameKey(ws[IndexToMerge(ws, w)], w)
<1> DEFINE I == {i \in 1 .. Len(ws) : ws[i].dev = w.dev /\ ws[i].update = w.update /\ ws[i].type = w.type}
<1>1. CASE ~ Merges(w.type)
  BY <1>1 DEF IndexToMerge, NewKey
<1>2. CASE Merges(w.type) /\ I = {}
  <2>1. IndexToMerge(ws, w) = 0
    BY <1>2 DEF IndexToMerge, SelectInSeq
  <2> QED BY <1>2, <2>1 DEF NewKey, SameKey
<1>3. CASE Merges(w.type) /\ I # {}
  <2>1. IndexToMerge(ws, w) = Min(I)
    BY <1>3 DEF IndexToMerge, SelectInSeq
  <2>2. I \subseteq Nat
    OBVIOUS
  <2>3. Min(I) \in I
    <3> HIDE DEF I
    <3> QED BY <1>3, <2>2, MinIndex
  <2>4. PICK m \in I : m = Min(I)
    BY <2>3
  <2> QED BY <2>1, <2>4 DEF SameKey
<1> QED BY <1>1, <1>2, <1>3

(* An item for the object o alone. *)
ItemOf(w, o) == w \in WorkItem /\ w.dev = o.dev /\ w.type = o.type /\ w.name = <<o.name>>

LEMMA ItemOfFacts ==
    ASSUME NEW w, NEW o \in PollObjs, ItemOf(w, o)
    PROVE  /\ \A x \in PollObjs : Polls(w, x) <=> x = o
           /\ \A ws : ~ Listed(ws, o) => New(ws, w)
<1>1. Len(w.name) = 1 /\ w.name[1] = o.name /\ w.name # <<>> /\ w \in WorkItem
  BY DEF ItemOf
<1>2. ASSUME NEW x \in PollObjs PROVE Polls(w, x) <=> x = o
  <2>1. Polls(w, x) <=> x.dev = o.dev /\ x.type = o.type /\ x.name = o.name
    BY <1>1 DEF Polls, Contains, ItemOf
  <2> QED BY <2>1, WorksAssumption
<1>3. \A x \in PollObjs : \A k, l \in 1 .. Len(w.name) : Is(w, k, x) /\ Is(w, l, x) => k = l
  BY <1>1
<1>4. ASSUME NEW ws, ~ Listed(ws, o) PROVE New(ws, w)
  BY <1>1, <1>2, <1>3, <1>4 DEF New
<1> QED BY <1>2, <1>4

LEMMA AddInsertGood ==
    ASSUME NEW ws, GoodList(ws), NEW o \in PollObjs, ~ Listed(ws, o), NEW w, ItemOf(w, o),
           NEW r, r = AddInsert(ws, w)
    PROVE  /\ GoodList(r) /\ (MergedList(ws) => MergedList(r))
           /\ \A x \in PollObjs : \A u : InList(r, x, u) <=> InList(ws, x, u) \/ (x = o /\ u = w.update)
           /\ NonZero(ws) /\ w.update # 0 => NonZero(r)
           /\ \A v : NewKey(ws, v) /\ ~ SameKey(w, v) => NewKey(r, v)
<1>1. ws \in Seq(WorkItem) /\ Len(ws) \in Nat /\ w.name[1] = o.name /\ o.name \in ObjNames
  BY DEF GoodList, ItemOf, ObjNames
<1>2. New(ws, w) /\ \A x \in PollObjs : Polls(w, x) <=> x = o
  BY ItemOfFacts
<1>3. CASE IndexToMerge(ws, w) = 0 /\ NewKey(ws, w)
  <2>1. r = Insert(ws, w)
    BY <1>3 DEF AddInsert
  <2>2. /\ GoodList(r)
        /\ \A x, u : InList(r, x, u) <=> InList(ws, x, u) \/ (Polls(w, x) /\ w.update = u)
        /\ MergedList(ws) /\ NewKey(ws, w) => MergedList(r)
    BY <1>2, <2>1, InsertGood
  <2>3. /\ NonZero(ws) /\ w.update # 0 => NonZero(r)
        /\ \A v : NewKey(ws, v) /\ ~ SameKey(w, v) => NewKey(r, v)
    BY <1>2, <2>1, InsertKeys
  <2> QED BY <1>2, <1>3, <2>2, <2>3
<1>4. CASE IndexToMerge(ws, w) # 0
  <2>1. PICK i \in 1 .. Len(ws) : i = IndexToMerge(ws, w) /\ SameKey(ws[i], w)
    BY <1>1, <1>4, MergeIndexIs
  <2>2. r = [ws EXCEPT ![i].name = Append(@, o.name)]
    BY <1>1, <1>4, <2>1 DEF AddInsert
  <2>3. Renamed(r, ws, i, Append(ws[i].name, o.name))
    <3>1. Renamed([ws EXCEPT ![i].name = Append(@, o.name)], ws, i, Append(ws[i].name, o.name))
      BY <1>1, AddNameIs
    <3> QED BY <2>2, <3>1, Zenon
  <2>4. ws[i].dev = o.dev /\ ws[i].type = o.type /\ ws[i].update = w.update
    BY <2>1 DEF SameKey, ItemOf
  <2>5. /\ GoodList(r) /\ KeysIn(r, ws) /\ (MergedList(ws) => MergedList(r))
        /\ \A x \in PollObjs : \A u :
              InList(r, x, u) <=> InList(ws, x, u) \/ (x = o /\ u = ws[i].update)
    <3>1. NameAdded(r, ws, o, ws[i].update)
      BY <2>3, <2>4, AddNameGood
    <3> QED BY <3>1 DEF NameAdded
  <2> QED BY <2>4, <2>5, KeysInFacts
<1> QED BY <1>1, <1>3, <1>4, MergeIndexIs

-----------------------------------------------------------------------------
(* remove_if. *)

(* The elements of s at the indexes J are those of r, by way of g. *)
Selects(r, s, J, g) ==
    /\ g \in [1 .. Len(r) -> J]
    /\ \A k, l \in 1 .. Len(r) : g[k] = g[l] => k = l
    /\ \A j \in J : \E k \in 1 .. Len(r) : g[k] = j
    /\ \A k \in 1 .. Len(r) : r[k] = s[g[k]]

LEMMA SelectsMore ==
    ASSUME NEW S, NEW s \in Seq(S), NEW r \in Seq(S), NEW J, NEW g, Selects(r, s, J, g),
           NEW m, m \notin J, s[m] \in S
    PROVE  \E h : Selects(Append(r, s[m]), s, J \cup {m}, h)
<1>1. PICK n, q : n = Len(r) /\ q = Append(r, s[m])
  OBVIOUS
<1>2. n \in Nat /\ Len(q) = n + 1 /\ q[n + 1] = s[m] /\ \A k \in 1 .. n : q[k] = r[k]
  BY <1>1
<1> DEFINE h == [k \in 1 .. n + 1 |-> IF k = n + 1 THEN m ELSE g[k]]
<1>3. \A k \in 1 .. n + 1 : k = n + 1 \/ (k \in 1 .. n /\ k # n + 1)
  BY <1>2
<1>4. n + 1 \in 1 .. n + 1 /\ \A k \in 1 .. n : k \in 1 .. n + 1 /\ k # n + 1
  BY <1>2
<1>5. h[n + 1] = m /\ \A k \in 1 .. n : h[k] = g[k]
  BY <1>4
<1>6. \A k \in 1 .. n : g[k] \in J
  BY <1>1 DEF Selects
<1>7. h \in [1 .. n + 1 -> J \cup {m}]
  BY <1>3, <1>6
<1> HIDE DEF h
<1>8. \A k, l \in 1 .. n + 1 : h[k] = h[l] => k = l
  <2>1. \A k, l \in 1 .. n : g[k] = g[l] => k = l
    BY <1>1 DEF Selects
  <2> QED BY <1>3, <1>5, <1>6, <2>1
<1>9. \A j \in J \cup {m} : \E k \in 1 .. n + 1 : h[k] = j
  <2>1. \A j \in J : \E k \in 1 .. n : g[k] = j
    BY <1>1 DEF Selects
  <2> QED BY <1>4, <1>5, <2>1
<1>10. \A k \in 1 .. n + 1 : q[k] = s[h[k]]
  <2>1. \A k \in 1 .. n : r[k] = s[g[k]]
    BY <1>1 DEF Selects
  <2> QED BY <1>2, <1>3, <1>5, <2>1
<1>11. Selects(q, s, J \cup {m}, h)
  BY <1>2, <1>7, <1>8, <1>9, <1>10 DEF Selects
<1> QED BY <1>1, <1>11

LEMMA RemoveIfIs ==
    ASSUME NEW S, NEW s \in Seq(S), NEW I
    PROVE  RemoveIf(s, I) \in Seq(S) /\ \E g : Selects(RemoveIf(s, I), s, (1 .. Len(s)) \ I, g)
<1>1. PICK n \in Nat : n = Len(s)
  OBVIOUS
<1> DEFINE F(f) == [i \in 0 .. n |->
                       IF i = 0 THEN <<>> ELSE IF i \in I THEN f[i - 1] ELSE Append(f[i - 1], s[i])]
           step == [z \in (1 .. n) \X Seq(S) |-> IF z[1] \in I THEN z[2] ELSE Append(z[2], s[z[1]])]
<1>2. \A i \in 1 .. n : s[i] \in S
  BY <1>1
<1>3. step \in Turns(n, Seq(S))
  <2>1. ASSUME NEW z \in (1 .. n) \X Seq(S)
        PROVE  (IF z[1] \in I THEN z[2] ELSE Append(z[2], s[z[1]])) \in Seq(S)
    <3>1. z[2] \in Seq(S) /\ s[z[1]] \in S
      BY <1>2
    <3>2. Append(z[2], s[z[1]]) \in Seq(S)
      BY <3>1
    <3> QED BY <3>1, <3>2
  <2> QED BY <2>1 DEF Turns
<1>4. \A i \in 1 .. n, q \in Seq(S) : step[<<i, q>>] = IF i \in I THEN q ELSE Append(q, s[i])
  OBVIOUS
<1>5. <<>> \in Seq(S)
  OBVIOUS
<1>6. PICK f : IsLoop(n, Seq(S), <<>>, step, f)
  <2> HIDE DEF step
  <2> QED BY <1>3, <1>5, LoopExists
<1>7. f \in [0 .. n -> Seq(S)] /\ f[0] = <<>> /\ \A i \in 1 .. n : f[i] = step[<<i, f[i - 1]>>]
  BY <1>6 DEF IsLoop
<1>8. \A i \in 1 .. n : i - 1 \in 0 .. n /\ i # 0
  BY <1>1
<1> HIDE DEF step
<1>9. \A i \in 1 .. n : f[i] = IF i \in I THEN f[i - 1] ELSE Append(f[i - 1], s[i])
  BY <1>4, <1>7, <1>8
<1>10. \A i \in 0 .. n : f[i] = IF i = 0 THEN <<>> ELSE IF i \in I THEN f[i - 1] ELSE Append(f[i - 1], s[i])
  <2>1. \A i \in 0 .. n : i = 0 \/ i \in 1 .. n
    BY <1>1
  <2> QED BY <1>7, <1>8, <1>9, <2>1
<1>11. f = F(f)
  BY <1>7, <1>10
<1>12. PICK kept : kept = CHOOSE t : t = F(t)
  OBVIOUS
<1>13. kept = F(kept)
  BY <1>11, <1>12
<1>14. RemoveIf(s, I) = kept[n]
  BY <1>1, <1>12 DEF RemoveIf
<1>15. kept[0] = <<>> /\ \A i \in 1 .. n : kept[i] = IF i \in I THEN kept[i - 1] ELSE Append(kept[i - 1], s[i])
  <2>1. \A i \in 1 .. n : i \in 0 .. n
    BY <1>1
  <2>2. \A i \in 0 .. n : kept[i] = F(kept)[i]
    BY <1>13
  <2>3. \A i \in 0 .. n : kept[i] = IF i = 0 THEN <<>> ELSE IF i \in I THEN kept[i - 1] ELSE Append(kept[i - 1], s[i])
    BY <2>2
  <2>4. 0 \in 0 .. n
    BY <1>1
  <2> QED BY <1>8, <2>1, <2>3, <2>4
<1> HIDE DEF F
<1> DEFINE G == {m \in 0 .. n : kept[m] \in Seq(S) /\ \E g : Selects(kept[m], s, (1 .. m) \ I, g)}
<1>16. 0 \in G
  <2>1. Selects(<<>>, s, (1 .. 0) \ I, <<>>)
    <3>1. (1 .. 0) \ I = {} /\ 1 .. Len(<<>>) = {}
      OBVIOUS
    <3>2. <<>> \in [{} -> {}]
      OBVIOUS
    <3> QED BY <3>1, <3>2 DEF Selects
  <2>2. \E g : Selects(<<>>, s, (1 .. 0) \ I, g)
    BY <2>1
  <2>3. \E g : Selects(kept[0], s, (1 .. 0) \ I, g)
    BY <1>15, <2>2
  <2>4. 0 \in 0 .. n /\ kept[0] \in Seq(S)
    BY <1>5, <1>15
  <2> QED BY <2>3, <2>4
<1>17. ASSUME NEW m \in 1 .. n, m - 1 \in G PROVE m \in G
  <2>1. PICK g : Selects(kept[m - 1], s, (1 .. m - 1) \ I, g)
    BY <1>17
  <2>2. kept[m - 1] \in Seq(S) /\ m \in 0 .. n
    BY <1>17
  <2>3. CASE m \in I
    <3>1. (1 .. m) \ I = (1 .. m - 1) \ I
      BY <2>3
    <3>2. kept[m] = kept[m - 1]
      BY <1>15, <2>3
    <3> QED BY <2>1, <2>2, <3>1, <3>2
  <2>4. CASE m \notin I
    <3>1. (1 .. m) \ I = ((1 .. m - 1) \ I) \cup {m} /\ m \notin (1 .. m - 1) \ I
      BY <2>4
    <3>2. kept[m] = Append(kept[m - 1], s[m]) /\ s[m] \in S
      BY <1>2, <1>15, <2>4
    <3>3. \E h : Selects(Append(kept[m - 1], s[m]), s, ((1 .. m - 1) \ I) \cup {m}, h)
      BY <2>1, <2>2, <3>1, <3>2, SelectsMore
    <3>4. kept[m] \in Seq(S)
      BY <2>2, <3>2
    <3> QED BY <2>2, <3>1, <3>2, <3>3, <3>4
  <2> QED BY <2>3, <2>4
<1>18. n \in G
  <2> HIDE DEF G
  <2>1. 0 .. n \subseteq G
    BY <1>16, <1>17, UpTo
  <2> QED BY <2>1
<1> QED BY <1>1, <1>14, <1>18

LEMMA RemoveIfPicks ==
    ASSUME NEW ws \in Seq(WorkItem), NEW I
    PROVE  Picks(RemoveIf(ws, I), ws, (1 .. Len(ws)) \ I)
<1>1. PICK r, J : r = RemoveIf(ws, I) /\ J = (1 .. Len(ws)) \ I
  OBVIOUS
<1>2. r \in Seq(WorkItem) /\ \E g : Selects(r, ws, J, g)
  BY <1>1, RemoveIfIs
<1>3. PICK g : Selects(r, ws, J, g)
  BY <1>2
<1>4. IsPick(r, ws, J, g)
  BY <1>3 DEF Selects, IsPick, SameWork
<1> QED BY <1>1, <1>2, <1>4 DEF Picks

LEMMA Redated ==
    ASSUME NEW w \in WorkItem, NEW e \in Int
    PROVE  [w EXCEPT !.date = e] \in WorkItem /\ SameWork([w EXCEPT !.date = e], w)
BY DEF WorkItem, SameWork

(* Shift only changes dates. *)
LEMMA ShiftPicks ==
    ASSUME NEW ws \in Seq(WorkItem), NEW d \in Int
    PROVE  /\ Shift(ws, d) \in Seq(WorkItem) /\ Len(Shift(ws, d)) = Len(ws)
           /\ Picks(Shift(ws, d), ws, 1 .. Len(ws))
<1>1. PICK n \in Nat : n = Len(ws) /\ DOMAIN ws = 1 .. n
  OBVIOUS
<1>2. ASSUME NEW w \in WorkItem
      PROVE  [w EXCEPT !.date = @ - d] \in WorkItem /\ SameWork([w EXCEPT !.date = @ - d], w)
  <2>1. w.date \in Int
    BY DEF WorkItem
  <2>2. PICK e \in Int : e = w.date - d
    BY <2>1
  <2>3. [w EXCEPT !.date = @ - d] = [w EXCEPT !.date = e]
    BY <2>2
  <2> QED BY <2>3, Redated
<1>3. PICK r : r = Shift(ws, d)
  OBVIOUS
<1>4. r = [i \in 1 .. n |-> [ws[i] EXCEPT !.date = @ - d]]
  BY <1>1, <1>3 DEF Shift
<1>5. \A i \in 1 .. n : ws[i] \in WorkItem
  BY <1>1
<1>6. \A i \in 1 .. n : r[i] \in WorkItem /\ SameWork(r[i], ws[i])
  BY <1>2, <1>4, <1>5
<1>7. r \in [1 .. n -> WorkItem]
  BY <1>4, <1>6
<1>8. r \in Seq(WorkItem) /\ Len(r) = n
  BY <1>7
<1>9. Picks(r, ws, 1 .. Len(ws))
  BY <1>1, <1>6, <1>8, PicksEach
<1> QED BY <1>1, <1>3, <1>8, <1>9

-----------------------------------------------------------------------------
(* tune_list. *)

LEMMA TunedDateInt ==
    ASSUME NEW prev \in WorkItem, NEW w \in WorkItem, NEW delta \in Int
    PROVE  TunedDate(prev, w, delta) \in Int
<1>1. prev.date \in Int /\ prev.needed \in Int /\ w.date \in Int /\ prev.update \in Nat
  BY ItemTypes
<1>2. PICK a \in Int, b \in Int, c \in Int, u \in Nat :
          a = prev.date /\ b = prev.needed /\ c = w.date /\ u = prev.update
  BY <1>1
<1>3. PICK q : q = Quotient(c - a, u)
  OBVIOUS
<1>4. q \in Int
  <2>1. CASE u = 0
    BY <1>3, <2>1 DEF Quotient
  <2>2. CASE u # 0
    <3>1. q = (c - a) \div u
      BY <1>3, <2>2 DEF Quotient
    <3>2. u \in Int /\ u > 0 /\ c - a \in Int
      BY <2>2
    <3> QED BY <3>1, <3>2
  <2> QED BY <2>1, <2>2
<1>5. q * u \in Int
  BY <1>4
<1>6. TunedDate(prev, w, delta) = (IF c > a THEN a + q * u ELSE a) + b + delta
  BY <1>2, <1>3 DEF TunedDate
<1> QED BY <1>5, <1>6

(* The sum of the times needed. *)
LEMMA SumInt ==
    ASSUME NEW ws \in Seq(WorkItem), NEW n \in Nat, n = Len(ws), NEW sum,
           sum = CHOOSE t : t = [i \in 0 .. n |-> IF i = 0 THEN 0 ELSE t[i - 1] + ws[i].needed]
    PROVE  sum[n] \in Int
<1> DEFINE F(f) == [i \in 0 .. n |-> IF i = 0 THEN 0 ELSE f[i - 1] + ws[i].needed]
           step == [z \in (1 .. n) \X Int |-> z[2] + ws[z[1]].needed]
<1>1. \A i \in 1 .. n : ws[i].needed \in Int
  <2>1. \A i \in 1 .. n : ws[i] \in WorkItem
    OBVIOUS
  <2> QED BY <2>1 DEF WorkItem
<1>2. step \in Turns(n, Int)
  <2>1. ASSUME NEW z \in (1 .. n) \X Int PROVE z[2] + ws[z[1]].needed \in Int
    <3>1. z[1] \in 1 .. n /\ z[2] \in Int
      OBVIOUS
    <3>2. ws[z[1]].needed \in Int
      BY <1>1, <3>1
    <3> QED BY <3>1, <3>2
  <2> QED BY <2>1 DEF Turns
<1>3. \A i \in 1 .. n, q \in Int : step[<<i, q>>] = q + ws[i].needed
  OBVIOUS
<1>4. PICK f : IsLoop(n, Int, 0, step, f)
  <2>1. 0 \in Int
    OBVIOUS
  <2> HIDE DEF step
  <2> QED BY <1>2, <2>1, LoopExists
<1> HIDE DEF step
<1>5. f \in [0 .. n -> Int] /\ f[0] = 0 /\ \A i \in 1 .. n : f[i] = step[<<i, f[i - 1]>>]
  BY <1>4 DEF IsLoop
<1>6. \A i \in 1 .. n : i - 1 \in 0 .. n /\ i # 0 /\ i \in 0 .. n
  OBVIOUS
<1>7. \A i \in 0 .. n : f[i] = IF i = 0 THEN 0 ELSE f[i - 1] + ws[i].needed
  <2>1. \A i \in 0 .. n : i = 0 \/ i \in 1 .. n
    OBVIOUS
  <2> QED BY <1>3, <1>5, <1>6, <2>1
<1>8. f = F(f)
  BY <1>5, <1>7
<1>9. sum = F(sum)
  BY <1>8
<1>10. \A i \in 0 .. n : sum[i] = F(sum)[i]
  BY <1>9
<1>11. \A i \in 0 .. n : sum[i] = IF i = 0 THEN 0 ELSE sum[i - 1] + ws[i].needed
  BY <1>10
<1> HIDE DEF F
<1> DEFINE G == {m \in 0 .. n : sum[m] \in Int}
<1>12. 0 \in G
  BY <1>11
<1>13. ASSUME NEW m \in 1 .. n, m - 1 \in G PROVE m \in G
  <2>1. sum[m] = sum[m - 1] + ws[m].needed
    BY <1>6, <1>11
  <2> QED BY <1>1, <1>6, <1>13, <2>1
<1>14. n \in G
  <2> HIDE DEF G
  <2>1. 0 .. n \subseteq G
    BY <1>12, <1>13, UpTo
  <2> QED BY <2>1
<1> QED BY <1>14

(* The works with their new dates. *)
AreTuned(tuned, ws, n, delta, next) ==
    tuned = CHOOSE t : t = [i \in 1 .. n |->
                IF i = 1 \/ ~ (ws[i].date < next) THEN ws[i]
                ELSE [ws[i] EXCEPT !.date = TunedDate(t[i - 1], ws[i], delta)]]

LEMMA TunedIs ==
    ASSUME NEW ws \in Seq(WorkItem), NEW n \in Nat, n = Len(ws), n # 0, NEW delta \in Int, NEW next,
           NEW tuned, AreTuned(tuned, ws, n, delta, next)
    PROVE  \A i \in 1 .. n : tuned[i] \in WorkItem /\ SameWork(tuned[i], ws[i])
<1> DEFINE One(i, v) == IF i = 1 \/ ~ (ws[i].date < next) THEN ws[i]
                        ELSE [ws[i] EXCEPT !.date = TunedDate(v, ws[i], delta)]
           F(f) == [i \in 1 .. n |-> One(i, f[i - 1])]
           step == [z \in (1 .. n) \X WorkItem |-> One(z[1], z[2])]
<1>0. tuned = CHOOSE t : t = F(t)
  BY DEF AreTuned
<1>1. \A i \in 1 .. n : ws[i] \in WorkItem
  OBVIOUS
<1>2. ASSUME NEW i \in 1 .. n, NEW v \in WorkItem PROVE One(i, v) \in WorkItem /\ SameWork(One(i, v), ws[i])
  <2>1. PICK e : e = TunedDate(v, ws[i], delta)
    OBVIOUS
  <2>2. e \in Int
    BY <1>1, <2>1, TunedDateInt
  <2>3. [ws[i] EXCEPT !.date = e] \in WorkItem /\ SameWork([ws[i] EXCEPT !.date = e], ws[i])
    BY <1>1, <2>2, Redated
  <2>4. SameWork(ws[i], ws[i])
    BY DEF SameWork
  <2> QED BY <1>1, <2>1, <2>3, <2>4
<1>3. One(1, ws[1]) = ws[1] /\ \A v : One(1, v) = ws[1]
  OBVIOUS
<1> HIDE DEF One
<1>4. step \in Turns(n, WorkItem)
  BY <1>2 DEF Turns
<1>5. \A i \in 1 .. n, q \in WorkItem : step[<<i, q>>] = One(i, q)
  OBVIOUS
<1>6. PICK f : IsLoop(n, WorkItem, ws[1], step, f)
  <2>1. ws[1] \in WorkItem
    BY <1>1
  <2> HIDE DEF step
  <2> QED BY <1>4, <2>1, LoopExists
<1> HIDE DEF step
<1>7. f \in [0 .. n -> WorkItem] /\ \A i \in 1 .. n : f[i] = step[<<i, f[i - 1]>>]
  BY <1>6 DEF IsLoop
<1>8. \A i \in 1 .. n : i - 1 \in 0 .. n /\ i # 0 /\ i \in 0 .. n
  OBVIOUS
<1>9. \A i \in 1 .. n : f[i] = One(i, f[i - 1])
  BY <1>5, <1>7, <1>8
<1> DEFINE g == [i \in 1 .. n |-> f[i]]
<1>10. \A i \in 1 .. n : g[i] = One(i, g[i - 1])
  <2> TAKE i \in 1 .. n
  <2>1. CASE i = 1
    BY <1>3, <1>9, <2>1
  <2>2. CASE i # 1
    <3>1. i - 1 \in 1 .. n
      BY <2>2
    <3> QED BY <1>9, <3>1
  <2> QED BY <2>1, <2>2
<1>11. g = F(g)
  <2>1. \A i \in 1 .. n : g[i] = F(g)[i]
    BY <1>10
  <2>2. g = [i \in 1 .. n |-> g[i]]
    OBVIOUS
  <2> QED BY <1>10, <2>2
<1> HIDE DEF g
<1>12. tuned = F(tuned)
  BY <1>0, <1>11
<1>13. \A i \in 1 .. n : tuned[i] = F(tuned)[i]
  BY <1>12
<1>14. \A i \in 1 .. n : tuned[i] = One(i, tuned[i - 1])
  BY <1>13
<1> HIDE DEF F
<1> DEFINE G == {m \in 0 .. n : m = 0 \/ (tuned[m] \in WorkItem /\ SameWork(tuned[m], ws[m]))}
<1>15. 0 \in G
  OBVIOUS
<1>16. ASSUME NEW m \in 1 .. n, m - 1 \in G PROVE m \in G
  <2>1. tuned[m] = One(m, tuned[m - 1])
    BY <1>14
  <2>2. CASE m = 1
    <3>1. tuned[m] = ws[m]
      BY <1>3, <2>1, <2>2
    <3>2. SameWork(ws[m], ws[m]) /\ ws[m] \in WorkItem
      BY <1>1 DEF SameWork
    <3> QED BY <1>8, <3>1, <3>2
  <2>3. CASE m # 1
    <3>1. tuned[m - 1] \in WorkItem
      BY <1>16, <2>3
    <3> QED BY <1>2, <1>8, <2>1, <3>1
  <2> QED BY <2>2, <2>3
<1>17. 0 .. n \subseteq G
  <2> HIDE DEF G
  <2> QED BY <1>15, <1>16, UpTo
<1> QED BY <1>8, <1>17

(* tune_list changes only dates. *)
LEMMA TuneListPicks ==
    ASSUME NEW ws \in Seq(WorkItem), NEW start
    PROVE  Picks(TuneList(ws, start), ws, 1 .. Len(ws))
<1>1. PICK n \in Nat : n = Len(ws) /\ DOMAIN ws = 1 .. n
  OBVIOUS
<1>2. PICK sum : sum = CHOOSE t : t = [i \in 0 .. n |-> IF i = 0 THEN 0 ELSE t[i - 1] + ws[i].needed]
  OBVIOUS
<1>3. PICK m : m = Min({ws[i].update : i \in 1 .. n})
  OBVIOUS
<1>4. PICK delta, next : delta = (m - sum[n]) \div n /\ next = start + PollLoopNb * m
  OBVIOUS
<1>5. PICK tuned : AreTuned(tuned, ws, n, delta, next)
  BY DEF AreTuned
<1>6. TuneList(ws, start) = IF n < 2 \/ sum[n] > m THEN ws ELSE [i \in 1 .. n |-> tuned[i]]
  BY <1>1, <1>2, <1>3, <1>4, <1>5 DEF TuneList, AreTuned
<1>7. CASE n < 2 \/ sum[n] > m
  <2>1. TuneList(ws, start) = ws
    BY <1>6, <1>7
  <2>2. \A k \in 1 .. Len(ws) : SameWork(ws[k], ws[k])
    BY DEF SameWork
  <2> QED BY <2>1, <2>2, PicksEach
<1>8. CASE ~ (n < 2 \/ sum[n] > m)
  <2>1. PICK r : r = TuneList(ws, start)
    OBVIOUS
  <2>2. r = [i \in 1 .. n |-> tuned[i]]
    BY <1>6, <1>8, <2>1
  <2>3. delta \in Int
    <3>1. sum[n] \in Int
      BY <1>1, <1>2, SumInt
    <3>2. \A i \in 1 .. n : ws[i] \in WorkItem
      BY <1>1
    <3>3. \A i \in 1 .. n : ws[i].update \in Nat
      BY <3>2, WorksAssumption DEF WorkItem
    <3>4. {ws[i].update : i \in 1 .. n} \subseteq Nat /\ {ws[i].update : i \in 1 .. n} # {}
      BY <1>8, <3>3
    <3>5. m \in Nat
      <4>1. PICK U : U = {ws[i].update : i \in 1 .. n}
        OBVIOUS
      <4> QED BY <1>3, <3>4, <4>1, MinIndex
    <3>6. m - sum[n] \in Int /\ n > 0
      BY <1>8, <3>1, <3>5
    <3> QED BY <1>4, <3>6
  <2>4. \A i \in 1 .. n : tuned[i] \in WorkItem /\ SameWork(tuned[i], ws[i])
    <3>1. n # 0 /\ n = Len(ws)
      BY <1>1, <1>8
    <3> QED BY <1>5, <2>3, <3>1, TunedIs
  <2>5. r \in [1 .. n -> WorkItem] /\ \A i \in 1 .. n : SameWork(r[i], ws[i])
    BY <2>2, <2>4
  <2>6. r \in Seq(WorkItem) /\ Len(r) = n
    BY <2>5
  <2> QED BY <1>1, <2>1, <2>5, <2>6, PicksEach
<1> QED BY <1>7, <1>8

-----------------------------------------------------------------------------
(* compute_sleep_time. *)

LEMMA FiniteFamily ==
    ASSUME NEW n \in Nat, NEW S, NEW f \in [1 .. n -> S], \A i \in 1 .. n : IsFiniteSet(f[i])
    PROVE  IsFiniteSet(UNION {f[i] : i \in 1 .. n})
<1>1. PICK T : T = {f[i] : i \in 1 .. n}
  OBVIOUS
<1>2. f \in Surjection(1 .. n, T)
  <2>1. f \in [1 .. n -> T] /\ \A t \in T : \E i \in 1 .. n : f[i] = t
    BY <1>1
  <2> QED BY <2>1 DEF Surjection
<1>3. IsFiniteSet(1 .. n)
  BY FS_Interval
<1>4. IsFiniteSet(T)
  BY <1>2, <1>3, FS_Surjection
<1>5. \A t \in T : IsFiniteSet(t)
  BY <1>1
<1>6. IsFiniteSet(UNION T)
  BY <1>4, <1>5, FS_UNION
<1> QED BY <1>1, <1>6

LEMMA FuelNat ==
    ASSUME NEW ws \in Seq(WorkItem)
    PROVE  Cardinality(UNION {{i} \X (1 .. - ws[i].date) : i \in DOMAIN ws}) \in Nat
<1>1. PICK n \in Nat : n = Len(ws) /\ DOMAIN ws = 1 .. n
  OBVIOUS
<1> DEFINE f == [i \in 1 .. n |-> {i} \X (1 .. - ws[i].date)]
<1>2. ASSUME NEW i \in 1 .. n PROVE IsFiniteSet({i} \X (1 .. - ws[i].date))
  <2>1. ws[i] \in WorkItem
    BY <1>1
  <2>2. 1 \in Int /\ - ws[i].date \in Int
    BY <2>1 DEF WorkItem
  <2>3. IsFiniteSet(1 .. - ws[i].date)
    BY <2>2, FS_Interval
  <2>4. IsFiniteSet({i})
    BY FS_Singleton
  <2> QED BY <2>3, <2>4, FS_Product
<1>3. \A i \in 1 .. n : f[i] = {i} \X (1 .. - ws[i].date)
  OBVIOUS
<1>4. PICK S : f \in [1 .. n -> S]
  <2>1. f \in [1 .. n -> {f[i] : i \in 1 .. n}]
    OBVIOUS
  <2> HIDE DEF f
  <2> QED BY <2>1
<1>5. {f[i] : i \in 1 .. n} = {{i} \X (1 .. - ws[i].date) : i \in DOMAIN ws}
  BY <1>1, <1>3
<1>6. \A i \in 1 .. n : IsFiniteSet(f[i])
  BY <1>2, <1>3
<1> HIDE DEF f
<1>7. IsFiniteSet(UNION {f[i] : i \in 1 .. n})
  BY <1>4, <1>6, FiniteFamily
<1>8. PICK T : T = UNION {f[i] : i \in 1 .. n}
  OBVIOUS
<1>9. Cardinality(T) \in Nat
  BY <1>7, <1>8, FS_CardinalityType
<1> QED BY <1>5, <1>8, <1>9

(* A work that is late moves by one period. *)
Rearranged(ws) == {q \in Seq(WorkItem) : Picks(q, ws, 1 .. Len(ws))}
Round(r) ==
    IF ~ Late(Head(r.works)) THEN r
    ELSE [works |-> Tail(Insert(r.works, [Head(r.works) EXCEPT !.date = @ + Head(r.works).update])),
          count |-> r.count + 1]

LEMMA RearrangedFacts ==
    ASSUME NEW ws \in Seq(WorkItem), ws # <<>>, NEW q \in Rearranged(ws)
    PROVE  /\ q \in Seq(WorkItem) /\ q # <<>> /\ Len(q) \in Nat
           /\ Head(q) = q[1] /\ q[1] \in WorkItem
<1>1. q \in Seq(WorkItem) /\ Picks(q, ws, 1 .. Len(ws))
  BY DEF Rearranged
<1>2. PICK g : IsPick(q, ws, 1 .. Len(ws), g)
  BY <1>1 DEF Picks
<1>3. 1 \in 1 .. Len(ws)
  <2>1. Len(ws) \in Nat /\ Len(ws) # 0
    OBVIOUS
  <2> QED BY <2>1
<1>4. PICK k \in 1 .. Len(q) : g[k] = 1
  BY <1>2, <1>3 DEF IsPick
<1>5. q # <<>>
  BY <1>1, <1>4
<1> QED BY <1>1, <1>5

LEMMA RoundOK ==
    ASSUME NEW ws \in Seq(WorkItem), ws # <<>>, NEW r \in [works : Rearranged(ws), count : Int]
    PROVE  Round(r) \in [works : Rearranged(ws), count : Int]
<1>1. PICK q, c : q = r.works /\ c = r.count
  OBVIOUS
<1>2. q \in Rearranged(ws) /\ c \in Int
  BY <1>1
<1>3. /\ q \in Seq(WorkItem) /\ q # <<>> /\ Len(q) \in Nat
      /\ Head(q) = q[1] /\ q[1] \in WorkItem /\ Picks(q, ws, 1 .. Len(ws))
  BY <1>2, RearrangedFacts DEF Rearranged
<1>4. CASE ~ Late(Head(q))
  BY <1>1, <1>4 DEF Round
<1>5. CASE Late(Head(q))
  <2>1. q[1].date \in Int /\ q[1].update \in Int
    <3>1. PICK w : w = q[1]
      OBVIOUS
    <3>2. w.date \in Int /\ w.update \in Nat
      BY <1>3, <3>1, ItemTypes
    <3> QED BY <3>1, <3>2
  <2>2. PICK e \in Int : e = q[1].date + q[1].update
    BY <2>1
  <2>3. PICK w : w = [q[1] EXCEPT !.date = e]
    OBVIOUS
  <2>4. w \in WorkItem /\ SameWork(w, q[1])
    BY <1>3, <2>3, Redated
  <2>5. Round(r) = [works |-> Tail(Insert(q, w)), count |-> c + 1]
    <3>1. [Head(q) EXCEPT !.date = @ + Head(q).update] = w
      BY <1>3, <2>2, <2>3
    <3> QED BY <1>1, <1>5, <3>1 DEF Round
  <2>6. PICK p \in 1 .. Len(q) + 1 : Put(Insert(q, w), q, w, p)
    BY <1>3, <2>4, InsertIs
  <2>7. Picks(Tail(Insert(q, w)), q, 1 .. Len(q))
    BY <1>3, <2>4, <2>6, TailPutPicks
  <2>8. Picks(Tail(Insert(q, w)), ws, 1 .. Len(ws))
    BY <1>3, <2>7, PicksTrans
  <2>9. Tail(Insert(q, w)) \in Rearranged(ws)
    BY <2>8 DEF Rearranged, Picks
  <2>10. c + 1 \in Int
    BY <1>2
  <2> QED BY <2>5, <2>9, <2>10
<1> QED BY <1>4, <1>5

(* The discard loop only rearranges the works. *)
LEMMA DiscardPicks ==
    ASSUME NEW ws \in Seq(WorkItem), ws # <<>>
    PROVE  Discard(ws).works \in Rearranged(ws)
<1>1. PICK n : n = Cardinality(UNION {{i} \X (1 .. - ws[i].date) : i \in DOMAIN ws})
  OBVIOUS
<1>2. n \in Nat
  BY <1>1, FuelNat
<1>3. PICK S : S = [works : Rearranged(ws), count : Int]
  OBVIOUS
<1>4. PICK first : first = [works |-> ws, count |-> 0]
  OBVIOUS
<1>5. first \in S
  <2>1. \A k \in 1 .. Len(ws) : SameWork(ws[k], ws[k])
    BY DEF SameWork
  <2>2. ws \in Rearranged(ws)
    BY <2>1, PicksEach DEF Rearranged
  <2> QED BY <1>3, <1>4, <2>2
<1>6. \A r \in S : Round(r) \in S
  BY <1>3, RoundOK
<1> DEFINE F(f) == [i \in 0 .. n |-> IF i = 0 THEN first ELSE Round(f[i - 1])]
           step == [z \in (1 .. n) \X S |-> Round(z[2])]
<1>7. step \in Turns(n, S)
  <2>1. ASSUME NEW z \in (1 .. n) \X S PROVE Round(z[2]) \in S
    BY <1>6
  <2> QED BY <2>1 DEF Turns
<1>8. \A i \in 1 .. n, r \in S : step[<<i, r>>] = Round(r)
  OBVIOUS
<1>9. PICK f : IsLoop(n, S, first, step, f)
  <2> HIDE DEF step
  <2> QED BY <1>2, <1>5, <1>7, LoopExists
<1> HIDE DEF step
<1>10. f \in [0 .. n -> S] /\ f[0] = first /\ \A i \in 1 .. n : f[i] = step[<<i, f[i - 1]>>]
  BY <1>9 DEF IsLoop
<1>11. \A i \in 1 .. n : i - 1 \in 0 .. n /\ i # 0 /\ i \in 0 .. n
  BY <1>2
<1>12. \A i \in 0 .. n : f[i] = IF i = 0 THEN first ELSE Round(f[i - 1])
  <2>1. \A i \in 0 .. n : i = 0 \/ i \in 1 .. n
    BY <1>2
  <2> QED BY <1>8, <1>10, <1>11, <2>1
<1>13. f = F(f)
  BY <1>10, <1>12
<1>14. PICK round : round = CHOOSE t : t = F(t)
  OBVIOUS
<1>15. round = F(round)
  BY <1>13, <1>14
<1>16. Discard(ws) = round[n]
  BY <1>1, <1>4, <1>14 DEF Discard, Round
<1>17. \A i \in 0 .. n : round[i] = F(round)[i]
  BY <1>15
<1>18. \A i \in 0 .. n : round[i] = IF i = 0 THEN first ELSE Round(round[i - 1])
  BY <1>17
<1> HIDE DEF F
<1> DEFINE G == {m \in 0 .. n : round[m] \in S}
<1>19. 0 \in G
  BY <1>2, <1>5, <1>18
<1>20. ASSUME NEW m \in 1 .. n, m - 1 \in G PROVE m \in G
  BY <1>6, <1>11, <1>18, <1>20
<1>21. n \in G
  <2> HIDE DEF G
  <2>1. 0 .. n \subseteq G
    BY <1>2, <1>19, <1>20, UpTo
  <2> QED BY <1>2, <2>1
<1>22. round[n] \in S
  BY <1>21
<1> QED BY <1>3, <1>16, <1>22

LEMMA SleepCases ==
    ASSUME NEW ws, NEW r, r = ComputeSleepTime(ws)
    PROVE  \/ ws = <<>> /\ r.works = ws /\ r.sleep = sleep
           \/ ws # <<>> /\ r.works = ws /\ (r.sleep = NoSleep \/ r.sleep = Head(ws).date)
           \/ /\ ws # <<>> /\ r.works = Discard(ws).works
              /\ r.sleep = NoSleep \/ r.sleep = Head(Discard(ws).works).date
<1>1. CASE ws = <<>>
  <2>1. r = [works |-> ws, count |-> 0, sleep |-> sleep, nb_late |-> previous_nb_late]
    BY <1>1 DEF ComputeSleepTime
  <2> QED BY <1>1, <2>1
<1>2. CASE ws # <<>>
  <2>1. PICK nb : nb = IF PollingBef9 THEN 0 ELSE Cardinality({i \in DOMAIN ws : Late(ws[i])})
    OBVIOUS
  <2> DEFINE Disc == \/ PollingBef9
                     \/ nb # 0 /\ nb = Len(ws)
                     \/ nb # 0 /\ previous_nb_late # 0 /\ ~ (nb < previous_nb_late)
  <2>2. PICK next, d : next = Head(ws).date /\ d = Discard(ws)
    OBVIOUS
  <2>3. PICK first : first = Head(d.works).date
    OBVIOUS
  <2>4. r = IF nb # 0 /\ ~ Disc
            THEN [works |-> ws, count |-> 0, sleep |-> NoSleep, nb_late |-> nb]
            ELSE IF next >= 0
            THEN [works |-> ws, count |-> 0, sleep |-> next, nb_late |-> 0]
            ELSE IF - next < DiscardThreshold
            THEN [works |-> ws, count |-> 0, sleep |-> NoSleep, nb_late |-> 0]
            ELSE [works |-> d.works, count |-> d.count, nb_late |-> 0,
                  sleep |-> IF first < DiscardThreshold /\ - first < DiscardThreshold
                            THEN NoSleep ELSE first]
    BY <1>2, <2>1, <2>2, <2>3 DEF ComputeSleepTime
  <2> HIDE DEF Disc
  <2>5. CASE nb # 0 /\ ~ Disc
    BY <1>2, <2>4, <2>5
  <2>6. CASE ~ (nb # 0 /\ ~ Disc) /\ next >= 0
    BY <1>2, <2>2, <2>4, <2>6
  <2>7. CASE ~ (nb # 0 /\ ~ Disc) /\ ~ (next >= 0) /\ - next < DiscardThreshold
    BY <1>2, <2>4, <2>7
  <2>8. CASE ~ (nb # 0 /\ ~ Disc) /\ ~ (next >= 0) /\ ~ (- next < DiscardThreshold)
    <3>1. r = [works |-> d.works, count |-> d.count, nb_late |-> 0,
               sleep |-> IF first < DiscardThreshold /\ - first < DiscardThreshold
                         THEN NoSleep ELSE first]
      BY <2>4, <2>8
    <3>2. r.works = d.works /\ (r.sleep = NoSleep \/ r.sleep = first)
      BY <3>1
    <3> QED BY <1>2, <2>2, <2>3, <3>2
  <2> QED BY <2>5, <2>6, <2>7, <2>8
<1> QED BY <1>1, <1>2

LEMMA RearrangedSelf == ASSUME NEW ws \in Seq(WorkItem) PROVE ws \in Rearranged(ws)
<1>1. \A k \in 1 .. Len(ws) : SameWork(ws[k], ws[k])
  BY DEF SameWork
<1> QED BY <1>1, PicksEach DEF Rearranged

LEMMA SleepOK ==
    ASSUME NEW ws \in Seq(WorkItem), sleep \in Int \cup {NoSleep}, NEW r, r = ComputeSleepTime(ws)
    PROVE  r.works \in Rearranged(ws) /\ r.sleep \in Int \cup {NoSleep}
<1>1. ws \in Rearranged(ws)
  BY RearrangedSelf
<1>2. ASSUME ws # <<>>, NEW q \in Rearranged(ws) PROVE Head(q).date \in Int
  BY <1>2, RearrangedFacts, ItemTypes
<1>3. ws # <<>> => Discard(ws).works \in Rearranged(ws)
  BY DiscardPicks
<1>4. CASE ws = <<>> /\ r.works = ws /\ r.sleep = sleep
  BY <1>1, <1>4
<1>5. CASE ws # <<>> /\ r.works = ws /\ (r.sleep = NoSleep \/ r.sleep = Head(ws).date)
  BY <1>1, <1>2, <1>5
<1>6. CASE /\ ws # <<>> /\ r.works = Discard(ws).works
           /\ r.sleep = NoSleep \/ r.sleep = Head(Discard(ws).works).date
  BY <1>2, <1>3, <1>6
<1> QED BY <1>4, <1>5, <1>6, SleepCases

(* The list t has the works of s. *)
Same(t, s) ==
    /\ GoodList(t)
    /\ \A o, u : InList(t, o, u) <=> InList(s, o, u)
    /\ MergedList(s) => MergedList(t)
    /\ NonZero(s) => NonZero(t)
    /\ \A w : NewKey(s, w) => NewKey(t, w)

LEMMA RearrangedSame ==
    ASSUME NEW ws, GoodList(ws), NEW t \in Rearranged(ws)
    PROVE  Same(t, ws)
<1>1. Picks(t, ws, 1 .. Len(ws))
  BY DEF Rearranged
<1>2. /\ GoodList(t)
      /\ \A o, u : InList(t, o, u) <=> \E i \in 1 .. Len(ws) : Polls(ws[i], o) /\ ws[i].update = u
      /\ MergedList(ws) => MergedList(t)
      /\ KeysIn(t, ws)
  BY <1>1, PicksFacts
<1>3. (NonZero(ws) => NonZero(t)) /\ \A w : NewKey(ws, w) => NewKey(t, w)
  BY <1>2, KeysInFacts
<1> QED BY <1>2, <1>3 DEF Same, InList

LEMMA ShiftSame ==
    ASSUME NEW ws, GoodList(ws), NEW d \in Int
    PROVE  Same(Shift(ws, d), ws) /\ (Shift(ws, d) = <<>> <=> ws = <<>>)
<1>1. ws \in Seq(WorkItem)
  BY DEF GoodList
<1>2. /\ Shift(ws, d) \in Seq(WorkItem) /\ Len(Shift(ws, d)) = Len(ws)
      /\ Picks(Shift(ws, d), ws, 1 .. Len(ws))
  BY <1>1, ShiftPicks
<1>3. Shift(ws, d) \in Rearranged(ws)
  BY <1>2 DEF Rearranged
<1>4. Shift(ws, d) = <<>> <=> ws = <<>>
  BY <1>1, <1>2
<1> QED BY <1>3, <1>4, RearrangedSame

(* The end of an iteration of the main loop. *)
LEMMA EndOfLoopSame ==
    ASSUME NEW ws, GoodList(ws), NEW ctr, NEW two, NEW start, sleep \in Int \cup {NoSleep},
           EndOfLoop(ws, ctr, two, start)
    PROVE  Same(works', ws) /\ sleep' \in Int \cup {NoSleep}
<1>1. ws \in Seq(WorkItem)
  BY DEF GoodList
<1>2. PICK t : t = IF ctr <= 0 THEN TuneList(ws, start) ELSE ws
  OBVIOUS
<1>3. t \in Rearranged(ws)
  <2>1. TuneList(ws, start) \in Rearranged(ws)
    BY <1>1, TuneListPicks DEF Rearranged, Picks
  <2> QED BY <1>1, <1>2, <2>1, RearrangedSelf
<1>4. PICK r : r = ComputeSleepTime(t)
  OBVIOUS
<1>5. works' = r.works /\ sleep' = r.sleep
  BY <1>2, <1>4 DEF EndOfLoop
<1>6. t \in Seq(WorkItem)
  BY <1>3 DEF Rearranged
<1>7. r.works \in Rearranged(t) /\ r.sleep \in Int \cup {NoSleep}
  BY <1>4, <1>6, SleepOK
<1>8. r.works \in Rearranged(ws)
  BY <1>3, <1>7, PicksTrans DEF Rearranged
<1> QED BY <1>5, <1>7, <1>8, RearrangedSame

-----------------------------------------------------------------------------
(* The inductive invariant. *)

(* What the invariants need: no polled object stops its own polling, no     *)
(* externally triggered object gets a period, no polled object makes itself *)
(* externally triggered, and none asks for more than one thing in one poll. *)
Orderly ==
    /\ ~ scenario.self_rem
    /\ \A u \in scenario.updates : u[1] # 0
    /\ \A u \in scenario.self_updates : u[1] # 0 /\ u[2] # 0
    /\ MaxSelf <= 1

(* Objects with a period; those that only the item being polled has.        *)
Timed(o) == poll_list[o] \notin {0, NotPolled}
Given(given, o) == \E i \in 1 .. Len(given) : given[i][2] = o.name
Held(o) == tmp # NoItem /\ Polls(tmp, o) /\ ~ Given(rem_upd, o)

WorksTypes ==
    /\ scenario \in Scenarios
    /\ poll_list \in [PollObjs -> Periods \cup {NotPolled}]
    /\ sleep \in Int \cup {NoSleep}
    /\ now \in Int /\ new_upd \in Int /\ self \in Nat
    /\ GoodList(works) /\ NonZero(works) /\ GoodList(ext_trig_works)

(* The lists say what the devices say, but for the item being polled.       *)
ListsMatch ==
    /\ \A o \in PollObjs : \A u : InList(works, o, u) <=> Timed(o) /\ ~ Held(o) /\ u = poll_list[o]
    /\ \A o \in PollObjs : Listed(ext_trig_works, o) <=> poll_list[o] = 0

Idle == tmp = NoItem /\ rem_upd = <<>> /\ auto_upd = <<>>

(* During a poll nothing has happened yet, or the object x is in the list   *)
(* with its new period, or will be, because the list is empty.              *)
Quiet ==
    /\ rem_upd = <<>> /\ auto_upd = <<>>
    /\ \A o \in PollObjs : Held(o) => poll_list[o] = tmp.update
Moved(x) ==
    /\ self # 0 /\ auto_upd = <<>> /\ Polls(tmp, x) /\ rem_upd = <<<<poll_list[x], x.name>>>>
    /\ \A o \in PollObjs : Held(o) => poll_list[o] = tmp.update
Deferred(x) ==
    /\ self # 0 /\ rem_upd = <<>> /\ works = <<>> /\ Polls(tmp, x) /\ auto_upd = <<<<poll_list[x], x.name>>>>
    /\ new_upd = poll_list[x]
    /\ \A o \in PollObjs : Held(o) /\ o # x => poll_list[o] = tmp.update
InPoll ==
    /\ tmp \in WorkItem /\ New(<<>>, tmp) /\ tmp.update # 0
    /\ \A o \in PollObjs : Held(o) => Timed(o)
    /\ Quiet \/ (\E x \in PollObjs : Moved(x)) \/ (\E x \in PollObjs : Deferred(x))

NoTwins == NewPeriods => MergedList(works) /\ (tmp # NoItem => NewKey(works, tmp))

WorksInv == WorksTypes /\ ListsMatch /\ (Idle \/ InPoll) /\ NoTwins

(* The two lists say what pl says. *)
Fits(ws, ext, pl) ==
    /\ GoodList(ws) /\ NonZero(ws) /\ GoodList(ext)
    /\ \A o \in PollObjs : \A u : InList(ws, o, u) <=> pl[o] \notin {0, NotPolled} /\ u = pl[o]
    /\ \A o \in PollObjs : Listed(ext, o) <=> pl[o] = 0
    /\ NewPeriods => MergedList(ws)

LEMMA ListedIn == ASSUME NEW ws, NEW o PROVE Listed(ws, o) <=> \E u : InList(ws, o, u)
BY DEF Listed, InList

LEMMA SameFits ==
    ASSUME NEW ws, NEW ext, NEW pl, Fits(ws, ext, pl), NEW t, Same(t, ws)
    PROVE  Fits(t, ext, pl)
BY DEF Same, Fits

(* One iteration of the main loop with a command. *)
LEMMA ExecuteInv ==
    ASSUME NEW th, Execute(th), Fits(th.works, th.ext, poll_list'), th.rem = <<>>, th.auto = <<>>,
           tmp = NoItem, tmp' = tmp, scenario' = scenario, scenario \in Scenarios,
           poll_list' \in [PollObjs -> Periods \cup {NotPolled}], sleep \in Int \cup {NoSleep},
           new_upd' \in Int, self' = self, self \in Nat
    PROVE  WorksInv'
<1>1. /\ ext_trig_works' = th.ext /\ rem_upd' = <<>> /\ auto_upd' = <<>> /\ now' = 0
      /\ EndOfLoop(th.works, th.ctr, th.two, th.now)
  BY DEF Execute
<1>2. Same(works', th.works) /\ sleep' \in Int \cup {NoSleep}
  BY <1>1, EndOfLoopSame DEF Fits
<1>3. Fits(works', th.ext, poll_list')
  BY <1>2, SameFits
<1>4. NewPeriods' <=> NewPeriods
  BY DEF NewPeriods
<1>5. WorksTypes'
  BY <1>1, <1>2, <1>3 DEF WorksTypes, Fits
<1>6. ListsMatch'
  BY <1>1, <1>3 DEF ListsMatch, Fits, Timed, Held
<1>7. NoTwins'
  BY <1>3, <1>4 DEF NoTwins, Fits
<1>8. Idle'
  BY <1>1 DEF Idle
<1> QED BY <1>5, <1>6, <1>7, <1>8 DEF WorksInv

(* The state in which a command finds the thread. *)
LEMMA ElapsedInt == ASSUME sleep \in Int \cup {NoSleep}, NEW d \in Elapsed PROVE d \in Int
<1>1. SleepTime \in Int
  BY DEF SleepTime
<1> QED BY <1>1 DEF Elapsed

LEMMA WokenFits ==
    ASSUME WorksInv, tmp = NoItem, NEW d \in Elapsed
    PROVE  /\ Fits(Shift(works, d), ext_trig_works, poll_list) /\ d \in Int
           /\ Shift(works, d) = <<>> <=> works = <<>>
           /\ rem_upd = <<>> /\ auto_upd = <<>>
<1>1. Fits(works, ext_trig_works, poll_list)
  BY DEF WorksInv, WorksTypes, ListsMatch, NoTwins, Fits, Held, Timed
<1>2. d \in Int
  BY ElapsedInt DEF WorksInv, WorksTypes
<1>3. Same(Shift(works, d), works) /\ (Shift(works, d) = <<>> <=> works = <<>>)
  BY <1>2, ShiftSame DEF WorksInv, WorksTypes
<1>4. Fits(Shift(works, d), ext_trig_works, poll_list)
  BY <1>1, <1>3, SameFits
<1>5. rem_upd = <<>> /\ auto_upd = <<>>
  <2>1. tmp \notin WorkItem
    BY WorksAssumption
  <2>2. Idle
    BY <2>1 DEF WorksInv, InPoll
  <2> QED BY <2>2 DEF Idle
<1> QED BY <1>2, <1>3, <1>4, <1>5

LEMMA NotPolledIs == NotPolled # 0 /\ NotPolled \notin Periods
<1>1. Periods \subseteq Nat /\ NotPolled \notin Nat
  BY WorksAssumption
<1>2. 0 \in Nat
  OBVIOUS
<1>3. NotPolled # 0
  BY <1>1, <1>2, Zenon
<1>4. NotPolled \notin Periods
  BY <1>1, Zenon
<1> QED BY <1>3, <1>4

LEMMA ItemIs ==
    ASSUME NEW o \in PollObjs, NEW period \in Periods, NEW date \in Int
    PROVE  ItemOf(Item(o, period, date), o) /\ Item(o, period, date).update = period
<1>1. PICK w : w = Item(o, period, date)
  OBVIOUS
<1>2. w = [dev |-> o.dev, type |-> o.type, name |-> <<o.name>>, update |-> period, date |-> date, needed |-> 0]
  BY <1>1 DEF Item
<1>3. <<o.name>> \in Seq({x.name : x \in PollObjs})
  OBVIOUS
<1>4. o.dev \in {x.dev : x \in PollObjs} /\ o.type \in {x.type : x \in PollObjs}
  OBVIOUS
<1>5. w \in WorkItem
  BY <1>2, <1>3, <1>4 DEF WorkItem
<1> QED BY <1>1, <1>2, <1>5 DEF ItemOf

(* An object that was not polled gets a period. *)
LEMMA FitsMore ==
    ASSUME NEW ws, NEW ext, NEW pl \in [PollObjs -> Periods \cup {NotPolled}], Fits(ws, ext, pl),
           NEW o \in PollObjs, NEW p \in Periods, p # 0, pl[o] # 0,
           NEW r, GoodList(r), NonZero(r), NewPeriods => MergedList(r),
           \A x \in PollObjs : \A u : InList(r, x, u) <=> (InList(ws, x, u) /\ x # o) \/ (x = o /\ u = p)
    PROVE  Fits(r, ext, [pl EXCEPT ![o] = p])
<1>1. PICK q : q = [pl EXCEPT ![o] = p]
  OBVIOUS
<1>2. q[o] = p /\ \A x \in PollObjs : x # o => q[x] = pl[x]
  BY <1>1
<1>3. p # NotPolled
  BY NotPolledIs
<1>4. \A x \in PollObjs : \A u : InList(r, x, u) <=> q[x] \notin {0, NotPolled} /\ u = q[x]
  <2> TAKE x \in PollObjs
  <2> TAKE u
  <2>1. CASE x = o
    BY <1>2, <1>3, <2>1
  <2>2. CASE x # o
    BY <1>2, <2>2 DEF Fits
  <2> QED BY <2>1, <2>2
<1>5. \A x \in PollObjs : Listed(ext, x) <=> q[x] = 0
  BY <1>2 DEF Fits
<1> QED BY <1>1, <1>4, <1>5 DEF Fits

(* An object becomes externally triggered. *)
LEMMA FitsTriggered ==
    ASSUME NEW ws, NEW ext, NEW pl \in [PollObjs -> Periods \cup {NotPolled}], Fits(ws, ext, pl),
           NEW o \in PollObjs, pl[o] # 0,
           NEW r, GoodList(r), NonZero(r), NewPeriods => MergedList(r),
           \A x \in PollObjs : \A u : InList(r, x, u) <=> InList(ws, x, u) /\ x # o,
           NEW w, ItemOf(w, o)
    PROVE  Fits(r, Append(ext, w), [pl EXCEPT ![o] = 0])
<1>1. PICK q, e : q = [pl EXCEPT ![o] = 0] /\ e = Append(ext, w)
  OBVIOUS
<1>2. q[o] = 0 /\ \A x \in PollObjs : x # o => q[x] = pl[x]
  BY <1>1
<1>3. New(ext, w) /\ \A x \in PollObjs : Polls(w, x) <=> x = o
  BY ItemOfFacts DEF Fits
<1>4. GoodList(e) /\ \A x, u : InList(e, x, u) <=> InList(ext, x, u) \/ (Polls(w, x) /\ w.update = u)
  BY <1>1, <1>3, AppendGood DEF Fits
<1>5. ASSUME NEW x \in PollObjs PROVE Listed(e, x) <=> q[x] = 0
  <2>1. Listed(e, x) <=> Listed(ext, x) \/ x = o
    BY <1>3, <1>4, ListedIn
  <2>2. Listed(ext, x) <=> pl[x] = 0
    BY DEF Fits
  <2> QED BY <1>2, <2>1, <2>2
<1>6. ASSUME NEW x \in PollObjs, NEW u PROVE InList(r, x, u) <=> q[x] \notin {0, NotPolled} /\ u = q[x]
  <2>1. CASE x = o
    BY <1>2, <2>1
  <2>2. CASE x # o
    BY <1>2, <2>2 DEF Fits
  <2> QED BY <2>1, <2>2
<1> QED BY <1>1, <1>4, <1>5, <1>6 DEF Fits

AddsTo(ws, ext, start, pl, o, delta) ==
    /\ pl \in [PollObjs -> Periods \cup {NotPolled}] /\ Fits(ws, ext, pl) /\ start \in Int
    /\ pl[o] = NotPolled /\ delta \in Int

LEMMA AddObjFits ==
    ASSUME NEW ws, NEW ext, NEW start, NEW pl, NEW o \in PollObjs, NEW period \in Periods, NEW delta,
           AddsTo(ws, ext, start, pl, o, delta),
           NEW th, th = AddObj(Thread(ws, ext, start), o, period, delta)
    PROVE  /\ Fits(th.works, th.ext, [pl EXCEPT ![o] = period])
           /\ th.rem = rem_upd /\ th.auto = auto_upd
<1> USE DEF AddsTo
<1>1. ws \in Seq(WorkItem) /\ GoodList(ws) /\ NonZero(ws) /\ (NewPeriods => MergedList(ws))
  BY DEF Fits, GoodList
<1>2. NotPolled # 0 /\ NotPolled \notin Periods
  BY NotPolledIs
<1>3. \A x \in PollObjs : \A u : InList(ws, x, u) => x # o
  BY <1>2 DEF Fits
<1>4. ~ Listed(ws, o)
  BY <1>3, ListedIn
<1>5. PICK w : w = Item(o, period, IF period = 0 THEN 0 ELSE start + delta)
  OBVIOUS
<1>6. ItemOf(w, o) /\ w.update = period
  <2>1. PICK e \in Int : e = IF period = 0 THEN 0 ELSE start + delta
    OBVIOUS
  <2> QED BY <1>5, <2>1, ItemIs
<1>7. PICK i : i = IndexToMerge(ws, w)
  OBVIOUS
<1>8. CASE i # 0
  <2>1. i \in 1 .. Len(ws) /\ SameKey(ws[i], w)
    BY <1>1, <1>7, <1>8, MergeIndexIs
  <2>2. ws[i].dev = o.dev /\ ws[i].type = o.type /\ ws[i].update = period
    BY <1>6, <2>1 DEF SameKey, ItemOf
  <2>3. PICK r : r = [ws EXCEPT ![i].name = Append(@, o.name)]
    OBVIOUS
  <2>4. th.works = r /\ th.ext = ext /\ th.rem = rem_upd /\ th.auto = auto_upd
    BY <1>5, <1>7, <1>8, <2>3 DEF AddObj, Thread
  <2>5. Renamed(r, ws, i, Append(ws[i].name, o.name))
    BY <1>1, <2>1, <2>3, AddNameIs DEF ObjNames
  <2>6. /\ GoodList(r) /\ KeysIn(r, ws) /\ (MergedList(ws) => MergedList(r))
        /\ \A x \in PollObjs : \A u : InList(r, x, u) <=> InList(ws, x, u) \/ (x = o /\ u = ws[i].update)
    <3>1. NameAdded(r, ws, o, ws[i].update)
      BY <1>1, <1>4, <2>1, <2>2, <2>5, AddNameGood
    <3> QED BY <3>1 DEF NameAdded
  <2>7. NonZero(r) /\ (NewPeriods => MergedList(r))
    BY <1>1, <2>6, KeysInFacts
  <2>8. period # 0
    BY <1>1, <2>1, <2>2 DEF NonZero
  <2>9. \A x \in PollObjs : \A u : InList(r, x, u) <=> (InList(ws, x, u) /\ x # o) \/ (x = o /\ u = period)
    BY <1>3, <2>2, <2>6
  <2>10. Fits(r, ext, [pl EXCEPT ![o] = period])
    BY <1>2, <2>6, <2>7, <2>8, <2>9, FitsMore
  <2> QED BY <2>4, <2>10
<1>9. CASE i = 0 /\ period = 0
  <2>1. th.works = ws /\ th.ext = Append(ext, w) /\ th.rem = rem_upd /\ th.auto = auto_upd
    BY <1>5, <1>7, <1>9 DEF AddObj, Thread
  <2>2. \A x \in PollObjs : \A u : InList(ws, x, u) <=> InList(ws, x, u) /\ x # o
    BY <1>3
  <2>3. Fits(ws, Append(ext, w), [pl EXCEPT ![o] = 0])
    BY <1>1, <1>2, <1>6, <2>2, FitsTriggered
  <2> QED BY <1>9, <2>1, <2>3
<1>10. CASE i = 0 /\ period # 0
  <2>1. PICK r : r = Insert(ws, w)
    OBVIOUS
  <2>2. th.works = r /\ th.ext = ext /\ th.rem = rem_upd /\ th.auto = auto_upd
    BY <1>5, <1>7, <1>10, <2>1 DEF AddObj, Thread
  <2>3. New(ws, w) /\ \A x \in PollObjs : Polls(w, x) <=> x = o
    BY <1>4, <1>6, ItemOfFacts
  <2>4. NewKey(ws, w)
    <3>1. 0 \notin 1 .. Len(ws)
      OBVIOUS
    <3> QED BY <1>1, <1>7, <1>10, <3>1, MergeIndexIs
  <2>5. /\ GoodList(r)
        /\ \A x, u : InList(r, x, u) <=> InList(ws, x, u) \/ (Polls(w, x) /\ w.update = u)
        /\ MergedList(ws) /\ NewKey(ws, w) => MergedList(r)
    BY <1>1, <2>1, <2>3, InsertGood
  <2>6. NonZero(r)
    BY <1>1, <1>6, <1>10, <2>1, <2>3, InsertKeys
  <2>7. \A x \in PollObjs : \A u : InList(r, x, u) <=> (InList(ws, x, u) /\ x # o) \/ (x = o /\ u = period)
    BY <1>3, <1>6, <2>3, <2>5
  <2>8. Fits(r, ext, [pl EXCEPT ![o] = period])
    BY <1>1, <1>2, <1>10, <2>4, <2>5, <2>6, <2>7, FitsMore
  <2> QED BY <2>2, <2>8
<1> QED BY <1>8, <1>9, <1>10

LEMMA RemObjFits ==
    ASSUME NEW ws, NEW ext, NEW start, NEW pl \in [PollObjs -> Periods \cup {NotPolled}],
           Fits(ws, ext, pl), NEW o \in PollObjs,
           NEW th, th = IF pl[o] = 0 THEN RemExtTrigObj(Thread(ws, ext, start), o)
                        ELSE RemObj(Thread(ws, ext, start), o)
    PROVE  /\ Fits(th.works, th.ext, [pl EXCEPT ![o] = NotPolled])
           /\ th.rem = rem_upd /\ th.auto = auto_upd
<1>1. PICK q : q = [pl EXCEPT ![o] = NotPolled]
  OBVIOUS
<1>2. q[o] = NotPolled /\ NotPolled # 0 /\ \A x \in PollObjs : x # o => q[x] = pl[x]
  BY <1>1, NotPolledIs
<1>3. CASE pl[o] = 0
  <2>1. PICK e : e = RemoveName(ext, o)
    OBVIOUS
  <2>2. th.works = ws /\ th.ext = e /\ th.rem = rem_upd /\ th.auto = auto_upd
    BY <1>3, <2>1 DEF RemExtTrigObj, Thread
  <2>3. /\ GoodList(e)
        /\ \A x \in PollObjs : \A u : InList(e, x, u) <=> InList(ext, x, u) /\ x # o
    BY <2>1, RemoveNameGood DEF Fits
  <2>4. ASSUME NEW x \in PollObjs PROVE Listed(e, x) <=> q[x] = 0
    <3>1. Listed(e, x) <=> Listed(ext, x) /\ x # o
      BY <2>3, ListedIn
    <3>2. Listed(ext, x) <=> pl[x] = 0
      BY DEF Fits
    <3> QED BY <1>2, <3>1, <3>2
  <2>5. ASSUME NEW x \in PollObjs, NEW u PROVE InList(ws, x, u) <=> q[x] \notin {0, NotPolled} /\ u = q[x]
    <3>1. CASE x = o
      BY <1>2, <1>3, <3>1 DEF Fits
    <3>2. CASE x # o
      BY <1>2, <3>2 DEF Fits
    <3> QED BY <3>1, <3>2
  <2>6. Fits(ws, e, q)
    BY <2>3, <2>4, <2>5 DEF Fits
  <2> QED BY <1>1, <2>2, <2>6
<1>4. CASE pl[o] # 0
  <2>1. PICK r : r = RemoveName(ws, o)
    OBVIOUS
  <2>2. th.works = r /\ th.ext = ext /\ th.rem = rem_upd /\ th.auto = auto_upd
    BY <1>4, <2>1 DEF RemObj, Thread
  <2>3. /\ GoodList(r) /\ KeysIn(r, ws) /\ (MergedList(ws) => MergedList(r))
        /\ \A x \in PollObjs : \A u : InList(r, x, u) <=> InList(ws, x, u) /\ x # o
    BY <2>1, RemoveNameGood DEF Fits
  <2>4. NonZero(r) /\ (NewPeriods => MergedList(r))
    BY <2>3, KeysInFacts DEF Fits
  <2>5. ASSUME NEW x \in PollObjs PROVE Listed(ext, x) <=> q[x] = 0
    <3>1. Listed(ext, x) <=> pl[x] = 0
      BY DEF Fits
    <3> QED BY <1>2, <1>4, <3>1
  <2>6. ASSUME NEW x \in PollObjs, NEW u PROVE InList(r, x, u) <=> q[x] \notin {0, NotPolled} /\ u = q[x]
    <3>1. CASE x = o
      BY <1>2, <2>3, <3>1
    <3>2. CASE x # o
      BY <1>2, <2>3, <3>2 DEF Fits
    <3> QED BY <3>1, <3>2
  <2>7. Fits(r, ext, q)
    BY <2>3, <2>4, <2>5, <2>6 DEF Fits
  <2> QED BY <1>1, <2>2, <2>7
<1> QED BY <1>3, <1>4

UpdatesIn(ws, ext, start, pl, o) ==
    /\ pl \in [PollObjs -> Periods \cup {NotPolled}] /\ Fits(ws, ext, pl) /\ start \in Int
    /\ pl[o] \notin {0, NotPolled}

(* POLL_UPD_PERIOD for an object that has a period. *)
LEMMA UpdPeriodFits ==
    ASSUME NEW ws, NEW ext, NEW start, NEW pl, NEW o \in PollObjs, NEW period \in Periods, NEW junk,
           UpdatesIn(ws, ext, start, pl, o),
           NEW th, th = UpdPeriod(Thread(ws, ext, start), o, period, junk)
    PROVE  /\ Fits(th.works, th.ext, [pl EXCEPT ![o] = period])
           /\ th.rem = rem_upd /\ th.auto = auto_upd
<1> USE DEF UpdatesIn
<1>1. ws \in Seq(WorkItem) /\ GoodList(ws) /\ NonZero(ws) /\ (NewPeriods => MergedList(ws))
  BY DEF Fits, GoodList
<1>2. Listed(ws, o)
  <2>1. InList(ws, o, pl[o])
    BY DEF Fits
  <2> QED BY <2>1, ListedIn
<1>3. IndexOf(ws, o) # 0 /\ ws # <<>>
  <2>1. 0 \notin 1 .. Len(ws)
    OBVIOUS
  <2>2. IndexOf(ws, o) # 0
    BY <1>1, <1>2, <2>1, IndexOfIs
  <2>3. ws # <<>>
    BY <1>2 DEF Listed
  <2> QED BY <2>2, <2>3
<1>4. PICK r : r = RemoveName(ws, o)
  OBVIOUS
<1>5. /\ GoodList(r) /\ KeysIn(r, ws) /\ (MergedList(ws) => MergedList(r))
      /\ \A x \in PollObjs : \A u : InList(r, x, u) <=> InList(ws, x, u) /\ x # o
  BY <1>1, <1>4, RemoveNameGood
<1>6. NonZero(r) /\ (NewPeriods => MergedList(r))
  BY <1>1, <1>5, KeysInFacts
<1>7. CASE period = 0
  <2>1. PICK w : w = Item(o, 0, 0)
    OBVIOUS
  <2>2. ItemOf(w, o)
    BY <1>7, <2>1, ItemIs
  <2>3. th.works = r /\ th.ext = Append(ext, w) /\ th.rem = rem_upd /\ th.auto = auto_upd
    BY <1>3, <1>4, <1>7, <2>1 DEF UpdPeriod, UpdTriggered, Thread
  <2>4. Fits(r, Append(ext, w), [pl EXCEPT ![o] = 0])
    BY <1>5, <1>6, <2>2, FitsTriggered
  <2> QED BY <1>7, <2>3, <2>4
<1>8. CASE period # 0
  <2>1. PICK w : w = Item(o, period, start + period)
    OBVIOUS
  <2>2. ItemOf(w, o) /\ w.update = period
    <3>1. start + period \in Int
      <4>1. Periods \subseteq Nat
        BY WorksAssumption
      <4>2. period \in Nat
        BY <4>1
      <4> QED BY <4>2
    <3> QED BY <2>1, <3>1, ItemIs
  <2>3. PICK t : t = AddInsert(r, w)
    OBVIOUS
  <2>4. th.works = t /\ th.ext = ext /\ th.rem = rem_upd /\ th.auto = auto_upd
    BY <1>3, <1>4, <1>8, <2>1, <2>3 DEF UpdPeriod, UpdPeriodic, Thread
  <2>5. ~ Listed(r, o)
    BY <1>5, ListedIn
  <2>6. /\ GoodList(t) /\ (MergedList(r) => MergedList(t))
        /\ \A x \in PollObjs : \A u : InList(t, x, u) <=> InList(r, x, u) \/ (x = o /\ u = w.update)
        /\ NonZero(r) /\ w.update # 0 => NonZero(t)
    BY <1>5, <2>2, <2>3, <2>5, AddInsertGood
  <2>7. \A x \in PollObjs : \A u : InList(t, x, u) <=> (InList(ws, x, u) /\ x # o) \/ (x = o /\ u = period)
    BY <1>5, <2>2, <2>6
  <2>8. NonZero(t) /\ (NewPeriods => MergedList(t))
    BY <1>6, <1>8, <2>2, <2>6
  <2>9. Fits(t, ext, [pl EXCEPT ![o] = period])
    BY <1>8, <2>6, <2>7, <2>8, FitsMore
  <2> QED BY <2>4, <2>9
<1> QED BY <1>7, <1>8

(* POLL_REM_DEV *)
LEMMA RemoveDevGood ==
    ASSUME NEW s, GoodList(s), NEW dev, NEW I, I = {i \in DOMAIN s : s[i].dev = dev}
    PROVE  /\ GoodList(RemoveIf(s, I)) /\ KeysIn(RemoveIf(s, I), s)
           /\ MergedList(s) => MergedList(RemoveIf(s, I))
           /\ \A x, u : InList(RemoveIf(s, I), x, u) <=> InList(s, x, u) /\ x.dev # dev
<1>1. s \in Seq(WorkItem) /\ DOMAIN s = 1 .. Len(s)
  BY DEF GoodList
<1>2. PICK J, r : J = (1 .. Len(s)) \ I /\ r = RemoveIf(s, I)
  OBVIOUS
<1>3. J \in SUBSET (1 .. Len(s))
  BY <1>2
<1>4. Picks(r, s, J)
  BY <1>1, <1>2, RemoveIfPicks
<1>5. /\ GoodList(r) /\ KeysIn(r, s) /\ (MergedList(s) => MergedList(r))
      /\ \A x, u : InList(r, x, u) <=> \E i \in J : Polls(s[i], x) /\ s[i].update = u
  BY <1>3, <1>4, PicksFacts
<1>6. \A i : i \in J <=> i \in 1 .. Len(s) /\ s[i].dev # dev
  BY <1>1, <1>2
<1>7. ASSUME NEW x, NEW u
      PROVE  InList(r, x, u) <=> InList(s, x, u) /\ x.dev # dev
  <2>1. \A i : Polls(s[i], x) => s[i].dev = x.dev
    BY DEF Polls
  <2>2. (\E i \in J : Polls(s[i], x) /\ s[i].update = u) <=> InList(s, x, u) /\ x.dev # dev
    <3>1. ASSUME NEW i \in J, Polls(s[i], x), s[i].update = u PROVE InList(s, x, u) /\ x.dev # dev
      BY <1>6, <2>1, <3>1 DEF InList
    <3>2. ASSUME NEW i \in 1 .. Len(s), Polls(s[i], x), s[i].update = u, x.dev # dev
          PROVE  \E j \in J : Polls(s[j], x) /\ s[j].update = u
      <4>1. i \in J
        BY <1>6, <2>1, <3>2
      <4> QED BY <3>2, <4>1
    <3> QED BY <3>1, <3>2 DEF InList
  <2> QED BY <1>5, <2>2
<1> QED BY <1>2, <1>5, <1>7

LEMMA RemDevFits ==
    ASSUME NEW ws, NEW ext, NEW start, NEW pl \in [PollObjs -> Periods \cup {NotPolled}],
           Fits(ws, ext, pl), NEW dev, NEW th, th = RemDev(Thread(ws, ext, start), dev)
    PROVE  /\ Fits(th.works, th.ext, [o \in PollObjs |-> IF o.dev = dev THEN NotPolled ELSE pl[o]])
           /\ th.rem = rem_upd /\ th.auto = auto_upd
<1>1. PICK q : q = [o \in PollObjs |-> IF o.dev = dev THEN NotPolled ELSE pl[o]]
  OBVIOUS
<1>2. /\ NotPolled # 0 /\ \A x \in PollObjs : x.dev = dev => q[x] = NotPolled
      /\ \A x \in PollObjs : x.dev # dev => q[x] = pl[x]
  BY <1>1, NotPolledIs
<1>3. PICK I, J : I = {i \in DOMAIN ws : ws[i].dev = dev} /\ J = {i \in DOMAIN ext : ext[i].dev = dev}
  OBVIOUS
<1>4. PICK r, e : r = RemoveIf(ws, I) /\ e = RemoveIf(ext, J)
  OBVIOUS
<1>5. th.works = r /\ th.ext = e /\ th.rem = rem_upd /\ th.auto = auto_upd
  BY <1>3, <1>4 DEF RemDev, Thread
<1>6. /\ GoodList(r) /\ KeysIn(r, ws) /\ (MergedList(ws) => MergedList(r))
      /\ \A x, u : InList(r, x, u) <=> InList(ws, x, u) /\ x.dev # dev
  BY <1>3, <1>4, RemoveDevGood DEF Fits
<1>7. GoodList(e) /\ \A x, u : InList(e, x, u) <=> InList(ext, x, u) /\ x.dev # dev
  <2>1. GoodList(ext) /\ J = {i \in DOMAIN ext : ext[i].dev = dev} /\ e = RemoveIf(ext, J)
    BY <1>3, <1>4 DEF Fits
  <2> QED BY <2>1, RemoveDevGood
<1>8. NonZero(r) /\ (NewPeriods => MergedList(r))
  BY <1>6, KeysInFacts DEF Fits
<1>9. ASSUME NEW x \in PollObjs PROVE Listed(e, x) <=> q[x] = 0
  <2>1. Listed(e, x) <=> Listed(ext, x) /\ x.dev # dev
    BY <1>7, ListedIn
  <2>2. Listed(ext, x) <=> pl[x] = 0
    BY DEF Fits
  <2> QED BY <1>2, <2>1, <2>2
<1>10. ASSUME NEW x \in PollObjs, NEW u PROVE InList(r, x, u) <=> q[x] \notin {0, NotPolled} /\ u = q[x]
  <2>1. CASE x.dev = dev
    BY <1>2, <1>6, <2>1
  <2>2. CASE x.dev # dev
    BY <1>2, <1>6, <2>2 DEF Fits
  <2> QED BY <2>1, <2>2
<1>11. Fits(r, e, q)
  BY <1>6, <1>7, <1>8, <1>9, <1>10 DEF Fits
<1> QED BY <1>1, <1>5, <1>11

-----------------------------------------------------------------------------
(* The steps. *)

LEMMA AddObjPollingInv ==
    ASSUME WorksInv, NEW o \in PollObjs, NEW period \in Periods, NEW delta \in Deltas,
           AddObjPolling(o, period, delta)
    PROVE  WorksInv'
<1>1. /\ tmp = NoItem /\ poll_list[o] = NotPolled /\ poll_list' = [poll_list EXCEPT ![o] = period]
      /\ scenario' = scenario /\ tmp' = tmp /\ new_upd' = new_upd /\ self' = self
  BY DEF AddObjPolling, Asleep
<1>2. PICK d \in Elapsed : Execute(AddObj(Woken(d), o, period, delta))
  BY DEF AddObjPolling
<1>3. /\ Fits(Shift(works, d), ext_trig_works, poll_list) /\ rem_upd = <<>> /\ auto_upd = <<>>
  BY <1>1, WokenFits
<1>4. PICK th : th = AddObj(Thread(Shift(works, d), ext_trig_works, 0), o, period, delta)
  OBVIOUS
<1>5. Execute(th)
  BY <1>2, <1>4 DEF Woken
<1>6. /\ poll_list \in [PollObjs -> Periods \cup {NotPolled}] /\ sleep \in Int \cup {NoSleep}
      /\ scenario \in Scenarios /\ new_upd \in Int /\ self \in Nat
  BY DEF WorksInv, WorksTypes
<1>7. delta \in Int /\ 0 \in Int
  BY DEF Deltas
<1>8. Fits(th.works, th.ext, poll_list') /\ th.rem = <<>> /\ th.auto = <<>>
  <2>1. PICK ws, start, pl : ws = Shift(works, d) /\ start = 0 /\ pl = poll_list
    OBVIOUS
  <2>2. th = AddObj(Thread(ws, ext_trig_works, start), o, period, delta) /\ start \in Int
    BY <1>4, <1>7, <2>1
  <2>3. Fits(ws, ext_trig_works, pl) /\ pl[o] = NotPolled /\ pl \in [PollObjs -> Periods \cup {NotPolled}]
    BY <1>1, <1>3, <1>6, <2>1
  <2>4. /\ Fits(th.works, th.ext, [pl EXCEPT ![o] = period])
        /\ th.rem = rem_upd /\ th.auto = auto_upd
    <3>1. AddsTo(ws, ext_trig_works, start, pl, o, delta)
      BY <1>7, <2>2, <2>3 DEF AddsTo
    <3> QED BY <2>2, <3>1, AddObjFits
  <2> QED BY <1>1, <1>3, <2>1, <2>4
<1>9. poll_list' \in [PollObjs -> Periods \cup {NotPolled}]
  BY <1>1, <1>6
<1> QED BY <1>1, <1>5, <1>6, <1>8, <1>9, ExecuteInv

LEMMA RemObjPollingInv ==
    ASSUME WorksInv, NEW o \in PollObjs, RemObjPolling(o)
    PROVE  WorksInv'
<1>1. /\ tmp = NoItem /\ poll_list' = [poll_list EXCEPT ![o] = NotPolled]
      /\ scenario' = scenario /\ tmp' = tmp /\ new_upd' = new_upd /\ self' = self
  BY DEF RemObjPolling, Asleep
<1>2. PICK d \in Elapsed :
          Execute(IF poll_list[o] = 0 THEN RemExtTrigObj(Woken(d), o) ELSE RemObj(Woken(d), o))
  BY DEF RemObjPolling
<1>3. /\ Fits(Shift(works, d), ext_trig_works, poll_list) /\ rem_upd = <<>> /\ auto_upd = <<>>
  BY <1>1, WokenFits
<1>4. PICK th : th = IF poll_list[o] = 0 THEN RemExtTrigObj(Thread(Shift(works, d), ext_trig_works, 0), o)
                     ELSE RemObj(Thread(Shift(works, d), ext_trig_works, 0), o)
  OBVIOUS
<1>5. Execute(th)
  BY <1>2, <1>4 DEF Woken
<1>6. /\ poll_list \in [PollObjs -> Periods \cup {NotPolled}] /\ sleep \in Int \cup {NoSleep}
      /\ scenario \in Scenarios /\ new_upd \in Int /\ self \in Nat
  BY DEF WorksInv, WorksTypes
<1>7. Fits(th.works, th.ext, poll_list') /\ th.rem = <<>> /\ th.auto = <<>>
  BY <1>1, <1>3, <1>4, <1>6, RemObjFits
<1>8. poll_list' \in [PollObjs -> Periods \cup {NotPolled}]
  BY <1>1, <1>6
<1> QED BY <1>1, <1>5, <1>6, <1>7, <1>8, ExecuteInv

LEMMA ScenarioUpdates ==
    ASSUME scenario \in Scenarios
    PROVE  /\ \A u \in scenario.updates \cup scenario.self_updates : u[1] \in Periods /\ u[2] \in Periods
           /\ scenario.needed_times \subseteq Nat
<1>1. scenario \in Scenario
  BY WorksAssumption
<1> QED BY <1>1 DEF Scenario

LEMMA UpdObjPollingPeriodInv ==
    ASSUME WorksInv, Orderly, NEW o \in PollObjs, NEW period \in Periods, UpdObjPollingPeriod(o, period)
    PROVE  WorksInv'
<1>1. /\ tmp = NoItem /\ poll_list' = [poll_list EXCEPT ![o] = period]
      /\ scenario' = scenario /\ tmp' = tmp /\ new_upd' = period /\ self' = self
      /\ <<poll_list[o], period>> \in scenario.updates
  BY DEF UpdObjPollingPeriod, Asleep
<1>2. PICK d \in Elapsed, junk \in Uninitialised : Execute(UpdPeriod(Woken(d), o, period, junk))
  BY DEF UpdObjPollingPeriod
<1>3. /\ Fits(Shift(works, d), ext_trig_works, poll_list) /\ rem_upd = <<>> /\ auto_upd = <<>>
  BY <1>1, WokenFits
<1>4. PICK th : th = UpdPeriod(Thread(Shift(works, d), ext_trig_works, 0), o, period, junk)
  OBVIOUS
<1>5. Execute(th)
  BY <1>2, <1>4 DEF Woken
<1>6. /\ poll_list \in [PollObjs -> Periods \cup {NotPolled}] /\ sleep \in Int \cup {NoSleep}
      /\ scenario \in Scenarios /\ self \in Nat
  BY DEF WorksInv, WorksTypes
<1>7. poll_list[o] \notin {0, NotPolled}
  <2>1. PICK u : u = <<poll_list[o], period>>
    OBVIOUS
  <2>2. u \in scenario.updates /\ u[1] = poll_list[o]
    BY <1>1, <2>1
  <2>3. u[1] # 0
    BY <2>2 DEF Orderly
  <2>4. u[1] \in Periods
    BY <1>6, <2>2, ScenarioUpdates
  <2>5. u[1] # NotPolled
    BY <2>4, NotPolledIs
  <2> QED BY <2>2, <2>3, <2>5
<1>8. Fits(th.works, th.ext, poll_list') /\ th.rem = <<>> /\ th.auto = <<>>
  <2>1. PICK ws, start, pl : ws = Shift(works, d) /\ start = 0 /\ pl = poll_list
    OBVIOUS
  <2>2. th = UpdPeriod(Thread(ws, ext_trig_works, start), o, period, junk) /\ start \in Int
    BY <1>4, <2>1
  <2>3. /\ Fits(ws, ext_trig_works, pl) /\ pl[o] \notin {0, NotPolled}
        /\ pl \in [PollObjs -> Periods \cup {NotPolled}]
    BY <1>3, <1>6, <1>7, <2>1
  <2>4. /\ Fits(th.works, th.ext, [pl EXCEPT ![o] = period])
        /\ th.rem = rem_upd /\ th.auto = auto_upd
    <3>1. UpdatesIn(ws, ext_trig_works, start, pl, o)
      BY <2>2, <2>3 DEF UpdatesIn
    <3> QED BY <2>2, <3>1, UpdPeriodFits
  <2> QED BY <1>1, <1>3, <2>1, <2>4
<1>9. poll_list' \in [PollObjs -> Periods \cup {NotPolled}]
  BY <1>1, <1>6
<1>10. new_upd' \in Int
  <2>1. Periods \subseteq Nat
    BY WorksAssumption
  <2>2. period \in Nat
    BY <2>1
  <2> QED BY <1>1, <2>2
<1> QED BY <1>1, <1>5, <1>6, <1>8, <1>9, <1>10, ExecuteInv

LEMMA StopDevicePollingInv ==
    ASSUME WorksInv, NEW dev, StopDevicePolling(dev)
    PROVE  WorksInv'
<1>1. /\ tmp = NoItem
      /\ poll_list' = [o \in PollObjs |-> IF o.dev = dev THEN NotPolled ELSE poll_list[o]]
      /\ scenario' = scenario /\ tmp' = tmp /\ new_upd' = new_upd /\ self' = self
  BY DEF StopDevicePolling, Asleep
<1>2. PICK d \in Elapsed : Execute(RemDev(Woken(d), dev))
  BY DEF StopDevicePolling
<1>3. /\ Fits(Shift(works, d), ext_trig_works, poll_list) /\ rem_upd = <<>> /\ auto_upd = <<>>
  BY <1>1, WokenFits
<1>4. PICK th : th = RemDev(Thread(Shift(works, d), ext_trig_works, 0), dev)
  OBVIOUS
<1>5. Execute(th)
  BY <1>2, <1>4 DEF Woken
<1>6. /\ poll_list \in [PollObjs -> Periods \cup {NotPolled}] /\ sleep \in Int \cup {NoSleep}
      /\ scenario \in Scenarios /\ new_upd \in Int /\ self \in Nat
  BY DEF WorksInv, WorksTypes
<1>7. Fits(th.works, th.ext, poll_list') /\ th.rem = <<>> /\ th.auto = <<>>
  BY <1>1, <1>3, <1>4, <1>6, RemDevFits
<1>8. poll_list' \in [PollObjs -> Periods \cup {NotPolled}]
  BY <1>1, <1>6
<1> QED BY <1>1, <1>5, <1>6, <1>7, <1>8, ExecuteInv

LEMMA StartStopInv ==
    ASSUME WorksInv, StartStop
    PROVE  WorksInv'
<1>1. /\ tmp = NoItem /\ poll_list' = poll_list
      /\ scenario' = scenario /\ tmp' = tmp /\ new_upd' = new_upd /\ self' = self
  BY DEF StartStop, Asleep
<1>2. PICK d \in Elapsed : Execute(Woken(d))
  BY DEF StartStop
<1>3. /\ Fits(Shift(works, d), ext_trig_works, poll_list) /\ rem_upd = <<>> /\ auto_upd = <<>>
  BY <1>1, WokenFits
<1>4. PICK th : th = Woken(d)
  OBVIOUS
<1>5. th.works = Shift(works, d) /\ th.ext = ext_trig_works /\ th.rem = rem_upd /\ th.auto = auto_upd
  BY <1>4 DEF Woken, Thread
<1>6. /\ poll_list \in [PollObjs -> Periods \cup {NotPolled}] /\ sleep \in Int \cup {NoSleep}
      /\ scenario \in Scenarios /\ new_upd \in Int /\ self \in Nat
  BY DEF WorksInv, WorksTypes
<1>7. Fits(th.works, th.ext, poll_list') /\ th.rem = <<>> /\ th.auto = <<>>
  BY <1>1, <1>3, <1>5
<1>8. Execute(th)
  BY <1>2, <1>4
<1> QED BY <1>1, <1>6, <1>7, <1>8, ExecuteInv

LEMMA TailPicks ==
    ASSUME NEW s \in Seq(WorkItem), s # <<>>
    PROVE  Picks(Tail(s), s, (1 .. Len(s)) \ {1})
<1>0. PICK n \in Nat : n = Len(s)
  OBVIOUS
<1>1. PICK r, J : r = Tail(s) /\ J = (1 .. n) \ {1}
  OBVIOUS
<1>2. r \in Seq(WorkItem) /\ Len(r) = n - 1 /\ n # 0 /\ \A k \in 1 .. n - 1 : r[k] = s[k + 1]
  BY <1>0, <1>1
<1> DEFINE g == [k \in 1 .. n - 1 |-> k + 1]
<1>3. \A k \in 1 .. n - 1 : g[k] = k + 1
  OBVIOUS
<1>4. g \in [1 .. n - 1 -> J]
  BY <1>1
<1> HIDE DEF g
<1>5. \A k, l \in 1 .. n - 1 : g[k] = g[l] => k = l
  BY <1>1, <1>3
<1>6. ASSUME NEW j \in J PROVE \E k \in 1 .. n - 1 : g[k] = j
  <2>1. j - 1 \in 1 .. n - 1 /\ (j - 1) + 1 = j
    BY <1>1
  <2> QED BY <1>3, <2>1
<1>7. \A k \in 1 .. n - 1 : SameWork(r[k], s[g[k]])
  BY <1>2, <1>3 DEF SameWork
<1>8. IsPick(r, s, J, g)
  BY <1>2, <1>4, <1>5, <1>6, <1>7 DEF IsPick
<1> QED BY <1>0, <1>1, <1>2, <1>8 DEF Picks

(* The first work leaves the list. *)
Taken(w, r, pl) ==
    /\ GoodList(r) /\ NonZero(r) /\ New(<<>>, w) /\ w.update # 0
    /\ \A o \in PollObjs : Polls(w, o) => pl[o] \notin {0, NotPolled} /\ pl[o] = w.update
    /\ \A o \in PollObjs : \A u :
          InList(r, o, u) <=> pl[o] \notin {0, NotPolled} /\ ~ Polls(w, o) /\ u = pl[o]
    /\ NewPeriods => MergedList(r) /\ NewKey(r, w)

LEMMA TakeFirst ==
    ASSUME NEW ws, NEW ext, NEW pl, Fits(ws, ext, pl), ws # <<>>, NEW w, w = Head(ws), NEW r, r = Tail(ws)
    PROVE  Taken(w, r, pl)
<1>1. ws \in Seq(WorkItem) /\ Len(ws) \in Nat /\ GoodList(ws)
  <2>1. GoodList(ws)
    BY DEF Fits
  <2>2. ws \in Seq(WorkItem)
    BY <2>1 DEF GoodList
  <2> QED BY <2>1, <2>2
<1>2. 1 \in 1 .. Len(ws) /\ w = ws[1] /\ w \in WorkItem
  <2>1. Len(ws) # 0
    BY <1>1
  <2>2. 1 \in 1 .. Len(ws)
    BY <1>1, <2>1
  <2> QED BY <1>1, <2>2
<1>3. PICK J : J = (1 .. Len(ws)) \ {1}
  OBVIOUS
<1>4. J \in SUBSET (1 .. Len(ws)) /\ Picks(r, ws, J)
  BY <1>1, <1>3, TailPicks
<1>5. /\ GoodList(r) /\ KeysIn(r, ws) /\ (MergedList(ws) => MergedList(r))
      /\ \A o, u : InList(r, o, u) <=> \E i \in J : Polls(ws[i], o) /\ ws[i].update = u
  BY <1>1, <1>4, PicksFacts
<1>6. NonZero(r) /\ w.update # 0
  <2>1. NonZero(ws)
    BY DEF Fits
  <2>2. w.update # 0
    BY <1>2, <2>1 DEF NonZero
  <2> QED BY <1>5, <2>1, <2>2, KeysInFacts
<1>7. New(<<>>, w)
  <2>1. w.name # <<>>
    BY <1>1, <1>2 DEF GoodList
  <2>2. \A o \in PollObjs : \A k, l \in 1 .. Len(w.name) : Is(w, k, o) /\ Is(w, l, o) => k = l
    BY <1>1, <1>2 DEF GoodList
  <2>3. \A o \in PollObjs : ~ Listed(<<>>, o)
    BY DEF Listed
  <2> QED BY <1>2, <2>1, <2>2, <2>3 DEF New
<1>8. ASSUME NEW o \in PollObjs, Polls(w, o) PROVE pl[o] \notin {0, NotPolled} /\ pl[o] = w.update
  <2>1. InList(ws, o, w.update)
    BY <1>2, <1>8 DEF InList
  <2> QED BY <2>1 DEF Fits
<1>9. ASSUME NEW o \in PollObjs, Polls(w, o), NEW i \in J PROVE ~ Polls(ws[i], o)
  <2>1. ws[i] \in WorkItem /\ i \in 1 .. Len(ws) /\ i # 1
    BY <1>1, <1>3
  <2>2. SUFFICES ASSUME Polls(ws[i], o) PROVE FALSE
    OBVIOUS
  <2>3. PICK k \in 1 .. Len(ws[i].name) : Is(ws[i], k, o)
    BY <2>1, <2>2, PollsPlace
  <2>4. PICK l \in 1 .. Len(ws[1].name) : Is(ws[1], l, o)
    BY <1>2, <1>9, PollsPlace
  <2> QED BY <1>1, <1>2, <2>1, <2>3, <2>4 DEF GoodList
<1>10. ASSUME NEW o \in PollObjs, NEW u
       PROVE  InList(r, o, u) <=> pl[o] \notin {0, NotPolled} /\ ~ Polls(w, o) /\ u = pl[o]
  <2>1. InList(ws, o, u) <=> pl[o] \notin {0, NotPolled} /\ u = pl[o]
    BY DEF Fits
  <2>2. ASSUME NEW i \in J, Polls(ws[i], o), ws[i].update = u PROVE InList(ws, o, u) /\ ~ Polls(w, o)
    <3>1. i \in 1 .. Len(ws)
      BY <1>3
    <3>2. InList(ws, o, u)
      BY <2>2, <3>1 DEF InList
    <3> QED BY <1>9, <2>2, <3>2
  <2>3. ASSUME NEW i \in 1 .. Len(ws), Polls(ws[i], o), ws[i].update = u, ~ Polls(w, o)
        PROVE  \E j \in J : Polls(ws[j], o) /\ ws[j].update = u
    <3>1. i \in J
      BY <1>2, <1>3, <2>3
    <3> QED BY <2>3, <3>1
  <2>4. (\E i \in J : Polls(ws[i], o) /\ ws[i].update = u) <=> InList(ws, o, u) /\ ~ Polls(w, o)
    BY <2>2, <2>3 DEF InList
  <2>5. InList(r, o, u) <=> \E i \in J : Polls(ws[i], o) /\ ws[i].update = u
    BY <1>5
  <2> QED BY <2>1, <2>4, <2>5
<1>11. ASSUME NewPeriods PROVE MergedList(r) /\ NewKey(r, w)
  <2>1. MergedList(ws)
    BY <1>11 DEF Fits
  <2>2. PICK g : IsPick(r, ws, J, g)
    BY <1>4 DEF Picks
  <2>3. ASSUME NEW k \in 1 .. Len(r), Merges(w.type), SameKey(r[k], w) PROVE FALSE
    <3>1. g[k] \in J /\ SameWork(r[k], ws[g[k]])
      BY <2>2 DEF IsPick
    <3>2. g[k] \in 1 .. Len(ws) /\ g[k] # 1
      BY <1>3, <3>1
    <3>3. Merges(ws[1].type) /\ SameKey(ws[1], ws[g[k]])
      BY <1>2, <2>3, <3>1 DEF SameKey, SameWork
    <3> QED BY <1>2, <2>1, <3>2, <3>3 DEF MergedList
  <2> QED BY <1>5, <2>1, <2>3 DEF NewKey
<1> QED BY <1>5, <1>6, <1>7, <1>8, <1>10, <1>11 DEF Taken

LEMMA StartPollInv ==
    ASSUME WorksInv, StartPoll
    PROVE  WorksInv'
<1>1. PICK ws : ws = Shift(works, SleepTime)
  OBVIOUS
<1>2. /\ tmp = NoItem /\ works # <<>> /\ tmp' = Head(ws) /\ works' = Tail(ws) /\ now' = 0 /\ self' = 0
      /\ scenario' = scenario /\ poll_list' = poll_list /\ ext_trig_works' = ext_trig_works
      /\ rem_upd' = rem_upd /\ auto_upd' = auto_upd /\ new_upd' = new_upd /\ sleep' = sleep
  BY <1>1 DEF StartPoll
<1>3. Fits(ws, ext_trig_works, poll_list) /\ ws # <<>> /\ rem_upd = <<>> /\ auto_upd = <<>>
  <2>1. SleepTime \in Nat
    BY DEF WorksInv, WorksTypes, SleepTime
  <2>2. SleepTime \in Elapsed
    BY <1>2, <2>1 DEF Elapsed
  <2> QED BY <1>1, <1>2, <2>2, WokenFits
<1>4. PICK w, r : w = Head(ws) /\ r = Tail(ws)
  OBVIOUS
<1>5. /\ GoodList(r) /\ NonZero(r) /\ New(<<>>, w) /\ w.update # 0
      /\ \A o \in PollObjs : Polls(w, o) => poll_list[o] \notin {0, NotPolled} /\ poll_list[o] = w.update
      /\ \A o \in PollObjs : \A u :
            InList(r, o, u) <=> poll_list[o] \notin {0, NotPolled} /\ ~ Polls(w, o) /\ u = poll_list[o]
      /\ NewPeriods => MergedList(r) /\ NewKey(r, w)
  <2>1. Taken(w, r, poll_list)
    BY <1>3, <1>4, TakeFirst
  <2> QED BY <2>1 DEF Taken
<1>6. w \in WorkItem /\ w # NoItem
  BY <1>5, WorksAssumption DEF New
<1>7. \A o : Held(o)' <=> Polls(w, o)
  <2>1. \A o : ~ Given(rem_upd, o)'
    BY <1>2, <1>3 DEF Given
  <2> QED BY <1>2, <1>4, <1>6, <2>1 DEF Held
<1>8. \A o : Timed(o)' <=> Timed(o)
  BY <1>2 DEF Timed
<1>9. WorksTypes'
  BY <1>2, <1>4, <1>5 DEF WorksInv, WorksTypes
<1>10. ListsMatch'
  <2>1. \A o \in PollObjs : \A u : InList(r, o, u) <=> Timed(o) /\ ~ Polls(w, o) /\ u = poll_list[o]
    BY <1>5 DEF Timed
  <2>2. \A o \in PollObjs : Listed(ext_trig_works, o) <=> poll_list[o] = 0
    BY DEF WorksInv, ListsMatch
  <2> QED BY <1>2, <1>4, <1>7, <1>8, <2>1, <2>2 DEF ListsMatch
<1>11. InPoll'
  <2>1. Quiet'
    BY <1>2, <1>3, <1>4, <1>5, <1>7 DEF Quiet
  <2>2. \A o \in PollObjs : Held(o)' => Timed(o)'
    BY <1>5, <1>7, <1>8 DEF Timed
  <2> QED BY <1>2, <1>4, <1>5, <1>6, <2>1, <2>2 DEF InPoll
<1>12. NoTwins'
  <2>1. NewPeriods' <=> NewPeriods
    BY <1>2 DEF NewPeriods
  <2> QED BY <1>2, <1>4, <1>5, <2>1 DEF NoTwins
<1> QED BY <1>9, <1>10, <1>11, <1>12 DEF WorksInv

(* A polled object that asks for another period: what the thread does.      *)
SelfUpdated(th, o, period) ==
    /\ th.ext = ext_trig_works
    /\ \/ /\ works # <<>> /\ th.works = AddInsert(works, Item(o, period, now + period))
          /\ th.now = now + period /\ th.auto = auto_upd
          /\ th.rem = Append(rem_upd, <<period, o.name>>)
       \/ /\ works = <<>> /\ th.works = works /\ th.now = now /\ th.rem = rem_upd
          /\ th.auto = Append(auto_upd, <<period, o.name>>)

LEMMA SelfUpdIs ==
    ASSUME GoodList(works), GoodList(ext_trig_works), NEW o \in PollObjs,
           ~ Listed(works, o), ~ Listed(ext_trig_works, o), NEW period, period # 0, NEW junk,
           NEW th, th = UpdPeriod(Thread(works, ext_trig_works, now), o, period, junk)
    PROVE  SelfUpdated(th, o, period)
<1>1. IndexOf(works, o) = 0 /\ IndexOf(ext_trig_works, o) = 0
  BY IndexOfIs DEF GoodList
<1>2. RemoveName(works, o) = works
  BY <1>1 DEF RemoveName
<1>3. CASE works # <<>>
  <2>1. th = [Thread(works, ext_trig_works, now) EXCEPT
                 !.works = AddInsert(RemoveName(works, o), Item(o, period, now + period)),
                 !.now = now + period, !.ctr = 0, !.rem = Append(rem_upd, <<period, o.name>>)]
    BY <1>1, <1>3 DEF UpdPeriod, UpdPeriodic, Thread
  <2>2. /\ th.works = AddInsert(RemoveName(works, o), Item(o, period, now + period))
        /\ th.now = now + period /\ th.auto = auto_upd /\ th.ext = ext_trig_works
        /\ th.rem = Append(rem_upd, <<period, o.name>>)
    BY <2>1 DEF Thread
  <2> QED BY <1>2, <1>3, <2>2 DEF SelfUpdated
<1>4. CASE works = <<>>
  <2>1. th = [Thread(works, ext_trig_works, now) EXCEPT !.auto = Append(auto_upd, <<period, o.name>>)]
    BY <1>1, <1>4 DEF UpdPeriod, UpdPeriodic, Thread
  <2>2. /\ th.works = works /\ th.now = now /\ th.rem = rem_upd /\ th.ext = ext_trig_works
        /\ th.auto = Append(auto_upd, <<period, o.name>>)
    BY <2>1 DEF Thread
  <2> QED BY <1>4, <2>2 DEF SelfUpdated
<1> QED BY <1>3, <1>4

LEMMA SelfUpdPeriodInv ==
    ASSUME WorksInv, Orderly, NEW o \in PollObjs, NEW period \in Periods, SelfUpdPeriod(o, period)
    PROVE  WorksInv'
<1>1. PICK junk, th : /\ th = UpdPeriod(Thread(works, ext_trig_works, now), o, period, junk)
                      /\ SelfExecute(o, th)
  BY DEF SelfUpdPeriod
<1>2. /\ tmp # NoItem /\ self < MaxSelf /\ Polls(tmp, o) /\ poll_list[o] # NotPolled /\ self' = self + 1
      /\ works' = th.works /\ ext_trig_works' = th.ext /\ rem_upd' = th.rem /\ auto_upd' = th.auto
      /\ now' = th.now /\ scenario' = scenario /\ tmp' = tmp /\ sleep' = sleep
  BY <1>1 DEF SelfExecute
<1>3. /\ <<poll_list[o], period>> \in scenario.self_updates
      /\ poll_list' = [poll_list EXCEPT ![o] = period] /\ new_upd' = period
  BY DEF SelfUpdPeriod
<1>4. /\ scenario \in Scenarios /\ poll_list \in [PollObjs -> Periods \cup {NotPolled}]
      /\ sleep \in Int \cup {NoSleep} /\ now \in Int /\ self \in Nat
      /\ GoodList(works) /\ NonZero(works) /\ GoodList(ext_trig_works)
  BY DEF WorksInv, WorksTypes
<1>5. self = 0
  <2>1. MaxSelf \in Nat /\ MaxSelf <= 1
    BY WorksAssumption DEF Orderly
  <2> QED BY <1>2, <1>4, <2>1
<1>6. /\ tmp \in WorkItem /\ New(<<>>, tmp) /\ tmp.update # 0
      /\ \A x \in PollObjs : Held(x) => Timed(x)
      /\ Quiet
  <2>1. InPoll
    BY <1>2 DEF WorksInv, Idle
  <2> QED BY <1>5, <2>1 DEF InPoll, Moved, Deferred
<1>7. rem_upd = <<>> /\ auto_upd = <<>>
  BY <1>6 DEF Quiet
<1>8. \A x : Held(x) <=> Polls(tmp, x)
  BY <1>2, <1>7 DEF Held, Given
<1>9. poll_list[o] = tmp.update /\ Timed(o)
  BY <1>2, <1>6, <1>8 DEF Quiet
<1>10. /\ period # 0 /\ period # NotPolled /\ period \in Int
       /\ NewPeriods => period # tmp.update
  <2>1. PICK u : u = <<poll_list[o], period>>
    OBVIOUS
  <2>2. u \in scenario.self_updates /\ u[1] = poll_list[o] /\ u[2] = period
    BY <1>3, <2>1
  <2>3. period # 0 /\ (NewPeriods => period # tmp.update)
    BY <1>9, <2>2 DEF Orderly, NewPeriods
  <2>4. period # NotPolled
    BY NotPolledIs
  <2>5. period \in Int
    <3>1. Periods \subseteq Nat
      BY WorksAssumption
    <3>2. period \in Nat
      BY <3>1
    <3> QED BY <3>2
  <2> QED BY <2>3, <2>4, <2>5
<1>11. ~ Listed(works, o) /\ ~ Listed(ext_trig_works, o)
  <2>1. \A u : ~ InList(works, o, u)
    BY <1>2, <1>8 DEF WorksInv, ListsMatch
  <2>2. ~ Listed(ext_trig_works, o)
    BY <1>9 DEF WorksInv, ListsMatch, Timed
  <2> QED BY <2>1, <2>2, ListedIn
<1>12. /\ th.ext = ext_trig_works
       /\ \/ /\ works # <<>> /\ th.works = AddInsert(works, Item(o, period, now + period))
             /\ th.now = now + period /\ th.auto = auto_upd
             /\ th.rem = Append(rem_upd, <<period, o.name>>)
          \/ /\ works = <<>> /\ th.works = works /\ th.now = now /\ th.rem = rem_upd
             /\ th.auto = Append(auto_upd, <<period, o.name>>)
  <2>1. SelfUpdated(th, o, period)
    BY <1>1, <1>4, <1>10, <1>11, SelfUpdIs
  <2> QED BY <2>1 DEF SelfUpdated
<1>13. /\ poll_list' \in [PollObjs -> Periods \cup {NotPolled}]
       /\ poll_list'[o] = period /\ \A x \in PollObjs : x # o => poll_list'[x] = poll_list[x]
  BY <1>3, <1>4
<1>14. Timed(o)' /\ \A x \in PollObjs : x # o => (Timed(x)' <=> Timed(x))
  BY <1>10, <1>13 DEF Timed
<1>15. (NewPeriods' <=> NewPeriods) /\ self' \in Nat /\ self' # 0
  BY <1>2, <1>5 DEF NewPeriods
<1>16. ext_trig_works' = ext_trig_works /\ \A x \in PollObjs : Listed(ext_trig_works, x)' <=> poll_list'[x] = 0
  <2>1. ext_trig_works' = ext_trig_works
    BY <1>2, <1>12
  <2>2. \A x \in PollObjs : Listed(ext_trig_works, x) <=> poll_list[x] = 0
    BY DEF WorksInv, ListsMatch
  <2>3. \A x \in PollObjs : Listed(ext_trig_works, x)' <=> Listed(ext_trig_works, x)
    BY <2>1 DEF Listed
  <2> QED BY <1>10, <1>11, <1>13, <2>1, <2>2, <2>3
<1>17. \A x \in PollObjs : \A u : InList(works, x, u) <=> Timed(x) /\ ~ Polls(tmp, x) /\ u = poll_list[x]
  BY <1>8 DEF WorksInv, ListsMatch
<1>18. \A x \in PollObjs : Polls(tmp, x) /\ x # o => poll_list'[x] = tmp.update /\ Timed(x)'
  BY <1>6, <1>8, <1>13, <1>14 DEF Quiet
<1>19. CASE /\ works # <<>> /\ th.works = AddInsert(works, Item(o, period, now + period))
            /\ th.now = now + period /\ th.auto = auto_upd
            /\ th.rem = Append(rem_upd, <<period, o.name>>)
  <2>1. PICK w, r : w = Item(o, period, now + period) /\ r = AddInsert(works, w)
    OBVIOUS
  <2>2. ItemOf(w, o) /\ w.update = period
    <3>1. now + period \in Int
      BY <1>4, <1>10
    <3> QED BY <2>1, <3>1, ItemIs
  <2>3. /\ GoodList(r) /\ (MergedList(works) => MergedList(r))
        /\ \A x \in PollObjs : \A u : InList(r, x, u) <=> InList(works, x, u) \/ (x = o /\ u = w.update)
        /\ NonZero(works) /\ w.update # 0 => NonZero(r)
        /\ \A v : NewKey(works, v) /\ ~ SameKey(w, v) => NewKey(r, v)
    BY <1>4, <1>11, <2>1, <2>2, AddInsertGood
  <2>4. /\ works' = r /\ now' \in Int /\ auto_upd' = <<>> /\ rem_upd' = <<<<period, o.name>>>>
    BY <1>2, <1>4, <1>7, <1>10, <1>19, <2>1
  <2>5. \A x \in PollObjs : Held(x)' <=> Polls(tmp, x) /\ x # o
    <3>1. \A x : Given(rem_upd, x)' <=> x.name = o.name
      BY <2>4 DEF Given
    <3>2. \A x \in PollObjs : Polls(tmp, x) /\ x.name = o.name => x = o
      BY <1>2, WorksAssumption DEF Polls
    <3> QED BY <1>2, <3>1, <3>2 DEF Held
  <2>6. WorksTypes'
    BY <1>2, <1>4, <1>10, <1>3, <1>13, <1>15, <1>16, <2>2, <2>3, <2>4 DEF WorksTypes
  <2>7. ListsMatch'
    <3>1. ASSUME NEW x \in PollObjs, NEW u
          PROVE  InList(r, x, u) <=> Timed(x)' /\ ~ Held(x)' /\ u = poll_list'[x]
      <4>1. InList(r, x, u) <=> InList(works, x, u) \/ (x = o /\ u = period)
        BY <2>2, <2>3
      <4>2. CASE x = o
        BY <1>2, <1>13, <1>14, <1>17, <2>5, <4>1, <4>2
      <4>3. CASE x # o
        BY <1>13, <1>14, <1>17, <2>5, <4>1, <4>3
      <4> QED BY <4>2, <4>3
    <3> QED BY <1>16, <2>4, <3>1 DEF ListsMatch
  <2>8. Moved(o)'
    BY <1>2, <1>13, <1>15, <1>18, <2>4, <2>5 DEF Moved
  <2>9. InPoll'
    <3>1. \A x \in PollObjs : Held(x)' => Timed(x)'
      BY <1>18, <2>5
    <3> QED BY <1>2, <1>6, <2>8, <3>1 DEF InPoll
  <2>10. NoTwins'
    <3>1. ASSUME NewPeriods PROVE MergedList(r) /\ NewKey(r, tmp)
      <4>1. MergedList(works) /\ NewKey(works, tmp)
        BY <1>2, <3>1 DEF WorksInv, NoTwins
      <4>2. ~ SameKey(w, tmp)
        BY <1>10, <2>2, <3>1 DEF SameKey
      <4> QED BY <2>3, <4>1, <4>2
    <3> QED BY <1>2, <1>15, <2>4, <3>1 DEF NoTwins
  <2> QED BY <2>6, <2>7, <2>9, <2>10 DEF WorksInv
<1>20. CASE /\ works = <<>> /\ th.works = works /\ th.now = now /\ th.rem = rem_upd
            /\ th.auto = Append(auto_upd, <<period, o.name>>)
  <2>1. /\ works' = works /\ now' = now /\ rem_upd' = <<>> /\ auto_upd' = <<<<period, o.name>>>>
    BY <1>2, <1>7, <1>20
  <2>2. \A x : Held(x)' <=> Polls(tmp, x)
    BY <1>2, <2>1 DEF Held, Given
  <2>3. WorksTypes'
    <3>1. GoodList(works)' /\ NonZero(works)'
      BY <1>4, <2>1
    <3> QED BY <1>2, <1>4, <1>10, <1>3, <1>13, <1>15, <1>16, <2>1, <3>1 DEF WorksTypes
  <2>4. ListsMatch'
    <3>1. ASSUME NEW x \in PollObjs, NEW u
          PROVE  InList(works, x, u) <=> Timed(x)' /\ ~ Held(x)' /\ u = poll_list'[x]
      <4>1. CASE x = o
        BY <1>2, <1>17, <2>2, <4>1
      <4>2. CASE x # o
        BY <1>13, <1>14, <1>17, <2>2, <4>2
      <4> QED BY <4>1, <4>2
    <3> QED BY <1>16, <2>1, <3>1 DEF ListsMatch
  <2>5. Deferred(o)'
    BY <1>2, <1>3, <1>13, <1>15, <1>18, <1>20, <2>1, <2>2 DEF Deferred
  <2>6. InPoll'
    <3>1. \A x \in PollObjs : Held(x)' => Timed(x)'
      BY <1>14, <1>18, <2>2
    <3> QED BY <1>2, <1>6, <2>5, <3>1 DEF InPoll
  <2>7. NoTwins'
    BY <1>2, <1>15, <2>1 DEF WorksInv, NoTwins
  <2> QED BY <2>3, <2>4, <2>6, <2>7 DEF WorksInv
<1> QED BY <1>12, <1>19, <1>20

-----------------------------------------------------------------------------
(* The end of a poll. *)

(* The item goes back without the names given away. *)
LEMMA ReinsertGood ==
    ASSUME NEW ws, GoodList(ws), NEW w \in WorkItem, New(<<>>, w), NEW given, DOMAIN given = 1 .. Len(given),
           \A o \in PollObjs : Polls(w, o) /\ ~ Given(given, o) => ~ Listed(ws, o)
    PROVE  LET r == Reinsert(ws, w, given)
           IN  /\ GoodList(r)
               /\ \A o \in PollObjs : \A u :
                     InList(r, o, u) <=> InList(ws, o, u) \/ (Polls(w, o) /\ ~ Given(given, o) /\ u = w.update)
               /\ NonZero(ws) /\ w.update # 0 => NonZero(r)
               /\ MergedList(ws) /\ NewKey(ws, w) => MergedList(r)
<1>1. PICK r, K : r = Reinsert(ws, w, given) /\ K = {k \in DOMAIN w.name : \E i \in DOMAIN given : given[i][2] = w.name[k]}
  OBVIOUS
<1>2. PICK names : names = RemoveIf(w.name, K)
  OBVIOUS
<1>3. w.name \in Seq(ObjNames) /\ DOMAIN w.name = 1 .. Len(w.name) /\ w.date \in Int /\ w.update \in Nat
  BY ItemTypes
<1>4. PICK J : J = (1 .. Len(w.name)) \ K
  OBVIOUS
<1>5. names \in Seq(ObjNames) /\ \E g : Selects(names, w.name, J, g)
  BY <1>2, <1>3, <1>4, RemoveIfIs
<1>6. PICK g : Selects(names, w.name, J, g)
  BY <1>5
<1>7. /\ \A k \in 1 .. Len(names) : g[k] \in J /\ names[k] = w.name[g[k]]
      /\ \A k, l \in 1 .. Len(names) : g[k] = g[l] => k = l
      /\ \A j \in J : \E k \in 1 .. Len(names) : g[k] = j
  BY <1>6 DEF Selects
<1>8. \A j : j \in J <=> j \in 1 .. Len(w.name) /\ ~ \E i \in 1 .. Len(given) : given[i][2] = w.name[j]
  BY <1>1, <1>3, <1>4
<1>9. PICK v : v = [w EXCEPT !.name = names, !.date = @ + w.update]
  OBVIOUS
<1>10. /\ v \in WorkItem /\ v.dev = w.dev /\ v.type = w.type /\ v.name = names /\ v.update = w.update
  <2>1. PICK e \in Int : e = w.date + w.update
    BY <1>3
  <2>2. v = [w EXCEPT !.name = names, !.date = e]
    BY <1>9, <2>1
  <2>3. names \in Seq({o.name : o \in PollObjs})
    BY <1>5 DEF ObjNames
  <2> QED BY <2>2, <2>3 DEF WorkItem
<1>11. r = IF names = <<>> THEN ws ELSE Insert(ws, v)
  BY <1>1, <1>2, <1>9 DEF Reinsert
<1>12. ASSUME NEW o \in PollObjs
       PROVE  (\E k \in 1 .. Len(names) : Is(v, k, o)) <=> Polls(w, o) /\ ~ Given(given, o)
  <2>1. ASSUME NEW k \in 1 .. Len(names), Is(v, k, o) PROVE Polls(w, o) /\ ~ Given(given, o)
    <3>1. g[k] \in 1 .. Len(w.name) /\ ~ \E i \in 1 .. Len(given) : given[i][2] = w.name[g[k]]
      BY <1>7, <1>8
    <3>2. Is(w, g[k], o) /\ w.name[g[k]] = o.name
      BY <1>7, <1>10, <2>1 DEF Is
    <3> QED BY <3>1, <3>2, PollsPlace DEF Given
  <2>2. ASSUME Polls(w, o), ~ Given(given, o) PROVE \E k \in 1 .. Len(names) : Is(v, k, o)
    <3>1. PICK j \in 1 .. Len(w.name) : Is(w, j, o)
      BY <2>2, PollsPlace
    <3>2. j \in J
      BY <1>8, <2>2, <3>1 DEF Given, Is
    <3>3. PICK k \in 1 .. Len(names) : g[k] = j
      BY <1>7, <3>2
    <3>4. Is(v, k, o)
      BY <1>7, <1>10, <3>1, <3>3 DEF Is
    <3> QED BY <3>4
  <2> QED BY <2>1, <2>2
<1>13. CASE names = <<>>
  <2>1. r = ws
    BY <1>11, <1>13
  <2>2. \A o \in PollObjs : ~ (Polls(w, o) /\ ~ Given(given, o))
    BY <1>12, <1>13
  <2>3. \A o \in PollObjs : \A u :
            InList(r, o, u) <=> InList(ws, o, u) \/ (Polls(w, o) /\ ~ Given(given, o) /\ u = w.update)
    BY <2>1, <2>2
  <2>4. GoodList(r) /\ (NonZero(ws) => NonZero(r)) /\ (MergedList(ws) => MergedList(r))
    BY <2>1
  <2> QED BY <1>1, <2>3, <2>4
<1>14. CASE names # <<>>
  <2>1. r = Insert(ws, v)
    BY <1>11, <1>14
  <2>2. \A o \in PollObjs : Polls(v, o) <=> Polls(w, o) /\ ~ Given(given, o)
    BY <1>10, <1>12, PollsPlace
  <2>3. New(ws, v)
    <3>1. ASSUME NEW o \in PollObjs, NEW k \in 1 .. Len(v.name), NEW l \in 1 .. Len(v.name), Is(v, k, o), Is(v, l, o)
          PROVE  k = l
      <4>1. /\ g[k] \in 1 .. Len(w.name) /\ g[l] \in 1 .. Len(w.name)
            /\ Is(w, g[k], o) /\ Is(w, g[l], o)
        BY <1>7, <1>8, <1>10, <3>1 DEF Is
      <4>2. g[k] = g[l]
        BY <4>1 DEF New
      <4> QED BY <1>7, <1>10, <4>2
    <3>2. \A o \in PollObjs : Polls(v, o) => ~ Listed(ws, o)
      BY <2>2
    <3> QED BY <1>10, <1>14, <3>1, <3>2 DEF New
  <2>4. /\ GoodList(r)
        /\ \A o, u : InList(r, o, u) <=> InList(ws, o, u) \/ (Polls(v, o) /\ v.update = u)
        /\ MergedList(ws) /\ NewKey(ws, v) => MergedList(r)
    BY <2>1, <2>3, InsertGood
  <2>5. NonZero(ws) /\ v.update # 0 => NonZero(r)
    BY <2>1, <2>3, InsertKeys
  <2>6. NewKey(ws, w) => NewKey(ws, v)
    BY <1>10 DEF NewKey, SameKey
  <2>7. \A o \in PollObjs : \A u :
            InList(r, o, u) <=> InList(ws, o, u) \/ (Polls(w, o) /\ ~ Given(given, o) /\ u = w.update)
    BY <1>10, <2>2, <2>4
  <2> QED BY <1>1, <1>10, <2>4, <2>5, <2>6, <2>7
<1> QED BY <1>13, <1>14

(* The new period e[1] of the object with the name e[2]. *)
KeyIndex(ws, w, p) == SelectInSeq(ws, LAMBDA x : x.dev = w.dev /\ x.type = w.type /\ x.update = p)
Applied(s, e, w) ==
    LET i == KeyIndex(s.works, w, e[1])
        item == [w EXCEPT !.name = <<e[2]>>, !.update = e[1], !.date = s.now + new_upd, !.needed = 0]
    IN  IF i # 0 THEN [s EXCEPT !.works[i].name = Append(@, e[2])]
        ELSE [works |-> Insert(s.works, item), now |-> s.now + new_upd]

LEMMA ApplyNone ==
    ASSUME auto_upd = <<>>, NEW ws, NEW w, NEW start
    PROVE  ApplyAutoUpd(ws, w, start) = [works |-> ws, now |-> start]
<1>1. PICK first : first = [works |-> ws, now |-> start]
  OBVIOUS
<1> DEFINE F(f) == [k \in 0 .. Len(auto_upd) |->
                       IF k = 0 THEN first ELSE Applied(f[k - 1], auto_upd[k], w)]
<1>2. ApplyAutoUpd(ws, w, start) = (CHOOSE f : f = F(f))[Len(auto_upd)]
  BY <1>1 DEF ApplyAutoUpd, Applied, KeyIndex
<1>3. Len(auto_upd) = 0
  OBVIOUS
<1> DEFINE g == [k \in 0 .. Len(auto_upd) |-> first]
<1>4. g = F(g)
  <2>1. \A k \in 0 .. Len(auto_upd) : k = 0
    BY <1>3
  <2> QED BY <2>1
<1> HIDE DEF g
<1>5. PICK f : f = CHOOSE t : t = F(t)
  OBVIOUS
<1>6. f = F(f)
  BY <1>4, <1>5
<1>7. f[0] = F(f)[0]
  BY <1>6
<1>8. F(f)[0] = first
  BY <1>3
<1> QED BY <1>1, <1>2, <1>3, <1>5, <1>7, <1>8

LEMMA ApplyOne ==
    ASSUME NEW e, auto_upd = <<e>>, NEW ws, NEW w, NEW start
    PROVE  ApplyAutoUpd(ws, w, start) = Applied([works |-> ws, now |-> start], e, w)
<1>1. PICK first, one : first = [works |-> ws, now |-> start] /\ one = Applied(first, e, w)
  OBVIOUS
<1> DEFINE F(f) == [k \in 0 .. Len(auto_upd) |->
                       IF k = 0 THEN first ELSE Applied(f[k - 1], auto_upd[k], w)]
<1>2. ApplyAutoUpd(ws, w, start) = (CHOOSE f : f = F(f))[Len(auto_upd)]
  BY <1>1 DEF ApplyAutoUpd, Applied, KeyIndex
<1>3. Len(auto_upd) = 1 /\ auto_upd[1] = e
  OBVIOUS
<1> DEFINE g == [k \in 0 .. Len(auto_upd) |-> IF k = 0 THEN first ELSE one]
<1>4. g = F(g)
  <2>1. \A k \in 0 .. Len(auto_upd) : k = 0 \/ (k # 0 /\ k = 1)
    BY <1>3
  <2>2. g[0] = first
    BY <1>3
  <2>3. \A k \in 0 .. Len(auto_upd) : g[k] = IF k = 0 THEN first ELSE Applied(g[k - 1], auto_upd[k], w)
    <3> TAKE k \in 0 .. Len(auto_upd)
    <3>1. CASE k = 0
      BY <2>2, <3>1
    <3>2. CASE k # 0 /\ k = 1
      <4>1. g[k] = one /\ k - 1 = 0 /\ auto_upd[k] = e
        BY <1>3, <3>2
      <4> HIDE DEF g
      <4> QED BY <1>1, <2>2, <3>2, <4>1
    <3> QED BY <2>1, <3>1, <3>2
  <2>4. g = [k \in 0 .. Len(auto_upd) |-> g[k]]
    OBVIOUS
  <2> HIDE DEF g
  <2> QED BY <2>3, <2>4
<1> HIDE DEF g
<1>5. PICK f : f = CHOOSE t : t = F(t)
  OBVIOUS
<1>6. f = F(f)
  BY <1>4, <1>5
<1>7. f[0] = F(f)[0] /\ f[1] = F(f)[1]
  BY <1>6
<1>8. F(f)[0] = first
  BY <1>3
<1>9. F(f)[1] = Applied(f[0], e, w)
  BY <1>3
<1>10. f[1] = one
  <2> HIDE DEF F
  <2> QED BY <1>1, <1>7, <1>8, <1>9
<1> QED BY <1>1, <1>2, <1>3, <1>5, <1>10

LEMMA KeyIndexIs ==
    ASSUME NEW ws \in Seq(WorkItem), NEW w, NEW p
    PROVE  \/ KeyIndex(ws, w, p) = 0 /\ \A i \in 1 .. Len(ws) :
                 ~ (ws[i].dev = w.dev /\ ws[i].type = w.type /\ ws[i].update = p)
           \/ \E i \in 1 .. Len(ws) : /\ i = KeyIndex(ws, w, p) /\ ws[i].dev = w.dev
                                      /\ ws[i].type = w.type /\ ws[i].update = p
<1> DEFINE I == {i \in 1 .. Len(ws) : ws[i].dev = w.dev /\ ws[i].type = w.type /\ ws[i].update = p}
<1>1. CASE I = {}
  <2>1. KeyIndex(ws, w, p) = 0
    BY <1>1 DEF KeyIndex, SelectInSeq
  <2> QED BY <1>1, <2>1
<1>2. CASE I # {}
  <2>1. KeyIndex(ws, w, p) = Min(I)
    BY <1>2 DEF KeyIndex, SelectInSeq
  <2>2. I \subseteq Nat
    OBVIOUS
  <2>3. Min(I) \in I
    <3> HIDE DEF I
    <3> QED BY <1>2, <2>2, MinIndex
  <2>4. PICK m \in I : m = Min(I)
    BY <2>3
  <2> QED BY <2>1, <2>4
<1> QED BY <1>1, <1>2

ForPeriod(w, x, period, d) ==
    [w EXCEPT !.name = <<x.name>>, !.update = period, !.date = d, !.needed = 0]

LEMMA AppliedItem ==
    ASSUME NEW w \in WorkItem, NEW x \in PollObjs, w.dev = x.dev, w.type = x.type,
           NEW period \in Periods, NEW d \in Int
    PROVE  ItemOf(ForPeriod(w, x, period, d), x) /\ ForPeriod(w, x, period, d).update = period
<1>1. PICK v, names : v = ForPeriod(w, x, period, d) /\ names = <<x.name>>
  OBVIOUS
<1>2. names \in Seq({o.name : o \in PollObjs})
  BY <1>1
<1>3. v = [dev |-> w.dev, type |-> w.type, name |-> names, update |-> period, date |-> d, needed |-> 0]
  BY <1>1 DEF WorkItem, ForPeriod
<1>4. w.dev \in {o.dev : o \in PollObjs} /\ w.type \in {o.type : o \in PollObjs}
  BY DEF WorkItem
<1>5. v \in WorkItem
  BY <1>2, <1>3, <1>4 DEF WorkItem
<1>6. v.dev = w.dev /\ v.type = w.type /\ v.name = names /\ v.update = period
  BY <1>3
<1> QED BY <1>1, <1>5, <1>6 DEF ItemOf

(* An item of the new period takes the name, or a new one is inserted. *)
AppliedIs(r, ws, x, period) ==
    \/ \E v : ItemOf(v, x) /\ v.update = period /\ NewKey(ws, v) /\ r = Insert(ws, v)
    \/ \E i \in 1 .. Len(ws) : /\ ws[i].dev = x.dev /\ ws[i].type = x.type /\ ws[i].update = period
                               /\ Renamed(r, ws, i, Append(ws[i].name, x.name))

LEMMA AppliedCases ==
    ASSUME NEW ws \in Seq(WorkItem), NEW w \in WorkItem, NEW x \in PollObjs, w.dev = x.dev, w.type = x.type,
           NEW period \in Periods, NEW start \in Int, new_upd \in Int,
           NEW r, r = Applied([works |-> ws, now |-> start], <<period, x.name>>, w).works
    PROVE  AppliedIs(r, ws, x, period)
<1>1. x.name \in ObjNames
  BY DEF ObjNames
<1>2. PICK s, e : s = [works |-> ws, now |-> start] /\ e = <<period, x.name>>
  OBVIOUS
<1>3. s.works = ws /\ s.now = start /\ e[1] = period /\ e[2] = x.name
  BY <1>2
<1>4. PICK d \in Int : d = start + new_upd
  OBVIOUS
<1>5. PICK v : v = ForPeriod(w, x, period, d)
  OBVIOUS
<1>6. r = (IF KeyIndex(ws, w, period) # 0 THEN [s EXCEPT !.works[KeyIndex(ws, w, period)].name = Append(@, e[2])]
           ELSE [works |-> Insert(ws, v), now |-> s.now + new_upd]).works
  BY <1>2, <1>3, <1>4, <1>5 DEF Applied, ForPeriod
<1>7. ItemOf(v, x) /\ v.update = period
  BY <1>5, AppliedItem
<1>8. CASE /\ KeyIndex(ws, w, period) = 0
           /\ \A i \in 1 .. Len(ws) : ~ (ws[i].dev = w.dev /\ ws[i].type = w.type /\ ws[i].update = period)
  <2>1. r = Insert(ws, v)
    BY <1>6, <1>8
  <2>2. NewKey(ws, v)
    BY <1>7, <1>8 DEF NewKey, SameKey, ItemOf
  <2> QED BY <1>7, <2>1, <2>2 DEF AppliedIs
<1>9. CASE \E i \in 1 .. Len(ws) : /\ i = KeyIndex(ws, w, period) /\ ws[i].dev = w.dev
                                   /\ ws[i].type = w.type /\ ws[i].update = period
  <2>1. PICK i \in 1 .. Len(ws) : /\ i = KeyIndex(ws, w, period) /\ ws[i].dev = w.dev
                                  /\ ws[i].type = w.type /\ ws[i].update = period
    BY <1>9
  <2>2. i # 0
    OBVIOUS
  <2>3. r = [s EXCEPT !.works[i].name = Append(@, x.name)].works
    BY <1>3, <1>6, <2>1, <2>2
  <2>4. r = [ws EXCEPT ![i].name = Append(@, x.name)]
    BY <1>2, <2>3
  <2>5. Renamed(r, ws, i, Append(ws[i].name, x.name))
    BY <1>1, <2>4, AddNameIs
  <2>6. ws[i].dev = x.dev /\ ws[i].type = x.type /\ ws[i].update = period
    BY <2>1
  <2> QED BY <2>5, <2>6 DEF AppliedIs
<1>10. \/ KeyIndex(ws, w, period) = 0 /\ \A i \in 1 .. Len(ws) :
              ~ (ws[i].dev = w.dev /\ ws[i].type = w.type /\ ws[i].update = period)
       \/ \E i \in 1 .. Len(ws) : /\ i = KeyIndex(ws, w, period) /\ ws[i].dev = w.dev
                                  /\ ws[i].type = w.type /\ ws[i].update = period
  BY KeyIndexIs
<1> QED BY <1>8, <1>9, <1>10

LEMMA AppliedGood ==
    ASSUME NEW ws, GoodList(ws), NEW x \in PollObjs, ~ Listed(ws, x), NEW period,
           NEW r, AppliedIs(r, ws, x, period)
    PROVE  /\ GoodList(r) /\ (MergedList(ws) => MergedList(r))
           /\ \A o \in PollObjs : \A u : InList(r, o, u) <=> InList(ws, o, u) \/ (o = x /\ u = period)
           /\ NonZero(ws) /\ period # 0 => NonZero(r)
<1>1. CASE \E v : ItemOf(v, x) /\ v.update = period /\ NewKey(ws, v) /\ r = Insert(ws, v)
  <2>1. PICK v : ItemOf(v, x) /\ v.update = period /\ NewKey(ws, v) /\ r = Insert(ws, v)
    BY <1>1
  <2>2. New(ws, v) /\ \A o \in PollObjs : Polls(v, o) <=> o = x
    BY <2>1, ItemOfFacts
  <2>3. /\ GoodList(r)
        /\ \A o, u : InList(r, o, u) <=> InList(ws, o, u) \/ (Polls(v, o) /\ v.update = u)
        /\ MergedList(ws) /\ NewKey(ws, v) => MergedList(r)
    BY <2>1, <2>2, InsertGood
  <2>4. NonZero(ws) /\ v.update # 0 => NonZero(r)
    BY <2>1, <2>2, InsertKeys
  <2> QED BY <2>1, <2>2, <2>3, <2>4
<1>2. CASE \E i \in 1 .. Len(ws) : /\ ws[i].dev = x.dev /\ ws[i].type = x.type /\ ws[i].update = period
                                   /\ Renamed(r, ws, i, Append(ws[i].name, x.name))
  <2>1. PICK i \in 1 .. Len(ws) : /\ ws[i].dev = x.dev /\ ws[i].type = x.type /\ ws[i].update = period
                                  /\ Renamed(r, ws, i, Append(ws[i].name, x.name))
    BY <1>2
  <2>2. /\ GoodList(r) /\ KeysIn(r, ws) /\ (MergedList(ws) => MergedList(r))
        /\ \A o \in PollObjs : \A u :
              InList(r, o, u) <=> InList(ws, o, u) \/ (o = x /\ u = ws[i].update)
    <3>1. NameAdded(r, ws, x, ws[i].update)
      BY <2>1, AddNameGood
    <3> QED BY <3>1 DEF NameAdded
  <2> QED BY <2>1, <2>2, KeysInFacts
<1> QED BY <1>1, <1>2 DEF AppliedIs

(* The item after its poll. *)
Polled(w, n, stopped) == [w EXCEPT !.date = @ - n, !.needed = IF stopped THEN @ ELSE n]

LEMMA PolledIs ==
    ASSUME NEW w \in WorkItem, NEW n \in Int, NEW stopped
    PROVE  Polled(w, n, stopped) \in WorkItem /\ SameWork(Polled(w, n, stopped), w)
<1>1. w.date \in Int /\ w.needed \in Int
  BY ItemTypes
<1>2. PICK d \in Int : d = w.date - n
  BY <1>1
<1>3. PICK e \in Int : e = IF stopped THEN w.needed ELSE n
  BY <1>1
<1>4. Polled(w, n, stopped) = [w EXCEPT !.date = d, !.needed = e]
  BY <1>2, <1>3 DEF Polled
<1>5. [w EXCEPT !.date = d, !.needed = e] \in WorkItem /\ SameWork([w EXCEPT !.date = d, !.needed = e], w)
  BY DEF WorkItem, SameWork
<1> QED BY <1>4, <1>5

LEMMA SameWorkNew ==
    ASSUME NEW ws, NEW w, New(ws, w), NEW v \in WorkItem, SameWork(v, w)
    PROVE  New(ws, v) /\ \A s : NewKey(s, w) => NewKey(s, v)
<1>1. v.name = w.name /\ \A o : (Polls(v, o) <=> Polls(w, o)) /\ \A k : Is(v, k, o) <=> Is(w, k, o)
  BY SameWorkPolls DEF SameWork
<1>2. New(ws, v)
  BY <1>1 DEF New
<1>3. \A s : NewKey(s, w) => NewKey(s, v)
  BY DEF NewKey, SameKey, SameWork
<1> QED BY <1>2, <1>3

(* Nothing waits for the end of the poll: the item goes back. *)
LEMMA BackFits ==
    ASSUME WorksInv, tmp # NoItem, auto_upd = <<>>, DOMAIN rem_upd = 1 .. Len(rem_upd),
           \A o \in PollObjs : Held(o) => Timed(o) /\ poll_list[o] = tmp.update,
           tmp.update # 0, NEW w \in WorkItem, SameWork(w, tmp), New(<<>>, w), NEW ws, Same(ws, works)
    PROVE  Fits(Reinsert(ws, w, rem_upd), ext_trig_works, poll_list)
<1>1. PICK r : r = Reinsert(ws, w, rem_upd)
  OBVIOUS
<1>2. /\ GoodList(ws) /\ NonZero(ws) /\ GoodList(ext_trig_works)
      /\ \A o, u : InList(ws, o, u) <=> InList(works, o, u)
  BY DEF WorksInv, WorksTypes, Same
<1>3. \A o : Held(o) <=> Polls(w, o) /\ ~ Given(rem_upd, o)
  BY SameWorkPolls DEF Held
<1>4. \A o \in PollObjs : \A u : InList(ws, o, u) <=> Timed(o) /\ ~ Held(o) /\ u = poll_list[o]
  BY <1>2 DEF WorksInv, ListsMatch
<1>5. \A o \in PollObjs : Polls(w, o) /\ ~ Given(rem_upd, o) => ~ Listed(ws, o)
  BY <1>3, <1>4, ListedIn
<1>6. /\ GoodList(r)
      /\ \A o \in PollObjs : \A u :
            InList(r, o, u) <=> InList(ws, o, u) \/ (Polls(w, o) /\ ~ Given(rem_upd, o) /\ u = w.update)
      /\ NonZero(ws) /\ w.update # 0 => NonZero(r)
      /\ MergedList(ws) /\ NewKey(ws, w) => MergedList(r)
  BY <1>1, <1>2, <1>5, ReinsertGood
<1>7. w.update = tmp.update
  BY DEF SameWork
<1>8. \A o \in PollObjs : \A u : InList(r, o, u) <=> poll_list[o] \notin {0, NotPolled} /\ u = poll_list[o]
  <2> TAKE o \in PollObjs
  <2> TAKE u
  <2>1. InList(r, o, u) <=> (Timed(o) /\ ~ Held(o) /\ u = poll_list[o]) \/ (Held(o) /\ u = tmp.update)
    BY <1>3, <1>4, <1>6, <1>7
  <2>2. Held(o) => Timed(o) /\ poll_list[o] = tmp.update
    OBVIOUS
  <2>3. InList(r, o, u) <=> Timed(o) /\ u = poll_list[o]
    BY <2>1, <2>2
  <2> QED BY <2>3 DEF Timed
<1>9. ASSUME NewPeriods PROVE MergedList(r)
  <2>1. MergedList(works) /\ NewKey(works, tmp)
    BY <1>9 DEF WorksInv, NoTwins
  <2>2. MergedList(ws) /\ NewKey(ws, tmp)
    BY <2>1 DEF Same
  <2>3. NewKey(ws, w)
    BY <2>2 DEF NewKey, SameKey, SameWork
  <2> QED BY <1>6, <2>2, <2>3
<1>10. \A o \in PollObjs : Listed(ext_trig_works, o) <=> poll_list[o] = 0
  BY DEF WorksInv, ListsMatch
<1>11. NonZero(r)
  BY <1>2, <1>6, <1>7
<1>12. Fits(r, ext_trig_works, poll_list)
  BY <1>2, <1>6, <1>8, <1>9, <1>10, <1>11 DEF Fits
<1> QED BY <1>1, <1>12

(* An object changed its period while the list was empty: its item goes     *)
(* back without it, then it gets an item of its own or joins that one.      *)
LEMMA KeptFits ==
    ASSUME WorksInv, tmp # NoItem, NEW x \in PollObjs, Deferred(x), \A o \in PollObjs : Held(o) => Timed(o),
           tmp.update # 0, NEW w \in WorkItem, SameWork(w, tmp), New(<<>>, w), NEW start \in Int,
           NEW r, r = ApplyAutoUpd(Reinsert(<<>>, w, auto_upd), w, start).works
    PROVE  Fits(r, ext_trig_works, poll_list)
<1>1. PICK q, p : q = Reinsert(<<>>, w, auto_upd) /\ p = poll_list[x]
  OBVIOUS
<1>2. /\ rem_upd = <<>> /\ works = <<>> /\ Polls(tmp, x) /\ auto_upd = <<<<p, x.name>>>> /\ new_upd = p
      /\ \A o \in PollObjs : Held(o) /\ o # x => poll_list[o] = tmp.update
  BY <1>1 DEF Deferred
<1>3. GoodList(<<>>) /\ NonZero(<<>>) /\ GoodList(ext_trig_works)
  BY <1>2 DEF WorksInv, WorksTypes
<1>4. \A o : ~ Listed(<<>>, o) /\ \A u : ~ InList(<<>>, o, u)
  BY DEF Listed, InList
<1>5. \A o : (Held(o) <=> Polls(tmp, o)) /\ (Polls(w, o) <=> Polls(tmp, o))
  BY <1>2, SameWorkPolls DEF Held, Given
<1>6. \A o \in PollObjs : Timed(o) <=> Held(o)
  <2>1. \A o \in PollObjs : ~ (Timed(o) /\ ~ Held(o))
    BY <1>2, <1>4 DEF WorksInv, ListsMatch
  <2> QED BY <2>1
<1>7. \A o \in PollObjs : Polls(w, o) /\ Given(auto_upd, o) => o = x
  <2>1. \A o : Given(auto_upd, o) <=> o.name = x.name
    BY <1>2 DEF Given
  <2> QED BY <1>2, <1>5, <2>1, WorksAssumption DEF Polls
<1>8. Given(auto_upd, x)
  BY <1>2 DEF Given
<1>9. DOMAIN auto_upd = 1 .. Len(auto_upd)
  BY <1>2
<1>10. /\ GoodList(q)
       /\ \A o \in PollObjs : \A u :
             InList(q, o, u) <=> InList(<<>>, o, u) \/ (Polls(w, o) /\ ~ Given(auto_upd, o) /\ u = w.update)
       /\ NonZero(<<>>) /\ w.update # 0 => NonZero(q)
       /\ MergedList(<<>>) /\ NewKey(<<>>, w) => MergedList(q)
  BY <1>1, <1>3, <1>4, <1>9, ReinsertGood
<1>11. w.update = tmp.update /\ w.dev = x.dev /\ w.type = x.type
  BY <1>2 DEF SameWork, Polls
<1>12. MergedList(q) /\ NonZero(q)
  BY <1>3, <1>10, <1>11 DEF MergedList, NewKey
<1>13. \A o \in PollObjs : \A u : InList(q, o, u) <=> Held(o) /\ o # x /\ u = tmp.update
  BY <1>4, <1>5, <1>7, <1>8, <1>10, <1>11
<1>14. ~ Listed(q, x)
  BY <1>13, ListedIn
<1>15. p \in Periods /\ p # 0 /\ p # NotPolled /\ p \in Int
  <2>1. Timed(x)
    BY <1>2, <1>5, <1>6
  <2>2. poll_list[x] \in Periods \cup {NotPolled}
    BY DEF WorksInv, WorksTypes
  <2>3. new_upd \in Int
    BY DEF WorksInv, WorksTypes
  <2> QED BY <1>1, <1>2, <2>1, <2>2, <2>3 DEF Timed
<1>16. AppliedIs(r, q, x, p)
  <2>1. PICK e : e = <<p, x.name>>
    OBVIOUS
  <2>2. ApplyAutoUpd(q, w, start) = Applied([works |-> q, now |-> start], e, w)
    BY <1>2, <2>1, ApplyOne
  <2>3. r = Applied([works |-> q, now |-> start], <<p, x.name>>, w).works
    BY <1>1, <2>1, <2>2
  <2>4. q \in Seq(WorkItem)
    BY <1>10 DEF GoodList
  <2> QED BY <1>2, <1>11, <1>15, <2>3, <2>4, AppliedCases
<1>17. /\ GoodList(r) /\ (MergedList(q) => MergedList(r))
       /\ \A o \in PollObjs : \A u : InList(r, o, u) <=> InList(q, o, u) \/ (o = x /\ u = p)
       /\ NonZero(q) /\ p # 0 => NonZero(r)
  BY <1>10, <1>14, <1>16, AppliedGood
<1>18. \A o \in PollObjs : \A u : InList(r, o, u) <=> poll_list[o] \notin {0, NotPolled} /\ u = poll_list[o]
  <2> TAKE o \in PollObjs
  <2> TAKE u
  <2>1. InList(r, o, u) <=> (Held(o) /\ o # x /\ u = tmp.update) \/ (o = x /\ u = p)
    BY <1>13, <1>17
  <2>2. InList(r, o, u) <=> Held(o) /\ u = poll_list[o]
    <3>1. CASE o = x
      BY <1>1, <1>2, <1>5, <2>1, <3>1
    <3>2. CASE o # x
      BY <1>2, <2>1, <3>2
    <3> QED BY <3>1, <3>2
  <2> QED BY <1>6, <2>2 DEF Timed
<1>19. \A o \in PollObjs : Listed(ext_trig_works, o) <=> poll_list[o] = 0
  BY DEF WorksInv, ListsMatch
<1> QED BY <1>3, <1>12, <1>15, <1>17, <1>18, <1>19 DEF Fits

LEMMA EndPollInv ==
    ASSUME WorksInv, NEW needed \in scenario.needed_times, EndPoll(needed)
    PROVE  WorksInv'
<1>1. needed \in Int
  BY ScenarioUpdates DEF WorksInv, WorksTypes
<1>2. PICK w, start, ws, given : /\ w = Polled(tmp, needed, polling_stop) /\ start = now - needed
                                 /\ ws = Shift(works, needed)
                                 /\ given = IF auto_upd = <<>> THEN rem_upd ELSE auto_upd
  OBVIOUS
<1>3. PICK done : done = ApplyAutoUpd(Reinsert(ws, w, given), w, start)
  OBVIOUS
<1>4. /\ tmp # NoItem /\ tmp' = NoItem /\ auto_upd' = <<>> /\ now' = 0 /\ self' = 0
      /\ rem_upd' = IF auto_upd = <<>> THEN <<>> ELSE rem_upd
      /\ scenario' = scenario /\ poll_list' = poll_list /\ ext_trig_works' = ext_trig_works
      /\ new_upd' = new_upd
      /\ EndOfLoop(done.works, tune_ctr - 1, need_two_tuning, done.now)
  BY <1>2, <1>3 DEF EndPoll, Polled
<1>5. InPoll
  BY <1>4 DEF WorksInv, Idle
<1>6. /\ tmp \in WorkItem /\ New(<<>>, tmp) /\ tmp.update # 0
      /\ \A o \in PollObjs : Held(o) => Timed(o)
  BY <1>5 DEF InPoll
<1>7. w \in WorkItem /\ SameWork(w, tmp)
  BY <1>1, <1>2, <1>6, PolledIs
<1>8. New(<<>>, w)
  BY <1>6, <1>7, SameWorkNew
<1>9. start \in Int /\ Same(ws, works) /\ (ws = <<>> <=> works = <<>>)
  BY <1>1, <1>2, ShiftSame DEF WorksInv, WorksTypes
<1>10. Fits(done.works, ext_trig_works, poll_list) /\ rem_upd' = <<>>
  <2>1. CASE /\ auto_upd = <<>> /\ DOMAIN rem_upd = 1 .. Len(rem_upd)
             /\ \A o \in PollObjs : Held(o) => poll_list[o] = tmp.update
    <3>1. done = [works |-> Reinsert(ws, w, rem_upd), now |-> start]
      BY <1>2, <1>3, <2>1, ApplyNone
    <3>2. done.works = Reinsert(ws, w, rem_upd)
      BY <3>1
    <3>3. Fits(Reinsert(ws, w, rem_upd), ext_trig_works, poll_list)
      BY <1>4, <1>6, <1>7, <1>8, <1>9, <2>1, BackFits
    <3> QED BY <1>4, <2>1, <3>2, <3>3
  <2>2. CASE Quiet
    <3>1. DOMAIN rem_upd = 1 .. Len(rem_upd)
      BY <2>2 DEF Quiet
    <3> QED BY <2>1, <2>2, <3>1 DEF Quiet
  <2>3. CASE \E x \in PollObjs : Moved(x)
    <3>1. PICK x \in PollObjs : Moved(x)
      BY <2>3
    <3>2. DOMAIN rem_upd = 1 .. Len(rem_upd)
      BY <3>1 DEF Moved
    <3> QED BY <2>1, <3>1, <3>2 DEF Moved
  <2>4. CASE \E x \in PollObjs : Deferred(x)
    <3>1. PICK x \in PollObjs : Deferred(x)
      BY <2>4
    <3>2. works = <<>> /\ rem_upd = <<>> /\ auto_upd # <<>>
      BY <3>1 DEF Deferred
    <3>3. ws = <<>> /\ given = auto_upd
      BY <1>2, <1>9, <3>2
    <3>4. PICK r : r = done.works
      OBVIOUS
    <3>5. r = ApplyAutoUpd(Reinsert(<<>>, w, auto_upd), w, start).works
      BY <1>3, <3>3, <3>4
    <3>6. Fits(r, ext_trig_works, poll_list)
      BY <1>4, <1>6, <1>7, <1>8, <1>9, <3>1, <3>5, KeptFits
    <3> QED BY <1>4, <3>2, <3>4, <3>6
  <2> QED BY <1>5, <2>2, <2>3, <2>4 DEF InPoll
<1>11. Same(works', done.works) /\ sleep' \in Int \cup {NoSleep}
  BY <1>4, <1>10, EndOfLoopSame DEF WorksInv, WorksTypes, Fits
<1>12. Fits(works', ext_trig_works, poll_list)
  BY <1>10, <1>11, SameFits
<1>13. NewPeriods' <=> NewPeriods
  BY <1>4 DEF NewPeriods
<1>14. WorksTypes'
  BY <1>4, <1>11, <1>12 DEF WorksInv, WorksTypes, Fits
<1>15. ListsMatch'
  BY <1>4, <1>12 DEF ListsMatch, Fits, Timed, Held
<1>16. NoTwins'
  BY <1>4, <1>12, <1>13 DEF NoTwins, Fits
<1>17. Idle'
  BY <1>4, <1>10 DEF Idle
<1> QED BY <1>14, <1>15, <1>16, <1>17 DEF WorksInv

-----------------------------------------------------------------------------
(* Every step. *)

LEMMA WorksInitInv == ASSUME WorksInit PROVE WorksInv
<1>1. GoodList(<<>>) /\ NonZero(<<>>) /\ MergedList(<<>>)
  <2>1. <<>> \in Seq(WorkItem) /\ Len(<<>>) = 0
    OBVIOUS
  <2> QED BY <2>1 DEF GoodList, NonZero, MergedList
<1>2. \A o : ~ Listed(<<>>, o) /\ \A u : ~ InList(<<>>, o, u)
  BY DEF Listed, InList
<1>3. WorksTypes
  BY <1>1 DEF WorksInit, WorksTypes
<1>4. ListsMatch
  BY <1>2, NotPolledIs DEF WorksInit, ListsMatch, Timed
<1>5. Idle
  BY DEF WorksInit, Idle
<1>6. NoTwins
  BY <1>1 DEF WorksInit, NoTwins
<1> QED BY <1>3, <1>4, <1>5, <1>6 DEF WorksInv

(* The steps that keep the invariant: all but that of an object that stops  *)
(* its own polling.                                                         *)
LEMMA WorksStep ==
    ASSUME WorksInv, Orderly, WorksNext
    PROVE  WorksInv'
<1>1. ASSUME NEW o \in PollObjs, NEW p \in Periods, NEW delta \in Deltas, AddObjPolling(o, p, delta)
      PROVE  WorksInv'
  <2>1. delta \in Int
    BY DEF Deltas
  <2> QED BY <1>1, <2>1, AddObjPollingInv
<1>2. ASSUME NEW o \in PollObjs, RemObjPolling(o) PROVE WorksInv'
  BY <1>2, RemObjPollingInv
<1>3. ASSUME NEW o \in PollObjs, NEW p \in Periods, UpdObjPollingPeriod(o, p) PROVE WorksInv'
  BY <1>3, UpdObjPollingPeriodInv
<1>4. ASSUME NEW o \in PollObjs, NEW p \in Periods, SelfUpdPeriod(o, p) PROVE WorksInv'
  BY <1>4, SelfUpdPeriodInv
<1>5. ASSUME NEW o \in PollObjs, SelfRemObj(o) PROVE FALSE
  BY <1>5 DEF SelfRemObj, Orderly
<1>6. ASSUME NEW d, StopDevicePolling(d) PROVE WorksInv'
  BY <1>6, StopDevicePollingInv
<1>7. CASE StartStop
  BY <1>7, StartStopInv
<1>8. CASE StartPoll
  BY <1>8, StartPollInv
<1>9. ASSUME NEW n \in scenario.needed_times, EndPoll(n) PROVE WorksInv'
  BY <1>9, EndPollInv
<1> QED BY <1>1, <1>2, <1>3, <1>4, <1>5, <1>6, <1>7, <1>8, <1>9 DEF WorksNext

LEMMA ScenarioStays == ASSUME [WorksNext]_works_vars PROVE scenario' = scenario
<1>1. CASE UNCHANGED works_vars
  BY <1>1 DEF works_vars
<1>2. ASSUME NEW o, NEW p, NEW delta, AddObjPolling(o, p, delta) PROVE scenario' = scenario
  BY <1>2 DEF AddObjPolling
<1>3. ASSUME NEW o, RemObjPolling(o) PROVE scenario' = scenario
  BY <1>3 DEF RemObjPolling
<1>4. ASSUME NEW o, NEW p, UpdObjPollingPeriod(o, p) PROVE scenario' = scenario
  BY <1>4 DEF UpdObjPollingPeriod
<1>5. ASSUME NEW o, NEW p, SelfUpdPeriod(o, p) PROVE scenario' = scenario
  BY <1>5 DEF SelfUpdPeriod, SelfExecute
<1>6. ASSUME NEW o, SelfRemObj(o) PROVE scenario' = scenario
  BY <1>6 DEF SelfRemObj, SelfExecute
<1>7. ASSUME NEW d, StopDevicePolling(d) PROVE scenario' = scenario
  BY <1>7 DEF StopDevicePolling
<1>8. CASE StartStop
  BY <1>8 DEF StartStop
<1>9. CASE StartPoll
  BY <1>9 DEF StartPoll
<1>10. ASSUME NEW n, EndPoll(n) PROVE scenario' = scenario
  BY <1>10 DEF EndPoll
<1> QED BY <1>1, <1>2, <1>3, <1>4, <1>5, <1>6, <1>7, <1>8, <1>9, <1>10 DEF WorksNext

(* A step that changes none of the variables. *)
LEMMA WorksStutter ==
    ASSUME WorksInv, UNCHANGED works_vars
    PROVE  WorksInv'
<1>1. /\ scenario' = scenario /\ poll_list' = poll_list /\ works' = works /\ ext_trig_works' = ext_trig_works
      /\ tmp' = tmp /\ rem_upd' = rem_upd /\ auto_upd' = auto_upd /\ now' = now /\ new_upd' = new_upd
      /\ self' = self /\ sleep' = sleep
  BY DEF works_vars
<1>2. WorksTypes'
  BY <1>1 DEF WorksInv, WorksTypes
<1>3. \A o : (Held(o)' <=> Held(o)) /\ (Timed(o)' <=> Timed(o))
  BY <1>1 DEF Held, Timed, Given
<1>4. ListsMatch'
  BY <1>1, <1>3 DEF WorksInv, ListsMatch
<1>5. NoTwins'
  BY <1>1 DEF WorksInv, NoTwins, NewPeriods
<1>6. Idle => Idle'
  BY <1>1 DEF Idle
<1>7. InPoll => InPoll'
  <2>1. Quiet => Quiet'
    BY <1>1, <1>3 DEF Quiet
  <2>2. \A x : (Moved(x) => Moved(x)') /\ (Deferred(x) => Deferred(x)')
    BY <1>1, <1>3 DEF Moved, Deferred
  <2> QED BY <1>1, <1>3, <2>1, <2>2 DEF InPoll
<1> QED BY <1>2, <1>4, <1>5, <1>6, <1>7 DEF WorksInv

(* Invariant: whatever commands arrive, during a poll or between two, the   *)
(* two lists of the polling thread together with the item being polled hold *)
(* every polled object exactly once, with the period its device knows.      *)
THEOREM WorksInvariant == WorksSpec => [](Orderly => WorksInv)
<1>1. WorksInit => (Orderly => WorksInv)
  BY WorksInitInv
<1>2. (Orderly => WorksInv) /\ [WorksNext]_works_vars => (Orderly => WorksInv)'
  <2> SUFFICES ASSUME Orderly => WorksInv, [WorksNext]_works_vars, Orderly' PROVE WorksInv'
    OBVIOUS
  <2>1. Orderly
    BY ScenarioStays DEF Orderly
  <2>2. WorksInv
    BY <2>1
  <2>3. CASE WorksNext
    BY <2>1, <2>2, <2>3, WorksStep
  <2>4. CASE UNCHANGED works_vars
    BY <2>2, <2>4, WorksStutter
  <2> QED BY <2>3, <2>4
<1> QED BY <1>1, <1>2, PTL DEF WorksSpec

-----------------------------------------------------------------------------
(* What the invariant says about the lists. *)

LEMMA InvTypes == ASSUME WorksInv PROVE WorksTypeOK
<1>1. GoodList(works) /\ GoodList(ext_trig_works)
  BY DEF WorksInv, WorksTypes
<1>2. tmp \in WorkItem \cup {NoItem}
  BY DEF WorksInv, Idle, InPoll
<1>3. works \in Seq(WorkItem) /\ ext_trig_works \in Seq(WorkItem) /\ \A i \in DOMAIN works : works[i].name # <<>>
  BY <1>1 DEF GoodList
<1>4. poll_list \in [PollObjs -> Periods \cup {NotPolled}] /\ sleep \in Int \cup {NoSleep}
  BY DEF WorksInv, WorksTypes
<1> QED BY <1>2, <1>3, <1>4 DEF WorksTypeOK

(* No work is left without a name by a removal, and no operation on the     *)
(* lists makes an item of something else.                                   *)
THEOREM WorksAreItems == WorksSpec => [](Orderly => WorksTypeOK)
BY WorksInvariant, InvTypes, PTL

LEMMA OccursOnce ==
    ASSUME NEW ws, GoodList(ws), NEW o \in PollObjs
    PROVE  Occurrences(ws, o) = IF Listed(ws, o) THEN 1 ELSE 0
<1> DEFINE places == UNION {{i} \X DOMAIN ws[i].name : i \in DOMAIN ws}
           S == {p \in places : LET w == ws[p[1]]
                                IN  w.dev = o.dev /\ w.type = o.type /\ w.name[p[2]] = o.name}
<1>1. Occurrences(ws, o) = Cardinality(S)
  BY DEF Occurrences
<1>2. /\ DOMAIN ws = 1 .. Len(ws)
      /\ \A i \in 1 .. Len(ws) : ws[i] \in WorkItem /\ DOMAIN ws[i].name = 1 .. Len(ws[i].name)
  <2>1. ws \in Seq(WorkItem)
    BY DEF GoodList
  <2>2. \A i \in 1 .. Len(ws) : ws[i] \in WorkItem
    BY <2>1
  <2>3. \A w \in WorkItem : DOMAIN w.name = 1 .. Len(w.name)
    BY ItemTypes
  <2> QED BY <2>1, <2>2, <2>3
<1>3. \A p \in S : \E i \in 1 .. Len(ws) : \E k \in 1 .. Len(ws[i].name) : p = <<i, k>> /\ Is(ws[i], k, o)
  BY <1>2 DEF Is
<1>4. \A i \in 1 .. Len(ws) : \A k \in 1 .. Len(ws[i].name) : Is(ws[i], k, o) => <<i, k>> \in S
  BY <1>2 DEF Is
<1> HIDE DEF S
<1>5. CASE ~ Listed(ws, o)
  <2>1. S = {}
    BY <1>2, <1>3, <1>5, PollsPlace DEF Listed
  <2> QED BY <1>1, <1>5, <2>1, FS_EmptySet
<1>6. CASE Listed(ws, o)
  <2>1. PICK i \in 1 .. Len(ws) : Polls(ws[i], o)
    BY <1>6 DEF Listed
  <2>2. PICK k \in 1 .. Len(ws[i].name) : Is(ws[i], k, o)
    BY <1>2, <2>1, PollsPlace
  <2>3. PICK q : q = <<i, k>>
    OBVIOUS
  <2>4. q \in S
    BY <1>4, <2>2, <2>3
  <2>5. \A p \in S : p = q
    BY <1>3, <2>2, <2>3 DEF GoodList
  <2>6. S = {q}
    BY <2>4, <2>5
  <2>7. Cardinality({q}) = 1
    BY FS_Singleton
  <2> QED BY <1>1, <1>6, <2>6, <2>7
<1> QED BY <1>5, <1>6

LEMMA InvMatches == ASSUME WorksInv PROVE WorksMatchPollList
<1> SUFFICES ASSUME tmp = NoItem, NEW o \in PollObjs
             PROVE  /\ Occurrences(works, o) = IF poll_list[o] \in {0, NotPolled} THEN 0 ELSE 1
                    /\ Occurrences(ext_trig_works, o) = IF poll_list[o] = 0 THEN 1 ELSE 0
                    /\ \A i \in DOMAIN works :
                          works[i].name # <<>> /\ (Polls(works[i], o) => works[i].update = poll_list[o])
  BY DEF WorksMatchPollList
<1>1. GoodList(works) /\ GoodList(ext_trig_works)
  BY DEF WorksInv, WorksTypes
<1>2. /\ \A u : InList(works, o, u) <=> Timed(o) /\ u = poll_list[o]
      /\ Listed(ext_trig_works, o) <=> poll_list[o] = 0
  BY DEF WorksInv, ListsMatch, Held
<1>3. Listed(works, o) <=> Timed(o)
  BY <1>2, ListedIn
<1>4. Occurrences(works, o) = IF poll_list[o] \in {0, NotPolled} THEN 0 ELSE 1
  BY <1>1, <1>3, OccursOnce DEF Timed
<1>5. Occurrences(ext_trig_works, o) = IF poll_list[o] = 0 THEN 1 ELSE 0
  BY <1>1, <1>2, OccursOnce
<1>6. DOMAIN works = 1 .. Len(works)
  BY <1>1 DEF GoodList
<1>7. ASSUME NEW i \in DOMAIN works
      PROVE  works[i].name # <<>> /\ (Polls(works[i], o) => works[i].update = poll_list[o])
  BY <1>1, <1>2, <1>6, <1>7 DEF GoodList, InList
<1> QED BY <1>4, <1>5, <1>7

(* Between two polls the lists of the thread say what the devices say       *)
(* (add_obj_polling, upd_obj_polling_period, rem_obj_polling and what a      *)
(* polled object asks for itself), for any number of devices and objects.   *)
THEOREM WorksMatch == WorksSpec => [](Orderly => WorksMatchPollList)
BY WorksInvariant, InvMatches, PTL

LEMMA InvMerged == ASSUME WorksInv PROVE AttributesMerged
<1> SUFFICES ASSUME NewPeriods PROVE AttributesMerged
  BY DEF AttributesMerged
<1>1. works \in Seq(WorkItem) /\ MergedList(works)
  BY DEF WorksInv, WorksTypes, GoodList, NoTwins
<1>2. DOMAIN works = 1 .. Len(works)
  BY <1>1
<1> QED BY <1>1, <1>2 DEF AttributesMerged, MergedList, SameKey

(* add_insert_in_list and the end of a poll keep the attributes of a device *)
(* with one period in one work, if no polled object asks for the period it  *)
(* already has.                                                             *)
THEOREM WorksMerged == WorksSpec => [](Orderly => AttributesMerged)
BY WorksInvariant, InvMerged, PTL

=============================================================================
