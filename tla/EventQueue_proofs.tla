------------------------- MODULE EventQueue_proofs -------------------------
(***************************************************************************)
(* Proofs about the client's event queue, for every size of it and any     *)
(* number of events.  Everything follows from one description of the       *)
(* vector: the events in it are the newest nb_elt ones, and which of them  *)
(* a slot holds is determined by insert_elt, nb_elt and the number of      *)
(* events inserted (EventAt).  The events that have left the vector are    *)
(* then the older ones, and PlacesInv says where they went.                *)
(***************************************************************************)
EXTENDS EventQueue, FiniteSetTheorems, LoopTheorems, TLAPS

IndexInv ==
    /\ max_elt \in Depths
    /\ insert_elt \in Nat /\ nb_elt \in Nat
    /\ inserted \in 0 .. MaxEvents /\ nb_elt <= inserted
    /\ max_elt # 0 => insert_elt < max_elt /\ nb_elt <= max_elt
    /\ max_elt = 0 \/ nb_elt < max_elt => insert_elt = nb_elt

(* The event in the slot of index i: those behind insert_elt are the       *)
(* newest, those from insert_elt on are left from the round before.        *)
EventIn(i, next, n, total) ==
    IF i < next THEN total - next + i + 1
    ELSE IF i < n THEN total - next - n + i + 1
    ELSE Null

EventAt(i) == EventIn(i, insert_elt, nb_elt, inserted)

Size == IF nb_elt = 0 THEN 0 ELSE IF max_elt = 0 THEN nb_elt ELSE max_elt

VectorInv == buffer = [i \in 1 .. Size |-> EventAt(i - 1)]

(* The first m events have left the vector: each of them is with the       *)
(* client, in order, or deleted, once.                                     *)
Has(s, e) == \E i \in DOMAIN s : s[i] = e
Increasing(s) == \A i, j \in DOMAIN s : i < j => s[i] < s[j]
Once(s) == \A i, j \in DOMAIN s : s[i] = s[j] => i = j

Placed(given, dropped, m) ==
    /\ given \in Seq(1 .. m) /\ dropped \in Seq(1 .. m)
    /\ Increasing(given) /\ Once(dropped)
    /\ \A e \in 1 .. m : Has(given, e) <=> ~ Has(dropped, e)

PlacesInv ==
    /\ Placed(delivered, deleted, inserted - nb_elt)
    /\ alive => \A i \in DOMAIN deleted : max_elt # 0 /\ deleted[i] + max_elt <= inserted

OtherTypes ==
    /\ kind \in UsedKinds
    /\ chosen \in Kinds \cup {NoKind}
    /\ alive \in BOOLEAN
    /\ stray \in BOOLEAN

QueueInv == IndexInv /\ VectorInv /\ PlacesInv /\ OtherTypes

-----------------------------------------------------------------------------
(* The vector. *)

(* What the indexes are, without the structure of the constants. *)
LEMMA IndexFacts ==
    ASSUME IndexInv
    PROVE  /\ max_elt \in Nat /\ insert_elt \in Nat /\ nb_elt \in Nat /\ inserted \in Nat
           /\ nb_elt <= inserted /\ inserted <= MaxEvents /\ MaxEvents \in Nat
           /\ max_elt # 0 => insert_elt < max_elt /\ nb_elt <= max_elt
           /\ max_elt = 0 \/ nb_elt < max_elt => insert_elt = nb_elt
           /\ Size \in Nat /\ nb_elt <= Size
BY QueueAssumption DEF IndexInv, Size

(* The slots below nb_elt hold the newest nb_elt events, each one once, in *)
(* the order of SlotOf; the others are empty.                              *)
LEMMA EventAtFacts ==
    ASSUME IndexInv
    PROVE  /\ \A i \in 0 .. nb_elt - 1 : EventAt(i) \in inserted - nb_elt + 1 .. inserted
           /\ \A i, j \in 0 .. nb_elt - 1 : EventAt(i) = EventAt(j) => i = j
           /\ \A i \in 0 .. Size - 1 : i >= nb_elt => EventAt(i) = Null
           /\ \A k \in 1 .. nb_elt : SlotOf(k) \in 0 .. nb_elt - 1 /\ EventAt(SlotOf(k)) = inserted - k + 1
<1>1. /\ max_elt \in Nat /\ insert_elt \in Nat /\ nb_elt \in Nat /\ inserted \in Nat
      /\ nb_elt <= inserted
      /\ max_elt # 0 => insert_elt < max_elt /\ nb_elt <= max_elt
      /\ max_elt = 0 \/ nb_elt < max_elt => insert_elt = nb_elt
      /\ Size \in Nat /\ nb_elt <= Size
  BY IndexFacts
<1>2. insert_elt <= nb_elt
  BY <1>1
<1> QED BY <1>1, <1>2 DEF EventAt, EventIn, SlotOf, Null

(* The vector as the accesses see it. *)
LEMMA VectorFacts ==
    ASSUME IndexInv, VectorInv
    PROVE  /\ buffer \in Seq(0 .. inserted) /\ Len(buffer) = Size /\ DOMAIN buffer = 1 .. Size
           /\ \A i \in 0 .. Size - 1 : buffer[i + 1] = EventAt(i)
           /\ buffer = <<>> <=> nb_elt = 0
<1>1. /\ max_elt \in Nat /\ insert_elt \in Nat /\ nb_elt \in Nat /\ inserted \in Nat
      /\ nb_elt <= inserted
      /\ Size \in Nat /\ nb_elt <= Size
  BY IndexFacts
<1>2. \A i \in 1 .. Size : EventAt(i - 1) \in 0 .. inserted
  <2> TAKE i \in 1 .. Size
  <2>1. i - 1 \in 0 .. Size - 1 /\ (i - 1 \in 0 .. nb_elt - 1 \/ i - 1 >= nb_elt)
    BY <1>1
  <2>2. EventAt(i - 1) = Null \/ EventAt(i - 1) \in inserted - nb_elt + 1 .. inserted
    BY <2>1, EventAtFacts
  <2> QED BY <1>1, <2>2 DEF Null
<1>3. Size = 0 <=> nb_elt = 0
  BY <1>1 DEF Size
<1> HIDE DEF Size
<1>4. buffer \in Seq(0 .. inserted) /\ Len(buffer) = Size /\ DOMAIN buffer = 1 .. Size
  BY <1>1, <1>2 DEF VectorInv
<1>5. \A i \in 0 .. Size - 1 : buffer[i + 1] = EventAt(i)
  <2> TAKE i \in 0 .. Size - 1
  <2>1. i + 1 \in 1 .. Size /\ (i + 1) - 1 = i
    BY <1>1
  <2>2. buffer[i + 1] = EventAt((i + 1) - 1)
    BY <2>1 DEF VectorInv
  <2> QED BY <2>1, <2>2
<1>6. buffer = <<>> <=> Len(buffer) = 0
  BY <1>4
<1> QED BY <1>3, <1>4, <1>5, <1>6

(* The events readers find, the newest first. *)
ContentsInv == Contents = [k \in 1 .. nb_elt |-> inserted - k + 1]

LEMMA ContentsIs == ASSUME IndexInv, VectorInv PROVE ContentsInv
<1>1. nb_elt \in Nat /\ Size \in Nat /\ nb_elt <= Size
  BY IndexFacts
<1>2. ASSUME NEW k \in 1 .. nb_elt PROVE At(kind, SlotOf(k)) = inserted - k + 1
  <2>1. SlotOf(k) \in 0 .. nb_elt - 1 /\ EventAt(SlotOf(k)) = inserted - k + 1
    BY EventAtFacts
  <2>2. SlotOf(k) \in 0 .. Size - 1
    BY <1>1, <2>1
  <2>3. buffer[SlotOf(k) + 1] = EventAt(SlotOf(k))
    BY <2>2, VectorFacts
  <2> QED BY <2>1, <2>3 DEF At, BufferOf
<1> QED BY <1>2 DEF Contents, ContentsInv

-----------------------------------------------------------------------------
(* The reading loop. *)

LEMMA ReadIndexDef ==
    ASSUME IndexInv
    PROVE  /\ ReadIndex[0] = (IF insert_elt = 0 THEN max_elt ELSE insert_elt) - 1
           /\ \A k \in 1 .. nb_elt : ReadIndex[k] = (IF ReadIndex[k - 1] = 0 THEN max_elt ELSE ReadIndex[k - 1]) - 1
<1> DEFINE n == nb_elt
           Turn(i) == (IF i = 0 THEN max_elt ELSE i) - 1
           first == Turn(insert_elt)
           step == [x \in (1 .. n) \X Int |-> Turn(x[2])]
<1>1. n \in Nat /\ max_elt \in Nat /\ insert_elt \in Nat
  BY IndexFacts
<1>2. first \in Int /\ \A i \in Int : Turn(i) \in Int
  BY <1>1
<1> HIDE DEF n, first, Turn
<1>3. step \in Turns(n, Int) /\ \A k \in 1 .. n : \A i \in Int : step[<<k, i>>] = Turn(i)
  BY <1>2 DEF Turns
<1> HIDE DEF step
<1>4. \E f : IsLoop(n, Int, first, step, f)
  BY <1>1, <1>2, <1>3, LoopExists
<1>5. PICK f \in [0 .. n -> Int] : f[0] = first /\ \A k \in 1 .. n : f[k] = step[<<k, f[k - 1]>>]
  BY <1>4 DEF IsLoop
<1>6. \A k \in 1 .. n : k - 1 \in 0 .. n /\ f[k - 1] \in Int
  BY <1>1, <1>5
<1>7. \A k \in 1 .. n : f[k] = Turn(f[k - 1])
  BY <1>3, <1>5, <1>6
<1>8. f = [k \in 0 .. n |-> Turn(IF k = 0 THEN insert_elt ELSE f[k - 1])]
  <2>1. ASSUME NEW k \in 0 .. n PROVE f[k] = Turn(IF k = 0 THEN insert_elt ELSE f[k - 1])
    <3>1. CASE k = 0
      BY <1>5, <3>1 DEF first
    <3>2. CASE k # 0
      <4>1. k \in 1 .. n
        BY <1>1, <3>2
      <4> QED BY <1>7, <3>2, <4>1
    <3> QED BY <3>1, <3>2
  <2> QED BY <1>5, <2>1
<1>9. ReadIndex = [k \in 0 .. n |-> Turn(IF k = 0 THEN insert_elt ELSE ReadIndex[k - 1])]
  BY <1>8 DEF ReadIndex, n, Turn
<1> HIDE DEF ReadIndex
<1>10. ReadIndex[0] = first /\ \A k \in 1 .. n : ReadIndex[k] = Turn(ReadIndex[k - 1])
  BY <1>1, <1>9 DEF first
<1> QED BY <1>10 DEF n, first, Turn

(* After k turns the loop is at the slot of the event inserted k events    *)
(* before the last, whether or not the ring wraps on the way.              *)
LEMMA ReadIndexIs ==
    ASSUME IndexInv
    PROVE  \A k \in 0 .. nb_elt - 1 : ReadIndex[k] = SlotOf(k + 1)
<1> DEFINE n == nb_elt - 1
           G == {k \in 0 .. n : ReadIndex[k] = SlotOf(k + 1)}
<1>1. /\ max_elt \in Nat /\ insert_elt \in Nat /\ nb_elt \in Nat
      /\ max_elt # 0 => insert_elt < max_elt /\ nb_elt <= max_elt
      /\ max_elt = 0 \/ nb_elt < max_elt => insert_elt = nb_elt
  BY IndexFacts
<1>2. CASE nb_elt = 0
  BY <1>2
<1>3. CASE nb_elt # 0
  <2>1. n \in Nat
    BY <1>1, <1>3
  <2>2. 0 \in G
    <3>1. ReadIndex[0] = (IF insert_elt = 0 THEN max_elt ELSE insert_elt) - 1
      BY ReadIndexDef
    <3>2. ReadIndex[0] = SlotOf(0 + 1)
      BY <1>1, <1>3, <3>1 DEF SlotOf
    <3> QED BY <2>1, <3>2
  <2>3. ASSUME NEW m \in 1 .. n, m - 1 \in G PROVE m \in G
    <3>1. ReadIndex[m - 1] = SlotOf((m - 1) + 1)
      BY <2>3
    <3>2. m \in 1 .. nb_elt /\ m \in 0 .. n /\ (m - 1) + 1 = m
      BY <1>1, <1>3
    <3>3. ReadIndex[m] = (IF ReadIndex[m - 1] = 0 THEN max_elt ELSE ReadIndex[m - 1]) - 1
      BY <3>2, ReadIndexDef
    <3>4. ReadIndex[m] = (IF SlotOf(m) = 0 THEN max_elt ELSE SlotOf(m)) - 1
      BY <3>1, <3>2, <3>3
    <3>5. ReadIndex[m] = SlotOf(m + 1)
      BY <1>1, <1>3, <3>2, <3>4 DEF SlotOf
    <3> QED BY <3>2, <3>5
  <2> HIDE DEF G
  <2>4. 0 .. n \subseteq G
    BY <2>1, <2>2, <2>3, UpTo
  <2> QED BY <2>4 DEF G
<1> QED BY <1>2, <1>3

(* The events in the vector, the oldest first. *)
Held == [j \in 1 .. nb_elt |-> inserted - nb_elt + j]

Empties == insert_elt' = 0 /\ nb_elt' = 0 /\ buffer' = <<>>

(* An extraction either leaves the process in an unknown state or hands    *)
(* out all the events of the vector, the oldest first, and empties it.     *)
LEMMA ExtractEffect ==
    ASSUME IndexInv, VectorInv, NEW k, Extract(k)
    PROVE  \/ /\ stray' = TRUE
              /\ UNCHANGED <<delivered, insert_elt, nb_elt, buffer>>
           \/ /\ delivered' = delivered \o Held
              /\ Empties
              /\ UNCHANGED stray
<1>1. nb_elt \in Nat /\ Size \in Nat /\ nb_elt <= Size /\ inserted \in Nat
  BY IndexFacts
<1>2. CASE ~ \A j \in 0 .. nb_elt - 1 : InVector(k, ReadIndex[j])
  BY <1>2 DEF Extract
<1>3. CASE \A j \in 0 .. nb_elt - 1 : InVector(k, ReadIndex[j])
  <2>1. delivered' = delivered \o EventList(k) /\ EmptyQueue(k) /\ UNCHANGED stray
    BY <1>3 DEF Extract
  <2>2. nb_elt = 0 \/ k = kind
    <3>1. SUFFICES ASSUME nb_elt # 0 PROVE k = kind
      OBVIOUS
    <3>2. InVector(k, ReadIndex[0])
      BY <1>1, <1>3, <3>1
    <3> QED BY <3>2 DEF InVector, BufferOf
  <2>3. Empties
    <3>1. nb_elt = 0 => buffer = <<>>
      BY VectorFacts
    <3> QED BY <2>1, <2>2, <3>1 DEF EmptyQueue, Empties
  <2>4. EventList(k) = Held
    <3>1. ASSUME NEW j \in 1 .. nb_elt PROVE At(k, ReadIndex[nb_elt - j]) = inserted - nb_elt + j
      <4>1. nb_elt - j \in 0 .. nb_elt - 1 /\ nb_elt - j + 1 \in 1 .. nb_elt
        BY <1>1
      <4>2. ReadIndex[nb_elt - j] = SlotOf(nb_elt - j + 1)
        BY <4>1, ReadIndexIs
      <4>3. /\ SlotOf(nb_elt - j + 1) \in 0 .. nb_elt - 1
            /\ EventAt(SlotOf(nb_elt - j + 1)) = inserted - (nb_elt - j + 1) + 1
        BY <4>1, EventAtFacts
      <4>4. SlotOf(nb_elt - j + 1) \in 0 .. Size - 1
        BY <1>1, <4>3
      <4>5. buffer[SlotOf(nb_elt - j + 1) + 1] = EventAt(SlotOf(nb_elt - j + 1))
        BY <4>4, VectorFacts
      <4>6. At(k, ReadIndex[nb_elt - j]) = buffer[SlotOf(nb_elt - j + 1) + 1]
        BY <2>2, <4>2, <1>1 DEF At, BufferOf
      <4> QED BY <1>1, <4>3, <4>5, <4>6
    <3> QED BY <3>1 DEF EventList, Held
  <2> QED BY <2>1, <2>3, <2>4
<1> QED BY <1>2, <1>3

(* The destructor does the same with the events it deletes. *)
LEMMA DeleteEffect ==
    ASSUME IndexInv, VectorInv, Delete
    PROVE  \/ /\ stray' = TRUE
              /\ UNCHANGED <<deleted, insert_elt, nb_elt, buffer, alive>>
           \/ /\ deleted' = deleted \o [i \in 1 .. nb_elt |-> EventAt(i - 1)]
              /\ Empties
              /\ alive' = FALSE
              /\ UNCHANGED stray
<1>1. nb_elt \in Nat /\ Size \in Nat /\ nb_elt <= Size
  BY IndexFacts
<1>2. CASE ~ \A i \in 0 .. nb_elt - 1 : InVector(DeletedKind, i)
  BY <1>2 DEF Delete
<1>3. CASE \A i \in 0 .. nb_elt - 1 : InVector(DeletedKind, i)
  <2>1. deleted' = deleted \o DeletedEvents /\ EmptyQueue(kind) /\ alive' = FALSE /\ UNCHANGED stray
    BY <1>3 DEF Delete
  <2>2. Empties
    BY <2>1 DEF EmptyQueue, Empties
  <2>3. nb_elt = 0 \/ DeletedKind = kind
    <3>1. SUFFICES ASSUME nb_elt # 0 PROVE DeletedKind = kind
      OBVIOUS
    <3>2. InVector(DeletedKind, 0)
      BY <1>1, <1>3, <3>1
    <3> QED BY <3>2 DEF InVector, BufferOf
  <2>4. BufferOf(DeletedKind) = buffer
    <3>1. nb_elt = 0 => buffer = <<>>
      BY VectorFacts
    <3> QED BY <2>3, <3>1 DEF BufferOf
  <2>5. DeletedEvents = SubSeq(buffer, 1, nb_elt)
    BY <2>4 DEF DeletedEvents
  <2>6. buffer \in Seq(0 .. inserted) /\ Len(buffer) = Size /\ \A i \in 0 .. Size - 1 : buffer[i + 1] = EventAt(i)
    BY VectorFacts
  <2>7. ASSUME NEW i \in 1 .. nb_elt PROVE buffer[i] = EventAt(i - 1)
    <3>1. i - 1 \in 0 .. Size - 1 /\ (i - 1) + 1 = i
      BY <1>1
    <3> QED BY <2>6, <3>1
  <2>8. SubSeq(buffer, 1, nb_elt) = [i \in 1 .. nb_elt |-> buffer[i]]
    BY <1>1, <2>6
  <2>9. DeletedEvents = [i \in 1 .. nb_elt |-> EventAt(i - 1)]
    BY <2>5, <2>7, <2>8
  <2> QED BY <2>1, <2>2, <2>9
<1> QED BY <1>2, <1>3

-----------------------------------------------------------------------------
(* An insertion. *)

Full == max_elt # 0 /\ nb_elt = max_elt

LEMMA InsertIndexes ==
    ASSUME IndexInv, InsertEvent
    PROVE  /\ IndexInv'
           /\ inserted' = inserted + 1 /\ max_elt' = max_elt
           /\ nb_elt' = IF Full THEN nb_elt ELSE nb_elt + 1
           /\ insert_elt' = IF max_elt # 0 /\ insert_elt + 1 = max_elt THEN 0 ELSE insert_elt + 1
           /\ Size' = IF max_elt = 0 THEN nb_elt + 1 ELSE max_elt
<1>1. /\ max_elt \in Nat /\ insert_elt \in Nat /\ nb_elt \in Nat /\ inserted \in Nat
      /\ nb_elt <= inserted /\ inserted <= MaxEvents /\ MaxEvents \in Nat
      /\ max_elt # 0 => insert_elt < max_elt /\ nb_elt <= max_elt
      /\ max_elt = 0 \/ nb_elt < max_elt => insert_elt = nb_elt
  BY IndexFacts
<1>2. /\ inserted < MaxEvents /\ inserted' = inserted + 1 /\ max_elt' = max_elt
      /\ insert_elt' = IF max_elt # 0 /\ insert_elt + 1 = max_elt THEN 0 ELSE insert_elt + 1
      /\ nb_elt' = IF max_elt = 0 \/ nb_elt # max_elt THEN nb_elt + 1 ELSE nb_elt
  BY DEF InsertEvent, IncIndexes
<1>3. nb_elt' = IF Full THEN nb_elt ELSE nb_elt + 1
  BY <1>1, <1>2 DEF Full
<1>4. max_elt \in Depths
  BY DEF IndexInv
<1>5. IndexInv'
  BY <1>1, <1>2, <1>4 DEF IndexInv
<1> QED BY <1>1, <1>2, <1>3, <1>5 DEF Size, Full

(* The slots after it. *)
EventAfter(i) == EventIn(i, insert_elt', nb_elt', inserted')

(* The vector after it: the new event is in the slot of insert_elt, the    *)
(* other slots are as before.                                              *)
LEMMA InsertSlots ==
    ASSUME IndexInv, InsertEvent
    PROVE  /\ EventAfter(insert_elt) = inserted + 1
           /\ \A i \in 0 .. Size' - 1 : i # insert_elt => EventAfter(i) = EventAt(i)
           /\ EventAt(insert_elt) = IF Full THEN inserted - max_elt + 1 ELSE Null
<1>1. /\ max_elt \in Nat /\ insert_elt \in Nat /\ nb_elt \in Nat /\ inserted \in Nat
      /\ max_elt # 0 => insert_elt < max_elt /\ nb_elt <= max_elt
      /\ max_elt = 0 \/ nb_elt < max_elt => insert_elt = nb_elt
  BY IndexFacts
<1>2. /\ inserted' = inserted + 1 /\ max_elt' = max_elt
      /\ nb_elt' = IF Full THEN nb_elt ELSE nb_elt + 1
      /\ insert_elt' = IF max_elt # 0 /\ insert_elt + 1 = max_elt THEN 0 ELSE insert_elt + 1
      /\ Size' = IF max_elt = 0 THEN nb_elt + 1 ELSE max_elt
  BY InsertIndexes
<1>3. EventAt(insert_elt) = IF Full THEN inserted - max_elt + 1 ELSE Null
  BY <1>1 DEF EventAt, EventIn, Full, Null
<1>4. EventAfter(insert_elt) = inserted + 1
  BY <1>1, <1>2 DEF EventAfter, EventIn, Full, Null
<1>5. \A i \in 0 .. Size' - 1 : i # insert_elt => EventAfter(i) = EventAt(i)
  BY <1>1, <1>2 DEF EventAfter, EventAt, EventIn, Full, Null
<1> QED BY <1>3, <1>4, <1>5

LEMMA InsertVector ==
    ASSUME IndexInv, VectorInv, InsertEvent
    PROVE  VectorInv' /\ deleted' = deleted \o IF Full THEN <<inserted - max_elt + 1>> ELSE <<>>
<1>1. /\ max_elt \in Nat /\ insert_elt \in Nat /\ nb_elt \in Nat /\ inserted \in Nat
      /\ max_elt # 0 => insert_elt < max_elt /\ nb_elt <= max_elt
      /\ max_elt = 0 \/ nb_elt < max_elt => insert_elt = nb_elt
      /\ Size \in Nat /\ nb_elt <= inserted
  BY IndexFacts
<1>2. /\ Size' = IF max_elt = 0 THEN nb_elt + 1 ELSE max_elt
      /\ EventAfter(insert_elt) = inserted + 1
      /\ \A i \in 0 .. Size' - 1 : i # insert_elt => EventAfter(i) = EventAt(i)
      /\ EventAt(insert_elt) = IF Full THEN inserted - max_elt + 1 ELSE Null
  BY InsertIndexes, InsertSlots
<1>3. /\ buffer \in Seq(0 .. inserted) /\ Len(buffer) = Size /\ DOMAIN buffer = 1 .. Size
      /\ \A i \in 0 .. Size - 1 : buffer[i + 1] = EventAt(i)
      /\ buffer = <<>> <=> nb_elt = 0
  BY VectorFacts
<1>4. SUFFICES /\ buffer' = [i \in 1 .. Size' |-> EventAfter(i - 1)]
               /\ Overwritten = IF Full THEN <<inserted - max_elt + 1>> ELSE <<>>
  BY DEF VectorInv, InsertEvent, EventAt, EventAfter
<1>5. CASE max_elt = 0
  <2>1. buffer' = Append(buffer, inserted + 1) /\ Size = nb_elt /\ insert_elt = nb_elt
    BY <1>1, <1>5 DEF InsertEvent, Size
  <2>2. DOMAIN buffer' = 1 .. nb_elt + 1 /\ buffer'[nb_elt + 1] = inserted + 1
        /\ \A i \in 1 .. nb_elt : buffer'[i] = buffer[i]
    BY <1>3, <2>1
  <2>3. ASSUME NEW i \in 1 .. nb_elt + 1 PROVE buffer'[i] = EventAfter(i - 1)
    <3>1. CASE i = nb_elt + 1
      <4>1. i - 1 = insert_elt
        BY <1>1, <2>1, <3>1
      <4>2. EventAfter(i - 1) = EventAfter(insert_elt)
        BY <4>1
      <4> QED BY <1>2, <2>2, <3>1, <4>2
    <3>2. CASE i # nb_elt + 1
      <4>1. i \in 1 .. nb_elt /\ i - 1 \in 0 .. Size' - 1 /\ i - 1 # insert_elt
            /\ i - 1 \in 0 .. Size - 1 /\ (i - 1) + 1 = i
        BY <1>1, <1>2, <1>5, <2>1, <3>2
      <4>2. buffer[i] = EventAt(i - 1)
        BY <1>3, <4>1
      <4> QED BY <1>2, <2>2, <4>1, <4>2
    <3> QED BY <3>1, <3>2
  <2>4. Size' = nb_elt + 1
    BY <1>2, <1>5
  <2>5. buffer' = [i \in 1 .. nb_elt + 1 |-> buffer'[i]]
    BY <1>3, <2>1, <2>2
  <2>6. buffer' = [i \in 1 .. Size' |-> EventAfter(i - 1)]
    BY <2>3, <2>4, <2>5
  <2> QED BY <1>5, <2>6 DEF Overwritten, Full
<1>6. CASE max_elt # 0
  <2> DEFINE a == Allocated
  <2>1. DOMAIN a = 1 .. max_elt /\ \A i \in 1 .. max_elt : a[i] = EventAt(i - 1)
    <3>1. CASE buffer = <<>>
      <4>1. a = [i \in 1 .. max_elt |-> Null]
        BY <3>1 DEF Allocated
      <4>2. nb_elt = 0 /\ insert_elt = 0
        BY <1>1, <1>3, <1>6, <3>1
      <4>3. \A i \in 1 .. max_elt : EventAt(i - 1) = Null
        BY <1>1, <4>2 DEF EventAt, EventIn
      <4> QED BY <4>1, <4>3
    <3>2. CASE buffer # <<>>
      <4>1. a = buffer /\ Size = max_elt
        BY <1>1, <1>3, <1>6, <3>2 DEF Allocated, Size
      <4>2. ASSUME NEW i \in 1 .. max_elt PROVE buffer[i] = EventAt(i - 1)
        <5>1. i - 1 \in 0 .. Size - 1 /\ (i - 1) + 1 = i
          BY <1>1, <4>1
        <5> QED BY <1>3, <5>1
      <4> QED BY <1>3, <4>1, <4>2
    <3> QED BY <3>1, <3>2
  <2>2. buffer' = [a EXCEPT ![insert_elt + 1] = inserted + 1]
    BY <1>6 DEF InsertEvent
  <2>3. Overwritten = IF a[insert_elt + 1] = Null THEN <<>> ELSE <<a[insert_elt + 1]>>
    BY <1>6 DEF Overwritten
  <2> HIDE DEF a
  <2>4. insert_elt + 1 \in 1 .. max_elt /\ (insert_elt + 1) - 1 = insert_elt
    BY <1>1, <1>6
  <2>5. a[insert_elt + 1] = EventAt(insert_elt)
    BY <2>1, <2>4
  <2>6. Overwritten = IF Full THEN <<inserted - max_elt + 1>> ELSE <<>>
    <3>1. Full => inserted - max_elt + 1 # Null
      BY <1>1 DEF Full, Null
    <3> QED BY <1>2, <2>3, <2>5, <3>1
  <2>7. Size' = max_elt
    BY <1>2, <1>6
  <2>8. ASSUME NEW i \in 1 .. max_elt PROVE buffer'[i] = EventAfter(i - 1)
    <3>1. CASE i = insert_elt + 1
      <4>1. i - 1 = insert_elt
        BY <2>4, <3>1
      <4>2. EventAfter(i - 1) = EventAfter(insert_elt)
        BY <4>1
      <4> QED BY <1>2, <2>1, <2>2, <2>4, <3>1, <4>2
    <3>2. CASE i # insert_elt + 1
      <4>1. i - 1 \in 0 .. Size' - 1 /\ i - 1 # insert_elt
        BY <1>1, <2>7, <3>2
      <4>2. buffer'[i] = a[i]
        BY <2>1, <2>2, <3>2
      <4> QED BY <1>2, <2>1, <4>1, <4>2
    <3> QED BY <3>1, <3>2
  <2>9. buffer' = [i \in 1 .. max_elt |-> buffer'[i]]
    BY <2>1, <2>2
  <2>10. buffer' = [i \in 1 .. Size' |-> EventAfter(i - 1)]
    BY <2>7, <2>8, <2>9
  <2> QED BY <2>6, <2>10
<1> QED BY <1>5, <1>6

-----------------------------------------------------------------------------
(* Where the events go. *)

LEMMA ConcatFacts ==
    ASSUME NEW S, NEW s \in Seq(S), NEW t \in Seq(S)
    PROVE  /\ s \o t \in Seq(S) /\ DOMAIN (s \o t) = 1 .. Len(s) + Len(t)
           /\ Len(s) \in Nat /\ Len(t) \in Nat /\ DOMAIN s = 1 .. Len(s) /\ DOMAIN t = 1 .. Len(t)
           /\ \A i \in 1 .. Len(s) : (s \o t)[i] = s[i]
           /\ \A i \in Len(s) + 1 .. Len(s) + Len(t) : (s \o t)[i] = t[i - Len(s)]
           /\ \A e : Has(s \o t, e) <=> Has(s, e) \/ Has(t, e)
<1> DEFINE u == s \o t
           a == Len(s)
           b == Len(t)
<1>1. /\ u \in Seq(S) /\ DOMAIN u = 1 .. a + b
      /\ a \in Nat /\ b \in Nat /\ DOMAIN s = 1 .. a /\ DOMAIN t = 1 .. b
      /\ \A i \in 1 .. a : u[i] = s[i]
      /\ \A i \in a + 1 .. a + b : u[i] = t[i - a]
  OBVIOUS
<1> HIDE DEF u, a, b
<1>2. ASSUME NEW e, Has(u, e) PROVE Has(s, e) \/ Has(t, e)
  <2>1. PICK i \in 1 .. a + b : u[i] = e
    BY <1>1, <1>2 DEF Has
  <2>2. CASE i \in 1 .. a
    BY <1>1, <2>1, <2>2 DEF Has
  <2>3. CASE i \in a + 1 .. a + b
    <3>1. i - a \in 1 .. b
      BY <1>1, <2>3
    <3> QED BY <1>1, <2>1, <2>3, <3>1 DEF Has
  <2> QED BY <1>1, <2>2, <2>3
<1>3. ASSUME NEW e, Has(s, e) PROVE Has(u, e)
  <2>1. PICK i \in 1 .. a : s[i] = e
    BY <1>1, <1>3 DEF Has
  <2>2. i \in 1 .. a + b
    BY <1>1
  <2> QED BY <1>1, <2>1, <2>2 DEF Has
<1>4. ASSUME NEW e, Has(t, e) PROVE Has(u, e)
  <2>1. PICK i \in 1 .. b : t[i] = e
    BY <1>1, <1>4 DEF Has
  <2>2. i + a \in 1 .. a + b /\ i + a \in a + 1 .. a + b /\ (i + a) - a = i
    BY <1>1
  <2>3. u[i + a] = e
    BY <1>1, <2>1, <2>2
  <2> QED BY <1>1, <2>2, <2>3 DEF Has
<1> QED BY <1>1, <1>2, <1>3, <1>4 DEF u, a, b

(* A sequence of the n events after the first m, each one once. *)
Batch(t, m, n) ==
    /\ t \in Seq(m + 1 .. m + n) /\ Once(t)
    /\ \A e \in m + 1 .. m + n : Has(t, e)

LEMMA SeqSubset == ASSUME NEW A, NEW B, A \subseteq B, NEW s \in Seq(A) PROVE s \in Seq(B)
<1>1. \A i \in DOMAIN s : s[i] \in A
  OBVIOUS
<1> QED BY <1>1

LEMMA Bounded ==
    ASSUME NEW m \in Nat, NEW n \in Nat, NEW s \in Seq(1 .. m)
    PROVE  s \in Seq(1 .. m + n) /\ \A e \in m + 1 .. m + n : ~ Has(s, e)
<1>1. 1 .. m \subseteq 1 .. m + n
  OBVIOUS
<1>2. \A i \in DOMAIN s : s[i] \in 1 .. m
  OBVIOUS
<1>3. s \in Seq(1 .. m + n)
  BY <1>1, SeqSubset
<1> QED BY <1>2, <1>3 DEF Has

LEMMA BatchBounded ==
    ASSUME NEW m \in Nat, NEW n \in Nat, NEW t, Batch(t, m, n)
    PROVE  /\ t \in Seq(1 .. m + n) /\ \A e \in 1 .. m : ~ Has(t, e)
           /\ \A i \in DOMAIN t : t[i] \in m + 1 .. m + n
<1>1. m + 1 .. m + n \subseteq 1 .. m + n
  OBVIOUS
<1>2. t \in Seq(m + 1 .. m + n)
  BY DEF Batch
<1>3. \A i \in DOMAIN t : t[i] \in m + 1 .. m + n
  BY <1>2
<1>4. t \in Seq(1 .. m + n)
  BY <1>1, <1>2, SeqSubset
<1> QED BY <1>3, <1>4 DEF Has

(* The queue deletes the next events. *)
LEMMA Drop ==
    ASSUME NEW m \in Nat, NEW n \in Nat, NEW given, NEW dropped, NEW t,
           Placed(given, dropped, m), Batch(t, m, n)
    PROVE  Placed(given, dropped \o t, m + n)
<1>1. given \in Seq(1 .. m) /\ dropped \in Seq(1 .. m)
  BY DEF Placed
<1>2. /\ given \in Seq(1 .. m + n) /\ \A e \in m + 1 .. m + n : ~ Has(given, e)
      /\ dropped \in Seq(1 .. m + n) /\ \A e \in m + 1 .. m + n : ~ Has(dropped, e)
  BY <1>1, Bounded
<1>3. /\ t \in Seq(1 .. m + n) /\ \A e \in 1 .. m : ~ Has(t, e)
      /\ \A i \in DOMAIN t : t[i] \in m + 1 .. m + n
  BY BatchBounded
<1> DEFINE u == dropped \o t
           a == Len(dropped)
           b == Len(t)
<1>4. /\ u \in Seq(1 .. m + n) /\ DOMAIN u = 1 .. a + b
      /\ a \in Nat /\ b \in Nat /\ DOMAIN dropped = 1 .. a /\ DOMAIN t = 1 .. b
      /\ \A i \in 1 .. a : u[i] = dropped[i]
      /\ \A i \in a + 1 .. a + b : u[i] = t[i - a]
      /\ \A e : Has(u, e) <=> Has(dropped, e) \/ Has(t, e)
  BY <1>2, <1>3, ConcatFacts
<1> HIDE DEF u, a, b
<1>5. Once(u)
  <2>1. \A i \in 1 .. a : u[i] \in 1 .. m
    BY <1>1, <1>4
  <2>2. ASSUME NEW i \in a + 1 .. a + b PROVE i - a \in 1 .. b /\ u[i] \in m + 1 .. m + n
    <3>1. i - a \in 1 .. b
      BY <1>4
    <3>2. t[i - a] \in m + 1 .. m + n
      BY <1>3, <1>4, <3>1
    <3> QED BY <1>4, <3>1, <3>2
  <2>3. \A i, j \in 1 .. a : dropped[i] = dropped[j] => i = j
    BY <1>4 DEF Placed, Once
  <2>4. \A i, j \in 1 .. b : t[i] = t[j] => i = j
    BY <1>4 DEF Batch, Once
  <2>5. SUFFICES ASSUME NEW i \in 1 .. a + b, NEW j \in 1 .. a + b, u[i] = u[j] PROVE i = j
    BY <1>4 DEF Once
  <2>6. CASE i \in 1 .. a /\ j \in 1 .. a
    BY <1>4, <2>3, <2>5, <2>6
  <2>7. CASE i \in a + 1 .. a + b /\ j \in a + 1 .. a + b
    <3>1. i - a \in 1 .. b /\ j - a \in 1 .. b /\ t[i - a] = t[j - a]
      BY <1>4, <2>2, <2>5, <2>7
    <3>2. i - a = j - a
      BY <2>4, <3>1
    <3> QED BY <1>4, <3>2
  <2>8. CASE (i \in 1 .. a /\ j \in a + 1 .. a + b) \/ (j \in 1 .. a /\ i \in a + 1 .. a + b)
    BY <2>1, <2>2, <2>5, <2>8
  <2>9. /\ i \in 1 .. a \/ i \in a + 1 .. a + b
        /\ j \in 1 .. a \/ j \in a + 1 .. a + b
    BY <1>4
  <2> QED BY <2>6, <2>7, <2>8, <2>9
<1>6. ASSUME NEW e \in 1 .. m + n PROVE Has(given, e) <=> ~ Has(u, e)
  <2>1. CASE e \in 1 .. m
    <3>1. Has(given, e) <=> ~ Has(dropped, e)
      BY <2>1 DEF Placed
    <3> QED BY <1>3, <1>4, <2>1, <3>1
  <2>2. CASE e \in m + 1 .. m + n
    <3>1. Has(t, e)
      BY <2>2 DEF Batch
    <3> QED BY <1>2, <1>4, <2>2, <3>1
  <2> QED BY <2>1, <2>2
<1>7. Increasing(given)
  BY DEF Placed
<1> QED BY <1>2, <1>4, <1>5, <1>6, <1>7 DEF Placed, u

(* The client gets the next events, in order. *)
LEMMA Give ==
    ASSUME NEW m \in Nat, NEW n \in Nat, NEW given, NEW dropped,
           Placed(given, dropped, m)
    PROVE  Placed(given \o [j \in 1 .. n |-> m + j], dropped, m + n)
<1> DEFINE t == [j \in 1 .. n |-> m + j]
<1>0. /\ t \in Seq(m + 1 .. m + n) /\ DOMAIN t = 1 .. n /\ Len(t) = n
      /\ \A j \in 1 .. n : t[j] = m + j
  OBVIOUS
<1> HIDE DEF t
<1>1. given \in Seq(1 .. m) /\ dropped \in Seq(1 .. m)
  BY DEF Placed
<1>2. /\ given \in Seq(1 .. m + n) /\ \A e \in m + 1 .. m + n : ~ Has(given, e)
      /\ dropped \in Seq(1 .. m + n) /\ \A e \in m + 1 .. m + n : ~ Has(dropped, e)
  BY <1>1, Bounded
<1>3. Batch(t, m, n)
  <2>1. Once(t)
    BY <1>0 DEF Once
  <2>2. ASSUME NEW e \in m + 1 .. m + n PROVE Has(t, e)
    <3>1. e - m \in 1 .. n /\ m + (e - m) = e
      OBVIOUS
    <3> QED BY <1>0, <3>1 DEF Has
  <2> QED BY <1>0, <2>1, <2>2 DEF Batch
<1>4. /\ t \in Seq(1 .. m + n) /\ \A e \in 1 .. m : ~ Has(t, e)
  BY <1>3, BatchBounded
<1> DEFINE u == given \o t
           a == Len(given)
           b == Len(t)
<1>5. /\ u \in Seq(1 .. m + n) /\ DOMAIN u = 1 .. a + b
      /\ a \in Nat /\ DOMAIN given = 1 .. a
      /\ \A i \in 1 .. a : u[i] = given[i]
      /\ \A i \in a + 1 .. a + b : u[i] = t[i - a]
      /\ \A e : Has(u, e) <=> Has(given, e) \/ Has(t, e)
  BY <1>2, <1>4, ConcatFacts
<1>6. /\ u \in Seq(1 .. m + n) /\ DOMAIN u = 1 .. a + n
      /\ a \in Nat /\ DOMAIN given = 1 .. a
      /\ \A i \in 1 .. a : u[i] = given[i]
      /\ \A i \in a + 1 .. a + n : u[i] = t[i - a]
      /\ \A e : Has(u, e) <=> Has(given, e) \/ Has(t, e)
  BY <1>0, <1>5
<1> HIDE DEF u, a
<1>7. Increasing(u)
  <2>1. \A i \in 1 .. a : u[i] \in 1 .. m
    BY <1>1, <1>6
  <2>2. \A i \in a + 1 .. a + n : u[i] = m + (i - a)
    BY <1>0, <1>6
  <2>3. \A i, j \in 1 .. a : i < j => given[i] < given[j]
    BY <1>6 DEF Placed, Increasing
  <2>4. SUFFICES ASSUME NEW i \in 1 .. a + n, NEW j \in 1 .. a + n, i < j PROVE u[i] < u[j]
    BY <1>6 DEF Increasing
  <2>5. CASE j \in 1 .. a
    <3>1. i \in 1 .. a
      BY <1>6, <2>4, <2>5
    <3> QED BY <1>6, <2>3, <2>4, <2>5, <3>1
  <2>6. CASE j \in a + 1 .. a + n
    <3>1. i \in 1 .. a \/ i \in a + 1 .. a + n
      BY <1>6
    <3>2. CASE i \in 1 .. a
      BY <1>6, <2>1, <2>2, <2>6, <3>2
    <3>3. CASE i \in a + 1 .. a + n
      BY <1>6, <2>2, <2>4, <2>6, <3>3
    <3> QED BY <3>1, <3>2, <3>3
  <2> QED BY <1>6, <2>5, <2>6
<1>8. ASSUME NEW e \in 1 .. m + n PROVE Has(u, e) <=> ~ Has(dropped, e)
  <2>1. CASE e \in 1 .. m
    <3>1. Has(given, e) <=> ~ Has(dropped, e)
      BY <2>1 DEF Placed
    <3> QED BY <1>4, <1>6, <2>1, <3>1
  <2>2. CASE e \in m + 1 .. m + n
    <3>1. Has(t, e)
      BY <1>3, <2>2 DEF Batch
    <3> QED BY <1>2, <1>6, <2>2, <3>1
  <2> QED BY <2>1, <2>2
<1>9. Once(dropped)
  BY DEF Placed
<1> QED BY <1>2, <1>6, <1>7, <1>8, <1>9 DEF Placed, u, t

-----------------------------------------------------------------------------
(* QueueInv is inductive. *)

LEMMA QueueInit == Init => QueueInv
<1> SUFFICES ASSUME Init PROVE QueueInv
  OBVIOUS
<1>1. IndexInv
  BY QueueAssumption DEF Init, IndexInv
<1>2. VectorInv
  BY DEF Init, VectorInv, Size
<1>3. PlacesInv
  <2>1. delivered = <<>> /\ deleted = <<>> /\ inserted - nb_elt = 0
    BY DEF Init
  <2>2. Placed(<<>>, <<>>, 0)
    BY DEF Placed, Increasing, Once, Has
  <2> QED BY <2>1, <2>2 DEF PlacesInv
<1>4. OtherTypes
  BY DEF Init, OtherTypes
<1> QED BY <1>1, <1>2, <1>3, <1>4 DEF QueueInv

(* The events of the vector, in the order of its slots. *)
LEMMA VectorBatch ==
    ASSUME IndexInv
    PROVE  Batch([i \in 1 .. nb_elt |-> EventAt(i - 1)], inserted - nb_elt, nb_elt)
<1> DEFINE t == [i \in 1 .. nb_elt |-> EventAt(i - 1)]
           m == inserted - nb_elt
<1>1. nb_elt \in Nat /\ inserted \in Nat /\ nb_elt <= inserted
  BY IndexFacts
<1>2. m \in Nat /\ m + nb_elt = inserted
  BY <1>1
<1>3. ASSUME NEW i \in 1 .. nb_elt PROVE t[i] = EventAt(i - 1) /\ t[i] \in m + 1 .. m + nb_elt
  <2>1. i - 1 \in 0 .. nb_elt - 1
    BY <1>1
  <2> QED BY <1>1, <1>2, <2>1, EventAtFacts
<1>4. t \in Seq(m + 1 .. m + nb_elt) /\ DOMAIN t = 1 .. nb_elt
  BY <1>1, <1>3
<1> HIDE DEF t
<1>5. Once(t)
  <2>1. SUFFICES ASSUME NEW i \in 1 .. nb_elt, NEW j \in 1 .. nb_elt, t[i] = t[j] PROVE i = j
    BY <1>4 DEF Once
  <2>2. i - 1 \in 0 .. nb_elt - 1 /\ j - 1 \in 0 .. nb_elt - 1 /\ EventAt(i - 1) = EventAt(j - 1)
    BY <1>1, <1>3, <2>1
  <2>3. i - 1 = j - 1
    BY <2>2, EventAtFacts
  <2> QED BY <2>3
<1>6. ASSUME NEW e \in m + 1 .. m + nb_elt PROVE Has(t, e)
  <2> DEFINE k == inserted - e + 1
             i == SlotOf(k) + 1
  <2>1. k \in 1 .. nb_elt /\ inserted - k + 1 = e
    BY <1>1, <1>2
  <2> HIDE DEF k
  <2>2. SlotOf(k) \in 0 .. nb_elt - 1 /\ EventAt(SlotOf(k)) = e
    BY <2>1, EventAtFacts
  <2>3. i \in 1 .. nb_elt /\ i - 1 = SlotOf(k)
    BY <1>1, <2>2
  <2> HIDE DEF i
  <2>4. t[i] = e
    BY <1>3, <2>2, <2>3
  <2> QED BY <1>4, <2>3, <2>4 DEF Has
<1>7. Batch(t, m, nb_elt)
  BY <1>4, <1>5, <1>6 DEF Batch
<1> QED BY <1>7 DEF t, m

(* An empty queue, in which all events have left the vector. *)
LEMMA Emptied ==
    ASSUME IndexInv, Empties, UNCHANGED <<max_elt, inserted>>
    PROVE  IndexInv' /\ VectorInv' /\ (inserted - nb_elt)' = (inserted - nb_elt) + nb_elt
<1>1. nb_elt \in Nat /\ inserted \in Nat /\ max_elt \in Nat
  BY IndexFacts
<1>2. IndexInv'
  BY <1>1 DEF IndexInv, Empties
<1>3. VectorInv'
  BY DEF VectorInv, Size, Empties
<1> QED BY <1>1, <1>2, <1>3 DEF Empties

LEMMA InsertStep == ASSUME QueueInv, InsertEvent PROVE QueueInv'
<1>1. IndexInv /\ VectorInv /\ PlacesInv /\ OtherTypes
  BY DEF QueueInv
<1>2. /\ IndexInv' /\ VectorInv'
      /\ inserted' = inserted + 1 /\ max_elt' = max_elt
      /\ nb_elt' = IF Full THEN nb_elt ELSE nb_elt + 1
      /\ deleted' = deleted \o IF Full THEN <<inserted - max_elt + 1>> ELSE <<>>
  BY <1>1, InsertIndexes, InsertVector
<1>3. /\ delivered' = delivered /\ alive' = alive /\ alive
      /\ kind' = kind /\ chosen' = chosen /\ stray' = stray
  BY DEF InsertEvent, Running
<1>4. /\ nb_elt \in Nat /\ inserted \in Nat /\ nb_elt <= inserted /\ max_elt \in Nat
      /\ inserted - nb_elt \in Nat
  BY <1>1, IndexFacts
<1>5. /\ Placed(delivered, deleted, inserted - nb_elt)
      /\ \A i \in DOMAIN deleted : max_elt # 0 /\ deleted[i] + max_elt <= inserted
  BY <1>1, <1>3 DEF PlacesInv
<1>6. /\ deleted \in Seq(1 .. inserted - nb_elt) /\ DOMAIN deleted = 1 .. Len(deleted) /\ Len(deleted) \in Nat
      /\ \A i \in DOMAIN deleted : deleted[i] \in Nat
  <2>1. deleted \in Seq(1 .. inserted - nb_elt)
    BY <1>5 DEF Placed
  <2>2. \A i \in DOMAIN deleted : deleted[i] \in 1 .. inserted - nb_elt
    BY <1>4, <2>1
  <2> QED BY <1>4, <2>1, <2>2
<1>7. CASE Full
  <2> DEFINE m == inserted - nb_elt
             t == <<inserted - max_elt + 1>>
  <2>1. t = <<m + 1>> /\ m \in Nat /\ nb_elt' = nb_elt /\ inserted' - nb_elt' = m + 1
        /\ deleted' = deleted \o t /\ max_elt # 0 /\ max_elt = nb_elt
    BY <1>2, <1>4, <1>7 DEF Full
  <2> HIDE DEF m
  <2>2. t \in Seq(m + 1 .. m + 1) /\ DOMAIN t = 1 .. 1 /\ t[1] = m + 1 /\ Len(t) = 1
    BY <2>1
  <2> HIDE DEF t
  <2>3. Batch(t, m, 1)
    <3>1. Once(t)
      BY <2>2 DEF Once
    <3>2. \A e \in m + 1 .. m + 1 : Has(t, e)
      BY <2>1, <2>2 DEF Has
    <3> QED BY <2>2, <3>1, <3>2 DEF Batch
  <2>4. Placed(delivered, deleted \o t, m + 1)
    BY <1>5, <2>1, <2>3, Drop DEF m
  <2>5. ASSUME NEW i \in DOMAIN deleted' PROVE deleted'[i] + max_elt <= inserted + 1
    <3> DEFINE a == Len(deleted)
    <3>1. DOMAIN deleted' = 1 .. a + 1 /\ deleted'[a + 1] = m + 1 /\ \A j \in 1 .. a : deleted'[j] = deleted[j]
      BY <1>6, <2>1, <2>2
    <3>2. CASE i = a + 1
      BY <1>4, <2>1, <3>1, <3>2 DEF m
    <3>3. CASE i \in 1 .. a
      <4>1. deleted[i] \in Nat /\ deleted[i] + max_elt <= inserted
        BY <1>5, <1>6, <3>3
      <4> QED BY <1>4, <3>1, <3>3, <4>1
    <3> QED BY <1>6, <3>1, <3>2, <3>3
  <2>6. PlacesInv'
    BY <1>2, <1>3, <2>1, <2>4, <2>5 DEF PlacesInv
  <2> QED BY <1>1, <1>2, <1>3, <2>6 DEF QueueInv, OtherTypes
<1>8. CASE ~ Full
  <2>1. deleted' = deleted /\ inserted' - nb_elt' = inserted - nb_elt
    BY <1>2, <1>4, <1>6, <1>8
  <2>2. ASSUME NEW i \in DOMAIN deleted PROVE max_elt # 0 /\ deleted[i] + max_elt <= inserted + 1
    <3>1. deleted[i] \in Nat /\ max_elt # 0 /\ deleted[i] + max_elt <= inserted
      BY <1>5, <1>6
    <3> QED BY <1>4, <3>1
  <2>3. PlacesInv'
    BY <1>2, <1>3, <1>5, <2>1, <2>2 DEF PlacesInv
  <2> QED BY <1>1, <1>2, <1>3, <2>3 DEF QueueInv, OtherTypes
<1> QED BY <1>7, <1>8

LEMMA ExtractStep ==
    ASSUME QueueInv, NEW k, Extract(k),
           UNCHANGED <<max_elt, kind, inserted, deleted, alive>>, chosen' \in Kinds \cup {NoKind}
    PROVE  QueueInv'
<1>1. IndexInv /\ VectorInv /\ PlacesInv /\ OtherTypes
  BY DEF QueueInv
<1>2. CASE stray' = TRUE /\ UNCHANGED <<delivered, insert_elt, nb_elt, buffer>>
  <2>1. IndexInv' /\ VectorInv' /\ PlacesInv'
    BY <1>1, <1>2 DEF IndexInv, VectorInv, Size, EventAt, PlacesInv
  <2> QED BY <1>1, <1>2, <2>1 DEF QueueInv, OtherTypes
<1>3. CASE delivered' = delivered \o Held /\ Empties /\ UNCHANGED stray
  <2>1. IndexInv' /\ VectorInv' /\ (inserted - nb_elt)' = (inserted - nb_elt) + nb_elt
    BY <1>1, <1>3, Emptied
  <2>2. nb_elt \in Nat /\ inserted - nb_elt \in Nat
    BY <1>1, IndexFacts
  <2>3. Placed(delivered, deleted, inserted - nb_elt)
    BY <1>1 DEF PlacesInv
  <2>4. Placed(delivered \o Held, deleted, (inserted - nb_elt) + nb_elt)
    BY <2>2, <2>3, Give DEF Held
  <2>5. PlacesInv'
    BY <1>1, <1>3, <2>1, <2>4 DEF PlacesInv
  <2> QED BY <1>1, <1>3, <2>1, <2>5 DEF QueueInv, OtherTypes
<1> QED BY <1>1, <1>2, <1>3, ExtractEffect

LEMMA DeleteStep == ASSUME QueueInv, Delete PROVE QueueInv'
<1>1. IndexInv /\ VectorInv /\ PlacesInv /\ OtherTypes
  BY DEF QueueInv
<1>2. max_elt' = max_elt /\ kind' = kind /\ chosen' = chosen /\ inserted' = inserted /\ delivered' = delivered
  BY DEF Delete
<1>3. CASE stray' = TRUE /\ UNCHANGED <<deleted, insert_elt, nb_elt, buffer, alive>>
  <2>1. IndexInv' /\ VectorInv' /\ PlacesInv'
    BY <1>1, <1>2, <1>3 DEF IndexInv, VectorInv, Size, EventAt, PlacesInv
  <2> QED BY <1>1, <1>2, <1>3, <2>1 DEF QueueInv, OtherTypes
<1>4. CASE /\ deleted' = deleted \o [i \in 1 .. nb_elt |-> EventAt(i - 1)]
           /\ Empties /\ alive' = FALSE /\ UNCHANGED stray
  <2> DEFINE t == [i \in 1 .. nb_elt |-> EventAt(i - 1)]
  <2>1. IndexInv' /\ VectorInv' /\ (inserted - nb_elt)' = (inserted - nb_elt) + nb_elt
    BY <1>1, <1>2, <1>4, Emptied
  <2>2. nb_elt \in Nat /\ inserted - nb_elt \in Nat
    BY <1>1, IndexFacts
  <2>3. Placed(delivered, deleted, inserted - nb_elt) /\ Batch(t, inserted - nb_elt, nb_elt)
    BY <1>1, VectorBatch DEF PlacesInv
  <2>4. deleted' = deleted \o t
    BY <1>4
  <2> HIDE DEF t
  <2>5. Placed(delivered, deleted \o t, (inserted - nb_elt) + nb_elt)
    BY <2>2, <2>3, Drop
  <2>6. PlacesInv'
    BY <1>2, <1>4, <2>1, <2>4, <2>5 DEF PlacesInv
  <2> QED BY <1>1, <1>2, <1>4, <2>1, <2>6 DEF QueueInv, OtherTypes
<1> QED BY <1>1, <1>3, <1>4, DeleteEffect

LEMMA QueueStep == ASSUME QueueInv, [Next]_vars PROVE QueueInv'
<1>1. CASE InsertEvent
  BY <1>1, InsertStep
<1>2. CASE GetEvents
  <2>1. chosen' \in Kinds \cup {NoKind} /\ UNCHANGED <<max_elt, kind, inserted, deleted, alive>> /\ Extract(kind)
    BY <1>2 DEF GetEvents, QueueInv, OtherTypes
  <2> QED BY <2>1, ExtractStep
<1>3. CASE ChooseKind
  <2>1. UNCHANGED <<max_elt, insert_elt, nb_elt, kind, buffer, inserted, delivered, deleted, alive, stray>>
    BY <1>3 DEF ChooseKind
  <2>2. chosen' \in Kinds
    BY <1>3 DEF ChooseKind, Kinds
  <2>3. IndexInv' /\ VectorInv' /\ PlacesInv'
    BY <2>1 DEF QueueInv, IndexInv, VectorInv, Size, EventAt, PlacesInv
  <2> QED BY <2>1, <2>2, <2>3 DEF QueueInv, OtherTypes
<1>4. CASE GetEventsForCallback
  <2>1. chosen' \in Kinds \cup {NoKind} /\ UNCHANGED <<max_elt, kind, inserted, deleted, alive>> /\ Extract(chosen)
    BY <1>4 DEF GetEventsForCallback
  <2> QED BY <2>1, ExtractStep
<1>5. CASE Delete
  BY <1>5, DeleteStep
<1>6. CASE UNCHANGED vars
  BY <1>6 DEF vars, QueueInv, IndexInv, VectorInv, Size, EventAt, PlacesInv, OtherTypes
<1> QED BY <1>1, <1>2, <1>3, <1>4, <1>5, <1>6 DEF Next

(* In every state the vector holds the newest events in the slots the      *)
(* indexes say, and the older ones are with the client or deleted.         *)
THEOREM QueueInvariant == Spec => []QueueInv
<1> QED BY QueueInit, QueueStep, PTL DEF Spec

-----------------------------------------------------------------------------
(* The properties of the queue. *)

(* The indexes of the queue, its vector and the events in it keep their    *)
(* types: insert_elt never leaves a ring (inc_indexes).                    *)
THEOREM QueueTypes == Spec => []TypeOK
<1>1. ASSUME QueueInv PROVE TypeOK
  <2>1. IndexInv /\ VectorInv /\ PlacesInv /\ OtherTypes
    BY <1>1 DEF QueueInv
  <2>2. /\ max_elt \in Nat /\ insert_elt \in Nat /\ nb_elt \in Nat /\ inserted \in Nat
        /\ nb_elt <= inserted /\ inserted <= MaxEvents /\ MaxEvents \in Nat
        /\ max_elt # 0 => insert_elt < max_elt /\ nb_elt <= max_elt
        /\ max_elt = 0 \/ nb_elt < max_elt => insert_elt = nb_elt
    BY <2>1, IndexFacts
  <2>3. /\ insert_elt \in IF max_elt = 0 THEN 0 .. MaxEvents ELSE 0 .. max_elt - 1
        /\ nb_elt \in IF max_elt = 0 THEN 0 .. MaxEvents ELSE 0 .. max_elt
        /\ inserted \in 0 .. MaxEvents
    BY <2>2
  <2>4. buffer \in Seq(0 .. MaxEvents)
    <3>1. buffer \in Seq(0 .. inserted) /\ 0 .. inserted \subseteq 0 .. MaxEvents
      BY <2>1, <2>2, VectorFacts
    <3> QED BY <3>1, SeqSubset
  <2>5. delivered \in Seq(1 .. MaxEvents) /\ deleted \in Seq(1 .. MaxEvents)
    <3> DEFINE m == inserted - nb_elt
               n == MaxEvents - m
    <3>1. delivered \in Seq(1 .. m) /\ deleted \in Seq(1 .. m)
      BY <2>1 DEF PlacesInv, Placed
    <3>2. m \in Nat /\ n \in Nat /\ m + n = MaxEvents
      BY <2>2
    <3> HIDE DEF m, n
    <3>3. delivered \in Seq(1 .. m + n) /\ deleted \in Seq(1 .. m + n)
      BY <3>1, <3>2, Bounded
    <3> QED BY <3>2, <3>3
  <2>6. max_elt \in Depths
    BY <2>1 DEF IndexInv
  <2> QED BY <2>1, <2>3, <2>4, <2>5, <2>6 DEF TypeOK, OtherTypes
<1> QED BY <1>1, QueueInvariant, PTL

LEMMA OccursNot == ASSUME NEW s, NEW e, ~ Has(s, e) PROVE Occurrences(e, s) = 0
<1>1. {i \in DOMAIN s : s[i] = e} = {}
  BY DEF Has
<1> QED BY <1>1, FS_EmptySet DEF Occurrences

LEMMA OccursOnce ==
    ASSUME NEW s, NEW e, Has(s, e), \A i, j \in DOMAIN s : s[i] = e /\ s[j] = e => i = j
    PROVE  Occurrences(e, s) = 1
<1>1. PICK i \in DOMAIN s : s[i] = e
  BY DEF Has
<1>2. {j \in DOMAIN s : s[j] = e} = {i}
  BY <1>1
<1> QED BY <1>2, FS_Singleton DEF Occurrences

(* Where an event is in the vector. *)
LEMMA InBuffer ==
    ASSUME IndexInv, VectorInv, NEW e \in 1 .. inserted
    PROVE  Occurrences(e, buffer) = IF e <= inserted - nb_elt THEN 0 ELSE 1
<1>1. nb_elt \in Nat /\ inserted \in Nat /\ Size \in Nat /\ nb_elt <= Size /\ nb_elt <= inserted
  BY IndexFacts
<1>2. DOMAIN buffer = 1 .. Size /\ \A i \in 0 .. Size - 1 : buffer[i + 1] = EventAt(i)
  BY VectorFacts
<1>3. ASSUME NEW i \in 1 .. Size, buffer[i] = e
      PROVE  i - 1 \in 0 .. nb_elt - 1 /\ EventAt(i - 1) = e
  <2>1. i - 1 \in 0 .. Size - 1 /\ (i - 1) + 1 = i
    BY <1>1
  <2>2. EventAt(i - 1) = e
    BY <1>2, <1>3, <2>1
  <2>3. ~ (i - 1 >= nb_elt)
    <3>1. i - 1 >= nb_elt => EventAt(i - 1) = Null
      BY <2>1, EventAtFacts
    <3> QED BY <2>2, <3>1 DEF Null
  <2> QED BY <1>1, <2>1, <2>2, <2>3
<1>4. CASE e <= inserted - nb_elt
  <2>1. ~ Has(buffer, e)
    <3>1. SUFFICES ASSUME NEW i \in 1 .. Size, buffer[i] = e PROVE FALSE
      BY <1>2 DEF Has
    <3>2. i - 1 \in 0 .. nb_elt - 1 /\ EventAt(i - 1) = e
      BY <1>3, <3>1
    <3>3. e \in inserted - nb_elt + 1 .. inserted
      BY <3>2, EventAtFacts
    <3> QED BY <1>1, <1>4, <3>3
  <2> QED BY <1>4, <2>1, OccursNot
<1>5. CASE ~ (e <= inserted - nb_elt)
  <2>1. Has(buffer, e)
    <3> DEFINE k == inserted - e + 1
               i == SlotOf(k)
    <3>1. k \in 1 .. nb_elt /\ inserted - k + 1 = e
      BY <1>1, <1>5
    <3> HIDE DEF k
    <3>2. i \in 0 .. nb_elt - 1 /\ EventAt(i) = e
      BY <3>1, EventAtFacts
    <3>3. i \in 0 .. Size - 1 /\ i + 1 \in 1 .. Size
      BY <1>1, <3>2
    <3>4. buffer[i + 1] = e
      BY <1>2, <3>2, <3>3
    <3> QED BY <1>2, <3>3, <3>4 DEF Has
  <2>2. ASSUME NEW i \in DOMAIN buffer, NEW j \in DOMAIN buffer, buffer[i] = e, buffer[j] = e PROVE i = j
    <3>1. i - 1 \in 0 .. nb_elt - 1 /\ j - 1 \in 0 .. nb_elt - 1 /\ EventAt(i - 1) = EventAt(j - 1)
      BY <1>2, <1>3, <2>2
    <3>2. i - 1 = j - 1
      BY <3>1, EventAtFacts
    <3> QED BY <1>1, <1>2, <3>2
  <2> QED BY <1>5, <2>1, <2>2, OccursOnce
<1> QED BY <1>4, <1>5

(* Whatever the size and the kind of the queue, every event inserted is in *)
(* exactly one place: nothing is leaked, deleted twice, or deleted after   *)
(* the client got it.                                                      *)
THEOREM QueueOneOwner == Spec => []OneOwner
<1>1. ASSUME QueueInv PROVE OneOwner
  <2>1. IndexInv /\ VectorInv /\ Placed(delivered, deleted, inserted - nb_elt)
    BY <1>1 DEF QueueInv, PlacesInv
  <2>2. nb_elt \in Nat /\ inserted \in Nat /\ nb_elt <= inserted /\ inserted - nb_elt \in Nat
    BY <2>1, IndexFacts
  <2>3. SUFFICES ASSUME NEW e \in 1 .. inserted
                 PROVE  Occurrences(e, buffer) + Occurrences(e, delivered) + Occurrences(e, deleted) = 1
    BY DEF OneOwner
  <2>4. Occurrences(e, buffer) = IF e <= inserted - nb_elt THEN 0 ELSE 1
    BY <2>1, InBuffer
  <2>5. CASE e <= inserted - nb_elt
    <3>1. Has(delivered, e) <=> ~ Has(deleted, e)
      BY <2>1, <2>2, <2>5 DEF Placed
    <3>2. \A i, j \in DOMAIN deleted : deleted[i] = e /\ deleted[j] = e => i = j
      BY <2>1 DEF Placed, Once
    <3>3. \A i, j \in DOMAIN delivered : delivered[i] = e /\ delivered[j] = e => i = j
      <4>1. DOMAIN delivered \subseteq Nat /\ Increasing(delivered)
        BY <2>1 DEF Placed
      <4>2. SUFFICES ASSUME NEW i \in DOMAIN delivered, NEW j \in DOMAIN delivered,
                            delivered[i] = e, delivered[j] = e, i # j
                     PROVE  FALSE
        OBVIOUS
      <4>3. e < e
        BY <4>1, <4>2 DEF Increasing
      <4> QED BY <4>3
    <3>4. CASE Has(delivered, e)
      <4>1. Occurrences(e, delivered) = 1 /\ Occurrences(e, deleted) = 0
        BY <3>1, <3>3, <3>4, OccursOnce, OccursNot
      <4> QED BY <2>4, <2>5, <4>1
    <3>5. CASE Has(deleted, e)
      <4>1. Occurrences(e, delivered) = 0 /\ Occurrences(e, deleted) = 1
        BY <3>1, <3>2, <3>5, OccursOnce, OccursNot
      <4> QED BY <2>4, <2>5, <4>1
    <3> QED BY <3>1, <3>4, <3>5
  <2>6. CASE ~ (e <= inserted - nb_elt)
    <3> DEFINE m == inserted - nb_elt
    <3>1. delivered \in Seq(1 .. m) /\ deleted \in Seq(1 .. m) /\ m \in Nat
      BY <2>1, <2>2 DEF Placed
    <3>2. e \in m + 1 .. m + nb_elt
      BY <2>2, <2>6
    <3> HIDE DEF m
    <3>3. ~ Has(delivered, e) /\ ~ Has(deleted, e)
      BY <2>2, <3>1, <3>2, Bounded
    <3>4. Occurrences(e, delivered) = 0 /\ Occurrences(e, deleted) = 0
      BY <3>3, OccursNot
    <3> QED BY <2>4, <2>6, <3>4
  <2> QED BY <2>5, <2>6
<1> QED BY <1>1, QueueInvariant, PTL

(* The client gets its events in the order they were inserted, and a ring  *)
(* discards an event only when max_elt newer ones have come.               *)
THEOREM QueueOnlyOldestLost == Spec => []OnlyOldestLost
<1>1. QueueInv => OnlyOldestLost
  BY DEF QueueInv, PlacesInv, Placed, Increasing, OnlyOldestLost
<1> QED BY <1>1, QueueInvariant, PTL

(* get_last_event_date gives the date of the newest event, or throws when  *)
(* there is none, for the kinds it knows.                                  *)
THEOREM QueueLastDate == ASSUME KnownKinds PROVE Spec => []LastDateFaithful
<1>1. ASSUME QueueInv PROVE LastDateFaithful
  <2>1. IndexInv /\ VectorInv /\ kind \in UsedKinds
    BY <1>1 DEF QueueInv, OtherTypes
  <2>2. SUFFICES ASSUME kind # "ready" PROVE GetLastEventDate = IF nb_elt > 0 THEN inserted ELSE Throw
    BY DEF LastDateFaithful
  <2>3. kind \in {"event", "conf"}
    BY <2>1, <2>2 DEF KnownKinds
  <2>4. nb_elt \in Nat /\ Size \in Nat /\ nb_elt <= Size /\ inserted \in Nat
    BY <2>1, IndexFacts
  <2>5. buffer = <<>> <=> nb_elt = 0
    BY <2>1, VectorFacts
  <2>6. CASE nb_elt = 0
    BY <2>4, <2>5, <2>6 DEF GetLastEventDate
  <2>7. CASE nb_elt # 0
    <3>1. GetLastEventDate = ReadAt(kind, NewestIndex)
      BY <2>2, <2>3, <2>5, <2>7 DEF GetLastEventDate
    <3>2. NewestIndex = SlotOf(1)
      <4>1. /\ max_elt \in Nat /\ insert_elt \in Nat
            /\ max_elt = 0 \/ nb_elt < max_elt => insert_elt = nb_elt
        BY <2>1, IndexFacts
      <4> QED BY <2>4, <2>7, <4>1 DEF NewestIndex, SlotOf
    <3>3. SlotOf(1) \in 0 .. nb_elt - 1 /\ EventAt(SlotOf(1)) = inserted
      <4>1. 1 \in 1 .. nb_elt
        BY <2>4, <2>7
      <4>2. SlotOf(1) \in 0 .. nb_elt - 1 /\ EventAt(SlotOf(1)) = inserted - 1 + 1
        BY <2>1, <4>1, EventAtFacts
      <4> QED BY <2>4, <4>2
    <3>4. SlotOf(1) \in 0 .. Size - 1 /\ SlotOf(1) + 1 \in 1 .. Size
      BY <2>4, <3>3
    <3>5. SlotOf(1) + 1 \in DOMAIN buffer /\ buffer[SlotOf(1) + 1] = inserted
      BY <2>1, <3>3, <3>4, VectorFacts
    <3>6. ReadAt(kind, NewestIndex) = inserted
      BY <3>2, <3>5 DEF ReadAt, InVector, At, BufferOf
    <3> QED BY <2>4, <2>7, <3>1, <3>6
  <2> QED BY <2>6, <2>7
<1> QED BY <1>1, QueueInvariant, PTL

(* The two ways in which the code leaves a vector, whatever kinds the      *)
(* subscriptions have: get_events(CallBack) reads the vector of another    *)
(* kind than the events of the queue, because it saw none of them before   *)
(* it had the mutex or because it knows no pipe events; and the destructor *)
(* walks the data ready vector of a queue of a kind it does not know.      *)
WrongVector ==
    /\ nb_elt > 0
    /\ \/ GetEventsForCallback /\ chosen # kind
       \/ Delete /\ kind \notin {"event", "conf", "ready"}

LEMMA VectorHolds ==
    ASSUME QueueInv
    PROVE  /\ \A j \in 0 .. nb_elt - 1 : InVector(kind, j)
           /\ \A j \in 0 .. nb_elt - 1 : InVector(kind, ReadIndex[j])
<1>1. IndexInv /\ VectorInv
  BY DEF QueueInv
<1>2. nb_elt \in Nat /\ Size \in Nat /\ nb_elt <= Size /\ DOMAIN buffer = 1 .. Size
  BY <1>1, IndexFacts, VectorFacts
<1>3. \A j \in 0 .. nb_elt - 1 : InVector(kind, j)
  BY <1>2 DEF InVector, BufferOf
<1>4. ASSUME NEW j \in 0 .. nb_elt - 1 PROVE InVector(kind, ReadIndex[j])
  <2>1. ReadIndex[j] = SlotOf(j + 1) /\ j + 1 \in 1 .. nb_elt
    BY <1>1, <1>2, ReadIndexIs
  <2>2. SlotOf(j + 1) \in 0 .. nb_elt - 1
    BY <1>1, <2>1, EventAtFacts
  <2> QED BY <1>3, <2>1, <2>2
<1> QED BY <1>3, <1>4

LEMMA OtherVectorEmpty ==
    ASSUME NEW k, k # kind, NEW i
    PROVE  ~ InVector(k, i)
BY DEF InVector, BufferOf

(* A step leaves a vector exactly when it visits a wrong one that way: for *)
(* every kind, size and order of operations, the slots the reading loop    *)
(* and the destructor visit exist in the vector of the queue's kind, no    *)
(* insertion and no get_events of a list leaves it, and each visit of      *)
(* another vector while there are events does.                             *)
THEOREM QueueInBounds == Spec => [][stray' # stray <=> WrongVector]_vars
<1>1. ASSUME QueueInv, [Next]_vars PROVE [stray' # stray <=> WrongVector]_vars
  <2>1. SUFFICES ASSUME Next PROVE stray' # stray <=> WrongVector
    BY <1>1
  <2>2. IndexInv /\ VectorInv /\ nb_elt \in Nat
    BY <1>1, IndexFacts DEF QueueInv
  <2>3. /\ \A j \in 0 .. nb_elt - 1 : InVector(kind, j)
        /\ \A j \in 0 .. nb_elt - 1 : InVector(kind, ReadIndex[j])
    BY <1>1, VectorHolds
  <2>4. ASSUME WrongVector PROVE stray' # stray
    <3>1. 0 \in 0 .. nb_elt - 1
      BY <2>2, <2>4 DEF WrongVector
    <3>2. CASE GetEventsForCallback /\ chosen # kind
      <4>1. ~ InVector(chosen, ReadIndex[0])
        BY <3>2, OtherVectorEmpty
      <4>2. stray' = TRUE
        BY <3>1, <3>2, <4>1 DEF GetEventsForCallback, Extract
      <4>3. ~ stray
        BY <3>2 DEF GetEventsForCallback, Running
      <4> QED BY <4>2, <4>3
    <3>3. CASE Delete /\ kind \notin {"event", "conf", "ready"}
      <4>1. DeletedKind # kind
        BY <3>3 DEF DeletedKind
      <4>2. ~ InVector(DeletedKind, 0)
        BY <4>1, OtherVectorEmpty
      <4>3. stray' = TRUE
        BY <3>1, <3>3, <4>2, Zenon DEF Delete
      <4>4. ~ stray
        BY <3>3 DEF Delete, Running
      <4> QED BY <4>3, <4>4
    <3> QED BY <2>4, <3>2, <3>3 DEF WrongVector
  <2>5. ASSUME stray' # stray PROVE WrongVector
    <3>1. CASE InsertEvent
      BY <2>5, <3>1 DEF InsertEvent
    <3>2. CASE GetEvents
      BY <2>3, <2>5, <3>2 DEF GetEvents, Extract
    <3>3. CASE ChooseKind
      BY <2>5, <3>3 DEF ChooseKind
    <3>4. CASE GetEventsForCallback
      <4>1. PICK j \in 0 .. nb_elt - 1 : ~ InVector(chosen, ReadIndex[j])
        BY <2>5, <3>4 DEF GetEventsForCallback, Extract
      <4>2. nb_elt > 0 /\ chosen # kind
        BY <2>2, <2>3, <4>1
      <4> QED BY <3>4, <4>2 DEF WrongVector
    <3>5. CASE Delete
      <4>1. PICK i \in 0 .. nb_elt - 1 : ~ InVector(DeletedKind, i)
        BY <2>5, <3>5 DEF Delete
      <4>2. nb_elt > 0 /\ DeletedKind # kind
        BY <2>2, <2>3, <4>1
      <4>3. buffer # <<>>
        BY <2>2, <4>2, VectorFacts
      <4>4. kind \notin {"event", "conf", "ready"}
        BY <4>2, <4>3 DEF DeletedKind
      <4> QED BY <3>5, <4>2, <4>4 DEF WrongVector
    <3> QED BY <2>1, <3>1, <3>2, <3>3, <3>4, <3>5 DEF Next
  <2> QED BY <2>4, <2>5
<1> QED BY <1>1, QueueInvariant, PTL DEF Spec

-----------------------------------------------------------------------------
(* The queue implements the bounded log. *)

LEMMA InsertIsPush ==
    ASSUME QueueInv, ContentsInv, ContentsInv', InsertEvent
    PROVE  Log!PushOne
<1>1. IndexInv /\ VectorInv
  BY DEF QueueInv
<1>2. /\ inserted' = inserted + 1 /\ max_elt' = max_elt
      /\ nb_elt' = IF Full THEN nb_elt ELSE nb_elt + 1
  BY <1>1, InsertIndexes
<1>3. /\ max_elt \in Nat /\ nb_elt \in Nat /\ inserted \in Nat
      /\ max_elt # 0 => nb_elt <= max_elt
  BY <1>1, IndexFacts
<1>4. Contents = [k \in 1 .. nb_elt |-> inserted - k + 1]
  BY DEF ContentsInv
<1>5. Contents' = [k \in 1 .. nb_elt' |-> inserted' - k + 1]
  BY DEF ContentsInv
<1>6. inserted' \in 1 .. MaxEvents
  BY <1>2, <1>3, QueueAssumption DEF InsertEvent
<1>7. Len(Contents) = nb_elt /\ nb_elt' = Log!Kept(nb_elt) /\ nb_elt' \in Nat /\ 1 \in 1 .. nb_elt'
  BY <1>2, <1>3, <1>4 DEF Log!Kept, Full
<1>8. Len(Contents') = nb_elt' /\ Contents'[1] = inserted'
  <2>1. inserted' - 1 + 1 = inserted'
    BY <1>2, <1>3
  <2> QED BY <1>5, <1>7, <2>1
<1>9. ASSUME NEW k \in 1 .. nb_elt'
      PROVE  inserted' - k + 1 = IF k = 1 THEN Contents'[1] ELSE Contents[k - 1]
  <2>1. CASE k = 1
    BY <1>2, <1>3, <1>8, <2>1
  <2>2. CASE k # 1
    <3>1. k - 1 \in 1 .. nb_elt
      BY <1>2, <1>3, <2>2 DEF Full
    <3>2. Contents[k - 1] = inserted - (k - 1) + 1
      BY <1>4, <3>1
    <3> QED BY <1>2, <1>3, <2>2, <3>2
  <2> QED BY <2>1, <2>2
<1>10. Contents' = [k \in 1 .. Log!Kept(Len(Contents)) |-> IF k = 1 THEN Contents'[1] ELSE Contents[k - 1]]
  BY <1>5, <1>7, <1>9
<1>11. Len(Contents') > 0 /\ Contents'[1] \in 1 .. MaxEvents
  BY <1>6, <1>7, <1>8
<1> QED BY <1>2, <1>10, <1>11 DEF Log!PushOne, Log!Push

(* A step that keeps the vector and its indexes, and one that empties it.  *)
LEMMA KeepsContents ==
    ASSUME UNCHANGED <<max_elt, insert_elt, nb_elt, kind, buffer>>
    PROVE  UNCHANGED Log!vars
<1>1. Contents' = Contents
  BY DEF Contents, At, BufferOf, SlotOf
<1> QED BY <1>1 DEF Log!vars

LEMMA EmptiesContents ==
    ASSUME Empties, UNCHANGED max_elt
    PROVE  Log!Flush
<1>1. Contents' = <<>>
  BY DEF Contents, Empties
<1> QED BY <1>1 DEF Log!Flush

(* A ring or an unlimited queue is a log of its newest events: an          *)
(* insertion puts its event first and pushes at most the oldest one out,   *)
(* and only an extraction or the destructor removes anything else, namely  *)
(* everything.                                                             *)
THEOREM QueueIsBoundedLog == Spec => IsBoundedLog
<1>1. ASSUME Init PROVE Log!LogInit
  <2>1. nb_elt = 0 /\ max_elt \in Nat
    BY <1>1, QueueAssumption DEF Init
  <2>2. Contents = <<>>
    BY <2>1 DEF Contents
  <2> QED BY <2>1, <2>2 DEF Log!LogInit
<1>2. ASSUME QueueInv, ContentsInv, ContentsInv', [Next]_vars PROVE [Log!LogNext]_(Log!vars)
  <2>1. IndexInv /\ VectorInv
    BY <1>2 DEF QueueInv
  <2>2. ASSUME NEW k, Extract(k), UNCHANGED <<max_elt, kind>> PROVE [Log!LogNext]_(Log!vars)
    BY <2>1, <2>2, ExtractEffect, KeepsContents, EmptiesContents DEF Log!LogNext
  <2>3. CASE InsertEvent
    BY <1>2, <2>3, InsertIsPush DEF Log!LogNext
  <2>4. CASE GetEvents
    <3>1. Extract(kind) /\ UNCHANGED <<max_elt, kind>>
      BY <2>4 DEF GetEvents
    <3> QED BY <2>2, <3>1
  <2>5. CASE ChooseKind
    <3>1. UNCHANGED <<max_elt, insert_elt, nb_elt, kind, buffer>>
      BY <2>5 DEF ChooseKind
    <3> QED BY <3>1, KeepsContents
  <2>6. CASE GetEventsForCallback
    <3>1. Extract(chosen) /\ UNCHANGED <<max_elt, kind>>
      BY <2>6 DEF GetEventsForCallback
    <3> QED BY <2>2, <3>1
  <2>7. CASE Delete
    <3>1. UNCHANGED <<max_elt, kind>>
      BY <2>7 DEF Delete
    <3> QED BY <2>1, <2>7, <3>1, DeleteEffect, KeepsContents, EmptiesContents DEF Log!LogNext
  <2>8. CASE UNCHANGED vars
    <3>1. UNCHANGED <<max_elt, insert_elt, nb_elt, kind, buffer>>
      BY <2>8 DEF vars
    <3> QED BY <3>1, KeepsContents
  <2> QED BY <1>2, <2>3, <2>4, <2>5, <2>6, <2>7, <2>8 DEF Next
<1>3. QueueInv => ContentsInv
  BY ContentsIs DEF QueueInv
<1> QED BY <1>1, <1>2, <1>3, QueueInvariant, PTL DEF Spec, IsBoundedLog, Log!LogSpec
=============================================================================
