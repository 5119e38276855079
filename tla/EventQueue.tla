----------------------------- MODULE EventQueue -----------------------------
(***************************************************************************)
(* The queue a client reads its events from in the pull model (class       *)
(* EventQueue).  The ZMQ thread inserts, client threads extract; each      *)
(* operation holds modification_mutex from end to end, except              *)
(* get_events(CallBack), which looks at the buffers before it takes it.    *)
(* A queue has five vectors, one per kind of event, and one subscription   *)
(* feeds only the vector of its kind: the four others stay empty.          *)
(* Events are numbered in the order of their insertion.                    *)
(***************************************************************************)
EXTENDS Integers, Sequences, FiniteSets

CONSTANTS
    Depths,          \* the sizes a queue may be created with; 0 is ALL_EVENTS
    UsedKinds,       \* the kinds of the subscriptions
    CallbackKinds,   \* those whose client may call get_events(CallBack)
    MaxEvents        \* bound: events in one behaviour

Kinds == {"event", "conf", "ready", "dev_inter", "pipe"}

ASSUME QueueAssumption ==
    /\ Depths \subseteq Nat
    /\ UsedKinds \subseteq Kinds
    /\ CallbackKinds \subseteq UsedKinds
    /\ MaxEvents \in Nat

VARIABLES
    max_elt, insert_elt, nb_elt,  \* the members of EventQueue
    kind,       \* the kind of event inserted
    buffer,     \* the vector of that kind
    chosen,     \* the kind get_events(CallBack) has decided for, or NoKind
    inserted,   \* number of events inserted
    delivered,  \* the events handed to the client, in that order
    deleted,    \* the events the queue itself deleted
    alive,      \* the destructor has not run
    stray       \* a vector was accessed outside its bounds: nothing is known of
                \* the process from then on, and the model stops

vars == <<max_elt, insert_elt, nb_elt, kind, buffer, chosen, inserted, delivered, deleted, alive, stray>>

NoKind == "none"
Null == 0

BufferOf(k) == IF k = kind THEN buffer ELSE <<>>

(* The element of the vector of kind k at the C++ index i. *)
InVector(k, i) == i + 1 \in DOMAIN BufferOf(k)
At(k, i) == BufferOf(k)[i + 1]

Init ==
    /\ max_elt \in Depths
    /\ insert_elt = 0
    /\ nb_elt = 0
    /\ kind \in UsedKinds
    /\ buffer = <<>>
    /\ chosen = NoKind
    /\ inserted = 0
    /\ delivered = <<>>
    /\ deleted = <<>>
    /\ alive = TRUE
    /\ stray = FALSE

Running == alive /\ ~stray

-----------------------------------------------------------------------------

(* Faulty variant: the index stays at the end of a ring.                    *)
IncIndexesStuck ==
    /\ insert_elt' = IF insert_elt + 1 = max_elt THEN insert_elt ELSE insert_elt + 1
    /\ nb_elt' = IF max_elt = 0 \/ nb_elt # max_elt THEN nb_elt + 1 ELSE nb_elt

IncIndexes ==
    /\ insert_elt' = IF max_elt # 0 /\ insert_elt + 1 = max_elt THEN 0 ELSE insert_elt + 1
    /\ nb_elt' = IF max_elt = 0 \/ nb_elt # max_elt THEN nb_elt + 1 ELSE nb_elt

(* A ring has all its slots from its first insertion on. *)
Allocated == IF buffer = <<>> THEN [i \in 1 .. max_elt |-> Null] ELSE buffer

(* Faulty variant: the event in the slot is overwritten and not deleted.    *)
OverwrittenKept == <<>>

(* The event the insertion replaces, which is deleted. *)
Overwritten ==
    IF max_elt = 0 \/ Allocated[insert_elt + 1] = Null THEN <<>> ELSE <<Allocated[insert_elt + 1]>>

InsertEvent ==
    /\ Running
    /\ inserted < MaxEvents
    /\ inserted' = inserted + 1
    /\ buffer' = IF max_elt = 0
                 THEN Append(buffer, inserted + 1)
                 ELSE [Allocated EXCEPT ![insert_elt + 1] = inserted + 1]
    /\ deleted' = deleted \o Overwritten
    /\ IncIndexes
    /\ UNCHANGED <<max_elt, kind, chosen, delivered, alive, stray>>

(* The index of the reading loop after k turns; it is -1 past the first    *)
(* element of an unlimited queue, where the loop has ended.                *)
ReadIndex ==
    LET index[k \in 0 .. nb_elt] ==
            LET i == IF k = 0 THEN insert_elt ELSE index[k - 1]
            IN  (IF i = 0 THEN max_elt ELSE i) - 1
    IN  index

(* Faulty variant: the list is not reversed, the newest event comes first.  *)
EventListNewestFirst(k) == [j \in 1 .. nb_elt |-> At(k, ReadIndex[j - 1])]

(* The list get_events fills, the oldest event first. *)
EventList(k) == [j \in 1 .. nb_elt |-> At(k, ReadIndex[nb_elt - j])]

EmptyQueue(k) ==
    /\ insert_elt' = 0
    /\ nb_elt' = 0
    /\ buffer' = IF k = kind THEN <<>> ELSE buffer

(* get_events for a list of kind k. *)
Extract(k) ==
    IF \A j \in 0 .. nb_elt - 1 : InVector(k, ReadIndex[j])
    THEN /\ delivered' = delivered \o EventList(k)
         /\ EmptyQueue(k)
         /\ UNCHANGED stray
    ELSE /\ stray' = TRUE
         /\ UNCHANGED <<delivered, insert_elt, nb_elt, buffer>>

GetEvents ==
    /\ Running
    /\ Extract(kind)
    /\ UNCHANGED <<max_elt, kind, chosen, inserted, deleted, alive>>

(* Faulty variant: the last resort is the vector of ordinary events.        *)
ChooseKindEventLast ==
    /\ Running
    /\ kind \in CallbackKinds
    /\ chosen = NoKind
    /\ chosen' = IF kind \in {"conf", "dev_inter"} /\ buffer # <<>> THEN kind ELSE "event"
    /\ UNCHANGED <<max_elt, insert_elt, nb_elt, kind, buffer, inserted, delivered, deleted, alive, stray>>

(* get_events(CallBack) chooses the kind by the first vector that is not   *)
(* empty, without the mutex; data ready is its last resort, and pipe       *)
(* events are not among its choices.                                       *)
ChooseKind ==
    /\ Running
    /\ kind \in CallbackKinds
    /\ chosen = NoKind
    /\ chosen' = IF kind \in {"event", "conf", "dev_inter"} /\ buffer # <<>> THEN kind ELSE "ready"
    /\ UNCHANGED <<max_elt, insert_elt, nb_elt, kind, buffer, inserted, delivered, deleted, alive, stray>>

(* It then calls the locked get_events of that kind and the callback for   *)
(* each event of the list.                                                 *)
GetEventsForCallback ==
    /\ Running
    /\ chosen # NoKind
    /\ Extract(chosen)
    /\ chosen' = NoKind
    /\ UNCHANGED <<max_elt, kind, inserted, deleted, alive>>

(* The vector the destructor walks: it knows three of the five kinds. *)
DeletedKind == IF kind \in {"event", "conf"} /\ buffer # <<>> THEN kind ELSE "ready"

DeletedEvents == SubSeq(BufferOf(DeletedKind), 1, nb_elt)

(* unsubscribe_event deletes the queue with the writer lock of the         *)
(* subscription maps, which every reader of the queue holds for reading.   *)
Delete ==
    /\ Running
    /\ chosen = NoKind
    /\ IF \A i \in 0 .. nb_elt - 1 : InVector(DeletedKind, i)
       THEN /\ deleted' = deleted \o DeletedEvents
            /\ EmptyQueue(kind)
            /\ alive' = FALSE
            /\ UNCHANGED stray
       ELSE /\ stray' = TRUE
            /\ UNCHANGED <<deleted, insert_elt, nb_elt, buffer, alive>>
    /\ UNCHANGED <<max_elt, kind, chosen, inserted, delivered>>

Next == InsertEvent \/ GetEvents \/ ChooseKind \/ GetEventsForCallback \/ Delete

Spec == Init /\ [][Next]_vars

-----------------------------------------------------------------------------
(***************************************************************************)
(* The operations that only look at the queue.                             *)
(***************************************************************************)

(* Outcomes other than a date: an exception, a read outside a vector. *)
Throw == -1
Garbage == -2

ReadAt(k, i) == IF InVector(k, i) THEN At(k, i) ELSE Garbage

(* Faulty variant: the last slot of the ring is always taken for the        *)
(* newest.                                                                  *)
NewestIndexLast == IF max_elt = 0 THEN insert_elt - 1 ELSE max_elt - 1

NewestIndex == IF insert_elt = 0 THEN max_elt - 1 ELSE insert_elt - 1

(* get_last_event_date, with the number of the event for its date: it      *)
(* knows three kinds and looks for the newest data ready event, when that  *)
(* is not in the last slot, among the attribute configuration events.      *)
GetLastEventDate ==
    IF kind \notin {"event", "conf", "ready"} \/ buffer = <<>> THEN Throw
    ELSE ReadAt(IF kind = "ready" /\ insert_elt # 0 THEN "conf" ELSE kind, NewestIndex)

-----------------------------------------------------------------------------
(***************************************************************************)
(* Properties.                                                             *)
(***************************************************************************)

(* The indexes of a ring stay within it (inc_indexes), those of an         *)
(* unlimited queue count its events.                                       *)
TypeOK ==
    /\ max_elt \in Depths
    /\ insert_elt \in IF max_elt = 0 THEN 0 .. MaxEvents ELSE 0 .. max_elt - 1
    /\ nb_elt \in IF max_elt = 0 THEN 0 .. MaxEvents ELSE 0 .. max_elt
    /\ kind \in UsedKinds
    /\ buffer \in Seq(0 .. MaxEvents)
    /\ chosen \in Kinds \cup {NoKind}
    /\ inserted \in 0 .. MaxEvents
    /\ delivered \in Seq(1 .. MaxEvents)
    /\ deleted \in Seq(1 .. MaxEvents)
    /\ alive \in BOOLEAN
    /\ stray \in BOOLEAN

(* No operation reads or writes outside a vector: what insert_elt, nb_elt  *)
(* and the choice of the vector say always fits the vector accessed.       *)
InBounds == ~stray

(* The kinds the destructor and get_last_event_date know. *)
KnownKinds == UsedKinds \subseteq {"event", "conf", "ready"}

Occurrences(e, seq) == Cardinality({i \in DOMAIN seq : seq[i] = e})

(* Each event inserted is in exactly one place: in the vector, with the    *)
(* client, or deleted by the queue.  None is leaked, deleted twice, or     *)
(* deleted after the client got it.                                        *)
OneOwner ==
    \A e \in 1 .. inserted :
        Occurrences(e, buffer) + Occurrences(e, delivered) + Occurrences(e, deleted) = 1

(* The client gets its events in the order they came, and an event is      *)
(* discarded only in favour of max_elt newer ones ("older events will be   *)
(* discarded"); nothing is lost by an unlimited queue.                     *)
OnlyOldestLost ==
    /\ \A i, j \in DOMAIN delivered : i < j => delivered[i] < delivered[j]
    /\ alive => \A i \in DOMAIN deleted : max_elt # 0 /\ deleted[i] + max_elt <= inserted

(* get_last_event_date gives the date of the newest event of the queue and *)
(* throws when there is none, in a ring as in an unlimited queue.  A queue *)
(* of data ready events is left out: GetLastEventDate says what it reads.  *)
LastDateFaithful ==
    kind # "ready" => GetLastEventDate = IF nb_elt > 0 THEN inserted ELSE Throw

SlotOf(k) == IF k <= insert_elt THEN insert_elt - k ELSE insert_elt + max_elt - k

Contents == [k \in 1 .. nb_elt |-> At(kind, SlotOf(k))]

Log == INSTANCE BoundedLog WITH
    Entries <- 1 .. MaxEvents,
    depth   <- max_elt,
    log     <- Contents

(* The queue is a log of its newest events that an extraction or the       *)
(* destructor empties at once: no step adds, drops or reorders anything    *)
(* else, in a ring as in an unlimited queue.                               *)
IsBoundedLog == Log!LogSpec
=============================================================================
