------------------------------ MODULE PollRing ------------------------------
(***************************************************************************)
(* The ring buffer in which a polled command or attribute keeps its last   *)
(* results (classes PollRing and RingElt).  A slot has one pointer per     *)
(* kind of result and one for an exception; a polled object always stores  *)
(* the same kind.  The polling thread inserts and the clients read with    *)
(* the device's poll monitor held, so every operation is one step.         *)
(* Results and exceptions are numbered in the order of their insertion;    *)
(* zero is the null pointer.                                               *)
(***************************************************************************)
EXTENDS Naturals, Sequences, FiniteSets

CONSTANTS
    Depths,      \* the depths a ring may be created with
    Gaps,        \* ticks of PollClock between two insertions
    MaxInserts   \* bound: insertions in one behaviour

ASSUME RingAssumption ==
    /\ Depths \subseteq Nat \ {0}
    /\ Gaps \subseteq Nat
    /\ MaxInserts \in Nat

VARIABLES
    max_elt, insert_elt, nb_elt,  \* the members of PollRing
    ring,      \* [0 .. max_elt - 1 -> Slot]
    kind,      \* which result pointer of its slots this ring uses
    inserted,  \* what was inserted, oldest first: number, error or not, date
    freed,     \* how often each object was deleted
    alive      \* the destructor has not run

vars == <<max_elt, insert_elt, nb_elt, ring, kind, inserted, freed, alive>>

Kinds == {"cmd_result", "attr_value", "attr_value_3", "attr_value_4", "attr_value_5"}

Objects == 1 .. MaxInserts
Null == 0

(* A slot: the result pointer in use, the exception pointer and the date. *)
Slot == [value : Objects \cup {Null}, except : Objects \cup {Null}, when : Nat]

EmptySlot == [value |-> Null, except |-> Null, when |-> 0]

Init ==
    /\ max_elt \in Depths
    /\ insert_elt = 0
    /\ nb_elt = 0
    /\ ring = [i \in 0 .. max_elt - 1 |-> EmptySlot]
    /\ kind \in Kinds
    /\ inserted = <<>>
    /\ freed = [o \in Objects |-> 0]
    /\ alive = TRUE

-----------------------------------------------------------------------------

(* Faulty variant: the index wraps one insertion too late, or stays on the  *)
(* last slot.                                                               *)
IncIndexesLate ==
    /\ insert_elt' = IF insert_elt = max_elt THEN 0 ELSE insert_elt + 1
    /\ nb_elt' = IF nb_elt # max_elt THEN nb_elt + 1 ELSE nb_elt

IncIndexesStuck ==
    /\ insert_elt' = IF insert_elt + 1 = max_elt THEN insert_elt ELSE insert_elt + 1
    /\ nb_elt' = IF nb_elt # max_elt THEN nb_elt + 1 ELSE nb_elt

IncIndexes ==
    /\ insert_elt' = IF insert_elt + 1 = max_elt THEN 0 ELSE insert_elt + 1
    /\ nb_elt' = IF nb_elt # max_elt THEN nb_elt + 1 ELSE nb_elt

Free(objs) ==
    freed' = [o \in Objects |-> IF o \in objs THEN freed[o] + 1 ELSE freed[o]]

LastDate == IF inserted = <<>> THEN 0 ELSE inserted[Len(inserted)].when

Count(err, t) == inserted' = Append(inserted, [no |-> Len(inserted) + 1, err |-> err, when |-> t])

(* Faulty variant: the exception of the slot is left where it is.           *)
InsertDataOverExcept(t) ==
    /\ alive
    /\ Len(inserted) < MaxInserts
    /\ ring' = [ring EXCEPT ![insert_elt].value = Len(inserted) + 1, ![insert_elt].when = t]
    /\ Free({ring[insert_elt].value})
    /\ Count(FALSE, t)
    /\ IncIndexes
    /\ UNCHANGED <<max_elt, kind, alive>>

(* insert_data: the previous result and exception of the slot are deleted. *)
InsertData(t) ==
    /\ alive
    /\ Len(inserted) < MaxInserts
    /\ ring' = [ring EXCEPT ![insert_elt] = [value |-> Len(inserted) + 1, except |-> Null, when |-> t]]
    /\ Free({ring[insert_elt].value, ring[insert_elt].except})
    /\ Count(FALSE, t)
    /\ IncIndexes
    /\ UNCHANGED <<max_elt, kind, alive>>

(* Faulty variant: the results of every kind are deleted, the pointers to   *)
(* those of IDL 3 and later stay.                                           *)
DroppedByExceptAnyKind == ring[insert_elt].value

(* The results insert_except deletes; the ones of IDL 3 and later stay in   *)
(* the slot, behind the exception, until the next insert_data.             *)
DroppedByExcept == IF kind \in {"cmd_result", "attr_value"} THEN ring[insert_elt].value ELSE Null

InsertExcept(t) ==
    /\ alive
    /\ Len(inserted) < MaxInserts
    /\ ring' = [ring EXCEPT ![insert_elt] =
                  [value  |-> IF kind \in {"cmd_result", "attr_value"} THEN Null ELSE @.value,
                   except |-> Len(inserted) + 1,
                   when   |-> t]]
    /\ Free({ring[insert_elt].except, DroppedByExcept})
    /\ Count(TRUE, t)
    /\ IncIndexes
    /\ UNCHANGED <<max_elt, kind, alive>>

Pointers == UNION {{ring[i].value, ring[i].except} : i \in DOMAIN ring}

(* The destructor deletes whatever the slots point to. *)
Delete ==
    /\ alive
    /\ alive' = FALSE
    /\ Free(Pointers)
    /\ ring' = [i \in DOMAIN ring |-> EmptySlot]
    /\ insert_elt' = 0
    /\ nb_elt' = 0
    /\ UNCHANGED <<max_elt, kind, inserted>>

Next ==
    \/ \E g \in Gaps : InsertData(LastDate + g)
    \/ \E g \in Gaps : InsertExcept(LastDate + g)
    \/ Delete

Spec == Init /\ [][Next]_vars

-----------------------------------------------------------------------------
(***************************************************************************)
(* The operations that read the ring.                                      *)
(***************************************************************************)

(* The slot every reader starts from: the one before insert_elt. *)
LastIndex == IF insert_elt = 0 THEN max_elt - 1 ELSE insert_elt - 1

Before(i) == IF i = 0 THEN max_elt - 1 ELSE i - 1

(* What a reader makes of a slot: the exception hides the result. *)
Entry(s) == [no   |-> IF s.except # Null THEN s.except ELSE s.value,
             err  |-> s.except # Null,
             when |-> s.when]

(* get_last_cmd_result and get_last_attr_value throw the exception or      *)
(* return the result; is_last_an_error and get_last_insert_date look at    *)
(* the same slot.                                                          *)
GetLast == Entry(ring[LastIndex])

(* The index the reading loops have after k turns. *)
ReadIndex ==
    LET index[k \in 0 .. max_elt] == IF k = 0 THEN LastIndex ELSE Before(index[k - 1])
    IN  index

(* get_cmd_history and get_attr_history for n records: the oldest first.   *)
GetHistory(n) == [k \in 1 .. n |-> Entry(ring[ReadIndex[n - k]])]

(* The callers of the history operations never ask for more than there is. *)
HistoryLength(asked) == IF asked < nb_elt THEN asked ELSE nb_elt

(* Faulty variant: one difference too many is computed.                     *)
DeltaLengthFull(nb) == IF nb_elt <= nb THEN nb_elt ELSE nb

(* get_delta_t: the time between the last nb insertions and the ones       *)
(* before them, the last one first.  It throws for fewer than two entries. *)
DeltaLength(nb) == IF nb_elt <= nb THEN nb_elt - 1 ELSE nb

GetDeltaT(nb) ==
    [k \in 1 .. DeltaLength(nb) |->
        ring[ReadIndex[k - 1]].when - ring[Before(ReadIndex[k - 1])].when]

-----------------------------------------------------------------------------
(***************************************************************************)
(* Properties.                                                             *)
(***************************************************************************)

(* The indexes stay within the ring (inc_indexes) and the slots hold what  *)
(* was inserted.                                                           *)
TypeOK ==
    /\ max_elt \in Nat \ {0}
    /\ insert_elt \in 0 .. max_elt - 1
    /\ nb_elt \in 0 .. max_elt
    /\ ring \in [0 .. max_elt - 1 -> Slot]
    /\ kind \in Kinds
    /\ inserted \in Seq([no : Objects, err : BOOLEAN, when : Nat])
    /\ Len(inserted) <= MaxInserts
    /\ freed \in [Objects -> Nat]
    /\ alive \in BOOLEAN

(* The n newest insertions, oldest first. *)
Newest(n) == SubSeq(inserted, Len(inserted) - n + 1, Len(inserted))

(* A history of any length a client may ask for is exactly the newest      *)
(* insertions, oldest first: the loops of get_cmd_history and              *)
(* get_attr_history start, wrap and stop at the right slots, and no        *)
(* exception or result of an earlier round of the ring shows through.      *)
HistoryFaithful ==
    alive => \A asked \in 1 .. max_elt + 1 :
        LET n == HistoryLength(asked) IN GetHistory(n) = Newest(n)

(* The differences get_delta_t hands to the status report of the polling   *)
(* are those between consecutive insertions, most recent first, also when  *)
(* the ring has wrapped and when more are wanted than there are.           *)
DeltasFaithful ==
    nb_elt >= 2 => \A nb \in 1 .. max_elt + 1 :
        LET n == Len(inserted)
            d == IF nb < nb_elt THEN nb ELSE nb_elt - 1
        IN  GetDeltaT(nb) = [k \in 1 .. d |-> inserted[n - k + 1].when - inserted[n - k].when]

(* Every result and exception given to the ring is either still pointed to *)
(* by exactly one slot or has been deleted, once: no leak, no double free, *)
(* although insert_except leaves the results of IDL 3 and later behind.    *)
FreedOnce ==
    \A o \in 1 .. Len(inserted) :
        freed[o] + Cardinality({i \in DOMAIN ring : o \in {ring[i].value, ring[i].except}}) = 1

(* The slot of the k-th newest entry. *)
SlotOf(k) == IF k <= insert_elt THEN insert_elt - k ELSE insert_elt + max_elt - k

Contents == [k \in 1 .. nb_elt |-> Entry(ring[SlotOf(k)])]

(* The k-th newest insertion is what a reader finds in the slot k places   *)
(* behind insert_elt, and the ring holds as many as it can: nothing of an  *)
(* earlier round shows through, nothing recent is missing.                 *)
SlotsFaithful ==
    alive =>
        /\ nb_elt = IF Len(inserted) < max_elt THEN Len(inserted) ELSE max_elt
        /\ \A k \in 1 .. nb_elt : Entry(ring[SlotOf(k)]) = inserted[Len(inserted) - k + 1]

Log == INSTANCE BoundedLog WITH
    Entries <- [no : Objects \cup {Null}, err : BOOLEAN, when : Nat],
    depth   <- max_elt,
    log     <- Contents

(* The ring with its two indexes is a log of its max_elt newest entries:   *)
(* each insertion puts its entry first and loses at most the oldest one.   *)
IsBoundedLog == Log!LogSpec
=============================================================================
