----------------------------- MODULE BoundedLog -----------------------------
(***************************************************************************)
(* What the ring buffers of the library promise: a log that keeps the      *)
(* newest entries, at most depth of them, newest first, and that may be    *)
(* emptied by its reader.  A depth of zero stands for no limit.            *)
(***************************************************************************)
EXTENDS Naturals, Sequences

CONSTANT Entries  \* what may be logged

VARIABLES
    depth,  \* how many entries are kept; never changes
    log     \* the entries kept, newest first

vars == <<depth, log>>

LogInit ==
    /\ depth \in Nat
    /\ log = <<>>

Kept(n) == IF depth = 0 \/ n < depth THEN n + 1 ELSE depth

(* A new entry comes first and pushes the oldest one out of a full log. *)
Push(e) ==
    /\ e \in Entries
    /\ log' = [k \in 1 .. Kept(Len(log)) |-> IF k = 1 THEN e ELSE log[k - 1]]
    /\ UNCHANGED depth

(* The reader takes everything, or the log is destroyed. *)
Flush ==
    /\ log' = <<>>
    /\ UNCHANGED depth

(* Some entry is pushed: the one that is then first. *)
PushOne == Len(log') > 0 /\ Push(log'[1])

LogNext == Flush \/ PushOne

LogSpec == LogInit /\ [][LogNext]_vars
=============================================================================
