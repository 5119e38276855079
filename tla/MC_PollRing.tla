---------------------------- MODULE MC_PollRing ----------------------------
(* Rings of every depth up to three, filled more than twice over.          *)
EXTENDS PollRing
=============================================================================
