---------------------------- MODULE MC_BlackBox ----------------------------
(* Black boxes of depth one and two, so that slots are reused.             *)
EXTENDS BlackBox
=============================================================================
