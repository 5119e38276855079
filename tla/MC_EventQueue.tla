--------------------------- MODULE MC_EventQueue ---------------------------
(* Queues of a few sizes, the unlimited one among them.                    *)
EXTENDS EventQueue
=============================================================================
