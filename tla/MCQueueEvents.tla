--------------------------- MODULE MCQueueEvents ---------------------------
(* Instances of QueueEvents for TLC. *)
EXTENDS QueueEvents

CONSTANTS a, b

Two == {a, b}
=============================================================================
