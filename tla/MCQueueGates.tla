--------------------------- MODULE MCQueueGates ---------------------------
(* Instances of QueueGates for TLC. *)
EXTENDS QueueGates, TLC

CONSTANTS a, b, c, i1, i2

Three == {a, b, c}
TwoItems == {i1, i2}
AllOptions == {"lifo", "discard"}
\* one adds, one removes, one does either and cleans
Roles == a :> {"add", "prod"} @@ b :> {"remove"} @@ c :> {"add", "remove", "clean"}
\* the one that may do both does not wait, the others do
Waits == a :> {"wait"} @@ b :> {"wait"} @@ c :> {"try"}
Symmetry == Permutations(TwoItems)
=============================================================================
