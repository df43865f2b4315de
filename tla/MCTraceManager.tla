--------------------------- MODULE MCTraceManager ---------------------------
(* Instances of TraceManager for TLC. *)
EXTENDS TraceManager, TLC

Mod(a, b, c) == [first |-> a, second |-> b, third |-> c]

(* one that fits into the id and one that does not, for its second value *)
TwoModifications == {Mod(0, 0, 0), Mod(0, 1, 0)}

(* with the state encoded *)
StateModifications == {Mod(0, 0, 1), Mod(1, 0, 1)}

Symmetric == Permutations(Item) \cup Permutations(Place)
=============================================================================
