--------------------------- MODULE MCFlowNetwork ---------------------------
(***************************************************************************)
(* Networks for TLC.  Both have a diamond: two paths that a merger joins.   *)
(*   InputNet:  input port -> r; r -> x, y; x, y -> j; outputs of j and x  *)
(*   MixedNet:  input port -> r; s, r -> j -> x; outputs of j and x        *)
(***************************************************************************)
EXTENDS FlowNetwork

InputFrom ==
  [l \in {"in", "rx", "ry", "xj", "yj", "j", "x"} |->
     CASE l = "in" -> "net" [] l \in {"rx", "ry"} -> "r" [] l \in {"xj", "x"} -> "x"
       [] l = "yj" -> "y" [] OTHER -> "j"]
InputInputs ==
  [n \in {"r", "x", "y", "j"} |->
     CASE n = "r" -> <<"in">> [] n = "x" -> <<"rx">> [] n = "y" -> <<"ry">>
       [] OTHER -> <<"xj", "yj">>]

MixedFrom ==
  [l \in {"in", "sj", "sx", "rj", "jx", "j", "x"} |->
     CASE l = "in" -> "net" [] l \in {"sj", "sx"} -> "s" [] l = "rj" -> "r"
       [] l \in {"jx", "j"} -> "j" [] OTHER -> "x"]
MixedInputs ==
  [n \in {"s", "r", "j", "x"} |->
     CASE n = "s" -> <<>> [] n = "r" -> <<"in">> [] n = "j" -> <<"sj", "rj">>
       [] OTHER -> <<"sx", "jx">>]
=============================================================================
