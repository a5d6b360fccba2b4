------------------------------- MODULE MCNodes ------------------------------
(***************************************************************************)
(* Nodes for TLC: two calls of a node that counts them, which may run side *)
(* by side, one of a node that returns its memory, one of a pure node.     *)
(***************************************************************************)
EXTENDS Nodes

MCKindOf == [n \in GraphNodes |-> CASE n = "pure" -> "pure" [] n = "shares" -> "sharing"
                                    [] OTHER -> "counting"]
MCNodeOf == [c \in NodeCalls |-> CASE c \in {"n1", "n2"} -> "counts" [] c = "n3" -> "shares"
                                   [] OTHER -> "pure"]
=============================================================================
