----------------------------- MODULE MCCollList -----------------------------
(***************************************************************************)
(* CollList and CollOrder for TLC: nodes are told apart by nothing but the *)
(* order in which they are allocated.                                      *)
(***************************************************************************)
EXTENDS CollOrder, TLC

NodeSymmetry == Permutations(Node)
=============================================================================
