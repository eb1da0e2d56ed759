----------------------------- MODULE MCBindings -----------------------------
(* One session of either role, two transition objects at a time, and two      *)
(* outcomes of every draw: a proposal is signed as it is or changed, one of   *)
(* two reply keys is drawn.                                                   *)
EXTENDS Bindings, TLC

Symmetry == Permutations(Cells) \cup Permutations(Proposals) \cup Permutations(ReplyKeys)
=============================================================================
