--------------------------- MODULE MCApprovalFlow ---------------------------
(***************************************************************************)
(* Instances of ApprovalFlow for TLC: calls are model values and, asking   *)
(* for the same thing, interchangeable.                                    *)
(***************************************************************************)
EXTENDS ApprovalFlow, TLC

CONSTANTS c1, c2, c3

Ids2     == {1, 2}
Ids3     == {1, 2, 3}
Symmetry == Permutations(Calls)
=============================================================================
