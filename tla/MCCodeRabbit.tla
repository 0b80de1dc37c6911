---------------------------- MODULE MCCodeRabbit ----------------------------
(***************************************************************************)
(* CodeRabbit for TLC: two invocations, and the bounds scaled down in      *)
(* their order.                                                            *)
(***************************************************************************)
EXTENDS CodeRabbit, TLC

OneDeadline == [r \in Run |-> MaxTime]
Symmetry == Permutations(Run)
=============================================================================
