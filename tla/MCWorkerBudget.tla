--------------------------- MODULE MCWorkerBudget ---------------------------
(* WorkerBudget on a small machine, for TLC. *)
EXTENDS WorkerBudget, TLC

CONSTANTS s1, s2, s3, k1, k2, k3

Sessions == {s1, s2, s3}
Tokens == {k1, k2, k3}
Symmetric == Permutations(Sessions) \cup Permutations(Tokens)
=============================================================================
