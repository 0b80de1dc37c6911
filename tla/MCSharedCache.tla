---------------------------- MODULE MCSharedCache ----------------------------
(***************************************************************************)
(* SharedCache with one fingerprint that was compiled twice, to different  *)
(* bytes, and another one whose result has the artifact of the first.      *)
(***************************************************************************)
EXTENDS SharedCache, TLC

CONSTANTS c1, c2, f1, f2, m1, m2, m3, a1, a2

Fingerprints == m1 :> f1 @@ m2 :> f1 @@ m3 :> f2
Artifacts == m1 :> a1 @@ m2 :> a2 @@ m3 :> a1
Symmetry == Permutations(Client)
=============================================================================
