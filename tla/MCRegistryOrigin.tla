--------------------------- MODULE MCRegistryOrigin ---------------------------
(***************************************************************************)
(* RegistryOrigin on a small instance.                                     *)
(***************************************************************************)
EXTENDS RegistryOrigin, TLC

CONSTANTS up1, up2, c1, c2, i1, i2, x1, x2, a1, a2

Sizes == a1 :> 1 @@ a2 :> 1
Symmetry == Permutations(Uploader) \cup Permutations(Committer)
              \cup Permutations(Upload) \cup Permutations(Archive)
=============================================================================
