------------------------ MODULE MCInstallTransaction ------------------------
(* InstallTransaction with one named package and ref.                       *)
EXTENDS InstallTransaction

CONSTANTS a, r1
=============================================================================
