---------------------------- MODULE MCInstallLock ----------------------------
(* InstallLock with two processes that have record locks and one without.   *)
(* A process has one file open and the path names one: four files are always *)
(* enough for a fresh one.                                                   *)
EXTENDS InstallLock, TLC

CONSTANTS p1, p2, p3, i1, i2, i3, i4

Symmetry == Permutations({p1, p2}) \cup Permutations({i1, i2, i3, i4})
=============================================================================
