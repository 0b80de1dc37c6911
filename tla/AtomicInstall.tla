--------------------------- MODULE AtomicInstall ---------------------------
(***************************************************************************)
(* What an install promises: the project goes from one installed graph to  *)
(* the next in one step, or does not change at all.                        *)
(***************************************************************************)
EXTENDS ProjectTree

VARIABLE project

Init == project = [p \in Path |-> Absent]

\* A plain install, or lwpt add and lwpt remove (mutation).
Install(g, mutation) == project' = Installed(project, g, mutation)

Next == \E g \in Graph, mutation \in BOOLEAN : Install(g, mutation)

Spec == Init /\ [][Next]_project
=============================================================================
