---------------------------- MODULE ProjectTree ----------------------------
(***************************************************************************)
(* The files an install owns in a project, and what an install makes of    *)
(* them (src/source/LWPT.Install.pas).                                     *)
(*                                                                         *)
(* A dependency graph gives each package in it the ref it was resolved to. *)
(* A module tree and an archive are told apart by their ref alone; lock    *)
(* file, cfg and manifest by the graph they describe.                      *)
(***************************************************************************)
EXTENDS Naturals, FiniteSets

CONSTANTS
  Package,
  Archived,     \* packages with an archive; the others are local sources
  Ref,          \* refs a package may be resolved to
  Absent,       \* the content of a path that names nothing
  Torn          \* a directory that is partly removed

ASSUME ArchivedAssumption == Archived \subseteq Package

Graph == UNION {[S -> Ref] : S \in SUBSET Package}

Module(k) == <<"module", k>>
Archive(k, r) == <<"archive", k, r>>
Lockfile == <<"lockfile">>
Cfg == <<"cfg">>
Manifest == <<"manifest">>

Modules == {Module(k) : k \in Package}
Archives == {Archive(k, r) : k \in Archived, r \in Ref}
Path == Modules \cup Archives \cup {Lockfile, Cfg, Manifest}

Content == Ref \cup Graph \cup {Absent, Torn}

\* The graph a lock file records; no lock file, no packages.
LockedGraph(text) == IF text = Absent THEN [k \in {} |-> Absent] ELSE text

\* ArchivePathForRef for the packages of a graph.
ArchivesOf(g) == {Archive(k, g[k]) : k \in DOMAIN g \cap Archived}

\* What the old lock names and the new one does not: packages that left the
\* graph, and the archives of refs that were replaced.
OrphanedPaths(old, g) ==
  {Module(k) : k \in DOMAIN old \ DOMAIN g} \cup (ArchivesOf(old) \ ArchivesOf(g))

\* The project once graph g is installed over project d.
Installed(d, g, mutation) ==
  [p \in Path |->
     CASE p \in {Lockfile, Cfg} -> g
       [] p = Manifest -> IF mutation THEN g ELSE d[p]
       [] p \in {Module(k) : k \in DOMAIN g} -> g[p[2]]
       [] p \in ArchivesOf(g) -> p[3]
       [] mutation /\ p \in OrphanedPaths(LockedGraph(d[Lockfile]), g) -> Absent
       [] OTHER -> d[p]]
=============================================================================
