------------------------- MODULE InstallTransaction -------------------------
(***************************************************************************)
(* The install transaction (RunInstallTransactionCore and what it calls in *)
(* src/source/LWPT.Install.pas and LWPT.Core.pas), its rollback, and the   *)
(* recovery every later install and lwpt repair begin with.                *)
(*                                                                         *)
(* Commands run under the install lock, one at a time.  A command retains  *)
(* a copy of each path below a rollback root before it changes the path;   *)
(* a sidecar beside the copy names the path and the content it had.  One   *)
(* action is one change of the file system that survives a crash.  A copy  *)
(* without its sidecar is never looked at, so the two appear together.     *)
(***************************************************************************)
EXTENDS ProjectTree

CONSTANTS
  NoPath,
  MaxFaults      \* bound: steps that fail and commands that are killed

ASSUME BoundsAssumption == MaxFaults \in Nat
ASSUME ContentAssumption ==
  /\ Absent \notin Ref \cup Graph /\ Torn \notin Ref \cup Graph \cup {Absent}
  /\ Ref \cap Graph = {} /\ NoPath \notin Path

VARIABLES
  disk,         \* the content of every path of the project
  pending,      \* transaction.state exists in the rollback root
  committed,    \* transaction.committed exists in it
  sidecar,      \* the content each sidecar records, Torn when there is none
  backup,       \* the retained copies
  phase,        \* where the running command is
  command,      \* which command runs
  graph,        \* the graph it publishes
  todo,         \* the paths it still has to do in this phase
  current,      \* the path it is changing
  failed,       \* whether recovery could not restore an entry
  faults,       \* the steps that failed and the commands that were killed
  undone        \* history: a committed root lost its mark, or its cleanup raised

rootVars == <<pending, committed, sidecar, backup>>
commandVars == <<phase, command, graph, todo, current, failed>>
faultVars == <<faults, undone>>
vars == <<disk, rootVars, commandVars, faultVars>>

Phase == {"idle", "recover", "restore", "sweep", "start", "retain", "resolve",
          "publish", "lock", "cfg", "orphans", "commit", "finalize", "rollback"}
Command == {"none", "install", "mutation", "repair"}
NoSidecar == Torn
NoSidecars == [p \in Path |-> NoSidecar]
NoBackups == [p \in Path |-> Absent]
NoGraph == [k \in {} |-> Absent]

TypeOK ==
  /\ disk \in [Path -> Content]
  /\ pending \in BOOLEAN /\ committed \in BOOLEAN
  /\ sidecar \in [Path -> Content]
  /\ backup \in [Path -> Content]
  /\ phase \in Phase
  /\ command \in Command
  /\ graph \in Graph
  /\ todo \subseteq Path
  /\ current \in Path \cup {NoPath}
  /\ failed \in BOOLEAN
  /\ faults \in 0..MaxFaults
  /\ undone \in BOOLEAN

Init ==
  /\ disk = [p \in Path |-> Absent]
  /\ pending = FALSE /\ committed = FALSE
  /\ sidecar = NoSidecars /\ backup = NoBackups
  /\ phase = "idle" /\ command = "none" /\ graph = NoGraph
  /\ todo = {} /\ current = NoPath /\ failed = FALSE
  /\ faults = 0 /\ undone = FALSE

Put(p, content) == disk' = [disk EXCEPT ![p] = content]
HasSidecar(p) == sidecar[p] # NoSidecar
Retained == {p \in Path : HasSidecar(p)}
Unsettled == pending /\ ~ committed

\* The command goes on to a phase, a path, or its next path.
GoTo(next, left, p) ==
  /\ phase' = next /\ todo' = left /\ current' = p
  /\ UNCHANGED <<command, graph, failed, faultVars>>

Faults == faults < MaxFaults /\ faults' = faults + 1

\* The handler of a failed command: these paths are restored.
RollBack(paths) ==
  /\ phase' = "rollback" /\ todo' = paths /\ current' = NoPath
  /\ UNCHANGED <<command, graph, failed>>

\* The command ends, however it ended, and gives the install lock back.
Ends ==
  /\ phase' = "idle" /\ command' = "none" /\ graph' = NoGraph
  /\ todo' = {} /\ current' = NoPath /\ failed' = FALSE

WipeRoot ==
  /\ pending' = FALSE /\ committed' = FALSE
  /\ sidecar' = NoSidecars /\ backup' = NoBackups

\* A root whose copies were being discarded when it was left: these sidecars
\* are still there.
Leaves(left) ==
  /\ sidecar' = [p \in Path |-> IF p \in left THEN sidecar[p] ELSE NoSidecar]
  /\ backup' \in {[p \in Path |-> IF p \in left THEN backup[p] ELSE Absent],
                  NoBackups}

-----------------------------------------------------------------------------
(***************************************************************************)
(* Recovery: the first thing install, add, remove and repair do.           *)
(***************************************************************************)

Begin(c) ==
  /\ phase = "idle"
  /\ phase' = "recover" /\ command' = c
  /\ UNCHANGED <<disk, rootVars, graph, todo, current, failed, faultVars>>

\* RecoverPendingTransactions: a root that says pending and not committed is
\* restored; any other residue of a transaction is only swept.
Recover ==
  /\ phase = "recover"
  /\ IF Unsettled THEN GoTo("restore", Retained, NoPath)
                  ELSE GoTo("sweep", {}, NoPath)
  /\ UNCHANGED <<disk, rootVars>>

\* Seeded fault: the root is never wiped.
EndRecoverKeepsRoot ==
  /\ phase = "restore" /\ todo = {} /\ current = NoPath
  /\ Ends
  /\ UNCHANGED <<disk, rootVars, faultVars>>

\* RecoverRollbackRoot wipes the root only when every entry was restored;
\* otherwise the command stops here.
EndRecover ==
  /\ phase = "restore" /\ todo = {} /\ current = NoPath
  /\ IF failed THEN Ends /\ UNCHANGED faultVars
               ELSE GoTo("sweep", {}, NoPath)
  /\ UNCHANGED <<disk, rootVars>>

\* WipeDir of the rollback root and of the temporary directory above it.
Sweep ==
  /\ phase = "sweep"
  /\ WipeRoot
  /\ IF command = "repair" THEN Ends /\ UNCHANGED faultVars
                           ELSE GoTo("start", {}, NoPath)
  /\ UNCHANGED disk

\* WipeDir deletes in the order the directory lists its entries, so a command
\* killed meanwhile leaves any of them.
SweepInterrupted ==
  /\ phase = "sweep" /\ Faults
  /\ pending' \in {pending, FALSE} /\ committed' \in {committed, FALSE}
  /\ \E left \in SUBSET Retained : Leaves(left)
  /\ undone' = (undone \/ (committed /\ pending' /\ ~ committed'))
  /\ Ends
  /\ UNCHANGED disk

-----------------------------------------------------------------------------
(***************************************************************************)
(* AtomicRestorePath, for recovery and for the rollback of a failed        *)
(* command.  Paths are restored in any order: the code goes by the name of *)
(* the copy in recovery, and backwards through the graph in rollback.      *)
(***************************************************************************)

Restoring == phase \in {"restore", "rollback"}

\* Seeded fault: the copy is not validated.
RestorableUnchecked(p) == HasSidecar(p)

\* The sidecar is there and the copy is what it says.
Restorable(p) == HasSidecar(p) /\ sidecar[p] \in {Absent, backup[p]}

\* Nothing is touched when the copy cannot be validated.
RestoreRefused(p) ==
  /\ Restoring /\ current = NoPath
  /\ p \in todo /\ ~ Restorable(p)
  /\ todo' = todo \ {p} /\ failed' = TRUE
  /\ UNCHANGED <<disk, rootVars, phase, command, graph, current, faultVars>>

BeginRestore(p) ==
  /\ Restoring /\ current = NoPath
  /\ p \in todo /\ Restorable(p)
  /\ GoTo(phase, todo \ {p}, p)
  /\ UNCHANGED <<disk, rootVars>>

RestoreFails ==
  /\ Restoring /\ current # NoPath /\ Faults
  /\ Restorable(current)
  /\ current' = NoPath /\ failed' = TRUE
  /\ UNCHANGED <<disk, rootVars, phase, command, graph, todo, undone>>

\* AtomicRemovePath: a tree goes file by file.
Removing(p) ==
  /\ disk[p] # Absent
  /\ \E content \in IF p \in Modules THEN {Torn, Absent} ELSE {Absent} :
       Put(p, content)

RemoveDestination ==
  /\ Restoring /\ current # NoPath /\ Restorable(current)
  /\ Removing(current)
  /\ UNCHANGED <<rootVars, commandVars, faultVars>>

MoveBackup ==
  /\ Restoring /\ current # NoPath /\ Restorable(current)
  /\ disk[current] = Absent /\ sidecar[current] # Absent
  /\ Put(current, backup[current])
  /\ backup' = [backup EXCEPT ![current] = Absent]
  /\ UNCHANGED <<pending, committed, sidecar, commandVars, faultVars>>

\* The path has its old content, and its copy is no more.
Restored == /\ Restoring /\ current # NoPath
            /\ disk[current] = sidecar[current] /\ backup[current] = Absent

RemoveSidecar ==
  /\ Restored
  /\ sidecar' = [sidecar EXCEPT ![current] = NoSidecar]
  /\ GoTo(phase, todo, NoPath)
  /\ UNCHANGED <<disk, pending, committed, backup>>

\* Nobody looks whether the sidecar could be deleted.
SidecarStays ==
  /\ Restored /\ Faults
  /\ current' = NoPath
  /\ UNCHANGED <<disk, rootVars, phase, command, graph, todo, failed, undone>>

-----------------------------------------------------------------------------
(***************************************************************************)
(* Publication.                                                            *)
(***************************************************************************)

\* AtomicRetainPath: a copy and then its sidecar; the path stays readable.
Retain(p) ==
  /\ backup' = [backup EXCEPT ![p] = disk[p]]
  /\ sidecar' = [sidecar EXCEPT ![p] = disk[p]]
  /\ UNCHANGED <<disk, pending, committed>>

Mutates == command = "mutation"
Heads == {Lockfile, Cfg} \cup (IF Mutates THEN {Manifest} ELSE {})

Start ==
  /\ phase = "start"
  /\ pending' = TRUE
  /\ GoTo("retain", Heads, NoPath)
  /\ UNCHANGED <<disk, committed, sidecar, backup>>

\* Lock file, cfg and manifest, in this order, before anything is resolved.
RetainHead(p) ==
  /\ phase = "retain" /\ p \in todo
  /\ p = Cfg => Lockfile \notin todo
  /\ p = Manifest => todo = {Manifest}
  /\ Retain(p)
  /\ GoTo(IF todo = {p} THEN "resolve" ELSE "retain", todo \ {p}, NoPath)

\* ResolveGraphFixedPoint up to PublishPlan: everything is staged.
Resolve(g) ==
  /\ phase = "resolve"
  /\ graph' = g
  /\ phase' = "publish" /\ todo' = {Module(k) : k \in DOMAIN g}
  /\ UNCHANGED <<disk, rootVars, command, current, failed, faultVars>>

\* PublishPlan, one package after the other: module and archive are retained,
\* the archive is moved in, and then the module tree.
RetainModule(k) ==
  /\ phase = "publish" /\ current = NoPath
  /\ Module(k) \in todo
  /\ Retain(Module(k))
  /\ GoTo("publish", todo, Module(k))

RetainArchive(k) ==
  /\ phase = "publish" /\ current = Module(k) /\ k \in Archived
  /\ ~ HasSidecar(Archive(k, graph[k]))
  /\ Retain(Archive(k, graph[k]))
  /\ GoTo("publish", todo, current)

MoveArchive(k) ==
  /\ phase = "publish" /\ current = Module(k) /\ k \in Archived
  /\ HasSidecar(Archive(k, graph[k]))
  /\ disk[Archive(k, graph[k])] # graph[k]
  /\ Put(Archive(k, graph[k]), graph[k])
  /\ UNCHANGED <<rootVars, commandVars, faultVars>>

ArchiveInPlace(k) ==
  k \in Archived => /\ HasSidecar(Archive(k, graph[k]))
                    /\ disk[Archive(k, graph[k])] = graph[k]

\* AtomicMoveDir renames the old tree aside before it renames the new one in.
MoveModuleAside(k) ==
  /\ phase = "publish" /\ current = Module(k) /\ ArchiveInPlace(k)
  /\ disk[Module(k)] # Absent
  /\ Put(Module(k), Absent)
  /\ UNCHANGED <<rootVars, commandVars, faultVars>>

MoveModuleIn(k) ==
  /\ phase = "publish" /\ current = Module(k) /\ ArchiveInPlace(k)
  /\ disk[Module(k)] = Absent
  /\ Put(Module(k), graph[k])
  /\ GoTo("publish", todo \ {Module(k)}, NoPath)
  /\ UNCHANGED rootVars

EndPublish ==
  /\ phase = "publish" /\ todo = {}
  /\ GoTo("lock", {}, NoPath)
  /\ UNCHANGED <<disk, rootVars>>

\* The lock file is left alone when its text would not change.
WriteLock ==
  /\ phase = "lock"
  /\ IF disk[Lockfile] = graph THEN UNCHANGED disk ELSE Put(Lockfile, graph)
  /\ GoTo("cfg", {}, NoPath)
  /\ UNCHANGED rootVars

\* OldLock was read before; its text is what the sidecar recorded.
Orphans == OrphanedPaths(LockedGraph(sidecar[Lockfile]), graph)

\* WriteCfg.  Only add and remove go on to prune what left the graph.
PublishCfg ==
  /\ phase = "cfg"
  /\ Put(Cfg, graph)
  /\ IF Mutates THEN GoTo("orphans", Orphans, NoPath)
                ELSE GoTo("commit", {}, NoPath)
  /\ UNCHANGED rootVars

\* Seeded fault: orphans are pruned without a copy.
PruneOrphan(p) ==
  /\ phase = "orphans" /\ current = NoPath /\ p \in todo
  /\ GoTo("orphans", todo \ {p}, p)
  /\ UNCHANGED <<disk, rootVars>>

RetainOrphan(p) ==
  /\ phase = "orphans" /\ current = NoPath /\ p \in todo
  /\ Retain(p)
  /\ GoTo("orphans", todo \ {p}, p)

RemoveOrphan ==
  /\ phase = "orphans" /\ current # NoPath
  /\ Removing(current)
  /\ UNCHANGED <<rootVars, commandVars, faultVars>>

OrphanRemoved ==
  /\ phase = "orphans" /\ current # NoPath /\ disk[current] = Absent
  /\ GoTo("orphans", todo, NoPath)
  /\ UNCHANGED <<disk, rootVars>>

WriteManifest ==
  /\ phase = "orphans" /\ current = NoPath /\ todo = {}
  /\ Put(Manifest, graph)
  /\ GoTo("commit", {}, NoPath)
  /\ UNCHANGED rootVars

\* PersistAcceptedState has succeeded; MarkTransactionCommitted.
Commit ==
  /\ phase = "commit"
  /\ committed' = TRUE
  /\ GoTo("finalize", {}, NoPath)
  /\ UNCHANGED <<disk, pending, sidecar, backup>>

\* Every copy is discarded, and then the root is wiped.
Finalize ==
  /\ phase = "finalize"
  /\ WipeRoot
  /\ Ends
  /\ UNCHANGED <<disk, faultVars>>

\* Sidecars that cannot be deleted make WipeDir of the root raise.  The
\* handler then restores lock file, cfg and manifest.
FinalizeFails ==
  /\ phase = "finalize" /\ Faults
  /\ \E kept \in (SUBSET Retained) \ {{}} :
       Leaves(kept) /\ RollBack(kept \cap Heads)
  /\ committed' \in BOOLEAN /\ pending' \in BOOLEAN
  /\ undone' = TRUE
  /\ UNCHANGED disk

-----------------------------------------------------------------------------
(***************************************************************************)
(* Failure and death.                                                      *)
(***************************************************************************)

Publishing == phase \in {"retain", "resolve", "publish", "lock", "cfg",
                         "orphans", "commit"}

\* A step raises: every path with a sidecar is restored.
StepFails ==
  /\ Publishing /\ Faults
  /\ RollBack(Retained)
  /\ UNCHANGED <<disk, rootVars, undone>>

\* The root is kept for recovery while it holds a sidecar.
EndRollback ==
  /\ phase = "rollback" /\ todo = {} /\ current = NoPath
  /\ IF Retained = {} THEN WipeRoot ELSE UNCHANGED rootVars
  /\ Ends
  /\ UNCHANGED <<disk, faultVars>>

\* The command is killed; the system releases the install lock for it, or
\* repair reclaims it.
Crash ==
  /\ phase \notin {"idle", "sweep"}
  /\ Faults /\ UNCHANGED undone
  /\ IF phase = "finalize" THEN
       \E left \in SUBSET Retained :
         /\ Leaves(left)
         /\ IF left = {} THEN pending' \in BOOLEAN /\ committed' \in BOOLEAN
                         ELSE UNCHANGED <<pending, committed>>
     ELSE UNCHANGED rootVars
  /\ Ends
  /\ UNCHANGED disk

RestoreStep ==
  \/ \E p \in Path : RestoreRefused(p) \/ BeginRestore(p)
  \/ RemoveDestination \/ MoveBackup \/ RemoveSidecar

PublishStep ==
  \/ Start \/ (\E p \in Path : RetainHead(p)) \/ (\E g \in Graph : Resolve(g))
  \/ \E k \in Package : \/ RetainModule(k) \/ RetainArchive(k) \/ MoveArchive(k)
                        \/ MoveModuleAside(k) \/ MoveModuleIn(k)
  \/ EndPublish \/ WriteLock \/ PublishCfg
  \/ (\E p \in Path : RetainOrphan(p)) \/ RemoveOrphan \/ OrphanRemoved
  \/ WriteManifest \/ Commit \/ Finalize

CommandStep == Recover \/ EndRecover \/ Sweep \/ RestoreStep \/ PublishStep
               \/ EndRollback

Fault == \/ RestoreFails \/ SidecarStays \/ StepFails \/ FinalizeFails
         \/ SweepInterrupted \/ Crash

Next == (\E c \in Command \ {"none"} : Begin(c)) \/ CommandStep \/ Fault

Spec == Init /\ [][Next]_vars

\* The running command is scheduled, and the user keeps running repair.
Fairness == WF_vars(CommandStep) /\ SF_vars(Begin("repair"))

FairSpec == Spec /\ Fairness

-----------------------------------------------------------------------------
(***************************************************************************)
(* Properties.                                                             *)
(***************************************************************************)

\* The project as the next recovery makes it.
Logical == [p \in Path |->
              IF Unsettled /\ HasSidecar(p) THEN sidecar[p] ELSE disk[p]]

Atomic == INSTANCE AtomicInstall WITH project <- Logical

\* Whatever fails and whoever is killed, the project as recovery makes it goes
\* from one installed graph to the next, or does not change at all; unless a
\* committed install was undone.
InstallsAtomically == Atomic!Init /\ [][Atomic!Next \/ undone']_Logical

\* The old content of every path an unsettled transaction touched is still in
\* the rollback root, or already back in its place; with the same exception.
OldContentKept ==
  Unsettled /\ ~ undone =>
    \A p \in Retained : sidecar[p] \in {Absent, backup[p], disk[p]}

\* Unless a transaction is unsettled, the lock file describes the modules, the
\* archives and the cfg that are there; with the same exception.
LockDescribesProject ==
  ~ Unsettled /\ ~ undone =>
    LET locked == LockedGraph(disk[Lockfile]) IN
      /\ disk[Cfg] = disk[Lockfile]
      /\ \A k \in DOMAIN locked : disk[Module(k)] = locked[k]
      /\ \A p \in ArchivesOf(locked) : disk[p] = p[3]

\* At no moment is the project neither one that recovery takes back nor one
\* that the lock file describes.
ProjectIsAccountedFor == OldContentKept /\ LockDescribesProject

\* A sidecar whose copy is gone: its restore was cut short between the move of
\* the copy and the removal of the sidecar, or the cleanup raised between them.
CopyLost == \E p \in Retained : sidecar[p] \notin {Absent, backup[p]}

\* Repair settles every transaction that an install left behind, unless a copy
\* was lost: a root with such a sidecar is refused by every later recovery.
PendingIsRecoveredUnlessLost == <>[]CopyLost \/ (Unsettled ~> ~ Unsettled)
=============================================================================
