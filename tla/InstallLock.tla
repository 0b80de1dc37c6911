----------------------------- MODULE InstallLock -----------------------------
(***************************************************************************)
(* The install lock of a project (src/source/LWPT.InstallLock.pas, Unix).  *)
(*                                                                         *)
(* Creating .lwpt/install.lock exclusively is the mutual exclusion; a      *)
(* record lock on the file tells a live owner from a dead one; the owner   *)
(* record inside carries a marker when its writer held that record lock.   *)
(* An install only creates the file.  Repair also adopts one that a dead   *)
(* owner left behind.  One action is one system call; a process has one    *)
(* attempt at a time (HeldPaths).                                          *)
(***************************************************************************)
EXTENDS Naturals, FiniteSets

CONSTANTS
  Process, Inode, NoInode, Nobody,
  Unsupported   \* processes whose filesystem client keeps no record locks

ASSUME UnsupportedAssumption == Unsupported \subseteq Process
ASSUME NoneAssumption == Nobody \notin Process /\ NoInode \notin Inode

VARIABLES
  path,         \* the file the path of the lock names
  lock,         \* the process that holds the record lock of each file
  record,       \* the owner record in each file
  step,         \* where a process is
  file,         \* the file it has open
  seen          \* the record it read there

lockVars == <<path, lock, record, step, file, seen>>

Record == {"none", "plain", "marked"}
Step == {"idle", "created", "checking", "probing", "probed", "read",
         "adopting", "writing", "owner", "unlinking", "closing"}

LockTypeOK ==
  /\ path \in Inode \cup {NoInode}
  /\ lock \in [Inode -> Process \cup {Nobody}]
  /\ record \in [Inode -> Record]
  /\ step \in [Process -> Step]
  /\ file \in [Process -> Inode \cup {NoInode}]
  /\ seen \in [Process -> Record]

LockInit ==
  /\ path = NoInode
  /\ lock = [i \in Inode |-> Nobody]
  /\ record = [i \in Inode |-> "none"]
  /\ step = [p \in Process |-> "idle"]
  /\ file = [p \in Process |-> NoInode]
  /\ seen = [p \in Process |-> "none"]

Moves(p, from, to) ==
  /\ step[p] = from
  /\ step' = [step EXCEPT ![p] = to]

Fresh == {i \in Inode : i # path /\ \A p \in Process : file[p] # i}

\* The process that could lock the file: nobody else has it locked.
LockIsFree(p) == lock[file[p]] \in {Nobody, p}

HandleNamesPath(p) == file[p] = path

CloseLockHandle(p) ==
  /\ lock' = [i \in Inode |->
       IF i = file[p] /\ lock[i] = p THEN Nobody ELSE lock[i]]
  /\ file' = [file EXCEPT ![p] = NoInode]

-----------------------------------------------------------------------------
(***************************************************************************)
(* Creating the lock: install, and repair when no file is there.           *)
(***************************************************************************)

\* Seeded fault: the file is opened with O_CREAT, without O_EXCL.
CreateOrOpen(p) ==
  /\ Moves(p, "idle", "created")
  /\ path' \in IF path = NoInode THEN Fresh ELSE {path}
  /\ file' = [file EXCEPT ![p] = path']
  /\ record' = [record EXCEPT ![path'] = "none"]
  /\ UNCHANGED <<lock, seen>>

\* CreateLockFile, with O_EXCL.  An install that finds a file fails at once.
CreateLockFile(p) ==
  /\ path = NoInode
  /\ Moves(p, "idle", "created")
  /\ path' \in Fresh
  /\ file' = [file EXCEPT ![p] = path']
  /\ record' = [record EXCEPT ![path'] = "none"]
  /\ UNCHANGED <<lock, seen>>

\* TakeOwnership locks the new file; without record locks it goes on.
LockCreated(p) ==
  /\ Moves(p, "created", "checking")
  /\ IF p \in Unsupported THEN UNCHANGED lock
     ELSE LockIsFree(p) /\ lock' = [lock EXCEPT ![file[p]] = p]
  /\ UNCHANGED <<path, record, file, seen>>

\* A repair holds the record lock of the new file for longer than the wait.
CreatorGivesUp(p) ==
  /\ Moves(p, "created", "idle")
  /\ p \notin Unsupported
  /\ ~ LockIsFree(p)
  /\ CloseLockHandle(p)
  /\ UNCHANGED <<path, record, seen>>

CheckCreated(p) ==
  /\ HandleNamesPath(p)
  /\ Moves(p, "checking", "writing")
  /\ UNCHANGED <<path, lock, record, file, seen>>

\* The file was replaced before it could be locked: it is not touched.
CreatorLost(p) ==
  /\ ~ HandleNamesPath(p)
  /\ Moves(p, "checking", "closing")
  /\ UNCHANGED <<path, lock, record, file, seen>>

-----------------------------------------------------------------------------
(***************************************************************************)
(* Repair: TryReclaimExisting.                                             *)
(***************************************************************************)

OpenLockFile(p) ==
  /\ path # NoInode
  /\ Moves(p, "idle", "probing")
  /\ file' = [file EXCEPT ![p] = path]
  /\ UNCHANGED <<path, lock, record, seen>>

Probe(p) ==
  /\ Moves(p, "probing", "probed")
  /\ p \notin Unsupported
  /\ LockIsFree(p)
  /\ lock' = [lock EXCEPT ![file[p]] = p]
  /\ UNCHANGED <<path, record, file, seen>>

\* A running owner, or no record locks: repair changes nothing.
ProbeFails(p) ==
  /\ Moves(p, "probing", "idle")
  /\ p \in Unsupported \/ ~ LockIsFree(p)
  /\ CloseLockHandle(p)
  /\ UNCHANGED <<path, record, seen>>

ReadOwnerText(p) ==
  /\ Moves(p, "probed", "read")
  /\ seen' = [seen EXCEPT ![p] = record[file[p]]]
  /\ UNCHANGED <<path, lock, record, file>>

\* Seeded fault: any complete owner record will do.
AdoptUnmarked(p) ==
  /\ HandleNamesPath(p)
  /\ seen[p] # "none"
  /\ Moves(p, "read", "adopting")
  /\ seen' = [seen EXCEPT ![p] = "none"]
  /\ UNCHANGED <<path, lock, record, file>>

\* The owner wrote its record under the record lock that is free now.
Adopt(p) ==
  /\ HandleNamesPath(p)
  /\ seen[p] = "marked"
  /\ Moves(p, "read", "adopting")
  /\ seen' = [seen EXCEPT ![p] = "none"]
  /\ UNCHANGED <<path, lock, record, file>>

\* Replaced since it was opened (repair starts over), or not provably dead.
AdoptRefused(p) ==
  /\ ~ HandleNamesPath(p) \/ seen[p] # "marked"
  /\ Moves(p, "read", "closing")
  /\ seen' = [seen EXCEPT ![p] = "none"]
  /\ UNCHANGED <<path, lock, record, file>>

\* WriteOwnerText truncates the record before it writes the new one.
Truncate(p) ==
  /\ Moves(p, "adopting", "writing")
  /\ record' = [record EXCEPT ![file[p]] = "none"]
  /\ UNCHANGED <<path, lock, file, seen>>

-----------------------------------------------------------------------------
(***************************************************************************)
(* Owning and releasing.                                                   *)
(***************************************************************************)

\* The marker is written by a process that holds the record lock.
WriteOwnerRecord(p) ==
  /\ Moves(p, "writing", "owner")
  /\ record' = [record EXCEPT ![file[p]] =
       IF p \in Unsupported THEN "plain" ELSE "marked"]
  /\ UNCHANGED <<path, lock, file, seen>>

\* A failed write gives the lock up like a release.
\* ReleaseOwnership looks at the path, unlinks it, and only then closes.
BeginRelease(p) ==
  /\ \/ Moves(p, "owner", IF HandleNamesPath(p) THEN "unlinking" ELSE "closing")
     \/ Moves(p, "writing",
              IF HandleNamesPath(p) THEN "unlinking" ELSE "closing")
  /\ UNCHANGED <<path, lock, record, file, seen>>

RemoveLockPath(p) ==
  /\ Moves(p, "unlinking", "closing")
  /\ path' = NoInode
  /\ UNCHANGED <<lock, record, file, seen>>

Close(p) ==
  /\ Moves(p, "closing", "idle")
  /\ CloseLockHandle(p)
  /\ UNCHANGED <<path, record, seen>>

\* The process dies; the file and its record stay.
OwnerDies(p) ==
  /\ step[p] # "idle"
  /\ step' = [step EXCEPT ![p] = "idle"]
  /\ CloseLockHandle(p)
  /\ seen' = [seen EXCEPT ![p] = "none"]
  /\ UNCHANGED <<path, record>>

\* The process may change the project, or is about to be told so.
Owns(p) == step[p] \in {"adopting", "writing", "owner", "unlinking"}

\* What the messages tell a user to do with a file repair cannot reclaim.
\* No owner may run, but a creator that only starts is easily overlooked.
DeleteByHand ==
  /\ path # NoInode
  /\ \A p \in Process : ~ Owns(p)
  /\ path' = NoInode
  /\ UNCHANGED <<lock, record, step, file, seen>>

LockNext ==
  \/ \E p \in Process :
       \/ CreateLockFile(p)
       \/ LockCreated(p)
       \/ CreatorGivesUp(p)
       \/ CheckCreated(p)
       \/ CreatorLost(p)
       \/ OpenLockFile(p)
       \/ Probe(p)
       \/ ProbeFails(p)
       \/ ReadOwnerText(p)
       \/ Adopt(p)
       \/ AdoptRefused(p)
       \/ Truncate(p)
       \/ WriteOwnerRecord(p)
       \/ BeginRelease(p)
       \/ RemoveLockPath(p)
       \/ Close(p)
       \/ OwnerDies(p)
  \/ DeleteByHand

LockSpec == LockInit /\ [][LockNext]_lockVars

-----------------------------------------------------------------------------
\* One owner at a time: an install never runs beside an install or a repair,
\* also when repair examines a lock that is being created or released, and
\* on filesystems where only some processes have record locks.
OneOwner == \A p, q \in Process : Owns(p) /\ Owns(q) => p = q

\* The path never stops naming the file of a live owner, so nobody can
\* create a lock meanwhile, and a release unlinks the owner's own file
\* (ReleaseOwnership, TryReclaimExisting).
OwnerIsNamed == \A p \in Process : Owns(p) => path = file[p]

\* Repair never takes a lock from a living owner: while it adopts a file, no
\* other process that is alive created or adopted that file.
AdoptsFromTheDead ==
  \A p, q \in Process :
    /\ step[p] = "adopting"
    /\ file[q] = file[p]
    /\ step[q] \in {"created", "checking"} \/ Owns(q)
    => q = p
=============================================================================
