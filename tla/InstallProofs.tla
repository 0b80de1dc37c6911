---------------------------- MODULE InstallProofs ----------------------------
(***************************************************************************)
(* An install: its lock has one owner, and its transaction is atomic.      *)
(*                                                                         *)
(* The lock, for any number of processes and files and any set of          *)
(* processes without record locks.  The path names the file of every owner *)
(* (OwnerIsNamed), so two owners have the same file open.  Two of them     *)
(* that have record locks both hold the lock of that file, which has one   *)
(* holder.  One without record locks created its file, and a file whose    *)
(* creator is at work carries no marker: nobody can have adopted it        *)
(* (Creators).                                                             *)
(*                                                                         *)
(* The transaction, for any packages and refs and any number of failed     *)
(* steps and killed commands.  Before the commit mark every change is to a *)
(* path whose sidecar is on disk (RetainEffect, PutEffect), and afterwards *)
(* sidecars count for nothing; so the project as recovery makes it changes *)
(* in Commit alone.  There it becomes what the install promises, because   *)
(* each phase leaves behind what the next ones rely on: the packages of    *)
(* the graph in place (Placed), lock file and cfg written (Written), every *)
(* orphan retained and gone (OrphansPruned), and no other path retained.   *)
(* A sweep of an unfinished transaction comes after a restore, so what it  *)
(* deletes is already back in place (RestoredSoFar).                       *)
(***************************************************************************)
EXTENDS InstallLock, InstallTransaction, TLAPS


\* A process has a file open while it is at work on the lock.
Files == \A p \in Process : step[p] = "idle" <=> file[p] = NoInode

\* A record lock is held through the open file.
Locks == \A i \in Inode : lock[i] # Nobody => file[lock[i]] = i

\* Who has record locks goes past locking with the lock.
Lockers ==
  \A p \in Process :
    /\ p \notin Unsupported
    /\ step[p] \notin {"idle", "created", "probing"}
    => lock[file[p]] = p

\* Only processes with record locks adopt.
Adopters ==
  \A p \in Process :
    step[p] \in {"probed", "read", "adopting"} => p \notin Unsupported

\* The process created the file it has open.
Created(p) ==
  \/ step[p] \in {"created", "checking"}
  \/ p \in Unsupported /\ step[p] \notin {"idle", "probing"}

\* Such a file has no marker, and whoever else opened it can only look.
Creators ==
  \A p \in Process :
    Created(p) =>
      /\ record[file[p]] # "marked"
      /\ \A q \in Process :
           q # p /\ file[q] = file[p] =>
             /\ step[q] \in {"probing", "probed", "read", "closing"}
             /\ step[q] = "read" => seen[q] # "marked"

LockInv == LockTypeOK /\ Files /\ Locks /\ Lockers /\ Adopters /\ Creators /\ OwnerIsNamed

-----------------------------------------------------------------------------
\* Every step keeps the types.
LEMMA LockTypeStep ==
  LockTypeOK /\ Files /\ [LockNext]_lockVars => LockTypeOK'
<1> SUFFICES ASSUME LockTypeOK /\ Files /\ [LockNext]_lockVars
             PROVE  LockTypeOK'
  OBVIOUS
<1> USE UnsupportedAssumption, NoneAssumption
<1>1. ASSUME NEW p \in Process, CreateLockFile(p) PROVE LockTypeOK'
  BY <1>1 DEF CreateLockFile, Moves, Fresh, LockTypeOK, Record, Step, Files
<1>2. ASSUME NEW p \in Process, LockCreated(p) PROVE LockTypeOK'
  BY <1>2 DEF LockCreated, Moves, LockIsFree, LockTypeOK, Record, Step, Files
<1>3. ASSUME NEW p \in Process, CreatorGivesUp(p) PROVE LockTypeOK'
  BY <1>3 DEF CreatorGivesUp, Moves, LockIsFree, CloseLockHandle, LockTypeOK, Record, Step, Files
<1>4. ASSUME NEW p \in Process, CheckCreated(p) PROVE LockTypeOK'
  BY <1>4 DEF CheckCreated, Moves, HandleNamesPath, LockTypeOK, Record, Step, Files
<1>5. ASSUME NEW p \in Process, CreatorLost(p) PROVE LockTypeOK'
  BY <1>5 DEF CreatorLost, Moves, HandleNamesPath, LockTypeOK, Record, Step, Files
<1>6. ASSUME NEW p \in Process, OpenLockFile(p) PROVE LockTypeOK'
  BY <1>6 DEF OpenLockFile, Moves, LockTypeOK, Record, Step, Files
<1>7. ASSUME NEW p \in Process, Probe(p) PROVE LockTypeOK'
  BY <1>7 DEF Probe, Moves, LockIsFree, LockTypeOK, Record, Step, Files
<1>8. ASSUME NEW p \in Process, ProbeFails(p) PROVE LockTypeOK'
  BY <1>8 DEF ProbeFails, Moves, LockIsFree, CloseLockHandle, LockTypeOK, Record, Step, Files
<1>9. ASSUME NEW p \in Process, ReadOwnerText(p) PROVE LockTypeOK'
  BY <1>9 DEF ReadOwnerText, Moves, LockTypeOK, Record, Step, Files
<1>10. ASSUME NEW p \in Process, Adopt(p) PROVE LockTypeOK'
  BY <1>10 DEF Adopt, Moves, HandleNamesPath, LockTypeOK, Record, Step, Files
<1>11. ASSUME NEW p \in Process, AdoptRefused(p) PROVE LockTypeOK'
  BY <1>11 DEF AdoptRefused, Moves, HandleNamesPath, LockTypeOK, Record, Step, Files
<1>12. ASSUME NEW p \in Process, Truncate(p) PROVE LockTypeOK'
  BY <1>12 DEF Truncate, Moves, LockTypeOK, Record, Step, Files
<1>13. ASSUME NEW p \in Process, WriteOwnerRecord(p) PROVE LockTypeOK'
  BY <1>13 DEF WriteOwnerRecord, Moves, LockTypeOK, Record, Step, Files
<1>14. ASSUME NEW p \in Process, BeginRelease(p) PROVE LockTypeOK'
  BY <1>14 DEF BeginRelease, Moves, HandleNamesPath, LockTypeOK, Record, Step, Files
<1>15. ASSUME NEW p \in Process, RemoveLockPath(p) PROVE LockTypeOK'
  BY <1>15 DEF RemoveLockPath, Moves, LockTypeOK, Record, Step, Files
<1>16. ASSUME NEW p \in Process, Close(p) PROVE LockTypeOK'
  BY <1>16 DEF Close, Moves, CloseLockHandle, LockTypeOK, Record, Step, Files
<1>17. ASSUME NEW p \in Process, OwnerDies(p) PROVE LockTypeOK'
  BY <1>17 DEF OwnerDies, CloseLockHandle, LockTypeOK, Record, Step, Files
<1>18. CASE DeleteByHand
  BY <1>18 DEF DeleteByHand, LockTypeOK, Record, Step, Files
<1>19. CASE UNCHANGED lockVars
  BY <1>19 DEF lockVars, LockTypeOK, Record, Step, Files
<1>20. QED
  BY <1>1, <1>2, <1>3, <1>4, <1>5, <1>6, <1>7, <1>8, <1>9, <1>10, <1>11,
     <1>12, <1>13, <1>14, <1>15, <1>16, <1>17, <1>18, <1>19 DEF LockNext

\* Two owners are one: see the head of the module.
LEMMA OwnersAreOne == LockInv => OneOwner
<1> SUFFICES ASSUME LockInv, NEW p \in Process, NEW q \in Process, Owns(p), Owns(q)
             PROVE  p = q
  BY DEF OneOwner
<1>1. file[p] = path /\ file[q] = path
  BY DEF LockInv, OwnerIsNamed
<1>2. CASE p \in Unsupported
  BY <1>1, <1>2 DEF LockInv, Creators, Created, Owns
<1>3. CASE q \in Unsupported
  BY <1>1, <1>3 DEF LockInv, Creators, Created, Owns
<1>4. CASE p \notin Unsupported /\ q \notin Unsupported
  <2>1. lock[file[p]] = p
    BY <1>4 DEF LockInv, Lockers, Owns
  <2>2. lock[file[q]] = q
    BY <1>4 DEF LockInv, Lockers, Owns
  <2>3. QED
    BY <1>1, <2>1, <2>2
<1>5. QED
  BY <1>2, <1>3, <1>4

\* Opening and closing.
LEMMA FilesStep ==
  LockInv /\ [LockNext]_lockVars => Files'
<1> SUFFICES ASSUME LockInv /\ [LockNext]_lockVars
             PROVE  Files'
  OBVIOUS
<1> USE UnsupportedAssumption, NoneAssumption
<1>1. ASSUME NEW p \in Process, CreateLockFile(p) PROVE Files'
  BY <1>1 DEF CreateLockFile, Moves, Fresh, LockInv, LockTypeOK, Record, Step, Files
<1>2. ASSUME NEW p \in Process, LockCreated(p) PROVE Files'
  BY <1>2 DEF LockCreated, Moves, LockIsFree, LockInv, LockTypeOK, Record, Step, Files
<1>3. ASSUME NEW p \in Process, CreatorGivesUp(p) PROVE Files'
  BY <1>3 DEF CreatorGivesUp, Moves, LockIsFree, CloseLockHandle, LockInv, LockTypeOK, Record, Step, Files
<1>4. ASSUME NEW p \in Process, CheckCreated(p) PROVE Files'
  BY <1>4 DEF CheckCreated, Moves, HandleNamesPath, LockInv, LockTypeOK, Record, Step, Files
<1>5. ASSUME NEW p \in Process, CreatorLost(p) PROVE Files'
  BY <1>5 DEF CreatorLost, Moves, HandleNamesPath, LockInv, LockTypeOK, Record, Step, Files
<1>6. ASSUME NEW p \in Process, OpenLockFile(p) PROVE Files'
  BY <1>6 DEF OpenLockFile, Moves, LockInv, LockTypeOK, Record, Step, Files
<1>7. ASSUME NEW p \in Process, Probe(p) PROVE Files'
  BY <1>7 DEF Probe, Moves, LockIsFree, LockInv, LockTypeOK, Record, Step, Files
<1>8. ASSUME NEW p \in Process, ProbeFails(p) PROVE Files'
  BY <1>8 DEF ProbeFails, Moves, LockIsFree, CloseLockHandle, LockInv, LockTypeOK, Record, Step, Files
<1>9. ASSUME NEW p \in Process, ReadOwnerText(p) PROVE Files'
  BY <1>9 DEF ReadOwnerText, Moves, LockInv, LockTypeOK, Record, Step, Files
<1>10. ASSUME NEW p \in Process, Adopt(p) PROVE Files'
  BY <1>10 DEF Adopt, Moves, HandleNamesPath, LockInv, LockTypeOK, Record, Step, Files
<1>11. ASSUME NEW p \in Process, AdoptRefused(p) PROVE Files'
  BY <1>11 DEF AdoptRefused, Moves, HandleNamesPath, LockInv, LockTypeOK, Record, Step, Files
<1>12. ASSUME NEW p \in Process, Truncate(p) PROVE Files'
  BY <1>12 DEF Truncate, Moves, LockInv, LockTypeOK, Record, Step, Files
<1>13. ASSUME NEW p \in Process, WriteOwnerRecord(p) PROVE Files'
  BY <1>13 DEF WriteOwnerRecord, Moves, LockInv, LockTypeOK, Record, Step, Files
<1>14. ASSUME NEW p \in Process, BeginRelease(p) PROVE Files'
  BY <1>14 DEF BeginRelease, Moves, HandleNamesPath, LockInv, LockTypeOK, Record, Step, Files
<1>15. ASSUME NEW p \in Process, RemoveLockPath(p) PROVE Files'
  BY <1>15 DEF RemoveLockPath, Moves, LockInv, LockTypeOK, Record, Step, Files
<1>16. ASSUME NEW p \in Process, Close(p) PROVE Files'
  BY <1>16 DEF Close, Moves, CloseLockHandle, LockInv, LockTypeOK, Record, Step, Files
<1>17. ASSUME NEW p \in Process, OwnerDies(p) PROVE Files'
  BY <1>17 DEF OwnerDies, CloseLockHandle, LockInv, LockTypeOK, Record, Step, Files
<1>18. CASE DeleteByHand
  BY <1>18 DEF DeleteByHand, LockInv, LockTypeOK, Record, Step, Files
<1>19. CASE UNCHANGED lockVars
  BY <1>19 DEF lockVars, LockInv, LockTypeOK, Record, Step, Files
<1>20. QED
  BY <1>1, <1>2, <1>3, <1>4, <1>5, <1>6, <1>7, <1>8, <1>9, <1>10, <1>11,
     <1>12, <1>13, <1>14, <1>15, <1>16, <1>17, <1>18, <1>19 DEF LockNext

\* Record locks end with the handle.
LEMMA LocksStep ==
  LockInv /\ [LockNext]_lockVars => Locks'
<1> SUFFICES ASSUME LockInv /\ [LockNext]_lockVars
             PROVE  Locks'
  OBVIOUS
<1> USE UnsupportedAssumption, NoneAssumption
<1>1. ASSUME NEW p \in Process, CreateLockFile(p) PROVE Locks'
  BY <1>1 DEF CreateLockFile, Moves, Fresh, LockInv, LockTypeOK, Record, Step, Files, Locks
<1>2. ASSUME NEW p \in Process, LockCreated(p) PROVE Locks'
  BY <1>2 DEF LockCreated, Moves, LockIsFree, LockInv, LockTypeOK, Record, Step, Files, Locks
<1>3. ASSUME NEW p \in Process, CreatorGivesUp(p) PROVE Locks'
  BY <1>3 DEF CreatorGivesUp, Moves, LockIsFree, CloseLockHandle, LockInv, LockTypeOK, Record, Step, Files, Locks
<1>4. ASSUME NEW p \in Process, CheckCreated(p) PROVE Locks'
  BY <1>4 DEF CheckCreated, Moves, HandleNamesPath, LockInv, LockTypeOK, Record, Step, Files, Locks
<1>5. ASSUME NEW p \in Process, CreatorLost(p) PROVE Locks'
  BY <1>5 DEF CreatorLost, Moves, HandleNamesPath, LockInv, LockTypeOK, Record, Step, Files, Locks
<1>6. ASSUME NEW p \in Process, OpenLockFile(p) PROVE Locks'
  BY <1>6 DEF OpenLockFile, Moves, LockInv, LockTypeOK, Record, Step, Files, Locks
<1>7. ASSUME NEW p \in Process, Probe(p) PROVE Locks'
  BY <1>7 DEF Probe, Moves, LockIsFree, LockInv, LockTypeOK, Record, Step, Files, Locks
<1>8. ASSUME NEW p \in Process, ProbeFails(p) PROVE Locks'
  BY <1>8 DEF ProbeFails, Moves, LockIsFree, CloseLockHandle, LockInv, LockTypeOK, Record, Step, Files, Locks
<1>9. ASSUME NEW p \in Process, ReadOwnerText(p) PROVE Locks'
  BY <1>9 DEF ReadOwnerText, Moves, LockInv, LockTypeOK, Record, Step, Files, Locks
<1>10. ASSUME NEW p \in Process, Adopt(p) PROVE Locks'
  BY <1>10 DEF Adopt, Moves, HandleNamesPath, LockInv, LockTypeOK, Record, Step, Files, Locks
<1>11. ASSUME NEW p \in Process, AdoptRefused(p) PROVE Locks'
  BY <1>11 DEF AdoptRefused, Moves, HandleNamesPath, LockInv, LockTypeOK, Record, Step, Files, Locks
<1>12. ASSUME NEW p \in Process, Truncate(p) PROVE Locks'
  BY <1>12 DEF Truncate, Moves, LockInv, LockTypeOK, Record, Step, Files, Locks
<1>13. ASSUME NEW p \in Process, WriteOwnerRecord(p) PROVE Locks'
  BY <1>13 DEF WriteOwnerRecord, Moves, LockInv, LockTypeOK, Record, Step, Files, Locks
<1>14. ASSUME NEW p \in Process, BeginRelease(p) PROVE Locks'
  BY <1>14 DEF BeginRelease, Moves, HandleNamesPath, LockInv, LockTypeOK, Record, Step, Files, Locks
<1>15. ASSUME NEW p \in Process, RemoveLockPath(p) PROVE Locks'
  BY <1>15 DEF RemoveLockPath, Moves, LockInv, LockTypeOK, Record, Step, Files, Locks
<1>16. ASSUME NEW p \in Process, Close(p) PROVE Locks'
  BY <1>16 DEF Close, Moves, CloseLockHandle, LockInv, LockTypeOK, Record, Step, Files, Locks
<1>17. ASSUME NEW p \in Process, OwnerDies(p) PROVE Locks'
  BY <1>17 DEF OwnerDies, CloseLockHandle, LockInv, LockTypeOK, Record, Step, Files, Locks
<1>18. CASE DeleteByHand
  BY <1>18 DEF DeleteByHand, LockInv, LockTypeOK, Record, Step, Files, Locks
<1>19. CASE UNCHANGED lockVars
  BY <1>19 DEF lockVars, LockInv, LockTypeOK, Record, Step, Files, Locks
<1>20. QED
  BY <1>1, <1>2, <1>3, <1>4, <1>5, <1>6, <1>7, <1>8, <1>9, <1>10, <1>11,
     <1>12, <1>13, <1>14, <1>15, <1>16, <1>17, <1>18, <1>19 DEF LockNext

\* Nobody takes a lock that is held.
LEMMA LockersStep ==
  LockInv /\ [LockNext]_lockVars => Lockers'
<1> SUFFICES ASSUME LockInv /\ [LockNext]_lockVars
             PROVE  Lockers'
  OBVIOUS
<1> USE UnsupportedAssumption, NoneAssumption
<1>1. ASSUME NEW p \in Process, CreateLockFile(p) PROVE Lockers'
  BY <1>1 DEF CreateLockFile, Moves, Fresh, LockInv, LockTypeOK, Record, Step, Files, Locks, Lockers
<1>2. ASSUME NEW p \in Process, LockCreated(p) PROVE Lockers'
  BY <1>2 DEF LockCreated, Moves, LockIsFree, LockInv, LockTypeOK, Record, Step, Files, Locks, Lockers
<1>3. ASSUME NEW p \in Process, CreatorGivesUp(p) PROVE Lockers'
  BY <1>3 DEF CreatorGivesUp, Moves, LockIsFree, CloseLockHandle, LockInv, LockTypeOK, Record, Step, Files, Locks, Lockers
<1>4. ASSUME NEW p \in Process, CheckCreated(p) PROVE Lockers'
  BY <1>4 DEF CheckCreated, Moves, HandleNamesPath, LockInv, LockTypeOK, Record, Step, Files, Locks, Lockers
<1>5. ASSUME NEW p \in Process, CreatorLost(p) PROVE Lockers'
  BY <1>5 DEF CreatorLost, Moves, HandleNamesPath, LockInv, LockTypeOK, Record, Step, Files, Locks, Lockers
<1>6. ASSUME NEW p \in Process, OpenLockFile(p) PROVE Lockers'
  BY <1>6 DEF OpenLockFile, Moves, LockInv, LockTypeOK, Record, Step, Files, Locks, Lockers
<1>7. ASSUME NEW p \in Process, Probe(p) PROVE Lockers'
  BY <1>7 DEF Probe, Moves, LockIsFree, LockInv, LockTypeOK, Record, Step, Files, Locks, Lockers
<1>8. ASSUME NEW p \in Process, ProbeFails(p) PROVE Lockers'
  BY <1>8 DEF ProbeFails, Moves, LockIsFree, CloseLockHandle, LockInv, LockTypeOK, Record, Step, Files, Locks, Lockers
<1>9. ASSUME NEW p \in Process, ReadOwnerText(p) PROVE Lockers'
  BY <1>9 DEF ReadOwnerText, Moves, LockInv, LockTypeOK, Record, Step, Files, Locks, Lockers
<1>10. ASSUME NEW p \in Process, Adopt(p) PROVE Lockers'
  BY <1>10 DEF Adopt, Moves, HandleNamesPath, LockInv, LockTypeOK, Record, Step, Files, Locks, Lockers
<1>11. ASSUME NEW p \in Process, AdoptRefused(p) PROVE Lockers'
  BY <1>11 DEF AdoptRefused, Moves, HandleNamesPath, LockInv, LockTypeOK, Record, Step, Files, Locks, Lockers
<1>12. ASSUME NEW p \in Process, Truncate(p) PROVE Lockers'
  BY <1>12 DEF Truncate, Moves, LockInv, LockTypeOK, Record, Step, Files, Locks, Lockers
<1>13. ASSUME NEW p \in Process, WriteOwnerRecord(p) PROVE Lockers'
  BY <1>13 DEF WriteOwnerRecord, Moves, LockInv, LockTypeOK, Record, Step, Files, Locks, Lockers
<1>14. ASSUME NEW p \in Process, BeginRelease(p) PROVE Lockers'
  BY <1>14 DEF BeginRelease, Moves, HandleNamesPath, LockInv, LockTypeOK, Record, Step, Files, Locks, Lockers
<1>15. ASSUME NEW p \in Process, RemoveLockPath(p) PROVE Lockers'
  BY <1>15 DEF RemoveLockPath, Moves, LockInv, LockTypeOK, Record, Step, Files, Locks, Lockers
<1>16. ASSUME NEW p \in Process, Close(p) PROVE Lockers'
  BY <1>16 DEF Close, Moves, CloseLockHandle, LockInv, LockTypeOK, Record, Step, Files, Locks, Lockers
<1>17. ASSUME NEW p \in Process, OwnerDies(p) PROVE Lockers'
  BY <1>17 DEF OwnerDies, CloseLockHandle, LockInv, LockTypeOK, Record, Step, Files, Locks, Lockers
<1>18. CASE DeleteByHand
  BY <1>18 DEF DeleteByHand, LockInv, LockTypeOK, Record, Step, Files, Locks, Lockers
<1>19. CASE UNCHANGED lockVars
  BY <1>19 DEF lockVars, LockInv, LockTypeOK, Record, Step, Files, Locks, Lockers
<1>20. QED
  BY <1>1, <1>2, <1>3, <1>4, <1>5, <1>6, <1>7, <1>8, <1>9, <1>10, <1>11,
     <1>12, <1>13, <1>14, <1>15, <1>16, <1>17, <1>18, <1>19 DEF LockNext

\* A process that cannot lock does not get past the probe.
LEMMA AdoptersStep ==
  LockInv /\ [LockNext]_lockVars => Adopters'
<1> SUFFICES ASSUME LockInv /\ [LockNext]_lockVars
             PROVE  Adopters'
  OBVIOUS
<1> USE UnsupportedAssumption, NoneAssumption
<1>1. ASSUME NEW p \in Process, CreateLockFile(p) PROVE Adopters'
  BY <1>1 DEF CreateLockFile, Moves, Fresh, LockInv, LockTypeOK, Record, Step, Adopters
<1>2. ASSUME NEW p \in Process, LockCreated(p) PROVE Adopters'
  BY <1>2 DEF LockCreated, Moves, LockIsFree, LockInv, LockTypeOK, Record, Step, Adopters
<1>3. ASSUME NEW p \in Process, CreatorGivesUp(p) PROVE Adopters'
  BY <1>3 DEF CreatorGivesUp, Moves, LockIsFree, CloseLockHandle, LockInv, LockTypeOK, Record, Step, Adopters
<1>4. ASSUME NEW p \in Process, CheckCreated(p) PROVE Adopters'
  BY <1>4 DEF CheckCreated, Moves, HandleNamesPath, LockInv, LockTypeOK, Record, Step, Adopters
<1>5. ASSUME NEW p \in Process, CreatorLost(p) PROVE Adopters'
  BY <1>5 DEF CreatorLost, Moves, HandleNamesPath, LockInv, LockTypeOK, Record, Step, Adopters
<1>6. ASSUME NEW p \in Process, OpenLockFile(p) PROVE Adopters'
  BY <1>6 DEF OpenLockFile, Moves, LockInv, LockTypeOK, Record, Step, Adopters
<1>7. ASSUME NEW p \in Process, Probe(p) PROVE Adopters'
  BY <1>7 DEF Probe, Moves, LockIsFree, LockInv, LockTypeOK, Record, Step, Adopters
<1>8. ASSUME NEW p \in Process, ProbeFails(p) PROVE Adopters'
  BY <1>8 DEF ProbeFails, Moves, LockIsFree, CloseLockHandle, LockInv, LockTypeOK, Record, Step, Adopters
<1>9. ASSUME NEW p \in Process, ReadOwnerText(p) PROVE Adopters'
  BY <1>9 DEF ReadOwnerText, Moves, LockInv, LockTypeOK, Record, Step, Adopters
<1>10. ASSUME NEW p \in Process, Adopt(p) PROVE Adopters'
  BY <1>10 DEF Adopt, Moves, HandleNamesPath, LockInv, LockTypeOK, Record, Step, Adopters
<1>11. ASSUME NEW p \in Process, AdoptRefused(p) PROVE Adopters'
  BY <1>11 DEF AdoptRefused, Moves, HandleNamesPath, LockInv, LockTypeOK, Record, Step, Adopters
<1>12. ASSUME NEW p \in Process, Truncate(p) PROVE Adopters'
  BY <1>12 DEF Truncate, Moves, LockInv, LockTypeOK, Record, Step, Adopters
<1>13. ASSUME NEW p \in Process, WriteOwnerRecord(p) PROVE Adopters'
  BY <1>13 DEF WriteOwnerRecord, Moves, LockInv, LockTypeOK, Record, Step, Adopters
<1>14. ASSUME NEW p \in Process, BeginRelease(p) PROVE Adopters'
  BY <1>14 DEF BeginRelease, Moves, HandleNamesPath, LockInv, LockTypeOK, Record, Step, Adopters
<1>15. ASSUME NEW p \in Process, RemoveLockPath(p) PROVE Adopters'
  BY <1>15 DEF RemoveLockPath, Moves, LockInv, LockTypeOK, Record, Step, Adopters
<1>16. ASSUME NEW p \in Process, Close(p) PROVE Adopters'
  BY <1>16 DEF Close, Moves, CloseLockHandle, LockInv, LockTypeOK, Record, Step, Adopters
<1>17. ASSUME NEW p \in Process, OwnerDies(p) PROVE Adopters'
  BY <1>17 DEF OwnerDies, CloseLockHandle, LockInv, LockTypeOK, Record, Step, Adopters
<1>18. CASE DeleteByHand
  BY <1>18 DEF DeleteByHand, LockInv, LockTypeOK, Record, Step, Adopters
<1>19. CASE UNCHANGED lockVars
  BY <1>19 DEF lockVars, LockInv, LockTypeOK, Record, Step, Adopters
<1>20. QED
  BY <1>1, <1>2, <1>3, <1>4, <1>5, <1>6, <1>7, <1>8, <1>9, <1>10, <1>11,
     <1>12, <1>13, <1>14, <1>15, <1>16, <1>17, <1>18, <1>19 DEF LockNext

\* A created file stays its creator's.
LEMMA CreatorsStep ==
  LockInv /\ [LockNext]_lockVars => Creators'
<1> SUFFICES ASSUME LockInv /\ [LockNext]_lockVars
             PROVE  Creators'
  OBVIOUS
<1> USE UnsupportedAssumption, NoneAssumption
<1>1. ASSUME NEW p \in Process, CreateLockFile(p) PROVE Creators'
  BY <1>1 DEF CreateLockFile, Moves, Fresh, LockInv, LockTypeOK, Record, Step, Files, Adopters, Creators, Created
<1>2. ASSUME NEW p \in Process, LockCreated(p) PROVE Creators'
  BY <1>2 DEF LockCreated, Moves, LockIsFree, LockInv, LockTypeOK, Record, Step, Files, Adopters, Creators, Created
<1>3. ASSUME NEW p \in Process, CreatorGivesUp(p) PROVE Creators'
  BY <1>3 DEF CreatorGivesUp, Moves, LockIsFree, CloseLockHandle, LockInv, LockTypeOK, Record, Step, Files, Adopters, Creators, Created
<1>4. ASSUME NEW p \in Process, CheckCreated(p) PROVE Creators'
  BY <1>4 DEF CheckCreated, Moves, HandleNamesPath, LockInv, LockTypeOK, Record, Step, Files, Adopters, Creators, Created
<1>5. ASSUME NEW p \in Process, CreatorLost(p) PROVE Creators'
  BY <1>5 DEF CreatorLost, Moves, HandleNamesPath, LockInv, LockTypeOK, Record, Step, Files, Adopters, Creators, Created
<1>6. ASSUME NEW p \in Process, OpenLockFile(p) PROVE Creators'
  BY <1>6 DEF OpenLockFile, Moves, LockInv, LockTypeOK, Record, Step, Files, Adopters, Creators, Created
<1>7. ASSUME NEW p \in Process, Probe(p) PROVE Creators'
  BY <1>7 DEF Probe, Moves, LockIsFree, LockInv, LockTypeOK, Record, Step, Files, Adopters, Creators, Created
<1>8. ASSUME NEW p \in Process, ProbeFails(p) PROVE Creators'
  BY <1>8 DEF ProbeFails, Moves, LockIsFree, CloseLockHandle, LockInv, LockTypeOK, Record, Step, Files, Adopters, Creators, Created
<1>9. ASSUME NEW p \in Process, ReadOwnerText(p) PROVE Creators'
  BY <1>9 DEF ReadOwnerText, Moves, LockInv, LockTypeOK, Record, Step, Files, Adopters, Creators, Created
<1>10. ASSUME NEW p \in Process, Adopt(p) PROVE Creators'
  BY <1>10 DEF Adopt, Moves, HandleNamesPath, LockInv, LockTypeOK, Record, Step, Files, Adopters, Creators, Created
<1>11. ASSUME NEW p \in Process, AdoptRefused(p) PROVE Creators'
  BY <1>11 DEF AdoptRefused, Moves, HandleNamesPath, LockInv, LockTypeOK, Record, Step, Files, Adopters, Creators, Created
<1>12. ASSUME NEW p \in Process, Truncate(p) PROVE Creators'
  BY <1>12 DEF Truncate, Moves, LockInv, LockTypeOK, Record, Step, Files, Adopters, Creators, Created
<1>13. ASSUME NEW p \in Process, WriteOwnerRecord(p) PROVE Creators'
  BY <1>13 DEF WriteOwnerRecord, Moves, LockInv, LockTypeOK, Record, Step, Files, Adopters, Creators, Created
<1>14. ASSUME NEW p \in Process, BeginRelease(p) PROVE Creators'
  BY <1>14 DEF BeginRelease, Moves, HandleNamesPath, LockInv, LockTypeOK, Record, Step, Files, Adopters, Creators, Created
<1>15. ASSUME NEW p \in Process, RemoveLockPath(p) PROVE Creators'
  BY <1>15 DEF RemoveLockPath, Moves, LockInv, LockTypeOK, Record, Step, Files, Adopters, Creators, Created
<1>16. ASSUME NEW p \in Process, Close(p) PROVE Creators'
  BY <1>16 DEF Close, Moves, CloseLockHandle, LockInv, LockTypeOK, Record, Step, Files, Adopters, Creators, Created
<1>17. ASSUME NEW p \in Process, OwnerDies(p) PROVE Creators'
  BY <1>17 DEF OwnerDies, CloseLockHandle, LockInv, LockTypeOK, Record, Step, Files, Adopters, Creators, Created
<1>18. CASE DeleteByHand
  BY <1>18 DEF DeleteByHand, LockInv, LockTypeOK, Record, Step, Files, Adopters, Creators, Created
<1>19. CASE UNCHANGED lockVars
  BY <1>19 DEF lockVars, LockInv, LockTypeOK, Record, Step, Files, Adopters, Creators, Created
<1>20. QED
  BY <1>1, <1>2, <1>3, <1>4, <1>5, <1>6, <1>7, <1>8, <1>9, <1>10, <1>11,
     <1>12, <1>13, <1>14, <1>15, <1>16, <1>17, <1>18, <1>19 DEF LockNext

\* Only the owner unlinks, and only when there is none is a file created.
LEMMA NamedStep ==
  LockInv /\ OneOwner /\ [LockNext]_lockVars => OwnerIsNamed'
<1> SUFFICES ASSUME LockInv /\ OneOwner /\ [LockNext]_lockVars
             PROVE  OwnerIsNamed'
  OBVIOUS
<1> USE UnsupportedAssumption, NoneAssumption
<1>1. ASSUME NEW p \in Process, CreateLockFile(p) PROVE OwnerIsNamed'
  BY <1>1 DEF CreateLockFile, Moves, Fresh, LockInv, LockTypeOK, Record, Step, Files, OwnerIsNamed, OneOwner, Owns
<1>2. ASSUME NEW p \in Process, LockCreated(p) PROVE OwnerIsNamed'
  BY <1>2 DEF LockCreated, Moves, LockIsFree, LockInv, LockTypeOK, Record, Step, Files, OwnerIsNamed, OneOwner, Owns
<1>3. ASSUME NEW p \in Process, CreatorGivesUp(p) PROVE OwnerIsNamed'
  BY <1>3 DEF CreatorGivesUp, Moves, LockIsFree, CloseLockHandle, LockInv, LockTypeOK, Record, Step, Files, OwnerIsNamed, OneOwner, Owns
<1>4. ASSUME NEW p \in Process, CheckCreated(p) PROVE OwnerIsNamed'
  BY <1>4 DEF CheckCreated, Moves, HandleNamesPath, LockInv, LockTypeOK, Record, Step, Files, OwnerIsNamed, OneOwner, Owns
<1>5. ASSUME NEW p \in Process, CreatorLost(p) PROVE OwnerIsNamed'
  BY <1>5 DEF CreatorLost, Moves, HandleNamesPath, LockInv, LockTypeOK, Record, Step, Files, OwnerIsNamed, OneOwner, Owns
<1>6. ASSUME NEW p \in Process, OpenLockFile(p) PROVE OwnerIsNamed'
  BY <1>6 DEF OpenLockFile, Moves, LockInv, LockTypeOK, Record, Step, Files, OwnerIsNamed, OneOwner, Owns
<1>7. ASSUME NEW p \in Process, Probe(p) PROVE OwnerIsNamed'
  BY <1>7 DEF Probe, Moves, LockIsFree, LockInv, LockTypeOK, Record, Step, Files, OwnerIsNamed, OneOwner, Owns
<1>8. ASSUME NEW p \in Process, ProbeFails(p) PROVE OwnerIsNamed'
  BY <1>8 DEF ProbeFails, Moves, LockIsFree, CloseLockHandle, LockInv, LockTypeOK, Record, Step, Files, OwnerIsNamed, OneOwner, Owns
<1>9. ASSUME NEW p \in Process, ReadOwnerText(p) PROVE OwnerIsNamed'
  BY <1>9 DEF ReadOwnerText, Moves, LockInv, LockTypeOK, Record, Step, Files, OwnerIsNamed, OneOwner, Owns
<1>10. ASSUME NEW p \in Process, Adopt(p) PROVE OwnerIsNamed'
  BY <1>10 DEF Adopt, Moves, HandleNamesPath, LockInv, LockTypeOK, Record, Step, Files, OwnerIsNamed, OneOwner, Owns
<1>11. ASSUME NEW p \in Process, AdoptRefused(p) PROVE OwnerIsNamed'
  BY <1>11 DEF AdoptRefused, Moves, HandleNamesPath, LockInv, LockTypeOK, Record, Step, Files, OwnerIsNamed, OneOwner, Owns
<1>12. ASSUME NEW p \in Process, Truncate(p) PROVE OwnerIsNamed'
  BY <1>12 DEF Truncate, Moves, LockInv, LockTypeOK, Record, Step, Files, OwnerIsNamed, OneOwner, Owns
<1>13. ASSUME NEW p \in Process, WriteOwnerRecord(p) PROVE OwnerIsNamed'
  BY <1>13 DEF WriteOwnerRecord, Moves, LockInv, LockTypeOK, Record, Step, Files, OwnerIsNamed, OneOwner, Owns
<1>14. ASSUME NEW p \in Process, BeginRelease(p) PROVE OwnerIsNamed'
  BY <1>14 DEF BeginRelease, Moves, HandleNamesPath, LockInv, LockTypeOK, Record, Step, Files, OwnerIsNamed, OneOwner, Owns
<1>15. ASSUME NEW p \in Process, RemoveLockPath(p) PROVE OwnerIsNamed'
  BY <1>15 DEF RemoveLockPath, Moves, LockInv, LockTypeOK, Record, Step, Files, OwnerIsNamed, OneOwner, Owns
<1>16. ASSUME NEW p \in Process, Close(p) PROVE OwnerIsNamed'
  BY <1>16 DEF Close, Moves, CloseLockHandle, LockInv, LockTypeOK, Record, Step, Files, OwnerIsNamed, OneOwner, Owns
<1>17. ASSUME NEW p \in Process, OwnerDies(p) PROVE OwnerIsNamed'
  BY <1>17 DEF OwnerDies, CloseLockHandle, LockInv, LockTypeOK, Record, Step, Files, OwnerIsNamed, OneOwner, Owns
<1>18. CASE DeleteByHand
  BY <1>18 DEF DeleteByHand, LockInv, LockTypeOK, Record, Step, Files, OwnerIsNamed, OneOwner, Owns
<1>19. CASE UNCHANGED lockVars
  BY <1>19 DEF lockVars, LockInv, LockTypeOK, Record, Step, Files, OwnerIsNamed, OneOwner, Owns
<1>20. QED
  BY <1>1, <1>2, <1>3, <1>4, <1>5, <1>6, <1>7, <1>8, <1>9, <1>10, <1>11,
     <1>12, <1>13, <1>14, <1>15, <1>16, <1>17, <1>18, <1>19 DEF LockNext

-----------------------------------------------------------------------------
\* The inductive invariant.
LEMMA LockInvHolds == LockSpec => []LockInv
<1>1. LockInit => LockInv
  BY UnsupportedAssumption, NoneAssumption
  DEF LockInit, LockInv, LockTypeOK, Record, Step, Files, Locks, Lockers, Adopters,
      Creators, Created, OwnerIsNamed, Owns
<1>2. LockInv /\ [LockNext]_lockVars => LockInv'
  <2> SUFFICES ASSUME LockInv, [LockNext]_lockVars PROVE LockInv'
    OBVIOUS
  <2>1. LockTypeOK'
    BY LockTypeStep DEF LockInv
  <2>2. Files' /\ Locks' /\ Lockers'
    BY FilesStep, LocksStep, LockersStep
  <2>3. Adopters' /\ Creators'
    BY AdoptersStep, CreatorsStep
  <2>4. OwnerIsNamed'
    BY OwnersAreOne, NamedStep
  <2>5. QED
    BY <2>1, <2>2, <2>3, <2>4 DEF LockInv
<1>3. QED
  BY <1>1, <1>2, PTL DEF LockSpec

\* Every variable keeps its type: the states of the owner record and of the
\* processes of InstallLock.pas are the ones named here, and a record is
\* read and written only through an open file.
THEOREM LockTypeCorrect == LockSpec => []LockTypeOK
<1>1. LockInv => LockTypeOK
  BY DEF LockInv
<1>2. QED
  BY <1>1, LockInvHolds, PTL

\* At most one process owns the install lock, whatever repairs examine or
\* adopt it and whoever dies, and the path names its file all the while
\* (TakeOwnership, TryReclaimExisting, ReleaseOwnership).
THEOREM InstallLockExclusive == LockSpec => [](OneOwner /\ OwnerIsNamed)
<1>1. LockInv => OneOwner /\ OwnerIsNamed
  BY OwnersAreOne DEF LockInv
<1>2. QED
  BY <1>1, LockInvHolds, PTL

\* Repair adopts a lock only from a process that has died: a creator that is
\* still starting and an owner keep theirs (TryReclaimExisting).
THEOREM RepairAdoptsFromTheDead == LockSpec => []AdoptsFromTheDead
<1>1. LockInv => AdoptsFromTheDead
  <2> SUFFICES ASSUME LockInv, NEW p \in Process, NEW q \in Process,
                      step[p] = "adopting", file[q] = file[p],
                      step[q] \in {"created", "checking"} \/ Owns(q)
               PROVE  q = p
    BY DEF AdoptsFromTheDead
  <2>1. CASE Owns(q)
    BY <2>1, OwnersAreOne DEF OneOwner, Owns
  <2>2. CASE step[q] \in {"created", "checking"}
    BY <2>2 DEF LockInv, Creators, Created
  <2>3. QED
    BY <2>1, <2>2
<1>2. QED
  BY <1>1, LockInvHolds, PTL

-----------------------------------------------------------------------------
(***************************************************************************)
(* The inductive invariant of the transaction.                             *)
(***************************************************************************)

\* What the files at a path may hold.
ContentOf(p) == IF p \in Modules THEN Ref \cup {Absent, Torn}
                ELSE IF p \in Archives THEN Ref \cup {Absent}
                ELSE Graph \cup {Absent}

ContentsFit ==
  \A p \in Path : /\ disk[p] \in ContentOf(p)
                  /\ sidecar[p] \in ContentOf(p) \cup {NoSidecar}
                  /\ backup[p] \in ContentOf(p)

\* The lock file is retained before anything is resolved, so that the cfg phase
\* can tell which paths the old graph had.  What is published is in the graph.
CommandFits ==
  /\ \/ phase \in {"resolve", "publish", "lock", "cfg"}
     \/ phase = "retain" /\ Lockfile \notin todo
     => HasSidecar(Lockfile)
  /\ phase = "resolve" => current = NoPath
  /\ phase = "publish" => /\ todo \subseteq {Module(k) : k \in DOMAIN graph}
                          /\ current \in todo \cup {NoPath}

TransactionTyped == TypeOK /\ ContentsFit /\ CommandFits

\* The lock file of project d describes what is there, and no tree is torn.
Describes(d) ==
  /\ d[Cfg] = d[Lockfile]
  /\ \A k \in DOMAIN LockedGraph(d[Lockfile]) :
       d[Module(k)] = LockedGraph(d[Lockfile])[k]
  /\ \A p \in ArchivesOf(LockedGraph(d[Lockfile])) : d[p] = p[3]
WholeProject(d) == Describes(d) /\ \A p \in Path : d[p] # Torn

\* Every retained path still has its copy.
CopiesKept == \A p \in Retained : backup[p] = sidecar[p]

PlanPaths == {Module(k) : k \in DOMAIN graph} \cup ArchivesOf(graph)

\* Package k is published, and what was there before is retained.
Placed(k) ==
  /\ HasSidecar(Module(k)) /\ disk[Module(k)] = graph[k]
  /\ k \in Archived => /\ HasSidecar(Archive(k, graph[k]))
                       /\ disk[Archive(k, graph[k])] = graph[k]

\* Nothing of the transaction before it starts; its marks while it runs.
RootMarks ==
  /\ phase = "start" => ~ pending /\ ~ committed /\ Retained = {}
  /\ Publishing => pending /\ ~ committed /\ CopiesKept
  /\ Restoring => pending /\ ~ committed
  /\ phase = "finalize" => committed

\* The copies are taken before anything is changed.
Retaining ==
  /\ phase = "retain" => todo \subseteq Heads /\ Retained = Heads \ todo
  /\ phase = "resolve" => Retained = Heads
  /\ phase \in {"publish", "lock", "cfg", "orphans", "commit"} =>
       Heads \subseteq Retained
  /\ phase \in {"publish", "lock", "cfg"} => Retained \subseteq Heads \cup PlanPaths

PackagesPublished ==
  phase = "publish" =>
    \A k \in DOMAIN graph :
      IF Module(k) \in todo
      THEN HasSidecar(Module(k)) <=> current = Module(k)
      ELSE Placed(k)

\* What is written once the packages are in place.
Written ==
  /\ phase \in {"lock", "cfg", "orphans", "commit"} =>
       \A k \in DOMAIN graph : Placed(k)
  /\ phase \in {"cfg", "orphans", "commit"} => disk[Lockfile] = graph
  /\ phase \in {"orphans", "commit"} => disk[Cfg] = graph

OrphansPruned ==
  /\ phase = "orphans" =>
       /\ Mutates /\ todo \subseteq Orphans
       /\ current \in (Orphans \ todo) \cup {NoPath}
       /\ Orphans \ todo \subseteq Retained
       /\ Retained \subseteq Heads \cup PlanPaths \cup (Orphans \ todo)
       /\ \A p \in Orphans \ todo : p = current \/ disk[p] = Absent
  /\ phase = "commit" =>
       IF Mutates
       THEN /\ Orphans \subseteq Retained
            /\ Retained \subseteq Heads \cup PlanPaths \cup Orphans
            /\ \A p \in Orphans : disk[p] = Absent
            /\ disk[Manifest] = graph
       ELSE Retained \subseteq Heads \cup PlanPaths

\* What recovery has done.
RestoredSoFar ==
  /\ phase = "restore" =>
       \A p \in Retained : \/ p \in todo \cup {current} \/ failed
                           \/ disk[p] = sidecar[p]
  /\ phase = "sweep" /\ Unsettled => \A p \in Retained : disk[p] = sidecar[p]

\* All of it but the project itself.
RunSound ==
  /\ OldContentKept
  /\ RootMarks
  /\ Retaining
  /\ PackagesPublished
  /\ Written
  /\ OrphansPruned
  /\ RestoredSoFar

TransactionSound == WholeProject(Logical) /\ RunSound

TransactionInv == TransactionTyped /\ (undone \/ TransactionSound)

-----------------------------------------------------------------------------
(***************************************************************************)
(* Paths and graphs.                                                       *)
(***************************************************************************)

\* The five kinds of paths are told apart, and a path by what it names.
LEMMA PathFacts ==
  /\ Lockfile \in Path /\ Cfg \in Path /\ Manifest \in Path
  /\ Lockfile # Cfg /\ Lockfile # Manifest /\ Cfg # Manifest
  /\ {Lockfile, Cfg, Manifest} \cap (Modules \cup Archives) = {}
  /\ Modules \cap Archives = {}
  /\ Modules \subseteq Path /\ Archives \subseteq Path
  /\ \A p \in Path : p \in Modules \cup Archives \cup {Lockfile, Cfg, Manifest}
  /\ \A k \in Package : Module(k) \in Modules
  /\ \A k, r : Archive(k, r) \in Archives <=> k \in Archived /\ r \in Ref
  /\ \A k, l : Module(k) = Module(l) => k = l
  /\ \A k, l, r, s : Archive(k, r) = Archive(l, s) => k = l /\ r = s
  /\ \A k : Module(k)[2] = k
  /\ \A k, r : Archive(k, r)[3] = r
<1>1. \A k, l : Module(k) = Module(l) => k = l
  BY DEF Module
<1>2. \A k, l, r, s : Archive(k, r) = Archive(l, s) => k = l /\ r = s
  BY DEF Archive
<1>3. \A k : Module(k)[2] = k
  BY DEF Module
<1>4. \A k, r : Archive(k, r)[3] = r
  BY DEF Archive
<1>5. \A k, l, r : Module(k) # Archive(l, r)
  BY DEF Module, Archive
<1>6. \A k : Module(k) \notin {Lockfile, Cfg, Manifest}
  BY DEF Module, Lockfile, Cfg, Manifest
<1>7. \A k, r : Archive(k, r) \notin {Lockfile, Cfg, Manifest}
  BY DEF Archive, Lockfile, Cfg, Manifest
<1>8. Lockfile # Cfg /\ Lockfile # Manifest /\ Cfg # Manifest
  BY DEF Lockfile, Cfg, Manifest
<1>9. \A k, r : Archive(k, r) \in Archives <=> k \in Archived /\ r \in Ref
  BY <1>2 DEF Archives
<1>10. Modules \cap Archives = {}
  BY <1>5 DEF Modules, Archives
<1>11. {Lockfile, Cfg, Manifest} \cap (Modules \cup Archives) = {}
  BY <1>6, <1>7 DEF Modules, Archives
<1> QED
  BY <1>1, <1>2, <1>3, <1>4, <1>8, <1>9, <1>10, <1>11 DEF Path, Modules

\* A graph gives a ref to each of its packages.
LEMMA GraphFacts ==
  /\ \A g \in Graph : DOMAIN g \subseteq Package /\ \A k \in DOMAIN g : g[k] \in Ref
  /\ NoGraph \in Graph /\ DOMAIN NoGraph = {}
  /\ \A text \in Graph \cup {Absent} : LockedGraph(text) \in Graph
  /\ Absent \notin Graph /\ Torn \notin Graph
<1>1. \A g \in Graph : DOMAIN g \subseteq Package /\ \A k \in DOMAIN g : g[k] \in Ref
  BY DEF Graph
<1>2. NoGraph \in [{} -> Ref] /\ {} \in SUBSET Package /\ DOMAIN NoGraph = {}
  BY DEF NoGraph
<1>3. NoGraph \in Graph
  BY <1>2 DEF Graph
<1>4. \A text \in Graph \cup {Absent} : LockedGraph(text) \in Graph
  BY <1>3 DEF LockedGraph, NoGraph
<1> QED
  BY <1>1, <1>2, <1>3, <1>4, ContentAssumption

\* The archives of a graph, and what an old graph leaves behind, are paths of
\* the project; what is left behind is nothing the new graph has.
LEMMA OrphanFacts ==
  ASSUME NEW old \in Graph, NEW g \in Graph
  PROVE  /\ ArchivesOf(g) \subseteq Archives
         /\ OrphanedPaths(old, g) \subseteq Modules \cup Archives
         /\ OrphanedPaths(old, g) \cap ArchivesOf(g) = {}
         /\ \A k \in DOMAIN g : Module(k) \notin OrphanedPaths(old, g)
<1>1. \A h \in Graph : ArchivesOf(h) \subseteq Archives
  BY GraphFacts DEF ArchivesOf, Archives
<1>2. \A k \in DOMAIN old \cup DOMAIN g : Module(k) \in Modules
  BY GraphFacts, PathFacts
<1>3. OrphanedPaths(old, g) \subseteq Modules \cup Archives
  BY <1>1, <1>2 DEF OrphanedPaths
<1>4. OrphanedPaths(old, g) \cap ArchivesOf(g) = {}
  BY <1>1, <1>2, PathFacts DEF OrphanedPaths
<1>5. \A k \in DOMAIN g : Module(k) \notin OrphanedPaths(old, g)
  BY <1>1, <1>2, PathFacts DEF OrphanedPaths
<1> QED
  BY <1>1, <1>3, <1>4, <1>5

-----------------------------------------------------------------------------
(***************************************************************************)
(* Types.                                                                  *)
(***************************************************************************)

LEMMA ContentFacts ==
  /\ \A p \in Path : Absent \in ContentOf(p) /\ ContentOf(p) \subseteq Content
  /\ \A k \in Package : ContentOf(Module(k)) = Ref \cup {Absent, Torn}
  /\ \A k \in Archived, r \in Ref : ContentOf(Archive(k, r)) = Ref \cup {Absent}
  /\ \A p \in {Lockfile, Cfg, Manifest} : ContentOf(p) = Graph \cup {Absent}
  /\ \A p \in Path : p \in Modules \/ Torn \notin ContentOf(p)
<1>1. \A p \in Path : p \in Modules \/ Torn \notin ContentOf(p)
  BY ContentAssumption DEF ContentOf
<1>2. \A k \in Archived, r \in Ref : Archive(k, r) \in Archives \ Modules
  BY PathFacts
<1> QED
  BY <1>1, <1>2, PathFacts DEF ContentOf, Content

\* The orphans of a transaction are paths.
LEMMA OrphansArePaths ==
  ASSUME TransactionTyped, HasSidecar(Lockfile)
  PROVE  /\ Orphans \subseteq Path
         /\ LockedGraph(sidecar[Lockfile]) \in Graph
<1>1. sidecar[Lockfile] \in Graph \cup {Absent}
  BY PathFacts, ContentFacts DEF TransactionTyped, ContentsFit, HasSidecar
<1>2. LockedGraph(sidecar[Lockfile]) \in Graph /\ graph \in Graph
  BY <1>1, GraphFacts DEF TransactionTyped, TypeOK
<1> QED
  BY <1>2, OrphanFacts, PathFacts DEF Orphans

LEMMA TypedInit == Init => TransactionTyped
<1> SUFFICES ASSUME Init PROVE TransactionTyped
  OBVIOUS
<1>1. NoGraph \in Graph
  BY GraphFacts
<1>2. TypeOK
  <2>1. Absent \in Content /\ Torn \in Content
    BY DEF Content
  <2>2. disk \in [Path -> Content] /\ backup \in [Path -> Content]
    BY <2>1 DEF Init, NoBackups
  <2>3. sidecar \in [Path -> Content]
    BY <2>1 DEF Init, NoSidecars, NoSidecar
  <2>4. faults \in 0..MaxFaults
    BY BoundsAssumption DEF Init
  <2>5. pending \in BOOLEAN /\ committed \in BOOLEAN /\ failed \in BOOLEAN /\ undone \in BOOLEAN
    BY Zenon DEF Init
  <2>6. phase \in Phase /\ command \in Command /\ graph \in Graph /\ todo \subseteq Path
        /\ current \in Path \cup {NoPath}
    BY <1>1 DEF Init, Phase, Command
  <2> QED
    BY <2>2, <2>3, <2>4, <2>5, <2>6 DEF TypeOK
<1>3. ContentsFit
  BY ContentFacts DEF Init, ContentsFit, NoSidecars, NoBackups, NoSidecar
<1>4. CommandFits
  BY DEF Init, CommandFits
<1> QED
  BY <1>2, <1>3, <1>4 DEF TransactionTyped

\* What stays in place keeps its type.
LEMMA TypedRest ==
  ASSUME TransactionTyped
  PROVE  /\ UNCHANGED disk => disk' \in [Path -> Content] /\ \A p \in Path : disk'[p] \in ContentOf(p)
         /\ UNCHANGED sidecar => /\ sidecar' \in [Path -> Content]
                                 /\ \A p \in Path : sidecar'[p] \in ContentOf(p) \cup {NoSidecar}
         /\ UNCHANGED backup => backup' \in [Path -> Content] /\ \A p \in Path : backup'[p] \in ContentOf(p)
BY DEF TransactionTyped, TypeOK, ContentsFit

\* One path gets a content that fits it.
LEMMA TypedPut ==
  ASSUME TransactionTyped, NEW p \in Path, NEW content \in ContentOf(p), Put(p, content)
  PROVE  disk' \in [Path -> Content] /\ \A q \in Path : disk'[q] \in ContentOf(q)
<1>1. content \in Content
  BY ContentFacts
<1> QED
  BY <1>1 DEF TransactionTyped, TypeOK, ContentsFit, Put

LEMMA TypedRetain ==
  ASSUME TransactionTyped, NEW p \in Path, Retain(p)
  PROVE  /\ sidecar' \in [Path -> Content]
         /\ \A q \in Path : sidecar'[q] \in ContentOf(q) \cup {NoSidecar}
         /\ backup' \in [Path -> Content]
         /\ \A q \in Path : backup'[q] \in ContentOf(q)
<1>1. disk[p] \in ContentOf(p) /\ disk[p] \in Content
  BY DEF TransactionTyped, TypeOK, ContentsFit
<1>2. sidecar' = [sidecar EXCEPT ![p] = disk[p]] /\ backup' = [backup EXCEPT ![p] = disk[p]]
  BY DEF Retain
<1>3. sidecar \in [Path -> Content] /\ backup \in [Path -> Content]
  BY DEF TransactionTyped, TypeOK
<1>4. \A q \in Path : sidecar[q] \in ContentOf(q) \cup {NoSidecar} /\ backup[q] \in ContentOf(q)
  BY DEF TransactionTyped, ContentsFit
<1> HIDE DEF Retain, ContentOf
<1> QED
  BY <1>1, <1>2, <1>3, <1>4

\* The root is wiped, or only some of its sidecars are left.
LEMMA TypedWipe ==
  ASSUME TransactionTyped, WipeRoot \/ (\E left \in SUBSET Retained : Leaves(left))
  PROVE  /\ sidecar' \in [Path -> Content]
         /\ \A q \in Path : sidecar'[q] \in ContentOf(q) \cup {NoSidecar}
         /\ backup' \in [Path -> Content]
         /\ \A q \in Path : backup'[q] \in ContentOf(q)
<1>1. NoSidecar \in Content /\ Absent \in Content /\ \A q \in Path : Absent \in ContentOf(q)
  BY ContentFacts DEF NoSidecar, Content
<1>2. sidecar \in [Path -> Content] /\ backup \in [Path -> Content]
  BY DEF TransactionTyped, TypeOK
<1>3. \A q \in Path : sidecar[q] \in ContentOf(q) \cup {NoSidecar} /\ backup[q] \in ContentOf(q)
  BY DEF TransactionTyped, ContentsFit
<1>4. CASE WipeRoot
  BY <1>1, <1>4 DEF WipeRoot, NoSidecars, NoBackups
<1>5. ASSUME NEW left \in SUBSET Retained, Leaves(left)
      PROVE  /\ sidecar' \in [Path -> Content]
             /\ \A q \in Path : sidecar'[q] \in ContentOf(q) \cup {NoSidecar}
             /\ backup' \in [Path -> Content]
             /\ \A q \in Path : backup'[q] \in ContentOf(q)
  <2>1. sidecar' = [q \in Path |-> IF q \in left THEN sidecar[q] ELSE NoSidecar]
    BY <1>5 DEF Leaves
  <2>2. \/ backup' = [q \in Path |-> IF q \in left THEN backup[q] ELSE Absent]
        \/ backup' = [q \in Path |-> Absent]
    BY <1>5 DEF Leaves, NoBackups
  <2>3. sidecar' \in [Path -> Content] /\ \A q \in Path : sidecar'[q] \in ContentOf(q) \cup {NoSidecar}
    BY <1>1, <1>2, <1>3, <2>1
  <2>4. backup' \in [Path -> Content] /\ \A q \in Path : backup'[q] \in ContentOf(q)
    BY <1>1, <1>2, <1>3, <2>2
  <2> QED
    BY <2>3, <2>4
<1> QED
  BY <1>4, <1>5

ControlTyped ==
  /\ pending \in BOOLEAN /\ committed \in BOOLEAN
  /\ phase \in Phase /\ command \in Command /\ graph \in Graph
  /\ todo \subseteq Path /\ current \in Path \cup {NoPath}
  /\ failed \in BOOLEAN /\ faults \in 0..MaxFaults /\ undone \in BOOLEAN

LEMMA TypedVariables ==
  ASSUME ControlTyped', CommandFits',
         disk' \in [Path -> Content], \A p \in Path : disk'[p] \in ContentOf(p),
         sidecar' \in [Path -> Content],
         \A p \in Path : sidecar'[p] \in ContentOf(p) \cup {NoSidecar},
         backup' \in [Path -> Content], \A p \in Path : backup'[p] \in ContentOf(p)
  PROVE  TransactionTyped'
<1>1. TypeOK'
  BY DEF TypeOK, ControlTyped
<1>2. ContentsFit'
  BY DEF ContentsFit, ContentOf
<1> QED
  BY <1>1, <1>2 DEF TransactionTyped

LEMMA TypedFaults ==
  ASSUME TransactionTyped, Faults
  PROVE  faults' \in 0..MaxFaults
BY BoundsAssumption DEF TransactionTyped, TypeOK, Faults

\* The end of a command, whatever it did to the files.
LEMMA TypedEnds ==
  ASSUME TransactionTyped, Ends, pending' \in BOOLEAN, committed' \in BOOLEAN,
         undone' \in BOOLEAN, faults' \in 0..MaxFaults
  PROVE  ControlTyped' /\ CommandFits'
<1>1. NoGraph \in Graph
  BY GraphFacts
<1>2. phase' = "idle" /\ command' = "none" /\ graph' = NoGraph /\ todo' = {} /\ current' = NoPath
  BY DEF Ends
<1>3. failed' \in BOOLEAN
  BY Zenon DEF Ends
<1>4. ControlTyped'
  BY <1>1, <1>2, <1>3 DEF ControlTyped, Phase, Command
<1> QED
  BY <1>2, <1>4 DEF CommandFits

\* The command goes on.
LEMMA TypedGoTo ==
  ASSUME TransactionTyped, NEW next \in Phase, NEW left \in SUBSET Path, NEW p \in Path \cup {NoPath},
         GoTo(next, left, p), pending' \in BOOLEAN, committed' \in BOOLEAN
  PROVE  ControlTyped'
BY DEF TransactionTyped, TypeOK, ControlTyped, GoTo, faultVars

LEMMA TypedRecovery ==
  ASSUME TransactionTyped,
         \/ \E c \in Command \ {"none"} : Begin(c)
         \/ Recover \/ EndRecover \/ Sweep \/ SweepInterrupted
  PROVE  TransactionTyped'
<1> USE TypedVariables, TypedRest
<1>0. pending \in BOOLEAN /\ committed \in BOOLEAN /\ undone \in BOOLEAN /\ faults \in 0..MaxFaults
      /\ Retained \subseteq Path
  BY DEF TransactionTyped, TypeOK, Retained
<1>1. ASSUME NEW c \in Command \ {"none"}, Begin(c) PROVE TransactionTyped'
  <2>1. UNCHANGED <<disk, rootVars, graph, todo, current, failed, faultVars>>
        /\ phase' = "recover" /\ command' = c
    BY <1>1 DEF Begin
  <2>2. ControlTyped'
    BY <2>1 DEF TransactionTyped, TypeOK, ControlTyped, rootVars, faultVars, Phase
  <2>3. CommandFits'
    BY <2>1 DEF CommandFits
  <2> QED
    BY <2>1, <2>2, <2>3 DEF rootVars
<1>2. CASE Recover
  <2>1. UNCHANGED <<disk, rootVars>>
    BY <1>2 DEF Recover
  <2>2. PICK next \in {"restore", "sweep"}, left \in SUBSET Path : GoTo(next, left, NoPath)
    BY <1>0, <1>2 DEF Recover
  <2>3. ControlTyped'
    BY <1>0, <2>1, <2>2, TypedGoTo DEF rootVars, Phase
  <2>4. CommandFits'
    BY <2>2 DEF CommandFits, GoTo
  <2> QED
    BY <2>1, <2>3, <2>4 DEF rootVars
<1>3. CASE EndRecover
  <2>1. UNCHANGED <<disk, rootVars>>
    BY <1>3 DEF EndRecover
  <2>2. (Ends /\ UNCHANGED faultVars) \/ GoTo("sweep", {}, NoPath)
    BY <1>3 DEF EndRecover
  <2>3. ControlTyped' /\ CommandFits'
    <3>1. CASE Ends /\ UNCHANGED faultVars
      BY <1>0, <2>1, <3>1, TypedEnds DEF rootVars, faultVars
    <3>2. CASE GoTo("sweep", {}, NoPath)
      <4>1. ControlTyped'
        BY <1>0, <2>1, <3>2, TypedGoTo DEF rootVars, Phase
      <4> QED
        BY <3>2, <4>1 DEF CommandFits, GoTo
    <3> QED
      BY <2>2, <3>1, <3>2
  <2> QED
    BY <2>1, <2>3 DEF rootVars
<1>4. CASE Sweep
  <2>1. UNCHANGED disk /\ WipeRoot
    BY <1>4 DEF Sweep
  <2>2. pending' \in BOOLEAN /\ committed' \in BOOLEAN
    BY <2>1, Zenon DEF WipeRoot
  <2>3. (Ends /\ UNCHANGED faultVars) \/ GoTo("start", {}, NoPath)
    BY <1>4 DEF Sweep
  <2>4. ControlTyped' /\ CommandFits'
    <3>1. CASE Ends /\ UNCHANGED faultVars
      BY <1>0, <2>2, <3>1, TypedEnds DEF faultVars
    <3>2. CASE GoTo("start", {}, NoPath)
      <4>1. ControlTyped'
        BY <2>2, <3>2, TypedGoTo DEF Phase
      <4> QED
        BY <3>2, <4>1 DEF CommandFits, GoTo
    <3> QED
      BY <2>3, <3>1, <3>2
  <2> QED
    BY <2>1, <2>4, TypedWipe
<1>5. CASE SweepInterrupted
  <2>1. UNCHANGED disk /\ (\E left \in SUBSET Retained : Leaves(left)) /\ Ends /\ Faults
    BY <1>5 DEF SweepInterrupted
  <2>2. pending' \in BOOLEAN /\ committed' \in BOOLEAN
    BY <1>0, <1>5, Zenon DEF SweepInterrupted
  <2>3. undone' \in BOOLEAN
    BY <1>0, <1>5, Zenon DEF SweepInterrupted
  <2>4. ControlTyped' /\ CommandFits'
    BY <2>1, <2>2, <2>3, TypedEnds, TypedFaults
  <2> QED
    BY <2>1, <2>4, TypedWipe
<1> QED
  BY <1>1, <1>2, <1>3, <1>4, <1>5

LEMMA TypedRestore ==
  ASSUME TransactionTyped, Restoring,
         \/ \E p \in Path : RestoreRefused(p) \/ BeginRestore(p)
         \/ RemoveDestination \/ MoveBackup \/ RemoveSidecar
         \/ RestoreFails \/ SidecarStays
  PROVE  TransactionTyped'
<1> USE TypedVariables, TypedRest
<1>0. /\ pending \in BOOLEAN /\ committed \in BOOLEAN /\ undone \in BOOLEAN /\ failed \in BOOLEAN
      /\ faults \in 0..MaxFaults /\ phase \in {"restore", "rollback"} /\ command \in Command
      /\ graph \in Graph /\ todo \subseteq Path /\ current \in Path \cup {NoPath}
  BY DEF TransactionTyped, TypeOK, Restoring
<1>1. phase' = phase => CommandFits'
  BY <1>0 DEF CommandFits
<1>2. ASSUME NEW p \in Path, RestoreRefused(p) PROVE TransactionTyped'
  <2>1. UNCHANGED <<disk, rootVars, phase, command, graph, current, faultVars>> /\ todo' = todo \ {p}
    BY <1>2 DEF RestoreRefused
  <2>2. failed' \in BOOLEAN
    BY <1>2, Zenon DEF RestoreRefused
  <2>3. ControlTyped'
    BY <1>0, <2>1, <2>2 DEF ControlTyped, rootVars, faultVars, Phase
  <2> QED
    BY <1>1, <2>1, <2>3 DEF rootVars
<1>3. ASSUME NEW p \in Path, BeginRestore(p) PROVE TransactionTyped'
  <2>1. UNCHANGED <<disk, rootVars>> /\ GoTo(phase, todo \ {p}, p)
    BY <1>3 DEF BeginRestore
  <2>2. ControlTyped'
    BY <1>0, <2>1, TypedGoTo DEF rootVars, Phase
  <2> QED
    BY <1>1, <2>1, <2>2 DEF rootVars, GoTo
<1>4. CASE RemoveDestination
  <2>1. UNCHANGED <<rootVars, commandVars, faultVars>> /\ current # NoPath /\ Removing(current)
    BY <1>4 DEF RemoveDestination
  <2>2. current \in Path
    BY <1>0, <2>1
  <2>3. PICK content \in ContentOf(current) : Put(current, content)
    BY <2>1, <2>2, ContentFacts DEF Removing, ContentOf
  <2>4. ControlTyped'
    BY <1>0, <2>1 DEF ControlTyped, rootVars, commandVars, faultVars, Phase
  <2> QED
    BY <1>1, <2>1, <2>2, <2>3, <2>4, TypedPut DEF rootVars, commandVars
<1>5. CASE MoveBackup
  <2>1. /\ UNCHANGED <<pending, committed, sidecar, commandVars, faultVars>> /\ current # NoPath
        /\ Put(current, backup[current]) /\ backup' = [backup EXCEPT ![current] = Absent]
    BY <1>5 DEF MoveBackup
  <2>2. current \in Path
    BY <1>0, <2>1
  <2>3. backup[current] \in ContentOf(current) /\ \A p \in Path : Absent \in ContentOf(p) /\ Absent \in Content
    BY <2>2, ContentFacts DEF TransactionTyped, ContentsFit
  <2>4. backup' \in [Path -> Content] /\ \A p \in Path : backup'[p] \in ContentOf(p)
    BY <2>1, <2>2, <2>3 DEF TransactionTyped, TypeOK, ContentsFit
  <2>5. ControlTyped'
    BY <1>0, <2>1 DEF ControlTyped, commandVars, faultVars, Phase
  <2> QED
    BY <1>1, <2>1, <2>2, <2>3, <2>4, <2>5, TypedPut DEF commandVars
<1>6. CASE RemoveSidecar
  <2>1. /\ UNCHANGED <<disk, pending, committed, backup>> /\ GoTo(phase, todo, NoPath)
        /\ sidecar' = [sidecar EXCEPT ![current] = NoSidecar]
    BY <1>6 DEF RemoveSidecar
  <2>2. NoSidecar \in Content
    BY DEF NoSidecar, Content
  <2>3. sidecar' \in [Path -> Content] /\ \A p \in Path : sidecar'[p] \in ContentOf(p) \cup {NoSidecar}
    BY <2>1, <2>2 DEF TransactionTyped, TypeOK, ContentsFit
  <2>4. ControlTyped'
    BY <1>0, <2>1, TypedGoTo DEF Phase
  <2> QED
    BY <1>1, <2>1, <2>3, <2>4 DEF GoTo
<1>7. CASE RestoreFails \/ SidecarStays
  <2>1. UNCHANGED <<disk, rootVars, phase, command, graph, todo, undone>> /\ Faults /\ current' = NoPath
    BY <1>7 DEF RestoreFails, SidecarStays
  <2>2. failed' \in BOOLEAN
    BY <1>0, <1>7, Zenon DEF RestoreFails, SidecarStays
  <2>3. ControlTyped'
    BY <1>0, <2>1, <2>2, TypedFaults DEF ControlTyped, rootVars, Phase
  <2> QED
    BY <1>1, <2>1, <2>3 DEF rootVars
<1> QED
  BY <1>2, <1>3, <1>4, <1>5, <1>6, <1>7

LEMMA TypedPublish ==
  ASSUME TransactionTyped, phase = "publish",
         \/ \E k \in Package : \/ RetainModule(k) \/ RetainArchive(k) \/ MoveArchive(k)
                               \/ MoveModuleAside(k) \/ MoveModuleIn(k)
         \/ EndPublish
  PROVE  TransactionTyped'
<1> USE TypedVariables, TypedRest
<1>0. /\ pending \in BOOLEAN /\ committed \in BOOLEAN /\ undone \in BOOLEAN /\ failed \in BOOLEAN
      /\ faults \in 0..MaxFaults /\ command \in Command
      /\ graph \in Graph /\ todo \subseteq Path /\ current \in Path \cup {NoPath}
      /\ todo \subseteq {Module(k) : k \in DOMAIN graph} /\ current \in todo \cup {NoPath}
      /\ HasSidecar(Lockfile)
  BY DEF TransactionTyped, TypeOK, CommandFits
<1>1. \A k \in DOMAIN graph : /\ k \in Package /\ graph[k] \in Ref
                              /\ Module(k) \in Path
                              /\ k \in Archived => Archive(k, graph[k]) \in Path
  BY <1>0, GraphFacts, PathFacts
<1>2. \A k \in Package : current = Module(k) => k \in DOMAIN graph /\ current \in todo
  BY <1>0, PathFacts, ContentAssumption
<1>3. Lockfile \in Path /\ \A k \in Package : Module(k) # Lockfile /\ Module(k) \in Path
  BY PathFacts
<1>4. ASSUME NEW p \in Path, Retain(p) PROVE HasSidecar(Lockfile)'
  <2>1. sidecar' = [sidecar EXCEPT ![p] = disk[p]] /\ sidecar \in [Path -> Content]
    BY <1>4 DEF Retain, TransactionTyped, TypeOK
  <2>2. disk[Lockfile] # Torn
    BY <1>3, ContentFacts, PathFacts DEF TransactionTyped, ContentsFit
  <2> QED
    BY <1>0, <1>3, <2>1, <2>2 DEF HasSidecar, NoSidecar
<1>5. UNCHANGED sidecar => HasSidecar(Lockfile)'
  BY <1>0 DEF HasSidecar
<1>6. ASSUME NEW k \in Package, RetainModule(k) PROVE TransactionTyped'
  <2>1. UNCHANGED <<disk, pending, committed>> /\ Retain(Module(k)) /\ GoTo("publish", todo, Module(k))
        /\ Module(k) \in todo
    BY <1>6 DEF RetainModule, Retain
  <2>2. ControlTyped'
    BY <1>0, <1>3, <2>1, TypedGoTo DEF Phase
  <2>3. CommandFits'
    BY <1>0, <1>3, <1>4, <2>1 DEF CommandFits, GoTo
  <2> QED
    BY <1>3, <2>1, <2>2, <2>3, TypedRetain
<1>7. ASSUME NEW k \in Package, RetainArchive(k) PROVE TransactionTyped'
  <2>1. /\ UNCHANGED <<disk, pending, committed>> /\ Retain(Archive(k, graph[k]))
        /\ GoTo("publish", todo, current) /\ k \in Archived /\ k \in DOMAIN graph
    BY <1>2, <1>7 DEF RetainArchive, Retain
  <2>2. ControlTyped'
    BY <1>0, <2>1, TypedGoTo DEF Phase
  <2>3. CommandFits'
    BY <1>0, <1>1, <1>4, <2>1 DEF CommandFits, GoTo
  <2> QED
    BY <1>1, <2>1, <2>2, <2>3, TypedRetain
<1>8. ASSUME NEW p \in Path, NEW content \in ContentOf(p), Put(p, content),
             UNCHANGED <<rootVars, commandVars, faultVars>>
      PROVE  TransactionTyped'
  <2>1. ControlTyped'
    BY <1>0, <1>8 DEF ControlTyped, rootVars, commandVars, faultVars, Phase
  <2>2. CommandFits'
    BY <1>0, <1>5, <1>8 DEF CommandFits, rootVars, commandVars
  <2> QED
    BY <1>8, <2>1, <2>2, TypedPut DEF rootVars
<1>9. ASSUME NEW k \in Package, MoveArchive(k) PROVE TransactionTyped'
  <2>1. /\ Put(Archive(k, graph[k]), graph[k]) /\ k \in Archived /\ k \in DOMAIN graph
        /\ UNCHANGED <<rootVars, commandVars, faultVars>>
    BY <1>2, <1>9 DEF MoveArchive
  <2>2. Archive(k, graph[k]) \in Path /\ graph[k] \in ContentOf(Archive(k, graph[k]))
    BY <1>1, <2>1, ContentFacts
  <2> QED
    BY <1>8, <2>1, <2>2
<1>10. ASSUME NEW k \in Package, MoveModuleAside(k) PROVE TransactionTyped'
  <2>1. Put(Module(k), Absent) /\ UNCHANGED <<rootVars, commandVars, faultVars>>
    BY <1>10 DEF MoveModuleAside
  <2> QED
    BY <1>3, <1>8, <2>1, ContentFacts
<1>11. ASSUME NEW k \in Package, MoveModuleIn(k) PROVE TransactionTyped'
  <2>1. /\ UNCHANGED rootVars /\ Put(Module(k), graph[k]) /\ k \in DOMAIN graph
        /\ GoTo("publish", todo \ {Module(k)}, NoPath)
    BY <1>2, <1>11 DEF MoveModuleIn
  <2>2. graph[k] \in ContentOf(Module(k))
    BY <1>1, <2>1, ContentFacts
  <2>3. ControlTyped'
    BY <1>0, <2>1, TypedGoTo DEF Phase, rootVars
  <2>4. CommandFits'
    BY <1>0, <1>5, <2>1 DEF CommandFits, GoTo, rootVars
  <2> QED
    BY <1>3, <2>1, <2>2, <2>3, <2>4, TypedPut DEF rootVars
<1>12. CASE EndPublish
  <2>1. UNCHANGED <<disk, rootVars>> /\ GoTo("lock", {}, NoPath)
    BY <1>12 DEF EndPublish
  <2>2. ControlTyped'
    BY <1>0, <2>1, TypedGoTo DEF Phase, rootVars
  <2>3. CommandFits'
    BY <1>5, <2>1 DEF CommandFits, GoTo, rootVars
  <2> QED
    BY <2>1, <2>2, <2>3 DEF rootVars
<1> QED
  BY <1>6, <1>7, <1>9, <1>10, <1>11, <1>12

\* The other steps of a publication.
LEMMA TypedTransaction ==
  ASSUME TransactionTyped,
         \/ Start \/ (\E p \in Path : RetainHead(p)) \/ (\E g \in Graph : Resolve(g))
         \/ WriteLock \/ PublishCfg
         \/ (\E p \in Path : RetainOrphan(p)) \/ RemoveOrphan \/ OrphanRemoved
         \/ WriteManifest \/ Commit
  PROVE  TransactionTyped'
<1> USE TypedVariables, TypedRest
<1>0. /\ pending \in BOOLEAN /\ committed \in BOOLEAN /\ undone \in BOOLEAN /\ failed \in BOOLEAN
      /\ faults \in 0..MaxFaults /\ command \in Command
      /\ graph \in Graph /\ todo \subseteq Path /\ current \in Path \cup {NoPath}
  BY DEF TransactionTyped, TypeOK
<1>1. Heads \subseteq Path /\ Lockfile \in Heads /\ Lockfile \in Path /\ Cfg \in Path /\ Manifest \in Path
  BY PathFacts DEF Heads
<1>2. \A p \in {Lockfile, Cfg, Manifest} : graph \in ContentOf(p)
  BY <1>0, ContentFacts
<1>3. CASE Start
  <2>1. UNCHANGED <<disk, committed, sidecar, backup>> /\ GoTo("retain", Heads, NoPath) /\ pending' = TRUE
    BY <1>3 DEF Start
  <2>2. ControlTyped'
    BY <1>0, <1>1, <2>1, TypedGoTo DEF Phase
  <2>3. CommandFits'
    BY <1>1, <2>1 DEF CommandFits, GoTo
  <2> QED
    BY <2>1, <2>2, <2>3
<1>4. ASSUME NEW p \in Path, RetainHead(p) PROVE TransactionTyped'
  <2>1. /\ UNCHANGED <<disk, pending, committed>> /\ Retain(p)
        /\ p \in todo /\ phase = "retain"
        /\ GoTo(IF todo = {p} THEN "resolve" ELSE "retain", todo \ {p}, NoPath)
    BY <1>4 DEF RetainHead, Retain
  <2>2. ControlTyped'
    <3>1. (IF todo = {p} THEN "resolve" ELSE "retain") \in Phase
      BY DEF Phase
    <3> QED
      BY <1>0, <2>1, <3>1, TypedGoTo
  <2>3. Lockfile \notin todo \ {p} => HasSidecar(Lockfile)'
    <3>1. sidecar' = [sidecar EXCEPT ![p] = disk[p]] /\ sidecar \in [Path -> Content]
      BY <2>1 DEF Retain, TransactionTyped, TypeOK
    <3>2. disk[Lockfile] # Torn
      BY <1>1, ContentFacts, PathFacts DEF TransactionTyped, ContentsFit
    <3>3. p = Lockfile \/ Lockfile \in todo \ {p} \/ HasSidecar(Lockfile)
      BY <2>1 DEF TransactionTyped, CommandFits
    <3> QED
      BY <1>1, <3>1, <3>2, <3>3 DEF HasSidecar, NoSidecar
  <2>4. CommandFits'
    <3>1. CASE todo = {p}
      BY <2>1, <2>3, <3>1 DEF CommandFits, GoTo
    <3>2. CASE todo # {p}
      BY <2>1, <2>3, <3>2 DEF CommandFits, GoTo
    <3> QED
      BY <3>1, <3>2
  <2> QED
    BY <2>1, <2>2, <2>4, TypedRetain
<1>5. ASSUME NEW g \in Graph, Resolve(g) PROVE TransactionTyped'
  <2>1. /\ UNCHANGED <<disk, rootVars, command, current, failed, faultVars>> /\ phase = "resolve"
        /\ graph' = g /\ phase' = "publish" /\ todo' = {Module(k) : k \in DOMAIN g}
    BY <1>5 DEF Resolve
  <2>2. \A k \in DOMAIN g : Module(k) \in Path
    BY GraphFacts, PathFacts
  <2>3. ControlTyped'
    BY <1>0, <2>1, <2>2 DEF ControlTyped, rootVars, faultVars, Phase
  <2>4. CommandFits'
    BY <2>1 DEF TransactionTyped, CommandFits, HasSidecar, rootVars
  <2> QED
    BY <2>1, <2>3, <2>4 DEF rootVars
<1>6. CASE WriteLock
  <2>1. /\ UNCHANGED rootVars /\ GoTo("cfg", {}, NoPath) /\ phase = "lock"
        /\ UNCHANGED disk \/ Put(Lockfile, graph)
    BY <1>6 DEF WriteLock
  <2>2. ControlTyped'
    BY <1>0, <2>1, TypedGoTo DEF Phase, rootVars
  <2>3. CommandFits'
    BY <2>1 DEF TransactionTyped, CommandFits, HasSidecar, GoTo, rootVars
  <2>4. disk' \in [Path -> Content] /\ \A p \in Path : disk'[p] \in ContentOf(p)
    BY <1>1, <1>2, <2>1, TypedPut
  <2> QED
    BY <2>1, <2>2, <2>3, <2>4 DEF rootVars
<1>7. CASE PublishCfg
  <2>1. /\ UNCHANGED rootVars /\ Put(Cfg, graph) /\ phase = "cfg"
        /\ GoTo("orphans", Orphans, NoPath) \/ GoTo("commit", {}, NoPath)
    BY <1>7 DEF PublishCfg
  <2>2. Orphans \subseteq Path
    BY <2>1, OrphansArePaths DEF TransactionTyped, CommandFits
  <2>3. ControlTyped'
    BY <1>0, <2>1, <2>2, TypedGoTo DEF Phase, rootVars
  <2>4. CommandFits'
    BY <2>1 DEF CommandFits, GoTo
  <2> QED
    BY <1>1, <1>2, <2>1, <2>3, <2>4, TypedPut DEF rootVars
<1>8. ASSUME NEW p \in Path, RetainOrphan(p) PROVE TransactionTyped'
  <2>1. /\ UNCHANGED <<disk, pending, committed>> /\ Retain(p) /\ GoTo("orphans", todo \ {p}, p)
    BY <1>8 DEF RetainOrphan, Retain
  <2>2. ControlTyped'
    BY <1>0, <2>1, TypedGoTo DEF Phase
  <2>3. CommandFits'
    BY <2>1 DEF CommandFits, GoTo
  <2> QED
    BY <2>1, <2>2, <2>3, TypedRetain
<1>9. CASE RemoveOrphan
  <2>1. /\ UNCHANGED <<rootVars, commandVars, faultVars>> /\ current # NoPath /\ Removing(current)
        /\ phase = "orphans"
    BY <1>9 DEF RemoveOrphan
  <2>2. current \in Path
    BY <1>0, <2>1
  <2>3. PICK content \in ContentOf(current) : Put(current, content)
    BY <2>1, <2>2, ContentFacts DEF Removing, ContentOf
  <2>4. ControlTyped'
    BY <1>0, <2>1 DEF ControlTyped, rootVars, commandVars, faultVars, Phase
  <2>5. CommandFits'
    BY <2>1 DEF CommandFits, commandVars
  <2> QED
    BY <2>1, <2>2, <2>3, <2>4, <2>5, TypedPut DEF rootVars
<1>10. CASE OrphanRemoved
  <2>1. UNCHANGED <<disk, rootVars>> /\ GoTo("orphans", todo, NoPath)
    BY <1>10 DEF OrphanRemoved
  <2>2. ControlTyped' /\ CommandFits'
    BY <1>0, <2>1, TypedGoTo DEF Phase, rootVars, CommandFits, GoTo
  <2> QED
    BY <2>1, <2>2 DEF rootVars
<1>11. CASE WriteManifest
  <2>1. UNCHANGED rootVars /\ Put(Manifest, graph) /\ GoTo("commit", {}, NoPath)
    BY <1>11 DEF WriteManifest
  <2>2. ControlTyped' /\ CommandFits'
    BY <1>0, <2>1, TypedGoTo DEF Phase, rootVars, CommandFits, GoTo
  <2> QED
    BY <1>1, <1>2, <2>1, <2>2, TypedPut DEF rootVars
<1>12. CASE Commit
  <2>1. UNCHANGED <<disk, pending, sidecar, backup>> /\ committed' = TRUE /\ GoTo("finalize", {}, NoPath)
    BY <1>12 DEF Commit
  <2>2. ControlTyped' /\ CommandFits'
    BY <1>0, <2>1, TypedGoTo DEF Phase, CommandFits, GoTo
  <2> QED
    BY <2>1, <2>2
<1> QED
  BY <1>3, <1>4, <1>5, <1>6, <1>7, <1>8, <1>9, <1>10, <1>11, <1>12

\* The end of a command, in order or not.
LEMMA TypedEnd ==
  ASSUME TransactionTyped,
         Finalize \/ FinalizeFails \/ StepFails \/ EndRollback \/ Crash
  PROVE  TransactionTyped'
<1> USE TypedVariables, TypedRest
<1>0. /\ pending \in BOOLEAN /\ committed \in BOOLEAN /\ undone \in BOOLEAN /\ failed \in BOOLEAN
      /\ faults \in 0..MaxFaults /\ command \in Command
      /\ graph \in Graph /\ Retained \subseteq Path
  BY DEF TransactionTyped, TypeOK, Retained
<1>1. CASE Finalize
  <2>1. UNCHANGED <<disk, faultVars>> /\ WipeRoot /\ Ends
    BY <1>1 DEF Finalize
  <2>2. pending' \in BOOLEAN /\ committed' \in BOOLEAN
    BY <2>1, Zenon DEF WipeRoot
  <2> QED
    BY <1>0, <2>1, <2>2, TypedEnds, TypedWipe DEF faultVars
<1>2. CASE FinalizeFails
  <2>1. PICK kept \in (SUBSET Retained) \ {{}} : Leaves(kept) /\ RollBack(kept \cap Heads)
    BY <1>2 DEF FinalizeFails
  <2>2. committed' \in BOOLEAN /\ pending' \in BOOLEAN /\ undone' = TRUE /\ UNCHANGED disk /\ Faults
    BY <1>2 DEF FinalizeFails
  <2>3. undone' \in BOOLEAN
    BY <2>2
  <2>4. UNCHANGED <<command, graph, failed>> /\ phase' = "rollback" /\ current' = NoPath /\ todo' \subseteq Path
    BY <1>0, <2>1 DEF RollBack
  <2>5. ControlTyped'
    BY <1>0, <2>2, <2>3, <2>4, TypedFaults DEF ControlTyped, Phase
  <2>6. CommandFits'
    BY <2>4 DEF CommandFits
  <2> QED
    BY <2>1, <2>2, <2>5, <2>6, TypedWipe
<1>3. CASE StepFails
  <2>1. UNCHANGED <<disk, rootVars, undone>> /\ RollBack(Retained) /\ Faults
    BY <1>3 DEF StepFails
  <2>2. UNCHANGED <<command, graph, failed>> /\ phase' = "rollback" /\ current' = NoPath /\ todo' \subseteq Path
    BY <1>0, <2>1 DEF RollBack
  <2>3. ControlTyped' /\ CommandFits'
    BY <1>0, <2>1, <2>2, TypedFaults DEF ControlTyped, Phase, rootVars, CommandFits
  <2> QED
    BY <2>1, <2>3 DEF rootVars
<1>4. CASE EndRollback
  <2>1. UNCHANGED <<disk, faultVars>> /\ (WipeRoot \/ UNCHANGED rootVars) /\ Ends
    BY <1>4 DEF EndRollback
  <2>2. pending' \in BOOLEAN /\ committed' \in BOOLEAN
    <3>1. CASE WipeRoot
      BY <3>1, Zenon DEF WipeRoot
    <3>2. CASE UNCHANGED rootVars
      BY <1>0, <3>2 DEF rootVars
    <3> QED
      BY <2>1, <3>1, <3>2
  <2> QED
    BY <1>0, <2>1, <2>2, TypedEnds, TypedWipe DEF faultVars, rootVars
<1>5. CASE Crash
  <2>1. UNCHANGED <<disk, undone>> /\ Faults /\ Ends
    BY <1>5 DEF Crash
  <2>2. UNCHANGED rootVars
        \/ \E left \in SUBSET Retained :
             /\ Leaves(left)
             /\ IF left = {} THEN pending' \in BOOLEAN /\ committed' \in BOOLEAN
                             ELSE UNCHANGED <<pending, committed>>
    BY <1>5 DEF Crash
  <2>3. pending' \in BOOLEAN /\ committed' \in BOOLEAN
    BY <1>0, <2>2 DEF rootVars
  <2> QED
    BY <1>0, <2>1, <2>2, <2>3, TypedEnds, TypedFaults, TypedWipe DEF rootVars
<1> QED
  BY <1>1, <1>2, <1>3, <1>4, <1>5

LEMMA TypedStep == TransactionTyped /\ [Next]_vars => TransactionTyped'
<1> SUFFICES ASSUME TransactionTyped, [Next]_vars PROVE TransactionTyped'
  OBVIOUS
<1>1. CASE UNCHANGED vars
  BY <1>1 DEF vars, rootVars, commandVars, faultVars, TransactionTyped, TypeOK, ContentsFit,
     ContentOf, CommandFits, HasSidecar
<1>2. ASSUME RestoreStep \/ RestoreFails \/ SidecarStays PROVE TransactionTyped'
  <2>1. Restoring
    BY <1>2 DEF RestoreStep, RestoreFails, SidecarStays, RestoreRefused, BeginRestore,
       RemoveDestination, MoveBackup, RemoveSidecar, Restored
  <2> QED
    BY <1>2, <2>1, TypedRestore DEF RestoreStep
<1>3. ASSUME PublishStep PROVE TransactionTyped'
  <2>1. \A k \in Package : RetainModule(k) \/ RetainArchive(k) \/ MoveArchive(k)
                           \/ MoveModuleAside(k) \/ MoveModuleIn(k) => phase = "publish"
    BY DEF RetainModule, RetainArchive, MoveArchive, MoveModuleAside, MoveModuleIn
  <2>2. EndPublish => phase = "publish"
    BY DEF EndPublish
  <2> QED
    BY <1>3, <2>1, <2>2, TypedPublish, TypedTransaction, TypedEnd DEF PublishStep
<1>4. CASE Next
  BY <1>2, <1>3, <1>4, TypedRecovery, TypedEnd DEF Next, CommandStep, Fault
<1> QED
  BY <1>1, <1>4

-----------------------------------------------------------------------------
(***************************************************************************)
(* What the changes of the files do to the project as recovery makes it.   *)
(***************************************************************************)

LEMMA LogicalStays ==
  ASSUME \A p \in Path :
           (IF pending' /\ ~ committed' /\ sidecar'[p] # NoSidecar THEN sidecar'[p] ELSE disk'[p])
           = (IF pending /\ ~ committed /\ sidecar[p] # NoSidecar THEN sidecar[p] ELSE disk[p])
  PROVE  Logical' = Logical
BY DEF Logical, Unsettled, HasSidecar

LEMMA LogicalAt ==
  /\ \A p \in Path : ~ HasSidecar(p) => Logical[p] = disk[p]
  /\ \A p \in Path : Unsettled /\ HasSidecar(p) => Logical[p] = sidecar[p]
  /\ ~ Unsettled => \A p \in Path : Logical[p] = disk[p]
  /\ DOMAIN Logical = Path
BY DEF Logical

\* A path that is retained for the first time: only its copy is new.
LEMMA RetainEffect ==
  ASSUME TransactionTyped, WholeProject(Logical), NEW p \in Path, ~ HasSidecar(p), Retain(p), Unsettled
  PROVE  /\ Logical' = Logical /\ UNCHANGED <<disk, pending, committed>>
         /\ Retained' = Retained \cup {p}
         /\ \A q \in Path : q # p => sidecar'[q] = sidecar[q]
         /\ \A q \in Path : HasSidecar(q)' <=> HasSidecar(q) \/ q = p
         /\ CopiesKept => CopiesKept' /\ OldContentKept'
<1>1. /\ UNCHANGED <<disk, pending, committed>>
      /\ sidecar' = [sidecar EXCEPT ![p] = disk[p]] /\ backup' = [backup EXCEPT ![p] = disk[p]]
  BY DEF Retain
<1>2. sidecar \in [Path -> Content] /\ backup \in [Path -> Content]
  BY DEF TransactionTyped, TypeOK
<1>3. disk[p] # Torn
  BY LogicalAt DEF WholeProject
<1>4. \A q \in Path : IF q = p THEN sidecar'[q] = disk[p] /\ backup'[q] = disk[p]
                               ELSE sidecar'[q] = sidecar[q] /\ backup'[q] = backup[q]
  BY <1>1, <1>2
<1>5. \A q \in Path : HasSidecar(q)' <=> HasSidecar(q) \/ q = p
  BY <1>3, <1>4 DEF HasSidecar, NoSidecar
<1>6. Retained' = Retained \cup {p}
  BY <1>5 DEF Retained
<1>7. Logical' = Logical
  BY <1>1, <1>4, <1>5, LogicalStays DEF HasSidecar
<1>8. CopiesKept => CopiesKept'
  BY <1>4, <1>6 DEF CopiesKept, Retained
<1>9. CopiesKept' => OldContentKept'
  BY DEF CopiesKept, OldContentKept
<1> QED
  BY <1>1, <1>4, <1>5, <1>6, <1>7, <1>8, <1>9

\* A retained path is changed: recovery takes the change back.
LEMMA PutEffect ==
  ASSUME TransactionTyped, NEW p \in Path, HasSidecar(p), NEW content, Put(p, content),
         UNCHANGED rootVars, Unsettled
  PROVE  /\ Logical' = Logical
         /\ Retained' = Retained
         /\ \A q \in Path : disk'[q] = IF q = p THEN content ELSE disk[q]
         /\ \A q : HasSidecar(q)' <=> HasSidecar(q)
         /\ UNCHANGED <<pending, committed, sidecar, backup>>
         /\ CopiesKept => CopiesKept' /\ OldContentKept'
<1>1. disk' = [disk EXCEPT ![p] = content] /\ disk \in [Path -> Content]
      /\ UNCHANGED <<pending, committed, sidecar, backup>>
  BY DEF TransactionTyped, TypeOK, Put, rootVars
<1>2. \A q \in Path : disk'[q] = IF q = p THEN content ELSE disk[q]
  BY <1>1
<1>3. \A q : HasSidecar(q)' <=> HasSidecar(q)
  BY <1>1 DEF HasSidecar
<1>4. Retained' = Retained
  BY <1>3 DEF Retained
<1>5. Logical' = Logical
  BY <1>1, <1>2, LogicalStays DEF Unsettled, HasSidecar
<1>6. CopiesKept => CopiesKept'
  BY <1>1, <1>4 DEF CopiesKept
<1>7. CopiesKept' => OldContentKept'
  BY DEF CopiesKept, OldContentKept
<1> QED
  BY <1>1, <1>2, <1>3, <1>4, <1>5, <1>6, <1>7

\* Nothing that survives a crash changes.
LEMMA NoEffect ==
  ASSUME UNCHANGED <<disk, rootVars>>
  PROVE  /\ Logical' = Logical
         /\ Retained' = Retained
         /\ \A q : HasSidecar(q)' <=> HasSidecar(q)
         /\ CopiesKept => CopiesKept'
         /\ OldContentKept /\ ~ undone => OldContentKept'
BY DEF rootVars, Logical, Unsettled, Retained, HasSidecar, CopiesKept, OldContentKept

\* Sidecars go whose path has its old content, or which nobody looks at.
LEMMA SettleEffect ==
  ASSUME TransactionTyped, UNCHANGED disk,
         Unsettled => \A p \in Retained : disk[p] = sidecar[p],
         Unsettled' => Unsettled,
         \A p \in Path : sidecar'[p] \in {sidecar[p], NoSidecar}
  PROVE  Logical' = Logical /\ OldContentKept'
<1>1. \A p \in Path : Unsettled /\ HasSidecar(p) => disk[p] = sidecar[p]
  BY DEF Retained
<1>2. Logical' = Logical
  BY <1>1, LogicalStays DEF Unsettled, HasSidecar
<1>3. OldContentKept'
  BY <1>1 DEF OldContentKept, Unsettled, HasSidecar, Retained
<1> QED
  BY <1>2, <1>3

LEMMA LeavesEffect ==
  ASSUME NEW left \in SUBSET Retained, Leaves(left)
  PROVE  /\ \A p \in Path : sidecar'[p] \in {sidecar[p], NoSidecar}
         /\ left = {} => \A p \in Path : sidecar'[p] = NoSidecar
BY DEF Leaves

LEMMA WipeEffect ==
  ASSUME WipeRoot
  PROVE  /\ \A p \in Path : sidecar'[p] = NoSidecar
         /\ ~ Unsettled' /\ ~ pending' /\ ~ committed' /\ Retained' = {}
BY DEF WipeRoot, NoSidecars, Unsettled, Retained, HasSidecar

\* A command that has ended leaves only the root to speak of.
LEMMA SoundIdle ==
  ASSUME phase' \in {"idle", "recover"}, OldContentKept'
  PROVE  RunSound'
BY DEF RunSound, RootMarks, Retaining, PackagesPublished, Written, OrphansPruned, RestoredSoFar,
   Publishing, Restoring

-----------------------------------------------------------------------------
(***************************************************************************)
(* Every step but Commit keeps the project as recovery makes it.           *)
(***************************************************************************)

LEMMA SoundRecovery ==
  ASSUME TransactionTyped, TransactionSound, ~ undone, ~ undone',
         \/ \E c \in Command \ {"none"} : Begin(c)
         \/ Recover \/ EndRecover \/ Sweep \/ SweepInterrupted
  PROVE  Logical' = Logical /\ RunSound'
<1>0. OldContentKept /\ RootMarks /\ RestoredSoFar
  BY DEF TransactionSound, RunSound
<1>1. ASSUME NEW c \in Command \ {"none"}, Begin(c) PROVE Logical' = Logical /\ RunSound'
  <2>1. UNCHANGED <<disk, rootVars>> /\ phase' = "recover"
    BY <1>1 DEF Begin
  <2> QED
    BY <1>0, <2>1, NoEffect, SoundIdle
<1>2. CASE Recover
  <2>1. UNCHANGED <<disk, rootVars>> /\ phase = "recover"
    BY <1>2 DEF Recover
  <2>2. Logical' = Logical /\ OldContentKept'
    BY <1>0, <2>1, NoEffect
  <2>3. CASE Unsettled
    <3>1. phase' = "restore" /\ todo' = Retained /\ Retained' = Retained /\ pending' /\ ~ committed'
      BY <1>2, <2>1, <2>3, NoEffect DEF Recover, GoTo, rootVars, Unsettled
    <3> QED
      BY <2>2, <3>1 DEF RunSound, RootMarks, Retaining, PackagesPublished, Written, OrphansPruned,
         RestoredSoFar, Publishing, Restoring
  <2>4. CASE ~ Unsettled
    <3>1. phase' = "sweep" /\ ~ Unsettled'
      BY <1>2, <2>1, <2>4 DEF Recover, GoTo, rootVars, Unsettled
    <3> QED
      BY <2>2, <3>1 DEF RunSound, RootMarks, Retaining, PackagesPublished, Written, OrphansPruned,
         RestoredSoFar, Publishing, Restoring
  <2> QED
    BY <2>3, <2>4
<1>3. CASE EndRecover
  <2>1. UNCHANGED <<disk, rootVars>> /\ phase = "restore" /\ todo = {} /\ current = NoPath
    BY <1>3 DEF EndRecover
  <2>2. Logical' = Logical /\ OldContentKept'
    BY <1>0, <2>1, NoEffect
  <2>3. CASE failed
    BY <1>3, <2>2, <2>3, SoundIdle DEF EndRecover, Ends
  <2>4. CASE ~ failed
    <3>1. NoPath \notin Retained
      BY ContentAssumption DEF Retained
    <3>2. \A p \in Retained : disk[p] = sidecar[p]
      BY <1>0, <2>1, <2>4, <3>1 DEF RestoredSoFar
    <3>3. phase' = "sweep" /\ Retained' = Retained /\ UNCHANGED <<disk, sidecar>>
      BY <1>3, <2>1, <2>4, NoEffect DEF EndRecover, GoTo, rootVars
    <3> QED
      BY <2>2, <3>2, <3>3 DEF RunSound, RootMarks, Retaining, PackagesPublished, Written, OrphansPruned,
         RestoredSoFar, Publishing, Restoring
  <2> QED
    BY <2>3, <2>4
<1>4. CASE Sweep
  <2>1. UNCHANGED disk /\ WipeRoot /\ phase = "sweep"
    BY <1>4 DEF Sweep
  <2>2. Logical' = Logical /\ OldContentKept'
    <3>1. Unsettled => \A p \in Retained : disk[p] = sidecar[p]
      BY <1>0, <2>1 DEF RestoredSoFar
    <3> QED
      BY <2>1, <3>1, WipeEffect, SettleEffect
  <2>3. CASE Ends
    BY <2>2, <2>3, SoundIdle DEF Ends
  <2>4. CASE GoTo("start", {}, NoPath)
    <3>1. phase' = "start" /\ ~ pending' /\ ~ committed' /\ Retained' = {}
      BY <2>1, <2>4, WipeEffect DEF GoTo
    <3> QED
      BY <2>2, <3>1 DEF RunSound, RootMarks, Retaining, PackagesPublished, Written, OrphansPruned,
         RestoredSoFar, Publishing, Restoring
  <2> QED
    BY <1>4, <2>3, <2>4 DEF Sweep
<1>5. CASE SweepInterrupted
  <2>1. UNCHANGED disk /\ phase = "sweep" /\ Ends
    BY <1>5 DEF SweepInterrupted
  <2>2. PICK left \in SUBSET Retained : Leaves(left)
    BY <1>5 DEF SweepInterrupted
  <2>3. Unsettled => \A p \in Retained : disk[p] = sidecar[p]
    BY <1>0, <2>1 DEF RestoredSoFar
  <2>4. Unsettled' => Unsettled
    <3>1. pending' \in {pending, FALSE} /\ undone' = (undone \/ (committed /\ pending' /\ ~ committed'))
      BY <1>5 DEF SweepInterrupted
    <3>2. pending' => pending
      BY <3>1
    <3>3. ~ (committed /\ pending' /\ ~ committed')
      BY <3>1, Zenon
    <3> QED
      BY <3>2, <3>3 DEF Unsettled
  <2>5. Logical' = Logical /\ OldContentKept'
    BY <2>1, <2>2, <2>3, <2>4, LeavesEffect, SettleEffect
  <2> QED
    BY <2>1, <2>5, SoundIdle DEF Ends
<1> QED
  BY <1>1, <1>2, <1>3, <1>4, <1>5

LEMMA SoundRestore ==
  ASSUME TransactionTyped, TransactionSound, ~ undone, ~ undone', Restoring,
         \/ \E p \in Path : RestoreRefused(p) \/ BeginRestore(p)
         \/ RemoveDestination \/ MoveBackup \/ RemoveSidecar
         \/ RestoreFails \/ SidecarStays
  PROVE  Logical' = Logical /\ RunSound'
<1>0. OldContentKept /\ RestoredSoFar /\ pending /\ ~ committed /\ Unsettled
      /\ phase \in {"restore", "rollback"} /\ NoPath \notin Path
  BY ContentAssumption DEF TransactionSound, RunSound, RootMarks, Unsettled, Restoring
\* The restore invariant is what each step has to keep.
<1>1. ASSUME UNCHANGED phase, OldContentKept', pending', ~ committed',
             phase = "restore" => \A p \in Retained' : \/ p \in todo' \cup {current'} \/ failed'
                                                       \/ disk'[p] = sidecar'[p]
      PROVE  RunSound'
  BY <1>0, <1>1 DEF RunSound, RootMarks, Retaining, PackagesPublished, Written, OrphansPruned,
     RestoredSoFar, Publishing, Restoring
<1>2. phase = "restore" => \A p \in Retained : \/ p \in todo \cup {current} \/ failed
                                               \/ disk[p] = sidecar[p]
  BY <1>0 DEF RestoredSoFar
<1>3. ASSUME NEW p \in Path, RestoreRefused(p) PROVE Logical' = Logical /\ RunSound'
  <2>1. UNCHANGED <<disk, rootVars>> /\ UNCHANGED phase /\ failed'
    BY <1>3 DEF RestoreRefused
  <2> QED
    BY <1>0, <1>1, <2>1, NoEffect DEF rootVars
<1>4. ASSUME NEW p \in Path, BeginRestore(p) PROVE Logical' = Logical /\ RunSound'
  <2>1. UNCHANGED <<disk, rootVars>> /\ GoTo(phase, todo \ {p}, p) /\ current = NoPath
    BY <1>4 DEF BeginRestore
  <2>2. UNCHANGED <<disk, pending, committed, sidecar, phase, failed>> /\ todo' = todo \ {p} /\ current' = p
    BY <2>1 DEF GoTo, rootVars
  <2>3. Logical' = Logical /\ OldContentKept' /\ Retained' = Retained
    BY <1>0, <2>1, NoEffect
  <2>4. phase = "restore" => \A q \in Retained' : \/ q \in todo' \cup {current'} \/ failed'
                                                  \/ disk'[q] = sidecar'[q]
    BY <1>0, <1>2, <2>1, <2>2, <2>3 DEF Retained
  <2> QED
    BY <1>0, <1>1, <2>2, <2>3, <2>4
<1>5. CASE RemoveDestination
  <2>1. /\ UNCHANGED <<rootVars, commandVars, faultVars>> /\ current # NoPath /\ Removing(current)
        /\ HasSidecar(current) /\ sidecar[current] \in {Absent, backup[current]}
    BY <1>5 DEF RemoveDestination, Restorable
  <2>2. current \in Path
    BY <2>1 DEF TransactionTyped, TypeOK
  <2>3. PICK content : Put(current, content)
    BY <2>1 DEF Removing
  <2>4. /\ Logical' = Logical /\ Retained' = Retained
        /\ \A q \in Path : q # current => disk'[q] = disk[q]
        /\ UNCHANGED <<pending, committed, sidecar, backup>>
    BY <1>0, <2>1, <2>2, <2>3, PutEffect
  <2>5. OldContentKept'
    BY <1>0, <2>1, <2>4 DEF OldContentKept, Retained
  <2>6. UNCHANGED <<phase, todo, current, failed>>
    BY <2>1 DEF commandVars
  <2>7. phase = "restore" => \A q \in Retained' : \/ q \in todo' \cup {current'} \/ failed'
                                                  \/ disk'[q] = sidecar'[q]
    BY <1>2, <2>4, <2>6 DEF Retained
  <2> QED
    BY <1>0, <1>1, <2>4, <2>5, <2>6, <2>7
<1>6. CASE MoveBackup
  <2>1. /\ UNCHANGED <<pending, committed, sidecar, commandVars, faultVars>> /\ current # NoPath
        /\ Put(current, backup[current]) /\ backup' = [backup EXCEPT ![current] = Absent]
        /\ HasSidecar(current) /\ sidecar[current] = backup[current]
    BY <1>6 DEF MoveBackup, Restorable
  <2>2. current \in Path /\ disk \in [Path -> Content] /\ backup \in [Path -> Content]
    BY <2>1 DEF TransactionTyped, TypeOK
  <2>3. \A q \in Path : disk'[q] = IF q = current THEN sidecar[q] ELSE disk[q]
    BY <2>1, <2>2 DEF Put
  <2>4. \A q \in Path : q # current => backup'[q] = backup[q]
    BY <2>1, <2>2
  <2>5. Retained' = Retained
    BY <2>1 DEF Retained, HasSidecar
  <2>6. Logical' = Logical
    BY <1>0, <2>1, <2>3, LogicalStays DEF HasSidecar
  <2>7. OldContentKept'
    BY <1>0, <2>1, <2>3, <2>4, <2>5 DEF OldContentKept, Retained
  <2>8. UNCHANGED <<phase, todo, current, failed>>
    BY <2>1 DEF commandVars
  <2>9. phase = "restore" => \A q \in Retained' : \/ q \in todo' \cup {current'} \/ failed'
                                                  \/ disk'[q] = sidecar'[q]
    BY <1>2, <2>1, <2>3, <2>5, <2>8 DEF Retained
  <2> QED
    BY <1>0, <1>1, <2>1, <2>6, <2>7, <2>8, <2>9
<1>7. CASE RemoveSidecar
  <2>1. /\ UNCHANGED <<disk, pending, committed, backup>> /\ GoTo(phase, todo, NoPath)
        /\ sidecar' = [sidecar EXCEPT ![current] = NoSidecar]
        /\ disk[current] = sidecar[current] /\ current # NoPath
    BY <1>7 DEF RemoveSidecar, Restored
  <2>2. current \in Path /\ sidecar \in [Path -> Content]
    BY <2>1 DEF TransactionTyped, TypeOK
  <2>3. \A q \in Path : sidecar'[q] = IF q = current THEN NoSidecar ELSE sidecar[q]
    BY <2>1, <2>2
  <2>4. Logical' = Logical
    BY <1>0, <2>1, <2>3, LogicalStays DEF HasSidecar
  <2>5. Retained' = Retained \ {current}
    BY <2>3 DEF Retained, HasSidecar
  <2>6. OldContentKept'
    BY <1>0, <2>1, <2>3, <2>5 DEF OldContentKept, Retained
  <2>7. UNCHANGED <<phase, todo, failed>>
    BY <2>1 DEF GoTo
  <2>8. phase = "restore" => \A q \in Retained' : \/ q \in todo' \cup {current'} \/ failed'
                                                  \/ disk'[q] = sidecar'[q]
    BY <1>2, <2>1, <2>3, <2>5, <2>7 DEF Retained
  <2> QED
    BY <1>0, <1>1, <2>1, <2>4, <2>6, <2>7, <2>8
<1>8. CASE RestoreFails
  <2>1. UNCHANGED <<disk, rootVars>> /\ UNCHANGED phase /\ failed'
    BY <1>8 DEF RestoreFails
  <2> QED
    BY <1>0, <1>1, <2>1, NoEffect DEF rootVars
<1>9. CASE SidecarStays
  <2>1. UNCHANGED <<disk, rootVars>> /\ UNCHANGED <<phase, todo, failed>> /\ current' = NoPath
        /\ disk[current] = sidecar[current]
    BY <1>9 DEF SidecarStays, Restored
  <2>2. Logical' = Logical /\ OldContentKept' /\ Retained' = Retained
    BY <1>0, <2>1, NoEffect
  <2>3. phase = "restore" => \A q \in Retained' : \/ q \in todo' \cup {current'} \/ failed'
                                                  \/ disk'[q] = sidecar'[q]
    BY <1>2, <2>1, <2>2 DEF rootVars
  <2> QED
    BY <1>0, <1>1, <2>1, <2>2, <2>3 DEF rootVars
<1> QED
  BY <1>3, <1>4, <1>5, <1>6, <1>7, <1>8, <1>9

\* The paths of the plan are paths, and none of them is a head.
LEMMA PlanFacts ==
  ASSUME TransactionTyped
  PROVE  /\ PlanPaths \subseteq Path /\ PlanPaths \cap Heads = {}
         /\ \A k \in DOMAIN graph : /\ k \in Package /\ graph[k] \in Ref
                                    /\ Module(k) \in PlanPaths /\ Module(k) \in Modules
                                    /\ k \in Archived => Archive(k, graph[k]) \in PlanPaths \cap Archives
         /\ Heads \subseteq {Lockfile, Cfg, Manifest} /\ {Lockfile, Cfg} \subseteq Heads
<1>1. graph \in Graph
  BY DEF TransactionTyped, TypeOK
<1>2. \A k \in DOMAIN graph : k \in Package /\ graph[k] \in Ref
  BY <1>1, GraphFacts
<1>3. ArchivesOf(graph) \subseteq Archives
  BY <1>1, OrphanFacts
<1>4. \A k \in DOMAIN graph : k \in Archived => Archive(k, graph[k]) \in ArchivesOf(graph)
  BY DEF ArchivesOf
<1>5. Heads \subseteq {Lockfile, Cfg, Manifest} /\ {Lockfile, Cfg} \subseteq Heads
  BY DEF Heads
<1> QED
  BY <1>2, <1>3, <1>4, <1>5, PathFacts DEF PlanPaths

LEMMA SoundPublish ==
  ASSUME TransactionTyped, TransactionSound, ~ undone, ~ undone', phase = "publish",
         \/ \E k \in Package : \/ RetainModule(k) \/ RetainArchive(k) \/ MoveArchive(k)
                               \/ MoveModuleAside(k) \/ MoveModuleIn(k)
         \/ EndPublish
  PROVE  Logical' = Logical /\ RunSound'
<1>0. /\ OldContentKept /\ pending /\ ~ committed /\ Unsettled /\ CopiesKept
      /\ Heads \subseteq Retained /\ Retained \subseteq Heads \cup PlanPaths
      /\ todo \subseteq {Module(k) : k \in DOMAIN graph} /\ current \in todo \cup {NoPath}
      /\ NoPath \notin Path
  BY ContentAssumption DEF TransactionSound, RunSound, RootMarks, Unsettled, Publishing, Retaining,
     TransactionTyped, CommandFits
<1>1. \A k \in DOMAIN graph : IF Module(k) \in todo
                              THEN HasSidecar(Module(k)) <=> current = Module(k)
                              ELSE Placed(k)
  BY DEF TransactionSound, RunSound, PackagesPublished
<1>2. WholeProject(Logical)
  BY DEF TransactionSound
<1>3. \A k \in DOMAIN graph : Module(k) \in Path /\ Module(k) # NoPath
  BY <1>0, PlanFacts
<1>4. \A k \in Package : current = Module(k) => k \in DOMAIN graph /\ current \in todo /\ HasSidecar(Module(k))
  BY <1>0, <1>1, PathFacts
\* What a step of this phase has to keep.
<1>5. ASSUME phase' = "publish", OldContentKept', pending', ~ committed', CopiesKept',
             UNCHANGED <<command, graph>>,
             Heads \subseteq Retained', Retained' \subseteq Heads \cup PlanPaths,
             \A k \in DOMAIN graph : IF Module(k) \in todo'
                                     THEN HasSidecar(Module(k))' <=> current' = Module(k)
                                     ELSE Placed(k)'
      PROVE  RunSound'
  <2>1. Heads' = Heads /\ PlanPaths' = PlanPaths
    BY <1>5 DEF Heads, Mutates, PlanPaths
  <2>2. PackagesPublished'
    BY <1>5 DEF PackagesPublished
  <2> QED
    BY <1>5, <2>1, <2>2 DEF RunSound, RootMarks, Retaining, Written, OrphansPruned, RestoredSoFar,
       Publishing, Restoring
\* Another package is not disturbed.
<1>6. ASSUME NEW k \in DOMAIN graph,
             UNCHANGED graph,
             \A p \in Path : HasSidecar(p) => HasSidecar(p)',
             \A p \in Path : disk'[p] = disk[p] \/ p = Module(k) \/ (k \in Archived /\ p = Archive(k, graph[k])),
             NEW l \in DOMAIN graph, l # k, Placed(l)
      PROVE  Placed(l)'
  <2>1. /\ Module(l) \in Path
        /\ l \in Archived => Archive(l, graph[l]) \in Path
    BY PlanFacts
  <2>2. Module(l) # Module(k) /\ \A r, s : Archive(l, r) # Archive(k, s)
    BY <1>6, PathFacts
  <2>3. k \in Archived => Module(l) # Archive(k, graph[k])
    BY PlanFacts, PathFacts
  <2>4. l \in Archived => Archive(l, graph[l]) # Module(k)
    BY PlanFacts, PathFacts
  <2>5. HasSidecar(Module(l))' /\ disk'[Module(l)] = graph'[l]
    BY <1>6, <2>1, <2>2, <2>3 DEF Placed
  <2>6. l \in Archived => HasSidecar(Archive(l, graph[l]))' /\ disk'[Archive(l, graph[l])] = graph'[l]
    BY <1>6, <2>1, <2>2, <2>4, PlanFacts DEF Placed
  <2> QED
    BY <1>6, <2>5, <2>6 DEF Placed
<1>7. ASSUME NEW k \in Package, RetainModule(k) PROVE Logical' = Logical /\ RunSound'
  <2>1. /\ Retain(Module(k)) /\ GoTo("publish", todo, Module(k)) /\ Module(k) \in todo /\ current = NoPath
    BY <1>7 DEF RetainModule
  <2>2. k \in DOMAIN graph
    BY <1>0, <2>1, PathFacts
  <2>3. Module(k) \in Path /\ ~ HasSidecar(Module(k))
    BY <1>1, <1>3, <2>1, <2>2
  <2>4. /\ Logical' = Logical /\ UNCHANGED <<disk, pending, committed>>
        /\ Retained' = Retained \cup {Module(k)}
        /\ \A q \in Path : HasSidecar(q)' <=> HasSidecar(q) \/ q = Module(k)
        /\ CopiesKept' /\ OldContentKept'
    BY <1>0, <1>2, <2>1, <2>3, RetainEffect
  <2>5. UNCHANGED <<command, graph, todo>> /\ phase' = "publish" /\ current' = Module(k)
    BY <2>1 DEF GoTo
  <2>6. \A l \in DOMAIN graph : IF Module(l) \in todo'
                                THEN HasSidecar(Module(l))' <=> current' = Module(l)
                                ELSE Placed(l)'
    <3> TAKE l \in DOMAIN graph
    <3>1. CASE Module(l) \in todo
      BY <1>1, <1>3, <2>1, <2>2, <2>4, <2>5, <3>1
    <3>2. CASE Module(l) \notin todo
      <4>1. l # k /\ Placed(l)
        BY <1>1, <2>1, <3>2
      <4> QED
        BY <1>6, <2>2, <2>4, <2>5, <3>2, <4>1
    <3> QED
      BY <3>1, <3>2
  <2> QED
    BY <1>0, <1>5, <2>2, <2>4, <2>5, <2>6, PlanFacts
<1>8. ASSUME NEW k \in Package, RetainArchive(k) PROVE Logical' = Logical /\ RunSound'
  <2> DEFINE A == Archive(k, graph[k])
  <2>1. /\ Retain(A) /\ GoTo("publish", todo, current) /\ k \in DOMAIN graph /\ k \in Archived
        /\ ~ HasSidecar(A) /\ current = Module(k)
    BY <1>4, <1>8 DEF RetainArchive
  <2>2. A \in PlanPaths /\ A \in Archives /\ A \in Path
    BY <2>1, PlanFacts, PathFacts
  <2> HIDE DEF A
  <2>3. /\ Logical' = Logical /\ UNCHANGED <<disk, pending, committed>>
        /\ Retained' = Retained \cup {A}
        /\ \A q \in Path : HasSidecar(q)' <=> HasSidecar(q) \/ q = A
        /\ CopiesKept' /\ OldContentKept'
    BY <1>0, <1>2, <2>1, <2>2, RetainEffect
  <2>4. UNCHANGED <<command, graph, todo, current>> /\ phase' = "publish"
    BY <2>1 DEF GoTo
  <2>5. \A l \in DOMAIN graph : IF Module(l) \in todo'
                                THEN HasSidecar(Module(l))' <=> current' = Module(l)
                                ELSE Placed(l)'
    <3> TAKE l \in DOMAIN graph
    <3>1. Module(l) # A
      BY <2>2, PlanFacts, PathFacts
    <3>2. CASE Module(l) \in todo
      BY <1>1, <1>3, <2>3, <2>4, <3>1, <3>2
    <3>3. CASE Module(l) \notin todo
      <4>1. l # k /\ Placed(l)
        BY <1>1, <1>4, <2>1, <3>3
      <4> QED
        BY <1>6, <2>1, <2>3, <2>4, <3>3, <4>1
    <3> QED
      BY <3>2, <3>3
  <2> QED
    BY <1>0, <1>5, <2>2, <2>3, <2>4, <2>5
<1>9. ASSUME NEW k \in DOMAIN graph, current = Module(k),
             NEW p \in {Module(k)} \cup {Archive(m, graph[m]) : m \in {k} \cap Archived},
             NEW content, HasSidecar(p), Put(p, content), UNCHANGED <<rootVars, commandVars, faultVars>>
      PROVE  Logical' = Logical /\ RunSound'
  <2>1. p \in Path
    BY PlanFacts, PathFacts
  <2>2. UNCHANGED <<phase, command, graph, todo, current>>
    BY <1>9 DEF commandVars
  <2>3. /\ Logical' = Logical /\ Retained' = Retained
        /\ \A q \in Path : disk'[q] = IF q = p THEN content ELSE disk[q]
        /\ \A q : HasSidecar(q)' <=> HasSidecar(q)
        /\ UNCHANGED <<pending, committed>>
        /\ CopiesKept' /\ OldContentKept'
    BY <1>0, <1>9, <2>1, PutEffect
  <2>4. \A q \in Path : disk'[q] = disk[q] \/ q = Module(k) \/ (k \in Archived /\ q = Archive(k, graph[k]))
    BY <1>9, <2>3
  <2>5. \A l \in DOMAIN graph : IF Module(l) \in todo'
                                THEN HasSidecar(Module(l))' <=> current' = Module(l)
                                ELSE Placed(l)'
    <3> TAKE l \in DOMAIN graph
    <3>1. CASE Module(l) \in todo
      BY <1>1, <2>2, <2>3, <3>1
    <3>2. CASE Module(l) \notin todo
      <4>1. l # k /\ Placed(l)
        BY <1>0, <1>1, <1>3, <1>9, <3>2
      <4> QED
        BY <1>6, <2>2, <2>3, <2>4, <3>2, <4>1
    <3> QED
      BY <3>1, <3>2
  <2> QED
    BY <1>0, <1>5, <2>2, <2>3, <2>5
<1>10. ASSUME NEW k \in Package, MoveArchive(k) PROVE Logical' = Logical /\ RunSound'
  BY <1>4, <1>9, <1>10 DEF MoveArchive
<1>11. ASSUME NEW k \in Package, MoveModuleAside(k) PROVE Logical' = Logical /\ RunSound'
  BY <1>4, <1>9, <1>11 DEF MoveModuleAside
<1>12. ASSUME NEW k \in Package, MoveModuleIn(k) PROVE Logical' = Logical /\ RunSound'
  <2>1. /\ UNCHANGED rootVars /\ Put(Module(k), graph[k]) /\ ArchiveInPlace(k)
        /\ GoTo("publish", todo \ {Module(k)}, NoPath)
        /\ k \in DOMAIN graph /\ current = Module(k) /\ HasSidecar(Module(k)) /\ current \in todo
    BY <1>4, <1>12 DEF MoveModuleIn
  <2>2. Module(k) \in Path
    BY <1>3, <2>1
  <2>3. /\ Logical' = Logical /\ Retained' = Retained
        /\ \A q \in Path : disk'[q] = IF q = Module(k) THEN graph[k] ELSE disk[q]
        /\ \A q : HasSidecar(q)' <=> HasSidecar(q)
        /\ UNCHANGED <<pending, committed>>
        /\ CopiesKept' /\ OldContentKept'
    BY <1>0, <2>1, <2>2, PutEffect
  <2>4. UNCHANGED <<command, graph>> /\ phase' = "publish" /\ todo' = todo \ {Module(k)} /\ current' = NoPath
    BY <2>1 DEF GoTo
  <2>5. Placed(k)'
    <3>1. k \in Archived => /\ Archive(k, graph[k]) \in Path
                            /\ Archive(k, graph[k]) # Module(k)
      BY <2>1, PlanFacts, PathFacts
    <3>2. k \in Archived => /\ HasSidecar(Archive(k, graph[k]))
                            /\ disk'[Archive(k, graph[k])] = graph[k]
      BY <2>1, <2>3, <3>1 DEF ArchiveInPlace
    <3>3. HasSidecar(Module(k))' /\ disk'[Module(k)] = graph[k]
      BY <2>1, <2>2, <2>3
    <3> QED
      BY <2>3, <2>4, <3>2, <3>3 DEF Placed
  <2>6. \A l \in DOMAIN graph : IF Module(l) \in todo'
                                THEN HasSidecar(Module(l))' <=> current' = Module(l)
                                ELSE Placed(l)'
    <3> TAKE l \in DOMAIN graph
    <3>1. CASE l = k
      BY <2>4, <2>5, <3>1
    <3>2. CASE l # k
      <4>1. Module(l) # Module(k)
        BY <3>2, PathFacts
      <4>2. CASE Module(l) \in todo
        BY <1>1, <1>3, <2>1, <2>3, <2>4, <4>1, <4>2
      <4>3. CASE Module(l) \notin todo
        <5>1. Placed(l)
          BY <1>1, <4>3
        <5> QED
          BY <1>6, <2>1, <2>3, <2>4, <3>2, <4>3, <5>1
      <4> QED
        BY <4>2, <4>3
    <3> QED
      BY <3>1, <3>2
  <2> QED
    BY <1>0, <1>5, <2>3, <2>4, <2>6
<1>13. CASE EndPublish
  <2>1. UNCHANGED <<disk, rootVars>> /\ GoTo("lock", {}, NoPath) /\ todo = {}
    BY <1>13 DEF EndPublish
  <2>2. /\ Logical' = Logical /\ OldContentKept' /\ Retained' = Retained /\ CopiesKept'
        /\ \A q : HasSidecar(q)' <=> HasSidecar(q)
    BY <1>0, <2>1, NoEffect
  <2>3. UNCHANGED <<command, graph, pending, committed, disk>> /\ phase' = "lock"
    BY <2>1 DEF GoTo, rootVars
  <2>4. \A k \in DOMAIN graph' : Placed(k)'
    BY <1>1, <2>1, <2>2, <2>3 DEF Placed
  <2>5. Heads' = Heads /\ PlanPaths' = PlanPaths
    BY <2>3 DEF Heads, Mutates, PlanPaths
  <2>6. Written'
    BY <2>3, <2>4 DEF Written
  <2> QED
    BY <1>0, <2>2, <2>3, <2>5, <2>6 DEF RunSound, RootMarks, Retaining, PackagesPublished, OrphansPruned,
       RestoredSoFar, Publishing, Restoring
<1> QED
  BY <1>7, <1>8, <1>10, <1>11, <1>12, <1>13

\* What the old graph leaves behind is neither a head nor in the plan.
LEMMA OrphansApart ==
  ASSUME TransactionTyped, HasSidecar(Lockfile)
  PROVE  Orphans \subseteq Path /\ Orphans \cap Heads = {} /\ Orphans \cap PlanPaths = {}
<1>1. LockedGraph(sidecar[Lockfile]) \in Graph /\ graph \in Graph
  BY OrphansArePaths DEF TransactionTyped, TypeOK
<1>2. /\ Orphans \subseteq Modules \cup Archives
      /\ Orphans \cap ArchivesOf(graph) = {}
      /\ \A k \in DOMAIN graph : Module(k) \notin Orphans
  BY <1>1, OrphanFacts DEF Orphans
<1> QED
  BY <1>2, PathFacts, PlanFacts DEF PlanPaths

\* A package in place stays there while other paths change.
LEMMA PlacedStays ==
  ASSUME TransactionTyped, UNCHANGED graph,
         \A p \in Path : HasSidecar(p) => HasSidecar(p)',
         \A p \in PlanPaths : disk'[p] = disk[p],
         NEW k \in DOMAIN graph, Placed(k)
  PROVE  Placed(k)'
<1>1. /\ Module(k) \in PlanPaths
      /\ k \in Archived => Archive(k, graph[k]) \in PlanPaths
      /\ PlanPaths \subseteq Path
  BY PlanFacts
<1> QED
  BY <1>1 DEF Placed

LEMMA SoundHeads ==
  ASSUME TransactionTyped, TransactionSound, ~ undone, ~ undone',
         \/ Start \/ (\E p \in Path : RetainHead(p)) \/ (\E g \in Graph : Resolve(g))
  PROVE  Logical' = Logical /\ RunSound'
<1>0. OldContentKept /\ RootMarks /\ Retaining /\ WholeProject(Logical)
  BY DEF TransactionSound, RunSound
<1>1. CASE Start
  <2>1. UNCHANGED <<disk, committed, sidecar, backup>> /\ GoTo("retain", Heads, NoPath) /\ pending' = TRUE
        /\ ~ committed /\ Retained = {}
    BY <1>0, <1>1 DEF Start, RootMarks
  <2>2. Retained' = {} /\ \A p \in Path : ~ HasSidecar(p)
    BY <2>1 DEF Retained, HasSidecar
  <2>3. Logical' = Logical
    BY <2>1, <2>2, LogicalStays DEF HasSidecar
  <2>4. phase' = "retain" /\ todo' = Heads /\ Heads' = Heads /\ pending' /\ ~ committed'
    BY <2>1 DEF GoTo, Heads, Mutates
  <2>5. CopiesKept' /\ OldContentKept'
    BY <2>2 DEF CopiesKept, OldContentKept
  <2> QED
    BY <2>2, <2>3, <2>4, <2>5 DEF RunSound, RootMarks, Retaining, PackagesPublished, Written, OrphansPruned,
       RestoredSoFar, Publishing, Restoring
<1>2. ASSUME NEW p \in Path, RetainHead(p) PROVE Logical' = Logical /\ RunSound'
  <2>1. /\ Retain(p) /\ p \in todo /\ phase = "retain"
        /\ GoTo(IF todo = {p} THEN "resolve" ELSE "retain", todo \ {p}, NoPath)
    BY <1>2 DEF RetainHead
  <2>2. todo \subseteq Heads /\ Retained = Heads \ todo /\ pending /\ ~ committed /\ CopiesKept
    BY <1>0, <2>1 DEF Retaining, RootMarks, Publishing
  <2>3. ~ HasSidecar(p) /\ Unsettled
    BY <2>1, <2>2 DEF Retained, Unsettled
  <2>4. /\ Logical' = Logical /\ UNCHANGED <<disk, pending, committed>>
        /\ Retained' = Retained \cup {p} /\ CopiesKept' /\ OldContentKept'
    BY <1>0, <2>1, <2>2, <2>3, RetainEffect
  <2>5. Heads' = Heads /\ todo' = todo \ {p}
    BY <2>1 DEF GoTo, Heads, Mutates
  <2>6. Retained' = Heads' \ todo' /\ todo' \subseteq Heads' /\ (todo = {p} => Retained' = Heads')
    BY <2>1, <2>2, <2>4, <2>5
  <2>7. CASE todo = {p}
    <3>1. phase' = "resolve"
      BY <2>1, <2>7 DEF GoTo
    <3> QED
      BY <2>2, <2>4, <2>6, <2>7, <3>1 DEF RunSound, RootMarks, Retaining, PackagesPublished, Written,
         OrphansPruned, RestoredSoFar, Publishing, Restoring
  <2>8. CASE todo # {p}
    <3>1. phase' = "retain"
      BY <2>1, <2>8 DEF GoTo
    <3> QED
      BY <2>2, <2>4, <2>6, <3>1 DEF RunSound, RootMarks, Retaining, PackagesPublished, Written,
         OrphansPruned, RestoredSoFar, Publishing, Restoring
  <2> QED
    BY <2>7, <2>8
<1>3. ASSUME NEW g \in Graph, Resolve(g) PROVE Logical' = Logical /\ RunSound'
  <2>1. /\ UNCHANGED <<disk, rootVars, command, current>> /\ phase = "resolve"
        /\ graph' = g /\ phase' = "publish" /\ todo' = {Module(k) : k \in DOMAIN g}
    BY <1>3 DEF Resolve
  <2>2. Retained = Heads /\ pending /\ ~ committed /\ CopiesKept /\ current = NoPath
    BY <1>0, <2>1 DEF Retaining, RootMarks, Publishing, TransactionTyped, CommandFits
  <2>3. /\ Logical' = Logical /\ OldContentKept' /\ Retained' = Retained /\ CopiesKept'
        /\ \A q : HasSidecar(q)' <=> HasSidecar(q)
    BY <1>0, <2>1, <2>2, NoEffect
  <2>4. Heads' = Heads /\ pending' /\ ~ committed'
    BY <2>1, <2>2 DEF Heads, Mutates, rootVars
  <2>5. \A k \in DOMAIN g : Module(k) \in Path /\ ~ HasSidecar(Module(k)) /\ Module(k) # NoPath
    <3>1. \A k \in DOMAIN g : Module(k) \in Path /\ Module(k) \notin Heads
      BY GraphFacts, PathFacts, PlanFacts
    <3> QED
      BY <2>2, <3>1, ContentAssumption DEF Retained
  <2>6. PackagesPublished'
    BY <2>1, <2>2, <2>3, <2>5 DEF PackagesPublished
  <2> QED
    BY <2>1, <2>2, <2>3, <2>4, <2>6 DEF RunSound, RootMarks, Retaining, Written, OrphansPruned,
       RestoredSoFar, Publishing, Restoring
<1> QED
  BY <1>1, <1>2, <1>3

LEMMA SoundWrites ==
  ASSUME TransactionTyped, TransactionSound, ~ undone, ~ undone',
         \/ WriteLock \/ PublishCfg
         \/ (\E p \in Path : RetainOrphan(p)) \/ RemoveOrphan \/ OrphanRemoved \/ WriteManifest
  PROVE  Logical' = Logical /\ RunSound'
<1>0. phase \in {"lock", "cfg", "orphans"}
  BY DEF WriteLock, PublishCfg, RetainOrphan, RemoveOrphan, OrphanRemoved, WriteManifest
<1>1. /\ OldContentKept /\ pending /\ ~ committed /\ Unsettled /\ CopiesKept /\ WholeProject(Logical)
      /\ Heads \subseteq Retained /\ \A k \in DOMAIN graph : Placed(k)
      /\ NoPath \notin Path
  BY <1>0, ContentAssumption DEF TransactionSound, RunSound, RootMarks, Unsettled, Publishing, Retaining, Written
<1>2. phase \in {"lock", "cfg"} => Retained \subseteq Heads \cup PlanPaths
  BY DEF TransactionSound, RunSound, Retaining
<1>3. phase \in {"cfg", "orphans"} => disk[Lockfile] = graph
  BY DEF TransactionSound, RunSound, Written
<1>4. phase = "orphans" =>
        /\ Mutates /\ todo \subseteq Orphans /\ disk[Cfg] = graph
        /\ current \in (Orphans \ todo) \cup {NoPath}
        /\ Orphans \ todo \subseteq Retained
        /\ Retained \subseteq Heads \cup PlanPaths \cup (Orphans \ todo)
        /\ \A p \in Orphans \ todo : p = current \/ disk[p] = Absent
  BY DEF TransactionSound, RunSound, Written, OrphansPruned
<1>5. /\ {Lockfile, Cfg, Manifest} \subseteq Path /\ Lockfile # Cfg /\ Lockfile # Manifest /\ Cfg # Manifest
      /\ {Lockfile, Cfg} \subseteq Heads /\ Heads \subseteq {Lockfile, Cfg, Manifest}
      /\ PlanPaths \subseteq Path /\ PlanPaths \cap {Lockfile, Cfg, Manifest} = {}
  <2>1. PlanPaths \subseteq Modules \cup Archives
    BY PlanFacts, OrphanFacts DEF PlanPaths, TransactionTyped, TypeOK
  <2> QED
    BY <2>1, PlanFacts, PathFacts
<1>6. HasSidecar(Lockfile) /\ HasSidecar(Cfg) /\ (Mutates => HasSidecar(Manifest))
  BY <1>1 DEF Retained, Heads
<1>7. Orphans \subseteq Path /\ Orphans \cap {Lockfile, Cfg, Manifest} = {} /\ Orphans \cap PlanPaths = {}
  <2>1. Orphans \subseteq Modules \cup Archives
    BY <1>6, OrphansArePaths, OrphanFacts DEF Orphans, TransactionTyped, TypeOK
  <2> QED
    BY <1>6, <2>1, OrphansApart, PathFacts
\* The command and its graph are the same, and so is what is derived of them.
<1>8. ASSUME UNCHANGED <<command, graph, sidecar>> \/
             (UNCHANGED <<command, graph>> /\ sidecar'[Lockfile] = sidecar[Lockfile])
      PROVE  Heads' = Heads /\ PlanPaths' = PlanPaths /\ Orphans' = Orphans /\ Mutates' = Mutates
  BY <1>8 DEF Heads, Mutates, PlanPaths, Orphans
<1>9. ASSUME NEW p \in {Lockfile, Cfg, Manifest} \cup Orphans, NEW content, HasSidecar(p),
             Put(p, content) \/ (disk[p] = content /\ UNCHANGED disk), UNCHANGED rootVars, UNCHANGED <<command, graph>>
      PROVE  /\ Logical' = Logical /\ Retained' = Retained
             /\ \A q \in Path : disk'[q] = IF q = p THEN content ELSE disk[q]
             /\ pending' /\ ~ committed' /\ CopiesKept' /\ OldContentKept'
             /\ \A k \in DOMAIN graph' : Placed(k)'
             /\ Heads' = Heads /\ PlanPaths' = PlanPaths /\ Orphans' = Orphans /\ Mutates' = Mutates
  <2>1. p \in Path /\ p \notin PlanPaths
    BY <1>5, <1>7
  <2>2. /\ Logical' = Logical /\ Retained' = Retained
        /\ \A q \in Path : disk'[q] = IF q = p THEN content ELSE disk[q]
        /\ \A q : HasSidecar(q)' <=> HasSidecar(q)
        /\ UNCHANGED <<pending, committed, sidecar>>
        /\ CopiesKept' /\ OldContentKept'
    <3>1. CASE Put(p, content)
      BY <1>1, <1>9, <2>1, <3>1, PutEffect
    <3>2. CASE disk[p] = content /\ UNCHANGED disk
      BY <1>1, <1>9, <2>1, <3>2, NoEffect DEF rootVars
    <3> QED
      BY <1>9, <3>1, <3>2
  <2>3. \A k \in DOMAIN graph : Placed(k)'
    BY <1>1, <1>5, <1>9, <2>1, <2>2, PlacedStays
  <2> QED
    BY <1>1, <1>8, <1>9, <2>2, <2>3
<1>10. CASE WriteLock
  <2>1. /\ UNCHANGED rootVars /\ GoTo("cfg", {}, NoPath) /\ phase = "lock"
        /\ Put(Lockfile, graph) \/ (disk[Lockfile] = graph /\ UNCHANGED disk)
    BY <1>10 DEF WriteLock
  <2>2. UNCHANGED <<command, graph>> /\ phase' = "cfg"
    BY <2>1 DEF GoTo
  <2>3. /\ Logical' = Logical /\ Retained' = Retained
        /\ \A q \in Path : disk'[q] = IF q = Lockfile THEN graph ELSE disk[q]
        /\ pending' /\ ~ committed' /\ CopiesKept' /\ OldContentKept'
        /\ \A k \in DOMAIN graph' : Placed(k)'
        /\ Heads' = Heads /\ PlanPaths' = PlanPaths
    BY <1>6, <1>9, <2>1, <2>2
  <2>4. Written'
    BY <1>5, <2>2, <2>3 DEF Written
  <2> QED
    BY <1>1, <1>2, <2>1, <2>2, <2>3, <2>4 DEF RunSound, RootMarks, Retaining, PackagesPublished,
       OrphansPruned, RestoredSoFar, Publishing, Restoring
<1>11. CASE PublishCfg
  <2>1. /\ UNCHANGED rootVars /\ Put(Cfg, graph) /\ phase = "cfg"
        /\ IF Mutates THEN GoTo("orphans", Orphans, NoPath)
                      ELSE GoTo("commit", {}, NoPath)
    BY <1>11 DEF PublishCfg
  <2>2. UNCHANGED <<command, graph>> /\ current' = NoPath
    BY <2>1 DEF GoTo
  <2>3. /\ Logical' = Logical /\ Retained' = Retained
        /\ \A q \in Path : disk'[q] = IF q = Cfg THEN graph ELSE disk[q]
        /\ pending' /\ ~ committed' /\ CopiesKept' /\ OldContentKept'
        /\ \A k \in DOMAIN graph' : Placed(k)'
        /\ Heads' = Heads /\ PlanPaths' = PlanPaths /\ Orphans' = Orphans /\ Mutates' = Mutates
    BY <1>6, <1>9, <2>1, <2>2
  <2>4. disk'[Lockfile] = graph' /\ disk'[Cfg] = graph'
    BY <1>3, <1>5, <2>1, <2>2, <2>3
  <2>5. Written'
    BY <2>3, <2>4 DEF Written
  <2>6. CASE Mutates
    <3>1. phase' = "orphans" /\ todo' = Orphans
      BY <2>1, <2>6 DEF GoTo
    <3>2. OrphansPruned'
      BY <1>2, <2>1, <2>2, <2>3, <2>6, <3>1 DEF OrphansPruned
    <3> QED
      BY <1>1, <2>3, <2>5, <3>1, <3>2 DEF RunSound, RootMarks, Retaining, PackagesPublished,
         RestoredSoFar, Publishing, Restoring
  <2>7. CASE ~ Mutates
    <3>1. phase' = "commit"
      BY <2>1, <2>7 DEF GoTo
    <3>2. OrphansPruned'
      BY <1>2, <2>1, <2>3, <2>7, <3>1 DEF OrphansPruned
    <3> QED
      BY <1>1, <2>3, <2>5, <3>1, <3>2 DEF RunSound, RootMarks, Retaining, PackagesPublished,
         RestoredSoFar, Publishing, Restoring
  <2> QED
    BY <2>6, <2>7
<1>12. ASSUME NEW p \in Path, RetainOrphan(p) PROVE Logical' = Logical /\ RunSound'
  <2>1. /\ Retain(p) /\ GoTo("orphans", todo \ {p}, p) /\ phase = "orphans" /\ current = NoPath /\ p \in todo
    BY <1>12 DEF RetainOrphan
  <2>2. ~ HasSidecar(p) /\ p \in Orphans
    BY <1>4, <1>5, <1>7, <2>1 DEF Retained
  <2>3. /\ Logical' = Logical /\ UNCHANGED <<disk, pending, committed>>
        /\ Retained' = Retained \cup {p}
        /\ \A q \in Path : q # p => sidecar'[q] = sidecar[q]
        /\ \A q \in Path : HasSidecar(q)' <=> HasSidecar(q) \/ q = p
        /\ CopiesKept' /\ OldContentKept'
    BY <1>1, <2>1, <2>2, RetainEffect
  <2>4. UNCHANGED <<command, graph>> /\ phase' = "orphans" /\ todo' = todo \ {p} /\ current' = p
    BY <2>1 DEF GoTo
  <2>5. Heads' = Heads /\ PlanPaths' = PlanPaths /\ Orphans' = Orphans /\ Mutates' = Mutates
    BY <1>5, <1>7, <1>8, <2>2, <2>3, <2>4
  <2>6. \A k \in DOMAIN graph' : Placed(k)'
    BY <1>1, <2>3, <2>4, PlacedStays
  <2>7. Written'
    BY <1>3, <1>4, <2>1, <2>3, <2>4, <2>6 DEF Written
  <2>8. Orphans \ todo' = (Orphans \ todo) \cup {p}
    BY <2>2, <2>4
  <2>9. OrphansPruned'
    BY <1>1, <1>4, <1>7, <2>1, <2>2, <2>3, <2>4, <2>5, <2>8 DEF OrphansPruned
  <2> QED
    BY <1>1, <2>3, <2>4, <2>5, <2>7, <2>9 DEF RunSound, RootMarks, Retaining, PackagesPublished,
       RestoredSoFar, Publishing, Restoring
<1>13. CASE RemoveOrphan
  <2>1. /\ UNCHANGED <<rootVars, commandVars, faultVars>> /\ current # NoPath /\ Removing(current)
        /\ phase = "orphans"
    BY <1>13 DEF RemoveOrphan
  <2>2. PICK content : Put(current, content)
    BY <2>1 DEF Removing
  <2>3. current \in Orphans \ todo /\ HasSidecar(current)
    BY <1>4, <2>1 DEF Retained
  <2>4. UNCHANGED <<phase, command, graph, todo, current>>
    BY <2>1 DEF commandVars
  <2>5. /\ Logical' = Logical /\ Retained' = Retained
        /\ \A q \in Path : q # current => disk'[q] = disk[q]
        /\ pending' /\ ~ committed' /\ CopiesKept' /\ OldContentKept'
        /\ \A k \in DOMAIN graph' : Placed(k)'
        /\ Heads' = Heads /\ PlanPaths' = PlanPaths /\ Orphans' = Orphans /\ Mutates' = Mutates
    BY <1>9, <2>1, <2>2, <2>3, <2>4
  <2>6. disk'[Lockfile] = disk[Lockfile] /\ disk'[Cfg] = disk[Cfg]
    BY <1>5, <1>7, <2>3, <2>5
  <2>7. Written'
    BY <1>3, <1>4, <2>1, <2>4, <2>5, <2>6 DEF Written
  <2>8. OrphansPruned'
    BY <1>4, <1>7, <2>1, <2>4, <2>5 DEF OrphansPruned
  <2> QED
    BY <1>1, <2>1, <2>4, <2>5, <2>7, <2>8 DEF RunSound, RootMarks, Retaining, PackagesPublished,
       RestoredSoFar, Publishing, Restoring
<1>14. CASE OrphanRemoved
  <2>1. /\ UNCHANGED <<disk, rootVars>> /\ GoTo("orphans", todo, NoPath) /\ phase = "orphans"
        /\ disk[current] = Absent
    BY <1>14 DEF OrphanRemoved
  <2>2. UNCHANGED <<command, graph, todo, phase, sidecar, pending, committed>> /\ current' = NoPath
    BY <2>1 DEF GoTo, rootVars
  <2>3. /\ Logical' = Logical /\ Retained' = Retained /\ CopiesKept' /\ OldContentKept'
        /\ \A q : HasSidecar(q)' <=> HasSidecar(q)
    BY <1>1, <2>1, NoEffect
  <2>4. Heads' = Heads /\ PlanPaths' = PlanPaths /\ Orphans' = Orphans /\ Mutates' = Mutates
    BY <1>8, <2>2
  <2>5. Written'
    BY <1>1, <1>3, <1>4, <2>1, <2>2, <2>3 DEF Written, Placed
  <2>6. OrphansPruned'
    BY <1>4, <2>1, <2>2, <2>3, <2>4 DEF OrphansPruned
  <2> QED
    BY <1>1, <2>1, <2>2, <2>3, <2>4, <2>5, <2>6 DEF RunSound, RootMarks, Retaining, PackagesPublished,
       RestoredSoFar, Publishing, Restoring
<1>15. CASE WriteManifest
  <2>1. /\ UNCHANGED rootVars /\ Put(Manifest, graph) /\ GoTo("commit", {}, NoPath)
        /\ phase = "orphans" /\ current = NoPath /\ todo = {}
    BY <1>15 DEF WriteManifest
  <2>2. UNCHANGED <<command, graph>> /\ phase' = "commit"
    BY <2>1 DEF GoTo
  <2>3. /\ Logical' = Logical /\ Retained' = Retained
        /\ \A q \in Path : disk'[q] = IF q = Manifest THEN graph ELSE disk[q]
        /\ pending' /\ ~ committed' /\ CopiesKept' /\ OldContentKept'
        /\ \A k \in DOMAIN graph' : Placed(k)'
        /\ Heads' = Heads /\ PlanPaths' = PlanPaths /\ Orphans' = Orphans /\ Mutates' = Mutates
    BY <1>4, <1>6, <1>9, <2>1, <2>2
  <2>4. Written'
    BY <1>3, <1>4, <1>5, <2>1, <2>2, <2>3 DEF Written
  <2>5. \A p \in Orphans : disk'[p] = Absent
    BY <1>1, <1>4, <1>7, <2>1, <2>3
  <2>6. OrphansPruned'
    BY <1>4, <1>5, <2>1, <2>2, <2>3, <2>5 DEF OrphansPruned
  <2> QED
    BY <1>1, <2>2, <2>3, <2>4, <2>6 DEF RunSound, RootMarks, Retaining, PackagesPublished,
       RestoredSoFar, Publishing, Restoring
<1> QED
  BY <1>10, <1>11, <1>12, <1>13, <1>14, <1>15

LEMMA SoundEnd ==
  ASSUME TransactionTyped, TransactionSound, ~ undone, ~ undone',
         Finalize \/ FinalizeFails \/ StepFails \/ EndRollback \/ Crash
  PROVE  Logical' = Logical /\ RunSound'
<1>0. OldContentKept /\ RootMarks
  BY DEF TransactionSound, RunSound
<1>1. CASE Finalize
  <2>1. UNCHANGED disk /\ WipeRoot /\ Ends /\ ~ Unsettled
    BY <1>0, <1>1 DEF Finalize, RootMarks, Unsettled
  <2>2. Logical' = Logical /\ OldContentKept'
    BY <2>1, WipeEffect, SettleEffect
  <2> QED
    BY <2>1, <2>2, SoundIdle DEF Ends
<1>2. CASE FinalizeFails
  BY <1>2 DEF FinalizeFails
<1>3. CASE StepFails
  <2>1. UNCHANGED <<disk, rootVars>> /\ phase' = "rollback" /\ pending /\ ~ committed
    BY <1>0, <1>3 DEF StepFails, RollBack, RootMarks
  <2>2. Logical' = Logical /\ OldContentKept' /\ pending' /\ ~ committed'
    BY <1>0, <2>1, NoEffect DEF rootVars
  <2> QED
    BY <2>1, <2>2 DEF RunSound, RootMarks, Retaining, PackagesPublished, Written, OrphansPruned,
       RestoredSoFar, Publishing, Restoring
<1>4. CASE EndRollback
  <2>1. UNCHANGED disk /\ Ends /\ (UNCHANGED rootVars \/ (WipeRoot /\ Retained = {}))
    BY <1>4 DEF EndRollback
  <2>2. CASE UNCHANGED rootVars
    BY <1>0, <2>1, <2>2, NoEffect, SoundIdle DEF Ends
  <2>3. CASE WipeRoot /\ Retained = {}
    <3>1. Logical' = Logical /\ OldContentKept'
      BY <2>1, <2>3, WipeEffect, SettleEffect
    <3> QED
      BY <2>1, <3>1, SoundIdle DEF Ends
  <2> QED
    BY <2>1, <2>2, <2>3
<1>5. CASE Crash
  <2>1. UNCHANGED disk /\ Ends
    BY <1>5 DEF Crash
  <2>2. CASE UNCHANGED rootVars
    BY <1>0, <2>1, <2>2, NoEffect, SoundIdle DEF Ends
  <2>3. ASSUME phase = "finalize", NEW left \in SUBSET Retained, Leaves(left),
               left = {} \/ UNCHANGED <<pending, committed>>
        PROVE  Logical' = Logical /\ RunSound'
    <3>1. committed /\ ~ Unsettled
      BY <1>0, <2>3 DEF RootMarks, Unsettled
    <3>2. Unsettled' => \A p \in Path : sidecar'[p] = NoSidecar
      BY <2>3, <3>1, LeavesEffect DEF Unsettled
    <3>3. Logical' = Logical
      BY <2>1, <3>1, <3>2, LogicalStays DEF Unsettled
    <3>4. OldContentKept'
      BY <3>2 DEF OldContentKept, Retained, HasSidecar
    <3> QED
      BY <2>1, <3>3, <3>4, SoundIdle DEF Ends
  <2> QED
    BY <1>5, <2>2, <2>3 DEF Crash
<1> QED
  BY <1>1, <1>2, <1>3, <1>4, <1>5

-----------------------------------------------------------------------------
(***************************************************************************)
(* Commit installs the graph.                                              *)
(***************************************************************************)

\* Just before its commit mark the project on disk is the one the install
\* promises, and its lock file describes it.
LEMMA CommitInstalls ==
  ASSUME TransactionTyped, TransactionSound, ~ undone, Commit
  PROVE  /\ Logical' = Installed(Logical, graph, Mutates)
         /\ WholeProject(Logical')
         /\ RunSound'
<1>1. /\ phase = "commit" /\ UNCHANGED <<disk, pending, sidecar, backup>> /\ committed' = TRUE
      /\ phase' = "finalize"
  BY DEF Commit, GoTo
<1>2. /\ pending /\ ~ committed /\ Unsettled /\ WholeProject(Logical)
      /\ Heads \subseteq Retained /\ \A k \in DOMAIN graph : Placed(k)
      /\ disk[Lockfile] = graph /\ disk[Cfg] = graph
  BY <1>1 DEF TransactionSound, RunSound, RootMarks, Unsettled, Publishing, Retaining, Written
<1>3. IF Mutates
      THEN /\ Orphans \subseteq Retained
           /\ Retained \subseteq Heads \cup PlanPaths \cup Orphans
           /\ \A p \in Orphans : disk[p] = Absent
           /\ disk[Manifest] = graph
      ELSE Retained \subseteq Heads \cup PlanPaths
  BY <1>1 DEF TransactionSound, RunSound, OrphansPruned
<1>4. HasSidecar(Lockfile) /\ Logical[Lockfile] = sidecar[Lockfile]
  <2>1. Lockfile \in Heads /\ Lockfile \in Path
    BY PlanFacts, PathFacts
  <2> QED
    BY <1>2, <2>1, LogicalAt DEF Retained
<1>5. ~ Unsettled' /\ Logical' = [p \in Path |-> disk[p]]
  BY <1>1 DEF Unsettled, Logical
<1>6. Orphans = OrphanedPaths(LockedGraph(Logical[Lockfile]), graph)
  BY <1>4 DEF Orphans
<1>7. /\ Orphans \subseteq Modules \cup Archives
      /\ Orphans \cap ArchivesOf(graph) = {}
      /\ \A k \in DOMAIN graph : Module(k) \notin Orphans
  BY <1>4, OrphansArePaths, OrphanFacts DEF Orphans, TransactionTyped, TypeOK
<1>8. \A k \in DOMAIN graph : disk[Module(k)] = graph[k]
  BY <1>2 DEF Placed
<1>9. \A p \in ArchivesOf(graph) : p \in Archives /\ disk[p] = p[3]
  <2>1. \A k \in DOMAIN graph \cap Archived : /\ disk[Archive(k, graph[k])] = graph[k]
                                              /\ Archive(k, graph[k])[3] = graph[k]
                                              /\ Archive(k, graph[k]) \in Archives
    BY <1>2, PathFacts, PlanFacts DEF Placed
  <2> QED
    BY <2>1 DEF ArchivesOf
<1>10. \A p \in Path : ~ HasSidecar(p) => Logical[p] = disk[p]
  BY LogicalAt
<1>11. \A p \in {Module(k) : k \in DOMAIN graph} : p \in Modules /\ disk[p] = graph[p[2]]
  <2>1. \A k \in DOMAIN graph : Module(k) \in Modules /\ Module(k)[2] = k
    BY PathFacts, PlanFacts
  <2> QED
    BY <1>8, <2>1
<1>12. ASSUME NEW p \in Path
       PROVE  disk[p] = Installed(Logical, graph, Mutates)[p]
  <2> DEFINE I == Installed(Logical, graph, Mutates)[p]
  <2>0. I = CASE p \in {Lockfile, Cfg} -> graph
              [] p = Manifest -> IF Mutates THEN graph ELSE Logical[p]
              [] p \in {Module(k) : k \in DOMAIN graph} -> graph[p[2]]
              [] p \in ArchivesOf(graph) -> p[3]
              [] Mutates /\ p \in Orphans -> Absent
              [] OTHER -> Logical[p]
    BY <1>6 DEF Installed
  <2> HIDE DEF I
  <2>1. CASE p \in {Lockfile, Cfg}
    <3>1. p # Manifest /\ p \notin Modules \cup Archives
      BY <2>1, PathFacts
    <3>2. I = graph
      BY <1>7, <1>9, <1>11, <2>0, <2>1, <3>1
    <3> QED
      BY <1>2, <2>1, <3>2 DEF I
  <2>2. CASE p = Manifest
    <3>1. p \notin {Lockfile, Cfg} /\ p \notin Modules \cup Archives
      BY <2>2, PathFacts
    <3>2. I = IF Mutates THEN graph ELSE Logical[p]
      BY <1>7, <1>9, <1>11, <2>0, <2>2, <3>1
    <3>3. CASE Mutates
      BY <1>3, <2>2, <3>2, <3>3 DEF I
    <3>4. CASE ~ Mutates
      <4>1. p \notin Heads /\ p \notin PlanPaths
        BY <1>9, <1>11, <3>1, <3>4 DEF Heads, PlanPaths
      <4>2. ~ HasSidecar(p)
        BY <1>3, <3>4, <4>1 DEF Retained
      <4> QED
        BY <1>10, <3>2, <3>4, <4>2 DEF I
    <3> QED
      BY <3>3, <3>4
  <2>3. CASE p \in {Module(k) : k \in DOMAIN graph}
    <3>1. p \in Modules /\ disk[p] = graph[p[2]]
      BY <1>11, <2>3
    <3>2. p \notin {Lockfile, Cfg, Manifest} /\ p \notin Archives
      BY <3>1, PathFacts
    <3>3. p \notin ArchivesOf(graph) /\ p \notin Orphans
      BY <1>7, <1>9, <2>3, <3>2
    <3>4. I = graph[p[2]]
      BY <2>0, <2>3, <3>2, <3>3
    <3> QED
      BY <3>1, <3>4 DEF I
  <2>4. CASE p \in ArchivesOf(graph)
    <3>1. p \in Archives /\ disk[p] = p[3]
      BY <1>9, <2>4
    <3>2. p \notin {Lockfile, Cfg, Manifest} /\ p \notin Modules
      BY <3>1, PathFacts
    <3>3. p \notin {Module(k) : k \in DOMAIN graph} /\ p \notin Orphans
      BY <1>7, <1>11, <2>4, <3>2
    <3>4. I = p[3]
      BY <2>0, <2>4, <3>2, <3>3
    <3> QED
      BY <3>1, <3>4 DEF I
  <2>5. CASE p \in Modules \cup Archives /\ p \notin PlanPaths
    <3>1. p \notin {Lockfile, Cfg, Manifest} /\ p \notin Heads
      BY <2>5, PathFacts DEF Heads
    <3>2. p \notin {Module(k) : k \in DOMAIN graph} /\ p \notin ArchivesOf(graph)
      BY <2>5 DEF PlanPaths
    <3>3. CASE Mutates /\ p \in Orphans
      <4>1. I = Absent
        BY <2>0, <3>1, <3>2, <3>3
      <4> QED
        BY <1>3, <3>3, <4>1 DEF I
    <3>4. CASE ~ (Mutates /\ p \in Orphans)
      <4>1. I = Logical[p]
        BY <2>0, <3>1, <3>2, <3>4
      <4>2. ~ HasSidecar(p)
        BY <1>3, <2>5, <3>1, <3>4 DEF Retained
      <4> QED
        BY <1>10, <4>1, <4>2 DEF I
    <3> QED
      BY <3>3, <3>4
  <2> QED
    BY <2>1, <2>2, <2>3, <2>4, <2>5, PathFacts DEF PlanPaths
<1>13. Logical' = Installed(Logical, graph, Mutates)
  <2>1. Installed(Logical, graph, Mutates) = [p \in Path |-> Installed(Logical, graph, Mutates)[p]]
    BY DEF Installed
  <2> QED
    BY <1>5, <1>12, <2>1
<1>14. \A p \in Path : disk[p] # Torn
  <2> TAKE p \in Path
  <2>1. disk[p] \in ContentOf(p)
    BY DEF TransactionTyped, ContentsFit
  <2>2. CASE p \notin Modules
    BY <2>1, <2>2, ContentFacts
  <2>3. CASE p \in {Module(k) : k \in DOMAIN graph}
    BY <1>8, <2>3, PlanFacts, ContentAssumption
  <2>4. CASE p \in Modules /\ p \notin {Module(k) : k \in DOMAIN graph}
    <3>1. p \notin Heads /\ p \notin PlanPaths
      BY <1>9, <2>4, PathFacts DEF Heads, PlanPaths
    <3>2. CASE HasSidecar(p)
      <4>1. Mutates /\ p \in Orphans
        BY <1>3, <3>1, <3>2 DEF Retained
      <4> QED
        BY <1>3, <4>1, ContentAssumption
    <3>3. CASE ~ HasSidecar(p)
      BY <1>2, <1>10, <3>3 DEF WholeProject
    <3> QED
      BY <3>2, <3>3
  <2> QED
    BY <2>2, <2>3, <2>4
<1>15. WholeProject(Logical')
  <2>1. Lockfile \in Path /\ Cfg \in Path /\ \A k \in DOMAIN graph : Module(k) \in Path
    BY PathFacts, PlanFacts
  <2>2. LockedGraph(Logical'[Lockfile]) = graph
    <3>1. graph # Absent
      BY ContentAssumption DEF TransactionTyped, TypeOK
    <3> QED
      BY <1>2, <1>5, <2>1, <3>1 DEF LockedGraph
  <2>3. \A p \in Path : Logical'[p] = disk[p]
    BY <1>5
  <2>4. Archives \subseteq Path
    BY PathFacts
  <2> QED
    BY <1>2, <1>8, <1>9, <1>14, <2>1, <2>2, <2>3, <2>4 DEF WholeProject, Describes
<1>16. RunSound'
  BY <1>1, <1>5 DEF RunSound, OldContentKept, RootMarks, Retaining, PackagesPublished, Written, OrphansPruned,
     RestoredSoFar, Publishing, Restoring
<1> QED
  BY <1>13, <1>15, <1>16

-----------------------------------------------------------------------------
(***************************************************************************)
(* The theorems.                                                           *)
(***************************************************************************)

LEMMA UndoneStays == ASSUME [Next]_vars, undone, undone \in BOOLEAN PROVE undone'
<1>1. CASE UNCHANGED vars
  BY <1>1 DEF vars, faultVars
<1>2. ASSUME SweepInterrupted PROVE undone'
  <2>1. undone' = (undone \/ (committed /\ pending' /\ ~ committed'))
    BY <1>2 DEF SweepInterrupted
  <2> QED
    BY <2>1, Zenon
<1>3. ASSUME FinalizeFails PROVE undone'
  BY <1>3 DEF FinalizeFails
<1>4. CASE Next
  BY <1>2, <1>3, <1>4 DEF Next, CommandStep, Fault, RestoreStep, PublishStep, GoTo, faultVars, commandVars,
     Begin, Recover, EndRecover, Sweep, RestoreRefused, BeginRestore, RemoveDestination, MoveBackup,
     RemoveSidecar, Start, RetainHead, Resolve, RetainModule, RetainArchive, MoveArchive, MoveModuleAside,
     MoveModuleIn, EndPublish, WriteLock, PublishCfg, RetainOrphan, RemoveOrphan, OrphanRemoved,
     WriteManifest, Commit, Finalize, EndRollback, RestoreFails, SidecarStays, StepFails, Crash
<1> QED
  BY <1>1, <1>4

\* A step keeps the project as recovery makes it, or installs a graph.
LEMMA SoundStep ==
  ASSUME TransactionTyped, TransactionSound, ~ undone, ~ undone', [Next]_vars
  PROVE  /\ TransactionSound'
         /\ Logical' = Logical \/ (\E g \in Graph, m \in BOOLEAN : Logical' = Installed(Logical, g, m))
<1>1. ASSUME Logical' = Logical, RunSound' PROVE TransactionSound'
  BY <1>1 DEF TransactionSound, WholeProject, Describes
<1>2. CASE UNCHANGED vars
  <2>1. UNCHANGED <<disk, rootVars, phase, command, graph, todo, current, failed, undone>>
    BY <1>2 DEF vars, commandVars, faultVars
  <2>2. UNCHANGED <<pending, committed, sidecar, backup>>
    BY <2>1 DEF rootVars
  <2>3. Logical' = Logical
    BY <2>1, NoEffect
  <2>4. RunSound'
    BY <2>1, <2>2 DEF TransactionSound, RunSound, OldContentKept, RootMarks, Retaining, PackagesPublished,
       Written, OrphansPruned, RestoredSoFar, Publishing, Restoring, CopiesKept, PlanPaths, Placed, Heads,
       Mutates, Orphans, Retained, HasSidecar, Unsettled
  <2> QED
    BY <1>1, <2>3, <2>4
<1>3. ASSUME RestoreStep \/ RestoreFails \/ SidecarStays PROVE Logical' = Logical /\ RunSound'
  <2>1. Restoring
    BY <1>3 DEF RestoreStep, RestoreFails, SidecarStays, RestoreRefused, BeginRestore,
       RemoveDestination, MoveBackup, RemoveSidecar, Restored
  <2> QED
    BY <1>3, <2>1, SoundRestore DEF RestoreStep
<1>4. ASSUME PublishStep PROVE (Logical' = Logical /\ RunSound') \/ Commit
  <2>1. \A k \in Package : RetainModule(k) \/ RetainArchive(k) \/ MoveArchive(k)
                           \/ MoveModuleAside(k) \/ MoveModuleIn(k) => phase = "publish"
    BY DEF RetainModule, RetainArchive, MoveArchive, MoveModuleAside, MoveModuleIn
  <2>2. EndPublish => phase = "publish"
    BY DEF EndPublish
  <2> QED
    BY <1>4, <2>1, <2>2, SoundPublish, SoundHeads, SoundWrites, SoundEnd DEF PublishStep
<1>5. ASSUME Commit
      PROVE  TransactionSound' /\ \E g \in Graph, m \in BOOLEAN : Logical' = Installed(Logical, g, m)
  <2>1. graph \in Graph /\ Mutates \in BOOLEAN
    BY DEF TransactionTyped, TypeOK, Mutates
  <2>2. Logical' = Installed(Logical, graph, Mutates) /\ WholeProject(Logical') /\ RunSound'
    BY <1>5, CommitInstalls
  <2> QED
    BY <2>1, <2>2 DEF TransactionSound, WholeProject, Describes
<1>6. CASE Next
  BY <1>1, <1>3, <1>4, <1>5, <1>6, SoundRecovery, SoundEnd DEF Next, CommandStep, Fault
<1> QED
  BY <1>2, <1>6

LEMMA SoundInit == Init => TransactionSound /\ Logical = [p \in Path |-> Absent]
<1> SUFFICES ASSUME Init PROVE TransactionSound /\ Logical = [p \in Path |-> Absent]
  OBVIOUS
<1>1. disk = [p \in Path |-> Absent] /\ pending = FALSE /\ phase = "idle"
  BY DEF Init
<1>2. ~ Unsettled /\ Logical = [p \in Path |-> Absent]
  BY <1>1 DEF Unsettled, Logical
<1>3. WholeProject(Logical)
  <2>1. Lockfile \in Path /\ Cfg \in Path
    BY PathFacts
  <2>2. LockedGraph(Logical[Lockfile]) = NoGraph /\ DOMAIN NoGraph = {}
    BY <1>2, <2>1 DEF LockedGraph, NoGraph
  <2>3. ArchivesOf(NoGraph) = {}
    BY <2>2 DEF ArchivesOf
  <2> QED
    BY <1>2, <2>1, <2>2, <2>3, ContentAssumption DEF WholeProject, Describes
<1>4. RunSound
  BY <1>1, <1>2 DEF RunSound, OldContentKept, RootMarks, Retaining, PackagesPublished, Written, OrphansPruned,
     RestoredSoFar, Publishing, Restoring
<1> QED
  BY <1>2, <1>3, <1>4 DEF TransactionSound

LEMMA TransactionInductive ==
  /\ Init => TransactionInv
  /\ TransactionInv /\ [Next]_vars => TransactionInv'
<1>1. Init => TransactionInv
  BY TypedInit, SoundInit DEF TransactionInv
<1>2. ASSUME TransactionInv, [Next]_vars PROVE TransactionInv'
  <2>1. TransactionTyped /\ TransactionTyped'
    BY <1>2, TypedStep DEF TransactionInv
  <2>2. undone' \/ TransactionSound'
    <3>1. CASE undone
      BY <1>2, <2>1, <3>1, UndoneStays DEF TransactionTyped, TypeOK
    <3>2. CASE undone'
      BY <3>2
    <3>3. CASE ~ undone /\ ~ undone'
      BY <1>2, <2>1, <3>3, SoundStep DEF TransactionInv
    <3> QED
      BY <3>1, <3>2, <3>3
  <2> QED
    BY <2>1, <2>2 DEF TransactionInv
<1> QED
  BY <1>1, <1>2

LEMMA TransactionInvHolds == Spec => []TransactionInv
<1>1. Init => TransactionInv
  BY TransactionInductive
<1>2. TransactionInv /\ [Next]_vars => TransactionInv'
  BY TransactionInductive
<1> QED
  BY <1>1, <1>2, PTL DEF Spec

\* Whatever fails and however many commands are killed: the project is one that
\* recovery takes back or one that its lock file describes, unless a committed
\* transaction was taken for an unfinished one (RunInstallTransactionCore,
\* RecoverPendingTransactions).
THEOREM InstallsAreAccountedFor == Spec => []ProjectIsAccountedFor
<1>1. TransactionInv => ProjectIsAccountedFor
  <2> SUFFICES ASSUME TransactionInv PROVE ProjectIsAccountedFor
    OBVIOUS
  <2>1. CASE undone
    BY <2>1 DEF ProjectIsAccountedFor, OldContentKept, LockDescribesProject
  <2>2. CASE ~ undone
    <3>1. OldContentKept /\ Describes(Logical)
      BY <2>2 DEF TransactionInv, TransactionSound, RunSound, WholeProject
    <3>2. ASSUME ~ Unsettled
          PROVE  LET locked == LockedGraph(disk[Lockfile]) IN
                   /\ disk[Cfg] = disk[Lockfile]
                   /\ \A k \in DOMAIN locked : disk[Module(k)] = locked[k]
                   /\ \A p \in ArchivesOf(locked) : disk[p] = p[3]
      <4>1. \A p \in Path : Logical[p] = disk[p]
        BY <3>2, LogicalAt
      <4>2. Lockfile \in Path /\ Cfg \in Path
        BY PathFacts
      <4>3. LockedGraph(disk[Lockfile]) \in Graph
        <5>1. disk[Lockfile] \in Graph \cup {Absent}
          BY <4>2, ContentFacts DEF TransactionInv, TransactionTyped, ContentsFit
        <5> QED
          BY <5>1, GraphFacts
      <4>4. \A k \in DOMAIN LockedGraph(disk[Lockfile]) : Module(k) \in Path
        BY <4>3, GraphFacts, PathFacts
      <4>5. ArchivesOf(LockedGraph(disk[Lockfile])) \subseteq Path
        BY <4>3, OrphanFacts, PathFacts
      <4> QED
        BY <3>1, <4>1, <4>2, <4>4, <4>5 DEF Describes
    <3> QED
      BY <3>1, <3>2 DEF ProjectIsAccountedFor, LockDescribesProject
  <2> QED
    BY <2>1, <2>2
<1> QED
  BY <1>1, TransactionInvHolds, PTL

\* The abstract specification speaks of the same paths and graphs.
LEMMA SameTree ==
  /\ Atomic!Path = Path /\ Atomic!Graph = Graph
  /\ \A d, g, m : Atomic!Installed(d, g, m) = Installed(d, g, m)
<1>1. Atomic!Lockfile = Lockfile /\ Atomic!Cfg = Cfg /\ Atomic!Manifest = Manifest
  BY DEF Atomic!Lockfile, Atomic!Cfg, Atomic!Manifest, Lockfile, Cfg, Manifest
<1>2. /\ \A k : Atomic!Module(k) = Module(k)
      /\ \A k, r : Atomic!Archive(k, r) = Archive(k, r)
  BY DEF Atomic!Module, Atomic!Archive, Module, Archive
<1>3. Atomic!Modules = Modules /\ Atomic!Archives = Archives
  BY <1>2 DEF Atomic!Modules, Atomic!Archives, Modules, Archives
<1>4. Atomic!Path = Path
  BY <1>1, <1>3 DEF Atomic!Path, Path
<1>5. Atomic!Graph = Graph
  BY DEF Atomic!Graph, Graph
<1>6. \A g : Atomic!ArchivesOf(g) = ArchivesOf(g)
  BY <1>2 DEF Atomic!ArchivesOf, ArchivesOf
<1>7. \A g, h : Atomic!OrphanedPaths(g, h) = OrphanedPaths(g, h)
  BY <1>2, <1>6 DEF Atomic!OrphanedPaths, OrphanedPaths
<1>8. \A text : Atomic!LockedGraph(text) = LockedGraph(text)
  BY DEF Atomic!LockedGraph, LockedGraph
<1>9. ASSUME NEW d, NEW g, NEW m PROVE Atomic!Installed(d, g, m) = Installed(d, g, m)
  <2>1. {Atomic!Module(k) : k \in DOMAIN g} = {Module(k) : k \in DOMAIN g}
    BY <1>2
  <2> QED
    BY <1>1, <1>4, <1>6, <1>7, <1>8, <2>1 DEF Atomic!Installed, Installed
<1> QED
  BY <1>4, <1>5, <1>9

\* The transaction implements AtomicInstall: as recovery makes it, the project
\* goes from one installed graph to the next in the step that writes the commit
\* mark, and in no other (MarkTransactionCommitted), with the same exception.
THEOREM TransactionIsAtomic == Spec => InstallsAtomically
<1>1. Init => Atomic!Init
  BY SoundInit, SameTree DEF Atomic!Init
<1>2. TransactionInv /\ TransactionInv' /\ [Next]_vars => [Atomic!Next \/ undone']_Logical
  <2> SUFFICES ASSUME TransactionInv, [Next]_vars, ~ undone', Logical' # Logical
               PROVE  Atomic!Next
    OBVIOUS
  <2>1. ~ undone
    BY UndoneStays DEF TransactionInv, TransactionTyped, TypeOK
  <2>2. \E g \in Graph, m \in BOOLEAN : Logical' = Installed(Logical, g, m)
    BY <2>1, SoundStep DEF TransactionInv
  <2> QED
    BY <2>2, SameTree DEF Atomic!Next, Atomic!Install
<1> QED
  BY <1>1, <1>2, TransactionInvHolds, PTL DEF Spec, InstallsAtomically

\* Every variable of the transaction keeps its type, and every path a content
\* that fits it.
THEOREM TransactionTypeCorrect == Spec => []TypeOK
<1>1. TransactionInv => TypeOK
  BY DEF TransactionInv, TransactionTyped
<1> QED
  BY <1>1, TransactionInvHolds, PTL
=============================================================================
