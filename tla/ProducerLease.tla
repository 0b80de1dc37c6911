---------------------------- MODULE ProducerLease ----------------------------
(***************************************************************************)
(* The producer lease of one object key (src/source/LWPT.ProducerLease.pas)*)
(* on Unix, down to the guard file it locks.                               *)
(*                                                                         *)
(* The guard is the file owner.guard in the directory of the key.  Its     *)
(* fcntl record lock belongs to a process and to the file that was opened, *)
(* whatever the path names by now; a list of guard paths inside each       *)
(* process keeps the threads of that process apart.  Retiring a key        *)
(* (repair, TryRetireKey) locks the guard, renames the directory of the    *)
(* key away, deletes it and unlocks.  One action is one system call that   *)
(* another process can see.                                                *)
(***************************************************************************)
EXTENDS Naturals, FiniteSets

CONSTANTS
  Thread, Process, ProcessOf,   \* who asks for the key
  Inode,                        \* guard files; one nobody refers to is fresh
  NoInode, Nobody,
  Retiring                      \* whether keys are retired in this behaviour

ASSUME ProcessAssumption == ProcessOf \in [Thread -> Process]
ASSUME NobodyAssumption ==
  /\ Nobody \notin Process \cup Thread
  /\ NoInode \notin Inode
ASSUME RetiringAssumption == Retiring \in BOOLEAN

VARIABLES
  directory,    \* whether the directory of the key exists
  path,         \* the file owner.guard names in it
  lock,         \* the process that holds the record lock of each file
  registered,   \* processes with the path in LocalGuardPaths
  state,        \* the thread the state file describes
  step,         \* where a thread is in the protocol
  role,         \* what it wants the guard for
  file          \* the guard file it has open

leaseVars == <<directory, path, lock, registered, state, step, role, file>>

Step == {"idle", "opening", "locking", "locked", "holding", "closing"}
Role == {"lease", "guard", "retire"}

TypeOK ==
  /\ directory \in BOOLEAN
  /\ path \in Inode \cup {NoInode}
  /\ lock \in [Inode -> Process \cup {Nobody}]
  /\ registered \subseteq Process
  /\ state \in Thread \cup {Nobody}
  /\ step \in [Thread -> Step]
  /\ role \in [Thread -> Role]
  /\ file \in [Thread -> Inode \cup {NoInode}]

Init ==
  /\ directory = FALSE
  /\ path = NoInode
  /\ lock = [i \in Inode |-> Nobody]
  /\ registered = {}
  /\ state = Nobody
  /\ step = [t \in Thread |-> "idle"]
  /\ role = [t \in Thread |-> "lease"]
  /\ file = [t \in Thread |-> NoInode]

Goes(t, there) == step' = [step EXCEPT ![t] = there]

-----------------------------------------------------------------------------
\* TryAcquire and TryAcquireGuard make the directory of the key first.
EnsureLeaseDirectory(t) ==
  /\ step[t] = "idle"
  /\ directory' = TRUE
  /\ role' \in {[role EXCEPT ![t] = r] : r \in {"lease", "guard"}}
  /\ Goes(t, "opening")
  /\ UNCHANGED <<path, lock, registered, state, file>>

\* It raises when part of the path cannot be made or is a link.
DirectoryFails(t) ==
  /\ step[t] = "idle"
  /\ directory' \in {directory, TRUE}
  /\ UNCHANGED <<path, lock, registered, state, step, role, file>>

\* RepairProducerLeases and TryRetireKey begin with a directory they found.
BeginRetire(t) ==
  /\ Retiring
  /\ step[t] = "idle"
  /\ directory
  /\ role' = [role EXCEPT ![t] = "retire"]
  /\ Goes(t, "opening")
  /\ UNCHANGED <<directory, path, lock, registered, state, file>>

\* Seeded fault: nothing keeps the threads of a process apart.
RegisterNothing(t) == TRUE

RegisterLocalGuard(t) == ProcessOf[t] \notin registered

\* The path is taken inside this process: somebody else has the guard.
GuardRefused(t) ==
  /\ step[t] = "opening"
  /\ ~ RegisterLocalGuard(t)
  /\ Goes(t, "idle")
  /\ UNCHANGED <<directory, path, lock, registered, state, role, file>>

Unused == {i \in Inode : i # path /\ \A t \in Thread : file[t] # i}

\* TryCreate opens the guard file, creating it when the path names none.
OpenGuard(t) ==
  /\ step[t] = "opening"
  /\ RegisterLocalGuard(t)
  /\ directory
  /\ registered' = registered \cup {ProcessOf[t]}
  /\ path' \in IF path = NoInode THEN Unused ELSE {path}
  /\ file' = [file EXCEPT ![t] = path']
  /\ Goes(t, "locking")
  /\ UNCHANGED <<directory, lock, state, role>>

\* The guard cannot be opened, or its directory was renamed away since it was
\* made: TryCreate raises.
OpenFails(t) ==
  /\ step[t] = "opening"
  /\ RegisterLocalGuard(t)
  /\ Goes(t, "idle")
  /\ UNCHANGED <<directory, path, lock, registered, state, role, file>>

\* Closing a file drops every lock its process has on it.
Unlocked(t) ==
  [i \in Inode |-> IF i = file[t] /\ lock[i] = ProcessOf[t]
                   THEN Nobody ELSE lock[i]]

CloseGuard(t) ==
  /\ lock' = Unlocked(t)
  /\ file' = [file EXCEPT ![t] = NoInode]
  /\ registered' = registered \ {ProcessOf[t]}

LockGuard(t) ==
  /\ step[t] = "locking"
  /\ lock[file[t]] \in {Nobody, ProcessOf[t]}
  /\ lock' = [lock EXCEPT ![file[t]] = ProcessOf[t]]
  /\ Goes(t, "locked")
  /\ UNCHANGED <<directory, path, registered, state, role, file>>

LockRefused(t) ==
  /\ step[t] = "locking"
  /\ lock[file[t]] \notin {Nobody, ProcessOf[t]}
  /\ CloseGuard(t)
  /\ Goes(t, "idle")
  /\ UNCHANGED <<directory, path, state, role>>

\* Locking fails for another reason than a holder: TryCreate raises.
LockFails(t) ==
  /\ step[t] = "locking"
  /\ CloseGuard(t)
  /\ Goes(t, "idle")
  /\ UNCHANGED <<directory, path, state, role>>

\* A lease writes its state file by path, making the directory if need be.
WriteState(t) ==
  /\ step[t] = "locked"
  /\ role[t] = "lease"
  /\ directory' = TRUE
  /\ state' = t
  /\ Goes(t, "holding")
  /\ UNCHANGED <<path, lock, registered, role, file>>

\* The state file cannot be written, or the heartbeat not be started: the
\* handler of TryAcquire frees the lease, which deletes the state file.
WriteStateFails(t) ==
  /\ step[t] = "locked"
  /\ role[t] = "lease"
  /\ directory' \in {directory, TRUE}
  /\ state' = Nobody
  /\ Goes(t, "closing")
  /\ UNCHANGED <<path, lock, registered, role, file>>

\* The heartbeat thread; Destroy waits for it before it goes on.
TouchHeartbeat(t) ==
  /\ step[t] = "holding"
  /\ directory' = TRUE
  /\ state' = t
  /\ UNCHANGED <<path, lock, registered, step, role, file>>

\* TLWPTProducerLease.Destroy deletes the state file, then frees the guard.
DeleteState(t) ==
  /\ step[t] = "holding"
  /\ state' = Nobody
  /\ Goes(t, "closing")
  /\ UNCHANGED <<directory, path, lock, registered, role, file>>

\* A guard alone is freed as it is, and so is one whose key could not be
\* renamed away.
FreeGuard(t) ==
  /\ \/ step[t] = "closing"
     \/ step[t] = "locked" /\ role[t] # "lease"
  /\ CloseGuard(t)
  /\ Goes(t, "idle")
  /\ UNCHANGED <<directory, path, state, role>>

\* TryDetachAbandonedKey: whatever directory the path names now goes, with
\* the guard and the state file in it.
DetachKey(t) ==
  /\ step[t] = "locked"
  /\ role[t] = "retire"
  /\ directory' = FALSE
  /\ path' = NoInode
  /\ state' = Nobody
  /\ Goes(t, "closing")
  /\ UNCHANGED <<lock, registered, role, file>>

\* A process dies: the system closes its files; what is on disk stays.  Its
\* threads stand for those of the process that is started next.
Crash(p) ==
  /\ lock' = [i \in Inode |-> IF lock[i] = p THEN Nobody ELSE lock[i]]
  /\ registered' = registered \ {p}
  /\ step' = [t \in Thread |-> IF ProcessOf[t] = p THEN "idle" ELSE step[t]]
  /\ file' = [t \in Thread |-> IF ProcessOf[t] = p THEN NoInode ELSE file[t]]
  /\ UNCHANGED <<directory, path, state, role>>

Acquiring(t) ==
  \/ GuardRefused(t)
  \/ OpenGuard(t)
  \/ LockGuard(t)
  \/ LockRefused(t)
  \/ WriteState(t)

\* TryAcquire raises.
AcquiringFails(t) ==
  \/ DirectoryFails(t)
  \/ OpenFails(t)
  \/ LockFails(t)
  \/ WriteStateFails(t)

\* Seeded fault: the guard is freed before the state file is deleted.
ReleasingGuardFirst(t) ==
  \/ /\ step[t] = "holding"
     /\ CloseGuard(t)
     /\ Goes(t, "closing")
     /\ UNCHANGED <<directory, path, state, role>>
  \/ /\ step[t] = "closing"
     /\ state' = Nobody
     /\ Goes(t, "idle")
     /\ UNCHANGED <<directory, path, lock, registered, role, file>>

Releasing(t) ==
  \/ DeleteState(t)
  \/ FreeGuard(t)

Next ==
  \/ \E t \in Thread :
       \/ EnsureLeaseDirectory(t)
       \/ BeginRetire(t)
       \/ Acquiring(t)
       \/ AcquiringFails(t)
       \/ TouchHeartbeat(t)
       \/ Releasing(t)
       \/ DetachKey(t)
  \/ \E p \in Process : Crash(p)

Spec == Init /\ [][Next]_leaseVars

-----------------------------------------------------------------------------
\* The thread was told that the key is its own.
Holds(t) ==
  /\ step[t] \in {"locked", "holding", "closing"}
  /\ role[t] # "retire"

\* One producer per object key: no two threads, of one process or of two,
\* hold the key at a time (TryCreate).  True while no key is retired.
OneProducer == \A t, u \in Thread : Holds(t) /\ Holds(u) => t = u

\* The locked guard file itself never has two holders, retired or not: the
\* record lock keeps processes apart and LocalGuardPaths their threads.
OneHolderPerFile ==
  \A t, u \in Thread :
    /\ step[t] \in {"locked", "holding", "closing"}
    /\ step[u] \in {"locked", "holding", "closing"}
    /\ file[t] = file[u]
    => t = u

\* What a waiter reads about the producer is about the producer: the state
\* file of a held key is the holder's own, never that of a predecessor whose
\* heartbeat or release came late (TouchHeartbeat, Destroy).
StateIsHolders == \A t \in Thread : step[t] = "holding" => state = t

\* A key nobody holds can be had: the guard file of a dead or finished owner
\* is not locked (Destroy, and the system when a process dies).
FreeKeyIsUnlocked ==
  \A i \in Inode : lock[i] # Nobody =>
    \E t \in Thread : /\ step[t] \in {"locked", "holding", "closing"}
                      /\ file[t] = i
                      /\ ProcessOf[t] = lock[i]
=============================================================================
