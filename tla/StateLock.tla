------------------------------ MODULE StateLock ------------------------------
(***************************************************************************)
(* The lock beside a checkpoint file, class StateLock of                   *)
(* .agents/skills/delivery-wait/scripts/kgr_github.py.  An invocation      *)
(* creates <state>.lock exclusively and writes "<pid>:<time>" into it; one *)
(* that finds the file reads the pid, refuses while that process exists    *)
(* and otherwise reads the file once more, removes it when the text is     *)
(* unchanged, and tries again.  Every one of these is a system call of its *)
(* own, and an invocation can be killed between any two of them.           *)
(*                                                                         *)
(* A member of Process is one invocation: it runs once.  Two invocations   *)
(* never have the same owner text, and a pid that is reused for an         *)
(* unrelated process only makes an invocation refuse: it is left out.      *)
(***************************************************************************)
EXTENDS Naturals

CONSTANTS
    Process,        \* the invocations that use this checkpoint
    NoProcess

ASSUME NoProcessAssumption == NoProcess \notin Process

VARIABLES
    lock,       \* the file: its creator, and whether the creator's text is in it
    pc,         \* what each invocation does next
    tries,      \* the attempts at the exclusive creation it has spent
    seen        \* whose text it read in the file

lockVars == <<lock, pc, tries, seen>>

MaxTries == 2

NoLock == [owner |-> NoProcess, written |-> FALSE]

\* Acquiring and releasing, and the two ways an invocation stops existing.
LockSteps == {"create", "write", "read", "probe", "reread", "unlink",
              "exitRead", "exitUnlink"}
Stopped == {"done", "dead"}

LockInit ==
    /\ lock = NoLock
    /\ tries = [p \in Process |-> 0]
    /\ seen = [p \in Process |-> NoProcess]

Exists(p) == pc[p] \notin Stopped

Goto(p, step) == pc' = [pc EXCEPT ![p] = step]

\* The loop of two attempts: the next one, or the error after the second.
NextAttempt(p) ==
    /\ tries' = [tries EXCEPT ![p] = tries[p] + 1]
    /\ Goto(p, IF tries[p] + 1 = MaxTries THEN "done" ELSE "create")

-----------------------------------------------------------------------------
\* os.open(O_CREAT | O_EXCL): the file exists, and is empty, from here on.
Create(p) ==
    /\ pc[p] = "create"
    /\ \/ /\ lock = NoLock
          /\ lock' = [owner |-> p, written |-> FALSE]
          /\ Goto(p, "write")
       \/ /\ lock # NoLock
          /\ Goto(p, "read")
          /\ UNCHANGED lock
    /\ UNCHANGED <<tries, seen>>

\* The text goes to the file this invocation created, even if its name is
\* gone or belongs to another file by now.
WriteOwner(p, first) ==
    /\ pc[p] = "write"
    /\ lock' = IF lock.owner = p THEN [lock EXCEPT !.written = TRUE] ELSE lock
    /\ Goto(p, first)
    /\ UNCHANGED <<tries, seen>>

\* A missing file and an empty one are both "checkpoint lock is unreadable".
ReadOwner(p) ==
    /\ pc[p] = "read"
    /\ \/ /\ lock.written
          /\ seen' = [seen EXCEPT ![p] = lock.owner]
          /\ Goto(p, "probe")
       \/ /\ ~lock.written
          /\ Goto(p, "done")
          /\ UNCHANGED seen
    /\ UNCHANGED <<lock, tries>>

\* Seeded fault: whoever wrote the file is taken for dead.
ProbeNever(p) ==
    /\ pc[p] = "probe"
    /\ Goto(p, "reread")
    /\ UNCHANGED <<lock, tries, seen>>

\* os.kill(pid, 0).
Probe(p) ==
    /\ pc[p] = "probe"
    /\ Goto(p, IF Exists(seen[p]) THEN "done" ELSE "reread")
    /\ UNCHANGED <<lock, tries, seen>>

\* The file is removed only when it still holds the text that was read.
Reread(p) ==
    /\ pc[p] = "reread"
    /\ \/ /\ lock.written /\ lock.owner = seen[p]
          /\ Goto(p, "unlink")
          /\ UNCHANGED tries
       \/ /\ ~(lock.written /\ lock.owner = seen[p])
          /\ NextAttempt(p)
    /\ UNCHANGED <<lock, seen>>

\* unlink removes the name, whatever file has it by now.
Unlink(p) ==
    /\ pc[p] = "unlink"
    /\ lock' = NoLock
    /\ NextAttempt(p)
    /\ UNCHANGED seen

\* __exit__ reads the file and removes it when the text is its own.
ExitRead(p) ==
    /\ pc[p] = "exitRead"
    /\ Goto(p, IF lock.written /\ lock.owner = p THEN "exitUnlink" ELSE "done")
    /\ UNCHANGED <<lock, tries, seen>>

ExitUnlink(p) ==
    /\ pc[p] = "exitUnlink"
    /\ lock' = NoLock
    /\ Goto(p, "done")
    /\ UNCHANGED <<tries, seen>>

\* The process is killed: its file stays as it is.
Kill(p) ==
    /\ Exists(p)
    /\ Goto(p, "dead")
    /\ UNCHANGED <<lock, tries, seen>>

\* Every step of the lock but the one that enters.
LockStep(p) ==
    \/ Create(p) \/ ReadOwner(p) \/ Probe(p) \/ Reread(p) \/ Unlink(p)
    \/ ExitRead(p) \/ ExitUnlink(p) \/ Kill(p)
=============================================================================
