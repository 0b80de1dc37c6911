--------------------------- MODULE TransitionWait ---------------------------
(***************************************************************************)
(* wait_for_transition of                                                  *)
(* .agents/skills/delivery-wait/scripts/kgr_github.py: the loop shared by  *)
(* the checks, workflow, review and stack waits.  A wait loads its         *)
(* checkpoint, observes, writes the digest of what it saw, and reports a   *)
(* change against the digest it had before, a terminal state, or the       *)
(* deadline; otherwise it sleeps and observes again.  Invocations on one   *)
(* state file follow one another (StateLock; "keep one running wait per    *)
(* state file"), and each can be killed at any step.                       *)
(*                                                                         *)
(* The observation is the business of the modules that extend this one:    *)
(* their reads lead from "observe" to Observed, or to ObserveFails.  Time  *)
(* is the one fact the loop asks for: whether the deadline has passed.     *)
(***************************************************************************)
EXTENDS Naturals

CONSTANTS
    NoTarget,
    NoDigest        \* None: no observation yet

VARIABLES
    step,           \* what the running wait does next; "idle" when none runs
    target,         \* the identity of the running or last wait
    prior,          \* the digest the loop compares with
    checkpoint,     \* the state file: an identity and a digest
    seen,           \* the classified observation, between its read and its report,
                    \* and (history) what it was made from
    late,           \* the deadline has passed
    stopped,        \* SIGINT or SIGTERM arrived
    result,         \* the state the last wait reported
    waits,          \* invocations so far
    known,          \* history: the digest the caller was last told of
    killed          \* history: some wait was killed

waitVars == <<step, target, prior, checkpoint, seen, late, stopped, result,
              waits, known, killed>>

NoCheckpoint == [target |-> NoTarget, digest |-> NoDigest]
NoSeen == [terminal |-> "none", key |-> NoDigest, basis |-> NoDigest]

Running == step # "idle"

WaitInit ==
    /\ step = "idle"
    /\ target = NoTarget
    /\ prior = NoDigest
    /\ checkpoint = NoCheckpoint
    /\ seen = NoSeen
    /\ late = FALSE
    /\ stopped = FALSE
    /\ result = "none"
    /\ waits = 0
    /\ known = NoDigest
    /\ killed = FALSE

\* write_state replaces the file in one rename.
WriteState(digest) == checkpoint' = [target |-> target, digest |-> digest]

\* A result: the loop returns.
Report(state) ==
    /\ result' = state
    /\ step' = "idle"
    /\ seen' = NoSeen
    /\ prior' = NoDigest
    /\ late' = FALSE
    /\ stopped' = FALSE
    /\ UNCHANGED <<target, waits, killed>>

-----------------------------------------------------------------------------
\* load_state; a checkpoint of another identity is never used.
StartWait(t) ==
    /\ ~Running
    /\ waits' = waits + 1
    /\ target' = t
    /\ \/ /\ checkpoint.target \notin {NoTarget, t}
          /\ result' = "invalidated"
          /\ UNCHANGED <<step, prior>>
       \/ /\ checkpoint.target \in {NoTarget, t}
          /\ prior' = checkpoint.digest
          /\ step' = "top"
          /\ result' = "none"
    /\ UNCHANGED <<checkpoint, seen, late, stopped, known, killed>>

\* The top of the loop: an interrupt is noticed here only.
Cancelled ==
    /\ step = "top" /\ stopped
    /\ WriteState(prior)
    /\ Report("cancelled")
    /\ UNCHANGED known

BeginObservation ==
    /\ step = "top" /\ ~stopped
    /\ step' = "observe"
    /\ UNCHANGED <<target, prior, checkpoint, seen, late, stopped, result, waits,
                   known, killed>>

\* Seeded fault: a failed read is tried again whatever the time.
ObserveRetries(deadlineState) ==
    /\ WriteState(prior)
    /\ step' = "sleep"
    /\ UNCHANGED <<target, prior, seen, late, stopped, result, waits, known, killed>>

\* A rate limit or a transient failure: the digest is kept, and the wait goes
\* on until the deadline.
ObserveFails(deadlineState) ==
    /\ WriteState(prior)
    /\ \/ late /\ Report(deadlineState)
       \/ /\ ~late
          /\ step' = "sleep"
          /\ UNCHANGED <<target, prior, seen, late, stopped, result, waits, killed>>
    /\ UNCHANGED known

\* Any other failure ends the wait and leaves the file alone.
ObserveRefused ==
    /\ Report("operational-error")
    /\ UNCHANGED <<checkpoint, known>>

Observed(terminal, key, basis) ==
    /\ seen' = [terminal |-> terminal, key |-> key, basis |-> basis]
    /\ step' = "write"
    /\ UNCHANGED <<target, prior, checkpoint, late, stopped, result, waits, known, killed>>

\* Seeded fault: the observation is compared with itself.
WriteAndForget ==
    /\ step = "write"
    /\ WriteState(seen.key)
    /\ prior' = seen.key
    /\ step' = "decide"
    /\ UNCHANGED <<target, seen, late, stopped, result, waits, known, killed>>

\* The checkpoint is written before the observation is judged.
WriteObservation ==
    /\ step = "write"
    /\ WriteState(seen.key)
    /\ step' = "decide"
    /\ UNCHANGED <<target, prior, seen, late, stopped, result, waits, known, killed>>

Changed == prior # NoDigest /\ prior # seen.key
IsTerminal == seen.terminal # "waiting"

ReportObservation(state) ==
    /\ Report(state)
    /\ known' = seen.key
    /\ UNCHANGED checkpoint

\* changeFirst: whether a change is reported before a terminal state.
ReportChange(changeFirst) ==
    /\ step = "decide"
    /\ Changed
    /\ changeFirst \/ ~IsTerminal
    /\ ReportObservation("changed")

ReportTerminal(changeFirst) ==
    /\ step = "decide"
    /\ IsTerminal
    /\ ~(changeFirst /\ Changed)
    /\ ReportObservation(seen.terminal)

ReportDeadline(deadlineState) ==
    /\ step = "decide"
    /\ ~IsTerminal /\ ~Changed /\ late
    /\ ReportObservation(deadlineState)

\* Nothing to report: what was seen is what the next round compares with.
Sleep ==
    /\ step = "decide"
    /\ ~IsTerminal /\ ~Changed /\ ~late
    /\ prior' = seen.key
    /\ seen' = NoSeen
    /\ step' = "sleep"
    /\ known' = IF known = NoDigest THEN seen.key ELSE known
    /\ UNCHANGED <<target, checkpoint, late, stopped, result, waits, killed>>

Wake ==
    /\ step = "sleep"
    /\ step' = "top"
    /\ UNCHANGED <<target, prior, checkpoint, seen, late, stopped, result, waits,
                   known, killed>>

LoopStep(changeFirst, deadlineState) ==
    \/ Cancelled \/ BeginObservation \/ WriteObservation
    \/ ReportChange(changeFirst) \/ ReportTerminal(changeFirst)
    \/ ReportDeadline(deadlineState) \/ Sleep \/ Wake

\* The environment of a wait.
DeadlinePasses ==
    /\ Running /\ ~late
    /\ late' = TRUE
    /\ UNCHANGED <<step, target, prior, checkpoint, seen, stopped, result, waits,
                   known, killed>>

Interrupt ==
    /\ Running /\ ~stopped
    /\ stopped' = TRUE
    /\ UNCHANGED <<step, target, prior, checkpoint, seen, late, result, waits,
                   known, killed>>

Kill ==
    /\ Running
    /\ step' = "idle"
    /\ result' = "none"
    /\ seen' = NoSeen
    /\ prior' = NoDigest
    /\ late' = FALSE
    /\ stopped' = FALSE
    /\ killed' = TRUE
    /\ UNCHANGED <<target, checkpoint, waits, known>>

-----------------------------------------------------------------------------
\* No change goes unreported, over any number of waits on one checkpoint,
\* deadlines, interrupts and failed reads: the digest in the checkpoint is one
\* the caller was told of.  A kill between the write and the report is the one
\* exception, because the file is written first.
ChangeReportedUnlessKilled ==
    ~Running /\ ~killed => checkpoint.digest \in {NoDigest, known}
=============================================================================
