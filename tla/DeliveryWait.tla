---------------------------- MODULE DeliveryWait ----------------------------
(***************************************************************************)
(* The delivery and review waits together: the loop of TransitionWait over *)
(* each of the four observations.  A behaviour is about one kind of wait   *)
(* on one state file; the things GitHub has that this kind does not look   *)
(* at stay as they are.                                                    *)
(***************************************************************************)
EXTENDS CheckContexts, WorkflowCensus, ReviewCensus, StackSnapshot

CONSTANTS
    Kind,           \* of {"checks", "workflows", "threads", "evidence", "stack"}
    Targets,        \* the identities a wait of each kind can be asked for
    MaxWaits,       \* bound on the invocations, for each kind
    Disturbed       \* the kinds whose waits are also interrupted and killed

VARIABLE kind

vars == <<kind, waitVars, checkVars, workflowVars, reviewVars, stackVars>>

\* The review wait looks at threads and at the automation's evidence; a
\* behaviour has only one of them move.
IsReview == kind \in {"threads", "evidence"}

Init ==
    /\ kind \in Kind
    /\ WaitInit
    /\ CheckInit /\ WorkflowInit /\ ReviewInit /\ StackInit
    /\ kind # "evidence" => attempts = {}

\* main(): the review and the stack wait put a change before a terminal state,
\* and the stack wait calls a quiet deadline pending.
ChangeFirst == kind \in {"threads", "evidence", "stack"}
DeadlineState == IF kind = "stack" THEN "pending" ELSE "timed-out"

Loop ==
    /\ LoopStep(ChangeFirst, DeadlineState)
    /\ UNCHANGED <<kind, checkVars, workflowVars, reviewVars, stackVars>>

OnlyChecks == kind = "checks" /\ UNCHANGED <<kind, workflowVars, reviewVars, stackVars>>
OnlyWorkflows == kind = "workflows" /\ UNCHANGED <<kind, checkVars, reviewVars, stackVars>>
OnlyReview == IsReview /\ UNCHANGED <<kind, checkVars, workflowVars, stackVars>>
OnlyStack == kind = "stack" /\ UNCHANGED <<kind, checkVars, workflowVars, reviewVars>>

Start ==
  /\ waits < MaxWaits[kind]
  /\ \E t \in Targets[kind] :
        \/ StartChecksWait(t) /\ OnlyChecks
        \/ StartWorkflowWait(t) /\ OnlyWorkflows
        \/ StartReviewWait(t) /\ OnlyReview
        \/ StartStackWait(t) /\ OnlyStack

Observe ==
    \/ (ReadContexts \/ ContextsFail) /\ OnlyChecks
    \/ (ReadWorkflows \/ CensusFails) /\ OnlyWorkflows
    \/ (ReadReview \/ ReviewReadFails) /\ OnlyReview
    \/ (ReadStackState \/ StackReadFails) /\ OnlyStack

GitHub ==
    \/ GitHubChecks /\ OnlyChecks
    \/ GitHubWorkflows /\ OnlyWorkflows
    \/ GitHubThreads /\ kind = "threads" /\ OnlyReview
    \/ GitHubEvidence /\ kind = "evidence" /\ OnlyReview
    \/ GitHubStack /\ OnlyStack

Disturb ==
    /\ DeadlinePasses \/ (kind \in Disturbed /\ (Interrupt \/ Kill))
    /\ UNCHANGED <<kind, checkVars, workflowVars, reviewVars, stackVars>>

Next == Start \/ Loop \/ Observe \/ GitHub \/ Disturb

\* A wait's own steps go on, and its deadline comes: nothing else is promised,
\* neither that GitHub answers nor that anything there ever happens.
Fairness ==
    /\ WF_vars(Loop \/ Observe)
    /\ WF_vars(DeadlinePasses /\ UNCHANGED <<kind, checkVars, workflowVars, reviewVars, stackVars>>)

Spec == Init /\ [][Next]_vars /\ Fairness

-----------------------------------------------------------------------------
\* The verdict on named checks is about the newest suite of every source and
\* nothing else, in whatever order GitHub listed the contexts: a re-run that
\* passed outweighs the failure it replaces, one that is running holds a pass
\* back, and two sources of one name do not replace each other.
VerdictIsCurrent == kind = "checks" => ChecksAreCurrent

\* "satisfied" for all workflows was true at one instant, although no request
\* reads the runs and their jobs together: when the first of the two identical
\* observations was complete, every run of the head was finished and green.
SatisfiedRunsWereGreen == kind = "workflows" => RunsWereGreen

\* The feedback two equal readings report was there at one instant, unless a
\* thread changed away and back while they were made.
ReviewWasTrue == IsReview => CensusWasTrue

\* The review automation is called done only by its latest attempts, in the
\* order things really happened, which the stamps do not always tell.
ReviewIsTerminal == kind = "evidence" => TerminalIsLatest

\* The four reads of a stack are one snapshot of it and its base, unless members
\* came and left while they were made; and what the
\* comparison leaves valid, it leaves valid for a reason: exactly the members
\* below the first invalidated position are where they were with their heads.
StackWasTrue == kind = "stack" => SnapshotWasTrue /\ EvidenceBelowStillHolds

\* Every wait ends: by its deadline at the latest, even if no read ever
\* succeeds and whatever GitHub does meanwhile.
WaitsEnd == Running ~> ~Running
=============================================================================
