--------------------------- MODULE WorkflowCensus ---------------------------
(***************************************************************************)
(* checks-terminal --all-workflows of                                      *)
(* .agents/skills/delivery-wait/scripts/delivery_wait.py: workflow_census  *)
(* reads the pull request's head, the list of workflow runs of that head,  *)
(* and then the latest jobs of each run, one request after another, while  *)
(* jobs finish, jobs and runs are added, and runs are re-run.              *)
(* WorkflowCensusGate calls the runs successful only when two observations *)
(* in a row are identical and all green.                                   *)
(*                                                                         *)
(* A job's later stages appear while its run is in progress; a re-run gives*)
(* the run a new attempt with new jobs.  A list that changes between two   *)
(* of its pages is a transient failure (rest_census), as any request's     *)
(* failure can be.                                                         *)
(***************************************************************************)
EXTENDS TransitionWait, FiniteSets

CONSTANTS
    Run,            \* the workflow runs, in the order of their ids
    Job,            \* the jobs a run can have
    MaxJobs,        \* bound on the jobs of a run
    MaxAttempts     \* bound on the attempts of each run

\* GitHub's ids.
ASSUME IdAssumption == Run \subseteq Nat /\ Job \subseteq Nat \ {0}

VARIABLES
    runs,           \* GitHub: each run's attempt, status and jobs
    headMoved,      \* the pull request has another head
    listed,         \* the observation being read: the runs seen so far
    unread,         \* the listed runs whose jobs are still to be read
    previous,       \* the gate's last all-green observation
    green           \* history: every run was green when that one was complete

workflowVars == <<runs, headMoved, listed, unread, previous, green>>

JobState == {"absent", "running", "success", "failure"}
RunState == {"absent", "in_progress", "success", "failure"}
NoJobs == [j \in Job |-> "absent"]
NoRun == [attempt |-> 0, status |-> "absent", jobs |-> NoJobs]
NoRuns == [r \in Run |-> NoRun]

WorkflowInit ==
    /\ runs = NoRuns
    /\ headMoved = FALSE
    /\ listed = NoRuns
    /\ unread = {}
    /\ previous = NoRuns
    /\ green = FALSE

Present(seenRuns) == {r \in Run : seenRuns[r].attempt > 0}

\* workflow_failures: a run (0) or a job that ended without passing.
Failures(seenRuns) ==
    {f \in Run \X (Job \cup {0}) :
        IF f[2] = 0 THEN seenRuns[f[1]].status = "failure"
        ELSE seenRuns[f[1]].jobs[f[2]] = "failure"}

Pending(seenRuns) ==
    \E r \in Present(seenRuns) :
        \/ seenRuns[r].status = "in_progress"
        \/ \E j \in Job : seenRuns[r].jobs[j] = "running"

AllGreen(seenRuns) ==
    Present(seenRuns) # {} /\ Failures(seenRuns) = {} /\ ~Pending(seenRuns)

\* transition_key.
WorkflowKey(head, failures) == [head |-> head, failures |-> failures]

\* Seeded fault: one green observation is enough.
GreenOnce(seenRuns) ==
    IF Failures(seenRuns) # {} THEN "changed"
    ELSE IF AllGreen(seenRuns) THEN "satisfied"
    ELSE "waiting"

\* WorkflowCensusGate.__call__.
GateVerdict(seenRuns) ==
    IF Failures(seenRuns) # {} THEN "changed"
    ELSE IF AllGreen(seenRuns) /\ seenRuns = previous THEN "satisfied"
    ELSE "waiting"

-----------------------------------------------------------------------------
\* The gate lives as long as the invocation.
StartWorkflowWait(t) ==
    /\ StartWait(t)
    /\ listed' = NoRuns /\ unread' = {} /\ previous' = NoRuns /\ green' = FALSE
    /\ UNCHANGED <<runs, headMoved>>

\* The head, then the list of runs: their status, not yet their jobs.
ReadRuns ==
    /\ step = "observe"
    /\ \/ /\ headMoved
          /\ Observed("invalidated", WorkflowKey(headMoved, {}), FALSE)
          /\ previous' = NoRuns
          /\ green' = FALSE
          /\ UNCHANGED <<listed, unread>>
       \/ /\ ~headMoved
          /\ listed' = [r \in Run |-> [runs[r] EXCEPT !.jobs = NoJobs]]
          /\ unread' = Present(runs)
          /\ step' = "jobs"
          /\ UNCHANGED <<target, prior, checkpoint, seen, late, stopped, result,
                         waits, known, killed, previous, green>>
    /\ UNCHANGED <<runs, headMoved>>

\* The latest jobs of the next listed run, as they are now.
ReadJobs ==
    /\ step = "jobs" /\ unread # {}
    /\ \E r \in unread :
        /\ \A other \in unread : r <= other
        /\ listed' = [listed EXCEPT ![r].jobs = runs[r].jobs]
        /\ unread' = unread \ {r}
    /\ UNCHANGED <<waitVars, runs, headMoved, previous, green>>

\* The complete census is judged; an all-green one is kept for the next round.
JudgeCensus ==
    /\ step = "jobs" /\ unread = {}
    /\ Observed(GateVerdict(listed), WorkflowKey(FALSE, Failures(listed)), green)
    /\ previous' = IF AllGreen(listed) THEN listed ELSE NoRuns
    /\ green' = (AllGreen(listed) /\ AllGreen(runs))
    /\ listed' = NoRuns
    /\ UNCHANGED <<runs, headMoved, unread>>

ReadingWorkflows == step \in {"observe", "jobs"}

CensusFails ==
    /\ ReadingWorkflows
    /\ ObserveFails("timed-out") \/ ObserveRefused
    /\ listed' = NoRuns /\ unread' = {}
    /\ UNCHANGED <<runs, headMoved, previous, green>>

ReadWorkflows == ReadRuns \/ ReadJobs \/ JudgeCensus

-----------------------------------------------------------------------------
\* GitHub.  A run starts, gains jobs while it is in progress, and ends when all
\* of them have.
RunIs(r, run) ==
    /\ runs' = [runs EXCEPT ![r] = run]
    /\ UNCHANGED <<waitVars, headMoved, listed, unread, previous, green>>

NewAttempt(attempt) == [attempt |-> attempt, status |-> "in_progress", jobs |-> NoJobs]

Trigger(r) ==
    /\ runs[r].status = "absent"
    /\ \A other \in Run : other < r => runs[other].status # "absent"
    /\ RunIs(r, NewAttempt(1))

AddJob(r) ==
    /\ runs[r].status = "in_progress"
    /\ \E j \in Job :
        /\ j <= MaxJobs /\ runs[r].jobs[j] = "absent"
        /\ RunIs(r, [runs[r] EXCEPT !.jobs[j] = "running"])

FinishJob(r) ==
    \E j \in Job, conclusion \in {"success", "failure"} :
        /\ runs[r].jobs[j] = "running"
        /\ RunIs(r, [runs[r] EXCEPT !.jobs[j] = conclusion])

CompleteRun(r) ==
    /\ runs[r].status = "in_progress"
    /\ runs[r].jobs # NoJobs
    /\ \A j \in Job : runs[r].jobs[j] # "running"
    /\ RunIs(r, [runs[r] EXCEPT !.status =
            IF \E j \in Job : runs[r].jobs[j] = "failure" THEN "failure" ELSE "success"])

Rerun(r) ==
    /\ runs[r].status \in {"success", "failure"}
    /\ runs[r].attempt < MaxAttempts[r]
    /\ RunIs(r, NewAttempt(runs[r].attempt + 1))

LeaveRunHead ==
    /\ ~headMoved
    /\ headMoved' = TRUE
    /\ UNCHANGED <<waitVars, runs, listed, unread, previous, green>>

GitHubWorkflows ==
    \/ \E r \in Run : Trigger(r) \/ AddJob(r) \/ FinishJob(r) \/ CompleteRun(r) \/ Rerun(r)
    \/ LeaveRunHead

-----------------------------------------------------------------------------
\* A satisfied gate was true at one instant: when the first of the two identical
\* observations was complete, every run the head had was finished and green,
\* although no single observation reads the runs and their jobs at one time.
RunsWereGreen ==
    seen.terminal = "satisfied" => seen.basis
=============================================================================
