------------------------- MODULE DeliveryWaitProofs -------------------------
(***************************************************************************)
(* What the waits promise, for every instance: of the loop, that no change *)
(* goes unreported (Told); and of each observation, that what it accepts   *)
(* was so: the workflow gate (CensusInv), the named checks (ChecksInv),    *)
(* the stack (StackInv), the review wait (ReviewInv).                      *)
(***************************************************************************)
EXTENDS DeliveryWait, FiniteSetTheorems, WellFoundedInduction, TLAPS

\* A behaviour is about one kind of wait.
LEMMA KindStays == [Next]_vars => kind' = kind
  BY DEF Next, vars, Start, Loop, Observe, GitHub, Disturb, OnlyChecks, OnlyWorkflows,
     OnlyReview, OnlyStack

-----------------------------------------------------------------------------
Told ==
    ~killed =>
        /\ step # "decide" => checkpoint.digest = known
        /\ step \notin {"idle", "decide"} => prior = known
        /\ step = "decide" => prior = known /\ checkpoint.digest = seen.key

-----------------------------------------------------------------------------
\* What an observation's reads do to the loop: they go on, or they end in one
\* of the three ways.
Reading ==
    /\ step \notin {"idle", "decide", "write"} /\ step' \notin {"idle", "decide", "write"}
    /\ UNCHANGED <<prior, checkpoint, known, killed>>

Ends ==
    /\ step \notin {"idle", "decide", "write"}
    /\ \/ \E terminal, key, basis : Observed(terminal, key, basis)
       \/ \E state : ObserveFails(state)
       \/ ObserveRefused

LEMMA ObservationIs ==
  ASSUME Observe
  PROVE  Reading \/ Ends
<1>1. CASE ReadContexts
  BY <1>1 DEF ReadContexts, Ends
<1>2. CASE ContextsFail
  BY <1>2 DEF ContextsFail, Ends
<1>3. CASE ReadRuns
  BY <1>3 DEF ReadRuns, Ends, Reading
<1>4. CASE ReadJobs
  BY <1>4 DEF ReadJobs, Reading, waitVars
<1>5. CASE JudgeCensus
  BY <1>5 DEF JudgeCensus, Ends
<1>6. CASE CensusFails
  BY <1>6 DEF CensusFails, ReadingWorkflows, Ends
<1>7. CASE ReadFirstPage \/ ReadNextPage \/ EndFirstReading
  BY <1>7 DEF ReadFirstPage, ReadNextPage, EndFirstReading, Goes, Reading
<1>8. CASE EndSecondReading
  BY <1>8 DEF EndSecondReading, Ends
<1>9. CASE ReviewReadFails
  BY <1>9 DEF ReviewReadFails, ReadingReview, Ends
<1>10. CASE ReadStack \/ ReadBase \/ RereadStack
  BY <1>10 DEF ReadStack, ReadBase, RereadStack, Reads, Reading
<1>11. CASE RereadBase
  BY <1>11 DEF RereadBase, Ends
<1>12. CASE StackReadFails
  BY <1>12 DEF StackReadFails, ReadingStack, Ends
<1>13. QED
  BY <1>1, <1>2, <1>3, <1>4, <1>5, <1>6, <1>7, <1>8, <1>9, <1>10, <1>11, <1>12
  DEF Observe, ReadWorkflows, ReadReview, ReadStackState

\* GitHub changes nothing of a wait.
LEMMA GitHubIsOutside ==
  ASSUME GitHub
  PROVE  UNCHANGED waitVars
<1>1. CASE GitHubChecks
  BY <1>1 DEF GitHubChecks, NewSuite, EndCheck, LoseHead
<1>2. CASE GitHubWorkflows
  BY <1>2 DEF GitHubWorkflows, Trigger, AddJob, FinishJob, CompleteRun, Rerun, RunIs,
     LeaveRunHead
<1>3. CASE GitHubThreads
  BY <1>3 DEF GitHubThreads, OpenThread, DeleteThread, ToggleResolved, Talk, ChangesThread,
     LeaveHead
<1>4. CASE GitHubEvidence
  BY <1>4 DEF GitHubEvidence, StartCheck, EndCheckRun, SubmitReview, EditReview, TimePasses,
     Happens
<1>5. CASE GitHubStack
  BY <1>5 DEF GitHubStack, AdvanceBase, ChangeMember, RemoveMember, AddMember, Moves
<1>6. QED
  BY <1>1, <1>2, <1>3, <1>4, <1>5 DEF GitHub

LEMMA ToldStep == Told /\ [Next]_vars => Told'
<1> SUFFICES ASSUME Told, [Next]_vars
             PROVE  Told'
  OBVIOUS
<1>1. CASE UNCHANGED waitVars
  BY <1>1 DEF Told, waitVars
<1>2. CASE Start
  <2>1. PICK t : StartWait(t)
    BY <1>2 DEF Start, StartChecksWait, StartWorkflowWait, StartReviewWait, StartStackWait
  <2>2. QED
    BY <2>1 DEF StartWait, Running, Told
<1>3. CASE Loop
  <2> USE DEF Told, WriteState, Report, ReportObservation
  <2>1. CASE Cancelled
    BY <2>1 DEF Cancelled
  <2>2. CASE BeginObservation \/ Wake
    BY <2>2 DEF BeginObservation, Wake
  <2>3. CASE WriteObservation
    BY <2>3 DEF WriteObservation
  <2>4. CASE \/ ReportChange(ChangeFirst) \/ ReportTerminal(ChangeFirst)
             \/ ReportDeadline(DeadlineState)
    BY <2>4 DEF ReportChange, ReportTerminal, ReportDeadline
  <2>5. CASE Sleep
    BY <2>5 DEF Sleep, Changed
  <2>6. QED
    BY <1>3, <2>1, <2>2, <2>3, <2>4, <2>5 DEF Loop, LoopStep
<1>4. CASE Observe
  <2>1. CASE Reading
    BY <2>1 DEF Reading, Told
  <2>2. CASE Ends
    BY <2>2 DEF Ends, Observed, ObserveFails, ObserveRefused, WriteState, Report, Told
  <2>3. QED
    BY <1>4, <2>1, <2>2, ObservationIs
<1>5. CASE Disturb
  BY <1>5 DEF Disturb, DeadlinePasses, Interrupt, Kill, Told
<1>6. QED
  BY <1>1, <1>2, <1>3, <1>4, <1>5, GitHubIsOutside DEF Next, vars, waitVars

\* No wait on a checkpoint, whichever kind, loses a change but by a kill
\* between the write and the report (wait_for_transition).
THEOREM ChangesAreReported == Spec => []ChangeReportedUnlessKilled
<1>1. Init => Told
  BY DEF Init, WaitInit, NoCheckpoint, Told
<1>2. Told => ChangeReportedUnlessKilled
  BY DEF Told, ChangeReportedUnlessKilled, Running
<1>3. QED
  BY <1>1, <1>2, ToldStep, PTL DEF Spec

-----------------------------------------------------------------------------
(* The gate of all workflows.  Attempts only grow, and a run that has ended   *)
(* stays as it is in its attempt, so that an observation that was all green   *)
(* and not true when it was complete missed a newer attempt (or a run that is *)
(* new), and the next observation, which begins after it, sees that one.      *)

RunRecord == [attempt : Nat, status : RunState, jobs : [Job -> JobState]]

Dated(run) == run.status = "absent" <=> run.attempt = 0

\* A run of GitHub: what its status says of its jobs.
Sane(run) ==
    /\ Dated(run)
    /\ run.attempt = 0 => \A j \in Job : run.jobs[j] = "absent"
    /\ run.status \in {"success", "failure"} => \A j \in Job : run.jobs[j] # "running"
    /\ run.status = "success" => \A j \in Job : run.jobs[j] # "failure"

\* What was seen of a run, and what it is later.
Before(was, run) ==
    /\ was.attempt <= run.attempt
    /\ was.attempt = run.attempt /\ was.status \in {"success", "failure"} =>
          run.status = was.status

CensusType ==
    /\ runs \in [Run -> RunRecord]
    /\ listed \in [Run -> RunRecord]
    /\ previous \in [Run -> RunRecord]
    /\ green \in BOOLEAN
    /\ unread \subseteq Run
    /\ \A r \in Run : Sane(runs[r]) /\ Dated(listed[r]) /\ Dated(previous[r])

Missed(old, new) == \E r \in Run : new[r].attempt > old[r].attempt

CensusInv ==
    /\ CensusType
    /\ \A r \in Run : Before(previous[r], runs[r])
    /\ ~green /\ previous # NoRuns => Missed(previous, runs)
    /\ step = "jobs" =>
          /\ \A r \in Run : Before(listed[r], runs[r])
          /\ ~green /\ previous # NoRuns => Missed(previous, listed)
    /\ RunsWereGreen

LEMMA NoRunsIs ==
  /\ NoRuns \in [Run -> RunRecord]
  /\ \A r \in Run : Sane(NoRuns[r]) /\ NoRuns[r].attempt = 0
  BY DEF NoRuns, NoRun, NoJobs, RunRecord, RunState, JobState, Sane, Dated

LEMMA NothingIsBefore ==
  ASSUME NEW run \in RunRecord, NEW r \in Run
  PROVE  Before(NoRuns[r], run)
<1>1. NoRuns[r].attempt = 0 /\ NoRuns[r].status = "absent"
  BY DEF NoRuns, NoRun
<1>2. QED
  BY <1>1 DEF Before, RunRecord

\* An observation that is all green is true of the runs as they are, unless one
\* of them has a newer attempt.
LEMMA GreenOrMissed ==
  ASSUME CensusType, AllGreen(listed), \A r \in Run : Before(listed[r], runs[r])
  PROVE  AllGreen(runs) \/ Missed(listed, runs)
<1> SUFFICES ASSUME ~Missed(listed, runs)
             PROVE  AllGreen(runs)
  OBVIOUS
<1>1. \A r \in Run : runs[r] \in RunRecord /\ listed[r] \in RunRecord
  BY DEF CensusType
<1>2. \A r \in Run : runs[r].attempt = listed[r].attempt
  BY <1>1 DEF Missed, Before, RunRecord
<1>3. Present(runs) = Present(listed)
  BY <1>2 DEF Present
<1>4. \A r \in Present(listed) : listed[r].status = "success"
  <2> SUFFICES ASSUME NEW r \in Present(listed)
               PROVE  listed[r].status = "success"
    OBVIOUS
  <2>1. r \in Run /\ listed[r].attempt > 0 /\ listed[r].status \in RunState
    BY <1>1 DEF Present, RunRecord
  <2>2. listed[r].status # "absent"
    BY <1>1, <2>1 DEF CensusType, Dated, RunRecord
  <2>3. listed[r].status # "failure"
    <3>1. <<r, 0>> \in Run \X (Job \cup {0})
      BY <2>1
    <3>2. <<r, 0>> \notin Failures(listed)
      BY DEF AllGreen
    <3>3. QED
      BY <3>1, <3>2 DEF Failures
  <2>4. listed[r].status # "in_progress"
    BY DEF AllGreen, Pending
  <2>5. QED
    BY <2>1, <2>2, <2>3, <2>4 DEF RunState
<1>5. \A r \in Present(runs) : runs[r].status = "success"
  BY <1>2, <1>3, <1>4 DEF Before, Present
<1>6. \A r \in Run : /\ runs[r].status \notin {"failure", "in_progress"}
                     /\ \A j \in Job : runs[r].jobs[j] \notin {"failure", "running"}
  <2> SUFFICES ASSUME NEW r \in Run
               PROVE  /\ runs[r].status \notin {"failure", "in_progress"}
                      /\ \A j \in Job : runs[r].jobs[j] \notin {"failure", "running"}
    OBVIOUS
  <2>1. Sane(runs[r])
    BY DEF CensusType
  <2>2. CASE r \in Present(runs)
    BY <1>5, <2>1, <2>2 DEF Sane
  <2>3. CASE runs[r].attempt = 0
    BY <2>1, <2>3 DEF Sane, Dated
  <2>4. QED
    BY <1>1, <2>2, <2>3 DEF Present, RunRecord
<1>7. Failures(runs) = {}
  BY <1>6, IdAssumption DEF Failures
<1>8. ~Pending(runs)
  BY <1>6 DEF Pending, Present
<1>9. QED
  BY <1>3, <1>7, <1>8 DEF AllGreen

LEMMA OneRunMoves ==
  ASSUME CensusType, NEW r \in Run, NEW run \in RunRecord, RunIs(r, run),
         Sane(run), Before(runs[r], run)
  PROVE  /\ runs' \in [Run -> RunRecord]
         /\ \A q \in Run : Sane(runs'[q]) /\ Before(runs[q], runs'[q])
<1>1. /\ runs' \in [Run -> RunRecord]
      /\ runs'[r] = run /\ \A q \in Run \ {r} : runs'[q] = runs[q]
  BY DEF CensusType, RunIs
<1>2. \A q \in Run : Before(runs[q], runs[q])
  BY DEF CensusType, RunRecord, Before
<1>3. QED
  BY <1>1, <1>2 DEF CensusType

\* Attempts begin, gain and end jobs, and end; nothing else happens to a run.
LEMMA GitHubMovesOn ==
  ASSUME CensusType, GitHubWorkflows
  PROVE  /\ runs' \in [Run -> RunRecord]
         /\ \A q \in Run : Sane(runs'[q]) /\ Before(runs[q], runs'[q])
         /\ UNCHANGED <<waitVars, listed, unread, previous, green>>
<1>0. UNCHANGED <<waitVars, listed, unread, previous, green>>
  BY DEF GitHubWorkflows, Trigger, AddJob, FinishJob, CompleteRun, Rerun, RunIs, LeaveRunHead
<1>1. ASSUME NEW attempt \in Nat \ {0}
      PROVE  NewAttempt(attempt) \in RunRecord /\ Sane(NewAttempt(attempt))
  BY <1>1 DEF NewAttempt, NoJobs, RunRecord, RunState, JobState, Sane, Dated
<1>2. ASSUME NEW r \in Run, Trigger(r) \/ AddJob(r) \/ FinishJob(r) \/ CompleteRun(r) \/ Rerun(r)
      PROVE  \E run \in RunRecord : RunIs(r, run) /\ Sane(run) /\ Before(runs[r], run)
  <2>0. runs[r] \in RunRecord /\ Sane(runs[r])
    BY DEF CensusType
  <2>1. CASE Trigger(r)
    <3>1. Before(runs[r], NewAttempt(1))
      BY <2>0, <2>1 DEF Trigger, RunRecord, Sane, Dated, Before, NewAttempt
    <3>2. QED
      BY <1>1, <2>1, <3>1 DEF Trigger
  <2>2. CASE AddJob(r)
    <3>1. PICK j \in Job : RunIs(r, [runs[r] EXCEPT !.jobs[j] = "running"])
      BY <2>2 DEF AddJob
    <3> DEFINE run == [runs[r] EXCEPT !.jobs[j] = "running"]
    <3>2. run \in RunRecord /\ run.status = runs[r].status /\ run.attempt = runs[r].attempt
      BY <2>0 DEF RunRecord, JobState
    <3>3. runs[r].status = "in_progress"
      BY <2>2 DEF AddJob
    <3> HIDE DEF run
    <3>4. Sane(run) /\ Before(runs[r], run)
      BY <2>0, <3>2, <3>3 DEF Sane, Dated, Before, RunRecord
    <3>5. QED
      BY <3>1, <3>2, <3>4 DEF run
  <2>3. CASE FinishJob(r)
    <3>1. PICK j \in Job, conclusion \in {"success", "failure"} :
             runs[r].jobs[j] = "running" /\ RunIs(r, [runs[r] EXCEPT !.jobs[j] = conclusion])
      BY <2>3 DEF FinishJob
    <3> DEFINE run == [runs[r] EXCEPT !.jobs[j] = conclusion]
    <3>2. run \in RunRecord /\ run.status = runs[r].status /\ run.attempt = runs[r].attempt
      BY <2>0 DEF RunRecord, JobState
    <3>3. runs[r].status = "in_progress"
      BY <2>0, <3>1 DEF Sane, Dated, RunRecord, RunState
    <3> HIDE DEF run
    <3>4. Sane(run) /\ Before(runs[r], run)
      BY <2>0, <3>2, <3>3 DEF Sane, Dated, Before, RunRecord
    <3>5. QED
      BY <3>1, <3>2, <3>4 DEF run
  <2>4. CASE CompleteRun(r)
    <3> DEFINE status == IF \E j \in Job : runs[r].jobs[j] = "failure"
                         THEN "failure" ELSE "success"
               run == [runs[r] EXCEPT !.status = status]
    <3>1. RunIs(r, run) /\ runs[r].status = "in_progress"
      BY <2>4 DEF CompleteRun
    <3>2. \A j \in Job : runs[r].jobs[j] # "running"
      BY <2>4 DEF CompleteRun
    <3>3. /\ status \in {"success", "failure"}
          /\ status = "success" => \A j \in Job : runs[r].jobs[j] # "failure"
      OBVIOUS
    <3> HIDE DEF status
    <3>4. /\ run \in RunRecord /\ run.status = status
          /\ run.attempt = runs[r].attempt /\ run.jobs = runs[r].jobs
      BY <2>0, <3>3 DEF RunRecord, RunState
    <3> HIDE DEF run
    <3>5. Sane(run) /\ Before(runs[r], run)
      BY <2>0, <3>1, <3>2, <3>3, <3>4 DEF Sane, Dated, Before, RunRecord
    <3>6. QED
      BY <3>1, <3>4, <3>5
  <2>5. CASE Rerun(r)
    <3>1. runs[r].attempt + 1 \in Nat \ {0}
      BY <2>0 DEF RunRecord
    <3>2. Before(runs[r], NewAttempt(runs[r].attempt + 1))
      BY <2>0 DEF RunRecord, Before, NewAttempt
    <3>3. QED
      BY <1>1, <2>5, <3>1, <3>2 DEF Rerun
  <2>6. QED
    BY <1>2, <2>1, <2>2, <2>3, <2>4, <2>5
<1>3. CASE LeaveRunHead
  BY <1>3 DEF LeaveRunHead, CensusType, Before, RunRecord
<1>4. QED
  BY <1>0, <1>2, <1>3, OneRunMoves DEF GitHubWorkflows

\* A run of GitHub's that moved on has what was seen before it behind it still.
LEMMA BeforeStays ==
  ASSUME NEW was \in RunRecord, NEW run \in RunRecord, NEW later \in RunRecord,
         Before(was, run), Before(run, later)
  PROVE  Before(was, later)
  BY DEF Before, RunRecord

LEMMA GitHubKeepsCensus ==
  ASSUME CensusInv, GitHubWorkflows
  PROVE  CensusInv'
<1>1. /\ runs' \in [Run -> RunRecord]
      /\ \A q \in Run : Sane(runs'[q]) /\ Before(runs[q], runs'[q])
      /\ UNCHANGED <<waitVars, listed, unread, previous, green>>
  BY GitHubMovesOn DEF CensusInv
<1>2. UNCHANGED <<step, seen>>
  BY <1>1 DEF waitVars
<1>3. \A r \in Run : /\ runs[r] \in RunRecord /\ runs'[r] \in RunRecord
                     /\ listed[r] \in RunRecord /\ previous[r] \in RunRecord
  BY <1>1 DEF CensusInv, CensusType
<1>4. \A r \in Run : Before(previous[r], runs'[r])
  BY <1>1, <1>3, BeforeStays DEF CensusInv
<1>5. step = "jobs" => \A r \in Run : Before(listed[r], runs'[r])
  BY <1>1, <1>3, BeforeStays DEF CensusInv
<1>6. Missed(previous, runs) => Missed(previous, runs')
  <2>1. \A r \in Run : runs[r].attempt <= runs'[r].attempt
    BY <1>1 DEF Before
  <2>2. QED
    BY <1>3, <2>1 DEF Missed, RunRecord
<1>7. CensusType'
  BY <1>1 DEF CensusInv, CensusType
<1>8. QED
  BY <1>1, <1>2, <1>4, <1>5, <1>6, <1>7 DEF CensusInv, RunsWereGreen, Missed, Before

LEMMA ReadRunsKeepsCensus ==
  ASSUME CensusInv, ReadRuns
  PROVE  CensusInv'
<1>1. CASE headMoved
  <2>1. /\ Observed("invalidated", WorkflowKey(headMoved, {}), FALSE)
        /\ previous' = NoRuns /\ green' = FALSE /\ UNCHANGED <<listed, unread, runs>>
    BY <1>1 DEF ReadRuns
  <2>2. step' = "write" /\ seen'.terminal = "invalidated"
    BY <2>1 DEF Observed
  <2>3. CensusType'
    BY <2>1, NoRunsIs DEF CensusInv, CensusType, Sane
  <2>4. \A r \in Run : Before(previous'[r], runs'[r])
    BY <2>1, NothingIsBefore DEF CensusInv, CensusType
  <2>5. QED
    BY <2>1, <2>2, <2>3, <2>4 DEF CensusInv, RunsWereGreen
<1>2. CASE ~headMoved
  <2>1. /\ listed' = [r \in Run |-> [runs[r] EXCEPT !.jobs = NoJobs]]
        /\ unread' = Present(runs) /\ step' = "jobs"
        /\ UNCHANGED <<seen, previous, green, runs>>
    BY <1>2 DEF ReadRuns
  <2>2. \A r \in Run : /\ listed'[r] \in RunRecord
                       /\ listed'[r].attempt = runs[r].attempt
                       /\ listed'[r].status = runs[r].status
    <3>1. NoJobs \in [Job -> JobState]
      BY DEF NoJobs, JobState
    <3>2. QED
      BY <2>1, <3>1 DEF CensusInv, CensusType, RunRecord
  <2>3. listed' \in [Run -> RunRecord]
    BY <2>1, <2>2
  <2>4. CensusType'
    BY <2>1, <2>2, <2>3 DEF CensusInv, CensusType, Sane, Dated, Present
  <2>5. \A r \in Run : Before(listed'[r], runs'[r])
    <3>1. \A r \in Run : runs[r].attempt \in Nat /\ runs'[r] = runs[r]
      BY <2>1 DEF CensusInv, CensusType, RunRecord
    <3>2. QED
      BY <2>2, <3>1 DEF Before
  <2>6. Missed(previous, runs) => Missed(previous, listed')
    BY <2>2 DEF Missed
  <2>7. QED
    BY <2>1, <2>4, <2>5, <2>6 DEF CensusInv, RunsWereGreen
<1>3. QED
  BY <1>1, <1>2

LEMMA ReadJobsKeepsCensus ==
  ASSUME CensusInv, ReadJobs
  PROVE  CensusInv'
<1>1. PICK r \in unread :
         /\ listed' = [listed EXCEPT ![r].jobs = runs[r].jobs]
         /\ unread' = unread \ {r}
  BY DEF ReadJobs
<1>2. UNCHANGED <<step, seen, runs, previous, green>>
  BY DEF ReadJobs, waitVars
<1>3. \A q \in Run : /\ listed'[q] \in RunRecord
                     /\ listed'[q].attempt = listed[q].attempt
                     /\ listed'[q].status = listed[q].status
  BY <1>1 DEF CensusInv, CensusType, RunRecord
<1>4. listed' \in [Run -> RunRecord]
  BY <1>1, <1>3 DEF CensusInv, CensusType
<1>5. CensusType'
  BY <1>1, <1>2, <1>3, <1>4 DEF CensusInv, CensusType, Dated
<1>6. step = "jobs" => \A q \in Run : Before(listed'[q], runs'[q])
  BY <1>2, <1>3 DEF CensusInv, Before
<1>7. Missed(previous, listed) => Missed(previous, listed')
  BY <1>3 DEF Missed
<1>8. QED
  BY <1>2, <1>5, <1>6, <1>7 DEF CensusInv, RunsWereGreen

\* The gate: a second observation that equals a first one finds it was true.
LEMMA JudgeKeepsCensus ==
  ASSUME CensusInv, JudgeCensus
  PROVE  CensusInv'
<1>1. /\ step = "jobs" /\ step' = "write"
      /\ seen'.terminal = GateVerdict(listed) /\ seen'.basis = green
      /\ previous' = IF AllGreen(listed) THEN listed ELSE NoRuns
      /\ green' = (AllGreen(listed) /\ AllGreen(runs))
      /\ listed' = NoRuns /\ UNCHANGED <<runs, unread>>
  BY DEF JudgeCensus, Observed
<1>2. RunsWereGreen'
  <2> SUFFICES ASSUME GateVerdict(listed) = "satisfied", ~green
               PROVE  FALSE
    BY <1>1 DEF RunsWereGreen, CensusInv, CensusType
  <2>1. AllGreen(listed) /\ listed = previous
    BY DEF GateVerdict
  <2>2. listed # NoRuns
    BY <2>1, NoRunsIs DEF AllGreen, Present
  <2>3. PICK r \in Run : listed[r].attempt > previous[r].attempt
    BY <1>1, <2>1, <2>2 DEF CensusInv, Missed
  <2>4. QED
    BY <2>1, <2>3 DEF CensusInv, CensusType, RunRecord
<1>3. CensusType'
  BY <1>1, NoRunsIs DEF CensusInv, CensusType, Sane
<1>4. \A r \in Run : Before(previous'[r], runs'[r])
  BY <1>1, NothingIsBefore DEF CensusInv, CensusType
<1>5. ~green' /\ previous' # NoRuns => Missed(previous', runs')
  BY <1>1, GreenOrMissed DEF CensusInv
<1>6. QED
  BY <1>1, <1>2, <1>3, <1>4, <1>5 DEF CensusInv

\* Whatever else a wait does leaves the census alone, or forgets it.
LEMMA OthersKeepCensus ==
  ASSUME CensusInv, UNCHANGED workflowVars,
         step' # "jobs" \/ step' = step, seen' = seen \/ seen' = NoSeen
  PROVE  CensusInv'
<1>1. CensusType'
  BY DEF CensusInv, CensusType, workflowVars
<1>2. RunsWereGreen'
  BY DEF CensusInv, RunsWereGreen, NoSeen
<1>3. QED
  BY <1>1, <1>2 DEF CensusInv, workflowVars, Missed, Before

LEMMA CensusFailsKeeps ==
  ASSUME CensusInv, CensusFails
  PROVE  CensusInv'
<1>1. /\ step' \in {"idle", "sleep"} /\ (seen' = seen \/ seen' = NoSeen)
      /\ listed' = NoRuns /\ unread' = {} /\ UNCHANGED <<runs, previous, green>>
  BY DEF CensusFails, ObserveFails, ObserveRefused, Report
<1>2. CensusType'
  BY <1>1, NoRunsIs DEF CensusInv, CensusType, Sane
<1>3. RunsWereGreen'
  BY <1>1 DEF CensusInv, RunsWereGreen, NoSeen
<1>4. QED
  BY <1>1, <1>2, <1>3 DEF CensusInv, Missed, Before

LEMMA StartKeepsCensus ==
  ASSUME CensusInv, NEW t, StartWorkflowWait(t)
  PROVE  CensusInv'
<1>1. /\ step' # "jobs" \/ step' = step
      /\ step # "jobs" /\ seen' = seen
      /\ listed' = NoRuns /\ unread' = {} /\ previous' = NoRuns /\ green' = FALSE
      /\ UNCHANGED runs
  BY DEF StartWorkflowWait, StartWait, Running
<1>2. CensusType'
  BY <1>1, NoRunsIs DEF CensusInv, CensusType, Sane
<1>3. \A r \in Run : Before(previous'[r], runs'[r])
  BY <1>1, NothingIsBefore DEF CensusInv, CensusType
<1>4. QED
  BY <1>1, <1>2, <1>3 DEF CensusInv, RunsWereGreen

LEMMA CensusStep ==
  ASSUME kind = "workflows", CensusInv, [Next]_vars
  PROVE  CensusInv'
<1>1. CASE UNCHANGED vars
  BY <1>1, OthersKeepCensus DEF vars, waitVars
<1>2. CASE Start
  BY <1>2, StartKeepsCensus DEF Start, OnlyChecks, OnlyReview, OnlyStack, IsReview
<1>3. CASE Loop
  <2>1. /\ step' # "jobs" /\ (seen' = seen \/ seen' = NoSeen)
        /\ UNCHANGED workflowVars
    BY <1>3 DEF Loop, LoopStep, Cancelled, BeginObservation, WriteObservation, ReportChange,
       ReportTerminal, ReportDeadline, ReportObservation, Sleep, Wake, Report
  <2>2. QED
    BY <2>1, OthersKeepCensus
<1>4. CASE Observe
  <2>1. ReadWorkflows \/ CensusFails
    BY <1>4 DEF Observe, OnlyChecks, OnlyReview, OnlyStack, IsReview
  <2>2. QED
    BY <2>1, ReadRunsKeepsCensus, ReadJobsKeepsCensus, JudgeKeepsCensus, CensusFailsKeeps
    DEF ReadWorkflows
<1>5. CASE GitHub
  BY <1>5, GitHubKeepsCensus DEF GitHub, OnlyChecks, OnlyReview, OnlyStack, IsReview
<1>6. CASE Disturb
  <2>1. /\ step' = step \/ step' = "idle"
        /\ seen' = seen \/ seen' = NoSeen
        /\ UNCHANGED workflowVars
    BY <1>6 DEF Disturb, DeadlinePasses, Interrupt, Kill
  <2>2. QED
    BY <2>1, OthersKeepCensus
<1>7. QED
  BY <1>1, <1>2, <1>3, <1>4, <1>5, <1>6 DEF Next


\* A wait for all workflows reports "satisfied" only of runs that all were
\* finished and green at one instant (workflow_census, WorkflowCensusGate).
THEOREM SatisfiedWasGreen == Spec => []SatisfiedRunsWereGreen
<1> DEFINE I == kind = "workflows" => CensusInv
<1>1. Init => I
  <2> SUFFICES ASSUME Init
               PROVE  CensusInv
    OBVIOUS
  <2>1. /\ runs = NoRuns /\ listed = NoRuns /\ previous = NoRuns
        /\ unread = {} /\ green = FALSE /\ step = "idle" /\ seen = NoSeen
    BY DEF Init, WaitInit, WorkflowInit
  <2>2. CensusType
    BY <2>1, NoRunsIs DEF CensusType, Sane
  <2>3. \A r \in Run : Before(previous[r], runs[r])
    BY <2>1, NothingIsBefore, NoRunsIs
  <2>4. QED
    BY <2>1, <2>2, <2>3 DEF CensusInv, RunsWereGreen, NoSeen
<1>2. I /\ [Next]_vars => I'
  BY CensusStep, KindStays
<1>3. I => SatisfiedRunsWereGreen
  BY DEF CensusInv, SatisfiedRunsWereGreen
<1>4. QED
  BY <1>1, <1>2, <1>3, PTL DEF Spec

-----------------------------------------------------------------------------
(* The named checks.  A pass over any list of the contexts keeps those of the *)
(* newest suite of their key (NewestOf), and the verdict is of them alone.    *)

\* Among natural numbers there is a least.
LEMMA LeastNumber ==
  ASSUME NEW T, T \subseteq Nat, T # {}
  PROVE  \E m \in T : \A k \in T : m <= k
<1> DEFINE R == {ss \in Nat \X Nat : ss[1] < ss[2]}
<1>1. IsWellFoundedOn(R, Nat)
  BY NatLessThanWellFounded DEF OpToRel
<1> HIDE DEF R
<1>2. PICK m \in T : \A k \in T : <<k, m>> \notin R
  BY <1>1, WFMin
<1>3. \A k \in T : ~(k < m)
  BY <1>2 DEF R
<1>4. QED
  BY <1>2, <1>3

\* The pass over a list, up to its n-th context.
IsPass(listing, g, n) ==
    g = [k \in 0..n |-> IF k = 0 THEN {} ELSE KeepNewest(g[k - 1], listing[k])]

LEMMA PassExists ==
  ASSUME NEW listing, NEW n \in Nat
  PROVE  \E g : IsPass(listing, g, n)
<1> DEFINE T == {k \in Nat : ~ \E g : IsPass(listing, g, k)}
<1> SUFFICES ASSUME T # {} PROVE FALSE
  OBVIOUS
<1>1. PICK m \in T : \A k \in T : m <= k
  <2>1. T \subseteq Nat
    OBVIOUS
  <2> HIDE DEF T
  <2>2. QED
    BY <2>1, LeastNumber
<1>2. m # 0
  <2>1. IsPass(listing, [k \in 0..0 |-> {}], 0)
    BY DEF IsPass
  <2>2. QED
    BY <2>1
<1>3. PICK g : IsPass(listing, g, m - 1)
  BY <1>1, <1>2
<1> DEFINE h == [k \in 0..m |-> IF k = m THEN KeepNewest(g[m - 1], listing[m]) ELSE g[k]]
<1>4. \A k \in 0..(m - 1) : h[k] = g[k]
  BY <1>2
<1>5. \A k \in 0..(m - 1) : g[k] = IF k = 0 THEN {} ELSE KeepNewest(g[k - 1], listing[k])
  BY <1>3 DEF IsPass
<1>6. \A k \in 0..m : h[k] = IF k = 0 THEN {} ELSE KeepNewest(h[k - 1], listing[k])
  <2> TAKE k \in 0..m
  <2>1. CASE k = m
    <3>1. h[k] = KeepNewest(g[m - 1], listing[m]) /\ h[m - 1] = g[m - 1]
      BY <1>2, <2>1
    <3>2. QED
      BY <1>2, <2>1, <3>1
  <2>2. CASE k # m
    <3>1. k \in 0..(m - 1) /\ (k # 0 => k - 1 \in 0..(m - 1))
      BY <2>2
    <3> HIDE DEF h
    <3>2. QED
      BY <1>4, <1>5, <3>1
  <2>3. QED
    BY <2>1, <2>2
<1>7. h = [k \in 0..m |-> h[k]]
  OBVIOUS
<1>8. IsPass(listing, h, m)
  <2> HIDE DEF h
  <2>1. QED
    BY <1>6, <1>7 DEF IsPass
<1>9. QED
  BY <1>1, <1>8

LEMMA ChecksByNameIs ==
  ASSUME NEW listing, Len(listing) \in Nat
  PROVE  \E g : IsPass(listing, g, Len(listing)) /\ ChecksByName(listing) = g[Len(listing)]
<1> DEFINE n == Len(listing)
           f == CHOOSE g : g = [k \in 0..n |-> IF k = 0 THEN {} ELSE KeepNewest(g[k - 1], listing[k])]
<1>1. f = [k \in 0..n |-> IF k = 0 THEN {} ELSE KeepNewest(f[k - 1], listing[k])]
  BY PassExists DEF IsPass
<1>2. ChecksByName(listing) = f[n]
  BY DEF ChecksByName
<1>3. QED
  BY <1>1, <1>2 DEF IsPass

CheckContext == [name : CheckName, source : Source, suite : Nat,
                 state : {"QUEUED", "SUCCESS", "FAILURE"}]

\* Of all contexts, the kept ones are those of the newest suite of their key.
NewestOf(kept, all) ==
    /\ kept \subseteq all
    /\ \A x \in all : \E d \in kept : SameKey(x, d) /\ x.suite <= d.suite
    /\ \A c, d \in kept : SameKey(c, d) => c.suite = d.suite
    /\ \A x \in all, d \in kept : SameKey(x, d) /\ x.suite = d.suite => x \in kept

LEMMA KeepNewestKeeps ==
  ASSUME NEW all \in SUBSET CheckContext, NEW kept, NewestOf(kept, all), NEW c \in CheckContext
  PROVE  NewestOf(KeepNewest(kept, c), all \cup {c})
<1> DEFINE rivals == {d \in kept : SameKey(c, d)}
           next == KeepNewest(kept, c)
<1>1. /\ \A d \in kept : d \in CheckContext /\ d.suite \in Nat
      /\ \A d \in all : d \in CheckContext /\ d.suite \in Nat
      /\ c.suite \in Nat
  BY DEF NewestOf, CheckContext
<1>2. \A x, y, z : /\ SameKey(x, x)
                   /\ SameKey(x, y) => SameKey(y, x)
                   /\ SameKey(x, y) /\ SameKey(y, z) => SameKey(x, z)
  BY DEF SameKey
<1>3. \A d, e \in rivals : d.suite = e.suite
  BY <1>2 DEF NewestOf
<1>4. \A x \in all : SameKey(x, c) => \E d \in rivals : x.suite <= d.suite /\ SameKey(x, d)
  BY <1>2 DEF NewestOf
<1>5. CASE \A d \in rivals : c.suite > d.suite
  <2>1. next = (kept \ rivals) \cup {c}
    BY <1>5 DEF KeepNewest
  <2>2. \A x \in all : SameKey(x, c) => x.suite < c.suite
    BY <1>1, <1>4, <1>5
  <2>3. next \subseteq all \cup {c}
    BY <2>1 DEF NewestOf
  <2>4. ASSUME NEW x \in all \cup {c} PROVE \E d \in next : SameKey(x, d) /\ x.suite <= d.suite
    <3>1. CASE SameKey(x, c)
      BY <1>1, <1>2, <2>1, <2>2, <3>1
    <3>2. CASE ~SameKey(x, c)
      <4>1. x \in all
        BY <1>2, <2>4, <3>2
      <4>2. PICK d \in kept : SameKey(x, d) /\ x.suite <= d.suite
        BY <4>1 DEF NewestOf
      <4>3. d \notin rivals
        BY <1>2, <3>2, <4>2
      <4>4. QED
        BY <2>1, <4>2, <4>3
    <3>3. QED
      BY <3>1, <3>2
  <2>5. \A d \in next : SameKey(c, d) => d = c
    BY <2>1
  <2>6. \A d, e \in next : SameKey(d, e) => d.suite = e.suite
    BY <1>2, <2>1, <2>5 DEF NewestOf
  <2>7. ASSUME NEW x \in all \cup {c}, NEW d \in next, SameKey(x, d), x.suite = d.suite
        PROVE  x \in next
    <3>1. CASE d = c
      BY <1>1, <2>1, <2>2, <2>7, <3>1
    <3>2. CASE d # c /\ x # c
      <4>1. d \in kept /\ x \in all /\ ~SameKey(c, d)
        BY <2>1, <2>5, <2>7, <3>2
      <4>2. x \in kept /\ ~SameKey(c, x)
        BY <1>2, <2>7, <4>1 DEF NewestOf
      <4>3. QED
        BY <2>1, <4>2
    <3>3. QED
      BY <2>1, <3>1, <3>2
  <2>8. QED
    BY <2>3, <2>4, <2>6, <2>7 DEF NewestOf
<1>6. CASE /\ ~ \A d \in rivals : c.suite > d.suite
           /\ \A d \in rivals : c.suite = d.suite
  <2>1. next = kept \cup {c}
    BY <1>6 DEF KeepNewest
  <2>2. next \subseteq all \cup {c}
    BY <2>1 DEF NewestOf
  <2>3. \A x \in all \cup {c} : \E d \in next : SameKey(x, d) /\ x.suite <= d.suite
    BY <1>1, <1>2, <2>1 DEF NewestOf
  <2>4. \A d, e \in next : SameKey(d, e) => d.suite = e.suite
    BY <1>2, <1>6, <2>1 DEF NewestOf
  <2>5. PICK r \in rivals : r.suite = c.suite /\ SameKey(r, c)
    BY <1>2, <1>6
  <2>6. ASSUME NEW x \in all \cup {c}, NEW d \in next, SameKey(x, d), x.suite = d.suite
        PROVE  x \in next
    <3>1. CASE d = c
      <4>1. SameKey(x, r) /\ x.suite = r.suite /\ r \in kept
        BY <1>2, <2>5, <2>6, <3>1
      <4>2. QED
        BY <2>1, <2>6, <4>1 DEF NewestOf
    <3>2. CASE d # c
      BY <2>1, <2>6, <3>2 DEF NewestOf
    <3>3. QED
      BY <3>1, <3>2
  <2>7. QED
    BY <2>2, <2>3, <2>4, <2>6 DEF NewestOf
<1>7. CASE /\ ~ \A d \in rivals : c.suite > d.suite
           /\ ~ \A d \in rivals : c.suite = d.suite
  <2>1. next = kept
    BY <1>7 DEF KeepNewest
  <2>2. PICK r \in rivals : r.suite >= c.suite
    BY <1>1, <1>7
  <2>3. r.suite > c.suite /\ r \in kept /\ SameKey(c, r)
    BY <1>1, <1>3, <1>7, <2>2
  <2>4. \A x \in all \cup {c} : \E d \in next : SameKey(x, d) /\ x.suite <= d.suite
    BY <1>1, <2>1, <2>3 DEF NewestOf
  <2>5. \A d \in kept : SameKey(c, d) => c.suite # d.suite
    BY <1>1, <1>3, <2>3
  <2>6. \A x \in all \cup {c}, d \in next : SameKey(x, d) /\ x.suite = d.suite => x \in next
    BY <2>1, <2>5 DEF NewestOf
  <2>7. QED
    BY <2>1, <2>4, <2>6 DEF NewestOf
<1>8. QED
  BY <1>5, <1>6, <1>7

FirstOf(listing, k) == {listing[i] : i \in 1..k}

LEMMA PassKeepsNewest ==
  ASSUME NEW listing \in Seq(CheckContext), NEW g, IsPass(listing, g, Len(listing))
  PROVE  NewestOf(g[Len(listing)], ToSet(listing))
<1> DEFINE n == Len(listing)
           T == {k \in 0..n : ~NewestOf(g[k], FirstOf(listing, k))}
<1>1. n \in Nat /\ \A i \in 1..n : listing[i] \in CheckContext
  OBVIOUS
<1>2. NewestOf(g[n], FirstOf(listing, n))
  <2> SUFFICES ASSUME T # {} PROVE FALSE
    BY <1>1
  <2>1. T \subseteq Nat
    BY <1>1
  <2>2. PICK m \in T : \A k \in T : m <= k
    <3> HIDE DEF T
    <3>1. QED
      BY <2>1, LeastNumber
  <2>3. m \in 0..n /\ ~NewestOf(g[m], FirstOf(listing, m))
    BY <2>2
  <2>4. g[m] = IF m = 0 THEN {} ELSE KeepNewest(g[m - 1], listing[m])
    BY <2>3 DEF IsPass
  <2>5. m # 0
    <3> SUFFICES ASSUME m = 0 PROVE FALSE
      OBVIOUS
    <3>1. g[m] = {} /\ FirstOf(listing, m) = {}
      BY <2>4 DEF FirstOf
    <3>2. QED
      BY <2>3, <3>1 DEF NewestOf
  <2>6. m - 1 \in 0..n /\ m \in 1..n
    <3>1. m \in 0..n /\ n \in Nat /\ m # 0
      BY <1>1, <2>3, <2>5
    <3> HIDE DEF T, n
    <3>2. QED
      BY <3>1
  <2>7. NewestOf(g[m - 1], FirstOf(listing, m - 1))
    BY <2>2, <2>6
  <2>8. FirstOf(listing, m) = FirstOf(listing, m - 1) \cup {listing[m]}
    BY <1>1, <2>6 DEF FirstOf
  <2>9. FirstOf(listing, m - 1) \in SUBSET CheckContext /\ listing[m] \in CheckContext
    BY <1>1, <2>6 DEF FirstOf
  <2>10. NewestOf(KeepNewest(g[m - 1], listing[m]), FirstOf(listing, m - 1) \cup {listing[m]})
    BY <2>7, <2>9, KeepNewestKeeps
  <2>11. QED
    BY <2>3, <2>4, <2>5, <2>8, <2>10
<1>3. ToSet(listing) = FirstOf(listing, n)
  <2>1. DOMAIN listing = 1..n
    OBVIOUS
  <2> HIDE DEF n, T
  <2>2. QED
    BY <2>1 DEF ToSet, FirstOf
<1>4. QED
  BY <1>1, <1>2, <1>3

\* A listing of all contexts, in whatever order.
LEMMA ListingIs ==
  ASSUME NEW S, IsFiniteSet(S), NEW listing \in SetToAllKPermutations(S),
         Len(listing) = Cardinality(S)
  PROVE  listing \in Seq(S) /\ ToSet(listing) = S
<1>1. PICK s \in SUBSET S : listing \in SetToSeqs(s)
  BY DEF SetToAllKPermutations
<1>2. IsFiniteSet(s) /\ Cardinality(s) \in Nat /\ (Cardinality(S) = Cardinality(s) => S = s)
  BY FS_Subset, FS_CardinalityType
<1> DEFINE n == Cardinality(s)
<1>3. listing \in [1..n -> s] /\ \A i, j \in 1..n : i # j => listing[i] # listing[j]
  BY <1>1 DEF SetToSeqs
<1> HIDE DEF n
<1>4. Len(listing) = n
  BY <1>2, <1>3 DEF n
<1>5. S = s
  BY <1>2, <1>4 DEF n
<1>6. listing \in Injection(1..n, S)
  BY <1>3, <1>5 DEF Injection, IsInjective
<1>7. Cardinality(1..n) = n
  BY <1>2, FS_Interval DEF n
<1>8. listing \in Surjection(1..n, S)
  BY <1>5, <1>6, <1>7, FS_Injection DEF n
<1>9. listing \in Seq(S) /\ DOMAIN listing = 1..n
  BY <1>2, <1>3, <1>5 DEF n
<1>10. QED
  BY <1>8, <1>9 DEF ToSet, Surjection

\* checks_by_name keeps the newest suites, however the contexts were listed.
LEMMA ChecksByNameKeepsNewest ==
  ASSUME NEW all \in SUBSET CheckContext, IsFiniteSet(all),
         NEW listing \in SetToAllKPermutations(all), Len(listing) = Cardinality(all)
  PROVE  NewestOf(ChecksByName(listing), all)
<1>1. listing \in Seq(CheckContext) /\ ToSet(listing) = all
  BY ListingIs
<1>2. Len(listing) \in Nat
  BY <1>1
<1>3. PICK g : IsPass(listing, g, Len(listing)) /\ ChecksByName(listing) = g[Len(listing)]
  BY <1>2, ChecksByNameIs
<1>4. QED
  BY <1>1, <1>3, PassKeepsNewest

\* The verdict, once the newest suites are known.
LEMMA VerdictIsOfTheNewest ==
  ASSUME NEW all \in SUBSET CheckContext, NEW kept, NewestOf(kept, all)
  PROVE  /\ ClassifyChecks(kept) = "changed" =>
              \E c \in Current(all) : c.state = "FAILURE"
         /\ ClassifyChecks(kept) = "satisfied" =>
              /\ \A n \in ExpectedCheck : \E c \in Current(all) : c.name = n
              /\ \A c \in Current(all) : c.state = "SUCCESS"
<1>1. \A c \in all : c \in CheckContext /\ c.suite \in Nat
                     /\ c.state \in {"QUEUED", "SUCCESS", "FAILURE"}
  BY DEF CheckContext
<1>2. \A x, y, z : /\ SameKey(x, x)
                   /\ SameKey(x, y) => SameKey(y, x) /\ x.name = y.name
                   /\ SameKey(x, y) /\ SameKey(y, z) => SameKey(x, z)
  BY DEF SameKey
<1>3. ASSUME NEW c \in kept, NEW d \in all, SameKey(c, d)
      PROVE  d.suite <= c.suite
  <2>1. PICK e \in kept : SameKey(d, e) /\ d.suite <= e.suite
    BY DEF NewestOf
  <2>2. SameKey(c, e)
    BY <1>2, <1>3, <2>1
  <2>3. e.suite = c.suite
    BY <2>1, <2>2 DEF NewestOf
  <2>4. QED
    BY <2>1, <2>3
<1>4. \A c \in kept : c.name \in ExpectedCheck => c \in Current(all)
  BY <1>3 DEF Current, NewestOf
<1>5. ASSUME NEW c \in Current(all)
      PROVE  c \in kept /\ c.name \in ExpectedCheck
  <2>1. c \in all /\ c.name \in ExpectedCheck /\ \A d \in all : SameKey(c, d) => d.suite <= c.suite
    BY DEF Current
  <2>2. PICK e \in kept : SameKey(c, e) /\ c.suite <= e.suite
    BY <2>1 DEF NewestOf
  <2>3. e \in all
    BY DEF NewestOf
  <2>4. c.suite = e.suite
    BY <1>1, <2>1, <2>2, <2>3
  <2>5. QED
    BY <2>1, <2>2, <2>4 DEF NewestOf
<1>6. ASSUME ClassifyChecks(kept) = "changed"
      PROVE  \E c \in Current(all) : c.state = "FAILURE"
  <2>1. FailedChecks(kept) # {}
    BY <1>6 DEF ClassifyChecks
  <2>2. PICK c \in kept : c.name \in ExpectedCheck /\ c.state = "FAILURE"
    BY <2>1 DEF FailedChecks
  <2>3. QED
    BY <1>4, <2>2
<1>7. ASSUME ClassifyChecks(kept) = "satisfied"
      PROVE  /\ \A n \in ExpectedCheck : \E c \in Current(all) : c.name = n
             /\ \A c \in Current(all) : c.state = "SUCCESS"
  <2>1. /\ FailedChecks(kept) = {}
        /\ \A n \in ExpectedCheck : /\ \E c \in kept : c.name = n
                                    /\ \A c \in kept : c.name = n => c.state # "QUEUED"
    BY <1>7 DEF ClassifyChecks
  <2>2. \A n \in ExpectedCheck : \E c \in Current(all) : c.name = n
    BY <1>4, <2>1
  <2>3. \A c \in kept : c.name \in ExpectedCheck => c.state \notin {"FAILURE", "QUEUED"}
    BY <2>1 DEF FailedChecks
  <2>4. \A c \in Current(all) : c.state = "SUCCESS"
    BY <1>1, <1>5, <2>3 DEF Current
  <2>5. QED
    BY <2>2, <2>4
<1>8. QED
  BY <1>6, <1>7

ChecksInv ==
    /\ contexts \subseteq CheckContext
    /\ IsFiniteSet(contexts)
    /\ suites \in Nat
    /\ ChecksAreCurrent

LEMMA ReadContextsKeepsChecks ==
  ASSUME ChecksInv, ReadContexts
  PROVE  ChecksInv'
<1>1. PICK listing \in SetToAllKPermutations(contexts) :
        /\ Len(listing) = Cardinality(contexts)
        /\ LET observed == ChecksByName(listing)
               verdict == IF headGone THEN "invalidated" ELSE ClassifyChecks(observed)
           IN  Observed(verdict, ChecksKey(headGone, verdict, observed), contexts)
  BY DEF ReadContexts
<1>2. PICK observed : observed = ChecksByName(listing)
  OBVIOUS
<1>3. NewestOf(observed, contexts)
  BY <1>1, <1>2, ChecksByNameKeepsNewest DEF ChecksInv
<1>4. /\ seen'.terminal = IF headGone THEN "invalidated" ELSE ClassifyChecks(observed)
      /\ seen'.basis = contexts
  BY <1>1, <1>2 DEF Observed
<1>5. ChecksAreCurrent'
  BY <1>3, <1>4, VerdictIsOfTheNewest DEF ChecksInv, ChecksAreCurrent
<1>6. QED
  BY <1>5 DEF ReadContexts, ChecksInv, checkVars

LEMMA GitHubKeepsChecks ==
  ASSUME ChecksInv, GitHubChecks
  PROVE  ChecksInv'
<1>1. seen' = seen
  BY DEF GitHubChecks, NewSuite, EndCheck, LoseHead, waitVars
<1>2. CASE NewSuite
  <2>1. PICK source \in Source, names \in SUBSET CheckName \ {{}} :
          contexts' = contexts \cup
            {[name |-> n, source |-> source, suite |-> suites', state |-> "QUEUED"] : n \in names}
    BY <1>2 DEF NewSuite
  <2>2. suites' \in Nat
    BY <1>2 DEF NewSuite, ChecksInv
  <2> DEFINE Of(n) == [name |-> n, source |-> source, suite |-> suites', state |-> "QUEUED"]
             new == {Of(n) : n \in names}
             f == [n \in names |-> Of(n)]
  <2>3. IsFiniteSet(new)
    <3>1. f \in Surjection(names, new)
      BY DEF Surjection
    <3>2. IsFiniteSet(names)
      BY NameAssumption, FS_Subset
    <3> HIDE DEF new, f
    <3>3. QED
      BY <3>1, <3>2, FS_Surjection
  <2>4. new \subseteq CheckContext
    BY <2>2 DEF CheckContext
  <2>5. contexts' = contexts \cup new
    BY <2>1
  <2> HIDE DEF new
  <2>6. contexts' \subseteq CheckContext /\ IsFiniteSet(contexts')
    BY <2>3, <2>4, <2>5, FS_Union DEF ChecksInv
  <2>7. QED
    BY <1>1, <2>2, <2>6 DEF ChecksInv, ChecksAreCurrent
<1>3. CASE EndCheck
  <2>1. PICK c \in contexts, state \in {"SUCCESS", "FAILURE"} :
          contexts' = (contexts \ {c}) \cup {[c EXCEPT !.state = state]}
    BY <1>3 DEF EndCheck
  <2>2. contexts' \subseteq CheckContext
    BY <2>1 DEF ChecksInv, CheckContext
  <2>3. IsFiniteSet(contexts \ {c})
    BY FS_RemoveElement DEF ChecksInv
  <2>4. IsFiniteSet(contexts')
    BY <2>1, <2>3, FS_AddElement
  <2>5. QED
    BY <1>1, <1>3, <2>2, <2>4 DEF EndCheck, ChecksInv, ChecksAreCurrent
<1>4. CASE LoseHead
  BY <1>1, <1>4 DEF LoseHead, ChecksInv, ChecksAreCurrent
<1>5. QED
  BY <1>2, <1>3, <1>4 DEF GitHubChecks

LEMMA OthersKeepChecks ==
  ASSUME ChecksInv, UNCHANGED checkVars, seen' = seen \/ seen' = NoSeen
  PROVE  ChecksInv'
  BY DEF ChecksInv, checkVars, ChecksAreCurrent, NoSeen

LEMMA ChecksStep ==
  ASSUME kind = "checks", ChecksInv, [Next]_vars
  PROVE  ChecksInv'
<1>1. CASE UNCHANGED vars
  BY <1>1, OthersKeepChecks DEF vars, waitVars
<1>2. CASE Start
  <2>1. UNCHANGED checkVars /\ seen' = seen
    BY <1>2 DEF Start, OnlyWorkflows, OnlyReview, OnlyStack, IsReview, StartChecksWait, StartWait
  <2>2. QED
    BY <2>1, OthersKeepChecks
<1>3. CASE Loop
  <2>1. (seen' = seen \/ seen' = NoSeen) /\ UNCHANGED checkVars
    BY <1>3 DEF Loop, LoopStep, Cancelled, BeginObservation, WriteObservation, ReportChange,
       ReportTerminal, ReportDeadline, ReportObservation, Sleep, Wake, Report
  <2>2. QED
    BY <2>1, OthersKeepChecks
<1>4. CASE Observe
  <2>1. ReadContexts \/ ContextsFail
    BY <1>4 DEF Observe, OnlyWorkflows, OnlyReview, OnlyStack, IsReview
  <2>2. CASE ContextsFail
    <3>1. (seen' = seen \/ seen' = NoSeen) /\ UNCHANGED checkVars
      BY <2>2 DEF ContextsFail, ObserveFails, ObserveRefused, Report
    <3>2. QED
      BY <3>1, OthersKeepChecks
  <2>3. QED
    BY <2>1, <2>2, ReadContextsKeepsChecks
<1>5. CASE GitHub
  BY <1>5, GitHubKeepsChecks DEF GitHub, OnlyWorkflows, OnlyReview, OnlyStack, IsReview
<1>6. CASE Disturb
  <2>1. (seen' = seen \/ seen' = NoSeen) /\ UNCHANGED checkVars
    BY <1>6 DEF Disturb, DeadlinePasses, Interrupt, Kill
  <2>2. QED
    BY <2>1, OthersKeepChecks
<1>7. QED
  BY <1>1, <1>2, <1>3, <1>4, <1>5, <1>6 DEF Next

\* The verdict on named checks is about the newest suite of every source, in
\* whatever order GitHub lists any number of contexts (checks_by_name,
\* classify_pr).
THEOREM VerdictsAreCurrent == Spec => []VerdictIsCurrent
<1> DEFINE I == kind = "checks" => ChecksInv
<1>1. Init => I
  <2> SUFFICES ASSUME Init
               PROVE  ChecksInv
    OBVIOUS
  <2>1. contexts = {} /\ suites = 0 /\ seen = NoSeen
    BY DEF Init, WaitInit, CheckInit
  <2>2. QED
    BY <2>1, FS_EmptySet DEF ChecksInv, ChecksAreCurrent, NoSeen
<1>2. I /\ [Next]_vars => I'
  BY ChecksStep, KindStays
<1>3. I => VerdictIsCurrent
  BY DEF ChecksInv, VerdictIsCurrent
<1>4. QED
  BY <1>1, <1>2, <1>3, PTL DEF Spec

-----------------------------------------------------------------------------
(* The stack.  While no member comes or leaves, heads and marks only grow     *)
(* (Later), so that the first read of the stack, what it was when the base    *)
(* was read, and the second read are in order, and equal ends pin the middle. *)
(* A single coming or leaving changes the length.                             *)

MemberRecord == [pr : PullRequest, head : Nat, touched : BOOLEAN]
Members == Seq(MemberRecord)
Snapshot == [base : Nat, members : Members]

Grown(was, is) ==
    /\ was.pr = is.pr
    /\ was.head <= is.head
    /\ was.touched => is.touched

Later(old, new) ==
    /\ Len(old) = Len(new)
    /\ \A i \in 1..Len(old) : Grown(old[i], new[i])

StackType ==
    /\ stack \in Members /\ firstStack \in Members /\ nextStack \in Members
    /\ base \in Nat /\ comings \in Nat
    /\ stackInstant \in Snapshot

\* What the reads so far say, by how many members came or left since the first.
ReadsAre ==
    /\ step = "base" =>
          /\ comings = 0 => Later(firstStack, stack)
          /\ comings = 1 => Len(firstStack) # Len(stack)
    /\ step = "stack again" =>
          /\ firstBase = stackInstant.base
          /\ comings = 0 => Later(firstStack, stackInstant.members)
                            /\ Later(stackInstant.members, stack)
          /\ comings = 1 => Len(firstStack) # Len(stack)
    /\ step = "base again" =>
          /\ firstBase = stackInstant.base
          /\ comings <= 1 =>
                \/ Later(firstStack, stackInstant.members)
                   /\ Later(stackInstant.members, nextStack)
                \/ Len(firstStack) # Len(nextStack)

SeenIs == seen # NoSeen => seen.key \in Snapshot

StackInv == kind = "stack" => StackType /\ ReadsAre /\ SeenIs /\ SnapshotWasTrue

-----------------------------------------------------------------------------
LEMMA GrownIsAnOrder ==
  ASSUME NEW a \in MemberRecord
  PROVE  /\ Grown(a, a)
         /\ \A b, c \in MemberRecord : Grown(a, b) /\ Grown(b, c) => Grown(a, c)
<1>1. Grown(a, a)
  BY DEF Grown, MemberRecord
<1>2. ASSUME NEW b \in MemberRecord, NEW c \in MemberRecord, Grown(a, b), Grown(b, c)
      PROVE  Grown(a, c)
  <2>1. a.touched => c.touched
    BY <1>2, Zenon DEF Grown
  <2>2. a.pr = c.pr /\ a.head <= c.head
    BY <1>2 DEF Grown, MemberRecord
  <2>3. QED
    BY <2>1, <2>2 DEF Grown
<1>3. QED
  BY <1>1, <1>2

LEMMA LaterSelf == \A s \in Members : Later(s, s)
<1>1. ASSUME NEW s \in Members, NEW i \in 1..Len(s) PROVE s[i] \in MemberRecord
  BY DEF Members
<1>2. QED
  BY <1>1, GrownIsAnOrder DEF Later

LEMMA LaterTwice ==
  ASSUME NEW a \in Members, NEW b \in Members, NEW c \in Members, Later(a, b), Later(b, c)
  PROVE  Later(a, c)
<1>1. Len(a) = Len(b) /\ Len(b) = Len(c)
  BY DEF Later
<1>2. ASSUME NEW i \in 1..Len(a) PROVE Grown(a[i], c[i])
  <2>1. a[i] \in MemberRecord /\ b[i] \in MemberRecord /\ c[i] \in MemberRecord
    BY <1>1 DEF Members
  <2>2. Grown(a[i], b[i]) /\ Grown(b[i], c[i])
    BY <1>1 DEF Later
  <2>3. QED
    BY <2>1, <2>2, GrownIsAnOrder
<1>3. QED
  BY <1>1, <1>2 DEF Later

\* What lies between two equal stacks is equal to them.
LEMMA LaterBetween ==
  ASSUME NEW a \in Members, NEW b \in Members, Later(a, b), Later(b, a)
  PROVE  a = b
<1>1. Len(a) = Len(b) /\ Len(a) \in Nat
  BY DEF Later, Members
<1>2. ASSUME NEW i \in 1..Len(a) PROVE a[i] = b[i]
  <2>1. a[i] \in MemberRecord /\ b[i] \in MemberRecord
    BY <1>1 DEF Members
  <2>2. Grown(a[i], b[i]) /\ Grown(b[i], a[i])
    BY <1>1 DEF Later
  <2>3. a[i].pr = b[i].pr /\ a[i].head = b[i].head /\ a[i].touched = b[i].touched
    BY <2>1, <2>2 DEF Grown, MemberRecord
  <2>4. QED
    BY <2>1, <2>3 DEF MemberRecord
<1>3. QED
  BY <1>1, <1>2 DEF Members

LEMMA MembersJoined ==
  ASSUME NEW s \in Members, NEW t \in Members
  PROVE  s \o t \in Members /\ Len(s \o t) = Len(s) + Len(t)
  BY DEF Members

LEMMA MemberRemoved ==
  ASSUME NEW s \in Members, NEW i \in DOMAIN s
  PROVE  RemoveAt(s, i) \in Members /\ Len(RemoveAt(s, i)) = Len(s) - 1
<1>1. i \in 1..Len(s) /\ Len(s) \in Nat
  BY DEF Members
<1>2. SubSeq(s, 1, i - 1) \in Members /\ Len(SubSeq(s, 1, i - 1)) = i - 1
  BY <1>1 DEF Members
<1>3. SubSeq(s, i + 1, Len(s)) \in Members /\ Len(SubSeq(s, i + 1, Len(s))) = Len(s) - i
  BY <1>1 DEF Members
<1>4. QED
  BY <1>1, <1>2, <1>3, MembersJoined DEF RemoveAt

LEMMA InsertedIs ==
  ASSUME NEW s \in Members, NEW i \in 1..(Len(s) + 1), NEW m \in MemberRecord
  PROVE  InsertAt(s, i, m) \in Members /\ Len(InsertAt(s, i, m)) = Len(s) + 1
<1>1. Len(s) \in Nat /\ i \in Nat
  BY DEF Members
<1>2. SubSeq(s, 1, i - 1) \in Members /\ Len(SubSeq(s, 1, i - 1)) = i - 1
  BY <1>1 DEF Members
<1>3. SubSeq(s, i, Len(s)) \in Members /\ Len(SubSeq(s, i, Len(s))) = Len(s) - i + 1
  BY <1>1 DEF Members
<1>4. <<m>> \in Members /\ Len(<<m>>) = 1
  BY DEF Members
<1>5. SubSeq(s, 1, i - 1) \o <<m>> \in Members /\ Len(SubSeq(s, 1, i - 1) \o <<m>>) = i
  BY <1>1, <1>2, <1>4, MembersJoined
<1> DEFINE front == SubSeq(s, 1, i - 1) \o <<m>>
           back == SubSeq(s, i, Len(s))
<1>6. front \in Members /\ Len(front) = i /\ back \in Members /\ Len(back) = Len(s) - i + 1
  BY <1>3, <1>5
<1>7. InsertAt(s, i, m) = front \o back
  BY DEF InsertAt
<1> HIDE DEF front, back
<1>8. front \o back \in Members /\ Len(front \o back) = Len(front) + Len(back)
  BY <1>6, MembersJoined
<1>9. QED
  BY <1>1, <1>6, <1>7, <1>8

-----------------------------------------------------------------------------
\* What GitHub does to a stack: it grows in place, or one member comes or leaves.
LEMMA GitHubMoves ==
  ASSUME StackType, GitHubStack
  PROVE  /\ stack' \in Members /\ base' \in Nat /\ comings' \in Nat
         /\ UNCHANGED <<waitVars, firstStack, firstBase, nextStack, stackInstant>>
         /\ \/ Later(stack, stack') /\ comings' = comings
            \/ Len(stack') # Len(stack) /\ (ReadingStack => comings' = comings + 1)
<1>0. UNCHANGED <<waitVars, firstStack, firstBase, nextStack, stackInstant>>
  BY DEF GitHubStack, AdvanceBase, ChangeMember, RemoveMember, AddMember, Moves
<1>1. stack \in Members /\ base \in Nat /\ comings \in Nat
  BY DEF StackType
<1>2. CASE AdvanceBase
  BY <1>0, <1>1, <1>2, LaterSelf DEF AdvanceBase
<1>3. CASE ChangeMember
  <2>1. PICK i \in DOMAIN stack :
           \/ stack' = [stack EXCEPT ![i].head = stack[i].head + 1]
           \/ ~stack[i].touched /\ stack' = [stack EXCEPT ![i].touched = TRUE]
    BY <1>3 DEF ChangeMember
  <2>2. i \in 1..Len(stack) /\ stack[i] \in MemberRecord /\ Len(stack) \in Nat
    BY <1>1 DEF Members
  <2>3. PICK m \in MemberRecord : stack' = [stack EXCEPT ![i] = m] /\ Grown(stack[i], m)
    <3>1. CASE stack' = [stack EXCEPT ![i].head = stack[i].head + 1]
      <4> DEFINE m == [stack[i] EXCEPT !.head = stack[i].head + 1]
      <4>0. /\ m \in MemberRecord /\ m.pr = stack[i].pr
            /\ m.head = stack[i].head + 1 /\ m.touched = stack[i].touched
        BY <2>2 DEF MemberRecord
      <4>1. Grown(stack[i], m)
        <5>1. stack[i].head <= m.head
          BY <2>2, <4>0 DEF MemberRecord
        <5> HIDE DEF m
        <5>2. QED
          BY <4>0, <5>1, Zenon DEF Grown
      <4>2. stack' = [stack EXCEPT ![i] = m]
        BY <3>1
      <4>3. QED
        BY <4>0, <4>1, <4>2
    <3>2. CASE stack' = [stack EXCEPT ![i].touched = TRUE]
      <4> DEFINE m == [stack[i] EXCEPT !.touched = TRUE]
      <4>0. m \in MemberRecord /\ m.pr = stack[i].pr /\ m.head = stack[i].head
        BY <2>2 DEF MemberRecord
      <4>1. Grown(stack[i], m)
        <5>1. m.touched
          BY <2>2 DEF MemberRecord
        <5>2. stack[i].head <= m.head
          BY <2>2, <4>0 DEF MemberRecord
        <5> HIDE DEF m
        <5>3. QED
          BY <4>0, <5>1, <5>2, Zenon DEF Grown
      <4>2. stack' = [stack EXCEPT ![i] = m]
        BY <3>2
      <4>3. QED
        BY <4>0, <4>1, <4>2
    <3>3. QED
      BY <2>1, <3>1, <3>2
  <2>4. /\ stack' \in Members /\ Len(stack') = Len(stack)
        /\ \A k \in 1..Len(stack) : stack'[k] = IF k = i THEN m ELSE stack[k]
    BY <1>1, <2>2, <2>3 DEF Members
  <2>5. Later(stack, stack')
    BY <1>1, <2>3, <2>4, LaterSelf DEF Later
  <2>6. QED
    BY <1>0, <1>1, <1>3, <2>4, <2>5 DEF ChangeMember
<1>4. CASE RemoveMember
  <2>1. PICK i \in DOMAIN stack : stack' = RemoveAt(stack, i)
    BY <1>4 DEF RemoveMember
  <2>2. stack' \in Members /\ Len(stack') = Len(stack) - 1 /\ Len(stack) \in Nat
    BY <1>1, <2>1, MemberRemoved DEF Members
  <2>3. QED
    BY <1>0, <1>1, <1>4, <2>2 DEF RemoveMember
<1>5. CASE AddMember
  <2>1. PICK pr \in PullRequest, i \in 1..(Len(stack) + 1) :
           stack' = InsertAt(stack, i, Member(pr, 0, FALSE))
    BY <1>5 DEF AddMember
  <2>2. Member(pr, 0, FALSE) \in MemberRecord
    BY DEF Member, MemberRecord
  <2>3. stack' \in Members /\ Len(stack') = Len(stack) + 1
    BY <1>1, <2>1, <2>2, InsertedIs
  <2>4. Len(stack) \in Nat
    BY <1>1 DEF Members
  <2>5. base' = base /\ comings' = IF ReadingStack THEN comings + 1 ELSE comings
    BY <1>5 DEF AddMember
  <2>6. QED
    BY <1>0, <1>1, <2>3, <2>4, <2>5
<1>6. QED
  BY <1>2, <1>3, <1>4, <1>5 DEF GitHubStack

LEMMA GitHubKeepsStack ==
  ASSUME kind = "stack", StackInv, GitHubStack, UNCHANGED kind
  PROVE  StackInv'
<1>1. StackType /\ ReadsAre /\ SeenIs /\ SnapshotWasTrue
  BY DEF StackInv
<1>2. /\ stack' \in Members /\ base' \in Nat /\ comings' \in Nat
      /\ UNCHANGED <<step, seen, firstStack, firstBase, nextStack, stackInstant>>
      /\ \/ Later(stack, stack') /\ comings' = comings
         \/ Len(stack') # Len(stack) /\ (ReadingStack => comings' = comings + 1)
  BY <1>1, GitHubMoves DEF waitVars
<1>3. StackType'
  BY <1>1, <1>2 DEF StackType
<1>4. ReadsAre'
  <2> SUFFICES ASSUME ReadingStack
               PROVE  ReadsAre'
    BY <1>2 DEF ReadsAre, ReadingStack
  <2>1. CASE Later(stack, stack') /\ comings' = comings
    <3>1. /\ Later(firstStack, stack) => Later(firstStack, stack')
          /\ Later(stackInstant.members, stack) => Later(stackInstant.members, stack')
      BY <1>1, <1>2, <2>1, LaterTwice DEF StackType, Snapshot
    <3>2. Len(stack') = Len(stack)
      BY <2>1 DEF Later
    <3>3. QED
      BY <1>1, <1>2, <2>1, <3>1, <3>2 DEF ReadsAre
  <2>2. CASE Len(stack') # Len(stack) /\ comings' = comings + 1
    <3>1. /\ Later(firstStack, stack) => Len(firstStack) # Len(stack')
          /\ Later(firstStack, stackInstant.members) /\ Later(stackInstant.members, stack)
                => Len(firstStack) # Len(stack')
      BY <2>2 DEF Later
    <3>2. comings \in Nat
      BY <1>1 DEF StackType
    <3>3. /\ comings' = 1 => comings = 0
          /\ comings' # 0
          /\ comings' <= 1 => comings <= 1
      BY <2>2, <3>2
    <3>4. QED
      BY <1>1, <1>2, <3>1, <3>3 DEF ReadsAre
  <2>3. QED
    BY <1>2, <2>1, <2>2
<1>5. QED
  BY <1>1, <1>2, <1>3, <1>4 DEF StackInv, SeenIs, SnapshotWasTrue

LEMMA ForgottenReadsAre ==
  ASSUME StackType, ForgetReads, UNCHANGED <<stack, base, moves>>
  PROVE  StackType'
  BY DEF StackType, ForgetReads, NoSnapshot, Snapshot, Members

LEMMA SeenStays ==
  ASSUME SeenIs, SnapshotWasTrue, seen' = seen \/ seen' = NoSeen
  PROVE  SeenIs' /\ SnapshotWasTrue'
<1>1. CASE seen' = seen
  BY <1>1 DEF SeenIs, SnapshotWasTrue
<1>2. CASE seen' = NoSeen
  BY <1>2 DEF SeenIs, SnapshotWasTrue
<1>3. QED
  BY <1>1, <1>2

\* A step out of the reads has nothing to say of them.
LEMMA NoReadsAre ==
  ASSUME step' \notin {"base", "stack again", "base again"}
  PROVE  ReadsAre'
  BY DEF ReadsAre

\* The fourth read accepts what was true when the second was made.
LEMMA RereadBaseKeeps ==
  ASSUME StackType, ReadsAre, SeenIs, SnapshotWasTrue, RereadBase
  PROVE  StackType' /\ ReadsAre' /\ SeenIs' /\ SnapshotWasTrue'
<1>1. step = "base again" /\ ForgetReads /\ UNCHANGED <<stack, base, moves>>
  BY DEF RereadBase
<1>2. StackType'
  BY <1>1, ForgottenReadsAre
<1>3. CASE firstStack = nextStack /\ firstBase = base
  <2> DEFINE snapshot == [base |-> base, members |-> nextStack]
             basis == [instant |-> stackInstant, comings |-> comings]
  <2>0. Observed(StackVerdict(snapshot), snapshot, basis)
    BY <1>3 DEF RereadBase
  <2>1. seen' = [terminal |-> StackVerdict(snapshot), key |-> snapshot, basis |-> basis]
        /\ step' = "write"
    BY <2>0 DEF Observed
  <2>2. seen'.key = snapshot /\ seen'.basis.instant = stackInstant
        /\ seen'.basis.comings = comings
    BY <2>1
  <2>3. snapshot \in Snapshot
    BY DEF StackType, Snapshot
  <2>4. ASSUME comings <= 1 PROVE stackInstant = snapshot
    <3>1. /\ Later(firstStack, stackInstant.members)
          /\ Later(stackInstant.members, firstStack)
          /\ firstBase = stackInstant.base
      BY <1>1, <1>3, <2>4 DEF ReadsAre
    <3>2. stackInstant.members = firstStack
      BY <3>1, LaterBetween DEF StackType, Snapshot
    <3>3. QED
      BY <1>3, <3>1, <3>2 DEF StackType, Snapshot
  <2> HIDE DEF snapshot, basis
  <2>5. SeenIs'
    BY <2>2, <2>3 DEF SeenIs
  <2>6. comings \in Nat
    BY DEF StackType
  <2>7. SnapshotWasTrue'
    BY <2>2, <2>4, <2>6 DEF SnapshotWasTrue
  <2>8. QED
    BY <1>2, <2>1, <2>5, <2>7, NoReadsAre
<1>4. CASE ObserveFails("pending")
  <2>1. step' \in {"idle", "sleep"} /\ (seen' = seen \/ seen' = NoSeen)
    BY <1>4 DEF ObserveFails, Report
  <2>2. QED
    BY <1>2, <2>1, NoReadsAre, SeenStays
<1>5. QED
  BY <1>3, <1>4 DEF RereadBase

\* The first three reads.
LEMMA ReadsKeep ==
  ASSUME StackType, ReadsAre, SeenIs, SnapshotWasTrue, ReadStack \/ ReadBase \/ RereadStack
  PROVE  StackType' /\ ReadsAre' /\ SeenIs' /\ SnapshotWasTrue'
<1>1. seen' = seen /\ UNCHANGED <<stack, base>>
  BY DEF ReadStack, ReadBase, RereadStack, Reads
<1>2. Later(stack, stack)
  BY LaterSelf DEF StackType
<1>3. CASE ReadStack
  <2>1. step' = "base" /\ firstStack' = stack /\ comings' = 0
        /\ UNCHANGED <<firstBase, nextStack, stackInstant>>
    BY <1>3 DEF ReadStack, Reads
  <2>2. StackType'
    BY <1>1, <2>1 DEF StackType
  <2>3. ReadsAre'
    <3>1. Later(firstStack', stack')
      BY <1>1, <1>2, <2>1, Zenon
    <3>2. comings' # 1 /\ step' # "stack again" /\ step' # "base again"
      BY <2>1
    <3>3. QED
      BY <3>1, <3>2, Zenon DEF ReadsAre
  <2>4. QED
    BY <1>1, <2>2, <2>3, SeenStays
<1>4. CASE ReadBase
  <2>1. step = "base" /\ step' = "stack again" /\ firstBase' = base
        /\ stackInstant' = [base |-> base, members |-> stack]
        /\ UNCHANGED <<firstStack, nextStack, comings>>
    BY <1>4 DEF ReadBase, Reads
  <2>2. stackInstant' \in Snapshot /\ stackInstant'.base = base
        /\ stackInstant'.members = stack
    BY <2>1 DEF StackType, Snapshot
  <2>3. StackType'
    BY <1>1, <2>1, <2>2 DEF StackType
  <2>4. ReadsAre'
    BY <1>1, <1>2, <2>1, <2>2 DEF ReadsAre
  <2>5. QED
    BY <1>1, <2>3, <2>4, SeenStays
<1>5. CASE RereadStack
  <2>1. step = "stack again" /\ step' = "base again" /\ nextStack' = stack
        /\ UNCHANGED <<firstStack, firstBase, stackInstant, comings>>
    BY <1>5 DEF RereadStack, Reads
  <2>2. comings <= 1 => comings = 0 \/ comings = 1
    BY DEF StackType
  <2>3. StackType' /\ ReadsAre'
    BY <1>1, <2>1, <2>2 DEF StackType, ReadsAre
  <2>4. QED
    BY <1>1, <2>3, SeenStays
<1>6. QED
  BY <1>3, <1>4, <1>5

LEMMA FailedReadsKeep ==
  ASSUME StackType, ReadsAre, SeenIs, SnapshotWasTrue, StackReadFails
  PROVE  StackType' /\ ReadsAre' /\ SeenIs' /\ SnapshotWasTrue'
<1>1. step' \in {"idle", "sleep"} /\ (seen' = seen \/ seen' = NoSeen)
  BY DEF StackReadFails, ObserveFails, ObserveRefused, Report
<1>2. StackType'
  BY ForgottenReadsAre DEF StackReadFails
<1>3. QED
  BY <1>1, <1>2, NoReadsAre, SeenStays

\* Everything else leaves the reads alone, and the step, or ends the wait's reads.
LEMMA OthersKeepStack ==
  ASSUME StackInv, UNCHANGED <<kind, stackVars>>,
         step' = step \/ step' \notin {"base", "stack again", "base again"},
         seen' = seen \/ seen' = NoSeen
  PROVE  StackInv'
<1> SUFFICES ASSUME kind = "stack"
             PROVE  StackInv'
  BY DEF StackInv
<1>1. StackType /\ ReadsAre /\ SeenIs /\ SnapshotWasTrue
  BY DEF StackInv
<1>2. StackType'
  BY <1>1 DEF StackType, stackVars
<1>3. ReadsAre'
  <2>1. CASE step' = step
    BY <1>1, <2>1 DEF ReadsAre, stackVars
  <2>2. QED
    BY <2>1, NoReadsAre
<1>4. QED
  BY <1>1, <1>2, <1>3, SeenStays DEF StackInv

LEMMA StackInvStep == StackInv /\ [Next]_vars => StackInv'
<1> SUFFICES ASSUME StackInv, [Next]_vars
             PROVE  StackInv'
  OBVIOUS
<1>1. kind' = kind
  BY DEF Next, vars, Start, Loop, Observe, GitHub, Disturb, OnlyChecks, OnlyWorkflows,
     OnlyReview, OnlyStack
<1>2. CASE kind # "stack"
  BY <1>1, <1>2 DEF StackInv
<1>3. CASE kind = "stack" /\ UNCHANGED vars
  BY <1>3, OthersKeepStack DEF vars, waitVars
<1>4. CASE kind = "stack" /\ Start
  <2>1. PICK t : StartStackWait(t)
    BY <1>4 DEF Start, OnlyChecks, OnlyWorkflows, OnlyReview, IsReview
  <2>2. QED
    BY <1>1, <2>1, OthersKeepStack DEF StartStackWait, StartWait
<1>5. CASE Loop
  BY <1>5, OthersKeepStack
  DEF Loop, LoopStep, Cancelled, BeginObservation, WriteObservation, ReportChange,
      ReportTerminal, ReportDeadline, Sleep, Wake, ReportObservation, Report
<1>6. CASE kind = "stack" /\ Observe
  <2>1. StackType /\ ReadsAre /\ SeenIs /\ SnapshotWasTrue
    BY <1>6 DEF StackInv
  <2>2. ReadStackState \/ StackReadFails
    BY <1>6 DEF Observe, OnlyChecks, OnlyWorkflows, OnlyReview, IsReview
  <2>3. QED
    BY <2>1, <2>2, ReadsKeep, RereadBaseKeeps, FailedReadsKeep DEF ReadStackState, StackInv
<1>7. CASE kind = "stack" /\ GitHub
  BY <1>1, <1>7, GitHubKeepsStack DEF GitHub, OnlyChecks, OnlyWorkflows, OnlyReview, IsReview
<1>8. CASE Disturb
  BY <1>8, OthersKeepStack DEF Disturb, DeadlinePasses, Interrupt, Kill
<1>9. QED
  BY <1>2, <1>3, <1>4, <1>5, <1>6, <1>7, <1>8 DEF Next

-----------------------------------------------------------------------------
LEMMA PacketIs == Expected.base = 0 /\ Expected.members \in Members
<1>1. Packet \in Seq(PullRequest) /\ Len(Packet) \in Nat /\ DOMAIN Packet = 1..Len(Packet)
  BY PacketAssumption
<1>2. \A i \in 1..Len(Packet) : Member(Packet[i], 0, FALSE) \in MemberRecord
  BY <1>1 DEF Member, MemberRecord
<1>3. Expected.base = 0 /\ Expected.members = [i \in 1..Len(Packet) |-> Member(Packet[i], 0, FALSE)]
  BY <1>1 DEF Expected
<1> DEFINE m == [i \in 1..Len(Packet) |-> Member(Packet[i], 0, FALSE)]
<1>4. m \in [1..Len(Packet) -> MemberRecord]
  BY <1>2
<1> HIDE DEF m
<1>5. m \in Seq(MemberRecord)
  BY <1>1, <1>4
<1>6. QED
  BY <1>3, <1>5 DEF Members, m

\* compare_snapshots, whatever the snapshot.
LEMMA ComparisonIsSound ==
  ASSUME seen.key \in Snapshot
  PROVE  EvidenceBelowStillHolds
<1> DEFINE members == seen.key.members
           n == Len(members)
           expected == Expected.members
           len == Len(expected)
           short == IF n < len THEN n ELSE len
           differing == {i \in 1..short : ~Holds(expected[i], members[i])}
           first == FirstInvalidated(Expected, seen.key)
           kept == {i \in DOMAIN expected :
                      \A k \in 1..i : k \in DOMAIN members /\ Holds(expected[k], members[k])}
<1>1. members \in Members /\ n \in Nat /\ DOMAIN members = 1..n
  BY DEF Snapshot, Members
<1>2. len \in Nat /\ DOMAIN expected = 1..len
  BY PacketAssumption, PacketIs DEF Members
<1>3. first = IF Expected.base # seen.key.base THEN {1}
              ELSE IF differing # {} THEN {i \in differing : \A k \in differing : i <= k}
              ELSE IF n < len THEN {n + 1} ELSE {}
  BY DEF FirstInvalidated
<1>4. EvidenceBelowStillHolds <=>
        (seen # NoSeen =>
           IF seen.key.base # Expected.base THEN first = {1}
           ELSE /\ first = {} <=> kept = DOMAIN expected
                /\ \A i \in first : kept = 1..(i - 1))
  BY DEF EvidenceBelowStillHolds
<1>5. short \in Nat /\ short <= n /\ short <= len /\ (short = n \/ short = len)
  BY <1>1, <1>2
<1>6. /\ \A i \in 1..short : i \in differing <=> ~Holds(expected[i], members[i])
      /\ differing \subseteq 1..short
  OBVIOUS
<1>7. \A i : i \in kept <=>
        i \in 1..len /\ \A k \in 1..i : k \in 1..n /\ Holds(expected[k], members[k])
  BY <1>1, <1>2
<1>8. CASE seen.key.base # Expected.base
  BY <1>3, <1>4, <1>8
<1> HIDE DEF first, members, n, expected, len, short, differing, kept
<1>9. CASE seen.key.base = Expected.base /\ differing # {}
  <2>1. PICK m \in differing : \A k \in differing : m <= k
    <3>1. differing \subseteq Nat
      BY <1>5, <1>6
    <3>2. QED
      BY <1>9, <3>1, LeastNumber
  <2>2. m \in 1..short
    BY <1>6, <2>1
  <2>3. first = {m}
    <3>1. \A i \in differing : i \in Nat /\ m \in Nat
      BY <1>5, <1>6, <2>2
    <3>2. first = {i \in differing : \A k \in differing : i <= k}
      BY <1>3, <1>9
    <3>3. QED
      BY <2>1, <3>1, <3>2
  <2>4. kept = 1..(m - 1)
    <3>1. ASSUME NEW i \in kept PROVE i \in 1..(m - 1)
      <4>1. i \in 1..len /\ \A k \in 1..i : Holds(expected[k], members[k])
        BY <1>7, <3>1
      <4>2. m \notin 1..i
        BY <1>6, <2>1, <2>2, <4>1
      <4>3. QED
        BY <1>2, <1>5, <2>2, <4>1, <4>2
    <3>2. ASSUME NEW i \in 1..(m - 1) PROVE i \in kept
      <4>1. i \in 1..len /\ \A k \in 1..i : k \in 1..short /\ k \in 1..n /\ ~(m <= k)
        BY <1>1, <1>2, <1>5, <2>2, <3>2
      <4>2. \A k \in 1..i : Holds(expected[k], members[k])
        BY <1>6, <2>1, <4>1
      <4>3. QED
        BY <1>7, <4>1, <4>2
    <3>3. QED
      BY <3>1, <3>2
  <2>5. m \in 1..len /\ m \notin 1..(m - 1)
    BY <1>2, <1>5, <2>2
  <2>6. first # {} /\ kept # DOMAIN expected
    BY <1>2, <2>3, <2>4, <2>5
  <2>7. QED
    BY <1>4, <1>9, <2>3, <2>4, <2>6
<1>10. CASE seen.key.base = Expected.base /\ differing = {}
  <2>1. \A i \in 1..short : Holds(expected[i], members[i])
    BY <1>6, <1>10
  <2>2. kept = 1..short
    <3>1. ASSUME NEW i \in kept PROVE i \in 1..short
      <4>1. i \in 1..len /\ i \in 1..i
        BY <1>2, <1>7, <3>1
      <4>2. i \in 1..n
        BY <1>7, <3>1, <4>1
      <4>3. QED
        BY <1>5, <4>1, <4>2
    <3>2. ASSUME NEW i \in 1..short PROVE i \in kept
      <4>1. i \in 1..len /\ \A k \in 1..i : k \in 1..short /\ k \in 1..n
        BY <1>1, <1>2, <1>5, <3>2
      <4>2. QED
        BY <1>7, <2>1, <4>1
    <3>3. QED
      BY <3>1, <3>2
  <2>3. CASE n < len
    <3>1. first = {n + 1} /\ short = n /\ n = (n + 1) - 1
      BY <1>1, <1>2, <1>3, <1>5, <1>10, <2>3
    <3>2. len \in 1..len /\ len \notin 1..n
      BY <1>1, <1>2, <2>3
    <3>3. QED
      BY <1>2, <1>4, <1>10, <2>2, <3>1, <3>2
  <2>4. CASE ~(n < len)
    <3>1. first = {} /\ short = len
      BY <1>1, <1>2, <1>3, <1>5, <1>10, <2>4
    <3>2. QED
      BY <1>2, <1>4, <1>10, <2>2, <3>1
  <2>5. QED
    BY <2>3, <2>4
<1>11. QED
  BY <1>8, <1>9, <1>10

\* Every snapshot the stack wait accepts was one, and its comparison with the
\* expected one is sound (stack_snapshot, compare_snapshots).
THEOREM StackSnapshotsHold == Spec => []StackWasTrue
<1>1. Init => StackInv
  <2> SUFFICES ASSUME Init
               PROVE  StackInv
    OBVIOUS
  <2>1. StackType
    BY PacketIs DEF Init, StackInit, NoSnapshot, StackType, Snapshot, Members
  <2>2. QED
    BY <2>1 DEF Init, WaitInit, StackInv, ReadsAre, SeenIs, SnapshotWasTrue
<1>2. StackInv => StackWasTrue
  <2>1. SeenIs => EvidenceBelowStillHolds
    BY ComparisonIsSound DEF SeenIs, EvidenceBelowStillHolds
  <2>2. QED
    BY <2>1 DEF StackInv, StackWasTrue
<1>3. QED
  BY <1>1, <1>2, StackInvStep, PTL DEF Spec

-----------------------------------------------------------------------------
(* The review wait.  Threads are opened at the end of the list and keep their *)
(* order, and one that was touched once since the first page was read is not  *)
(* as it was: so what both readings have was there all the time between, and  *)
(* a thread of the instant between them that the first reading lacks was      *)
(* touched before the instant, stays, and is met by the second reading.  Of   *)
(* the evidence, an attempt that was added or ended after a reading bears a   *)
(* time later than all that the reading has.                                  *)

ThreadRecord == [id : Thread, resolved : BOOLEAN, talk : {"finding", "answered", "followed up"}]
AttemptRecord == [group : {"check", "review"}, start : Nat, end : Nat, ok : BOOLEAN]

ThreadList(s) ==
    /\ s \in Seq(ThreadRecord)
    /\ \A i, j \in DOMAIN s : s[i].id = s[j].id => i = j

Has(s, x) == \E i \in DOMAIN s : s[i] = x
HasId(s, id) == \E i \in DOMAIN s : s[i].id = id
Precedes(s, a, b) == \E p, q \in DOMAIN s : p < q /\ s[p].id = a /\ s[q].id = b

\* All nodes are in the list, in its order.
AllIn(nodes, s) == \A i \in DOMAIN nodes : Has(s, nodes[i])
InOrder(nodes, s) ==
    \A i, j \in DOMAIN nodes : i < j => Precedes(s, nodes[i].id, nodes[j].id)

\* What follows the cursor of a reading, in the list as it is.
Cursor(r) == r.nodes[Len(r.nodes)].id
Ahead(r, s, x) ==
    \E i \in DOMAIN s : s[i] = x /\ \A k \in DOMAIN s : s[k].id = Cursor(r) => k < i

\* A reading that goes on has the thread, or will come to it.
WillHave(r, s, x) == Has(r.nodes, x) \/ (r.more /\ Ahead(r, s, x))

Once(count) == \A t \in Thread : count[t] <= 1

\* Attempts that were all over, or begun, before a time.
Past(evidence, now) ==
    /\ evidence \subseteq AttemptRecord
    /\ \A a \in evidence : a.start < now /\ a.end < now /\ (a.ok => a.end # Running0)

\* One of the new attempts has a time later than all of the old ones.
NewerThan(old, time) == \A b \in old : b.start < time /\ b.end < time
Moved(old, new) == \E a \in new : NewerThan(old, a.start) \/ NewerThan(old, a.end)

IsReading(r) ==
    /\ {"nodes", "more", "evidence"} \subseteq DOMAIN r
    /\ r.nodes \in Seq(ThreadRecord)
    /\ r.more => r.nodes # <<>>
    /\ Past(r.evidence, clock)

ReviewType ==
    /\ ThreadList(threads)
    /\ clock \in Nat \ {0}
    /\ Past(attempts, clock)
    /\ touched \in [Thread -> Nat]
    /\ IsReading(reading) /\ IsReading(firstReading)
    /\ ThreadList(reviewInstant.threads)
    /\ reviewInstant = [threads |-> reviewInstant.threads, evidence |-> reviewInstant.evidence]

\* The reading in progress: what it has is there, or was touched since.
NodesWereThere ==
    \A x \in ThreadRecord :
        Has(reading.nodes, x) => Has(threads, x) \/ touched[x.id] >= 1

FirstPages ==
    /\ NodesWereThere
    /\ Once(touched) /\ AllIn(reading.nodes, threads) => InOrder(reading.nodes, threads)
    /\ Once(touched) =>
          \A x \in ThreadRecord :
              Has(threads, x) /\ touched[x.id] = 0 => WillHave(reading, threads, x)
    /\ attempts = reading.evidence \/ Moved(reading.evidence, attempts)

InstantOrder ==
    Once(touched) /\ AllIn(firstReading.nodes, reviewInstant.threads) =>
        InOrder(firstReading.nodes, reviewInstant.threads)

BetweenReadings ==
    /\ InstantOrder
    /\ Once(touched) => \A x \in ThreadRecord :
          /\ Has(reviewInstant.threads, x) =>
                \/ Has(firstReading.nodes, x)
                \/ touched[x.id] >= 1 /\ Has(threads, x)
          /\ Has(firstReading.nodes, x) =>
                \/ Has(reviewInstant.threads, x)
                \/ touched[x.id] >= 1 /\ ~Has(threads, x)
    /\ \/ reviewInstant.evidence = firstReading.evidence
       \/ Moved(firstReading.evidence, attempts)

SecondPages ==
    /\ NodesWereThere
    /\ InstantOrder
    /\ Once(touched) => \A x \in ThreadRecord :
          /\ Has(reviewInstant.threads, x) =>
                \/ Has(firstReading.nodes, x)
                \/ touched[x.id] >= 1 /\ Has(threads, x) /\ WillHave(reading, threads, x)
          /\ Has(firstReading.nodes, x) =>
                \/ Has(reviewInstant.threads, x)
                \/ touched[x.id] >= 1 /\ ~Has(threads, x) /\ ~Has(reading.nodes, x)
    /\ \/ reviewInstant.evidence = firstReading.evidence
       \/ Moved(firstReading.evidence, reading.evidence)

ReviewInv ==
    /\ ReviewType
    /\ step = "pages" => FirstPages
    /\ step = "observe again" => BetweenReadings
    /\ step = "pages again" => SecondPages
    /\ CensusWasTrue
    /\ TerminalIsLatest

LEMMA StampsFollowTime ==
  ASSUME NEW a \in Nat, NEW b \in Nat, Stamp(a) < Stamp(b)
  PROVE  a < b
  BY DEF Stamp

\* What terminal_evidence says of the attempts that really were last.
LEMMA LastAreOver ==
  ASSUME NEW evidence, NEW now \in Nat, Past(evidence, now), TerminalEvidence(evidence),
         NEW last,
         last = {a \in evidence : \A b \in evidence : b.group = a.group => b.start <= a.start}
  PROVE  /\ \A a \in last : a.end # Running0
         /\ \E a \in last : a.ok
         /\ \A b \in last : ~b.ok => \E a \in Latest(evidence) : a.ok /\ b.end < a.end
<1> DEFINE latest == Latest(evidence)
           accepted == {a \in latest : a.ok}
           pending == latest \ accepted
<1>1. \A a \in evidence : a \in AttemptRecord /\ a.start \in Nat /\ a.end \in Nat
                          /\ a.start < now /\ (a.ok => a.end # Running0)
  BY DEF Past, AttemptRecord
<1>2. /\ accepted # {}
      /\ \A a \in accepted, b \in pending : a.group # b.group
      /\ \A b \in pending : b.end # Running0
      /\ \A b \in pending : \E a \in accepted : At(b) < At(a)
  BY DEF TerminalEvidence
<1>3. latest \subseteq evidence
  BY DEF Latest
<1>4. last \subseteq latest
  <2>1. \A x, y \in Nat : x <= y => Stamp(x) <= Stamp(y)
    BY DEF Stamp
  <2>2. QED
    BY <1>1, <2>1 DEF Latest
<1> HIDE DEF latest
<1>5. \A a \in last : a.end # Running0
  BY <1>1, <1>2, <1>3, <1>4
<1>6. \E a \in last : a.ok
  <2>1. PICK c \in accepted : TRUE
    BY <1>2
  <2> DEFINE Rest == {now - a.start : a \in {b \in evidence : b.group = c.group}}
  <2>2. Rest \subseteq Nat /\ Rest # {}
    BY <1>1, <1>3, <2>1
  <2>3. PICK m \in Rest : \A k \in Rest : m <= k
    <3> HIDE DEF Rest
    <3>1. QED
      BY <2>2, LeastNumber
  <2>4. PICK a \in evidence : a.group = c.group /\ m = now - a.start
    BY <2>3
  <2>5. \A b \in evidence : b.group = a.group => b.start <= a.start
    <3>1. SUFFICES ASSUME NEW b \in evidence, b.group = a.group
                   PROVE  b.start <= a.start
      OBVIOUS
    <3>2. now - b.start \in Rest
      BY <2>4, <3>1
    <3>3. now - a.start <= now - b.start
      BY <2>3, <2>4, <3>2
    <3> HIDE DEF Rest
    <3>4. QED
      BY <1>1, <3>3
  <2>6. a \in last
    BY <2>5
  <2>7. a.ok
    BY <1>2, <1>4, <2>1, <2>4, <2>6
  <2>8. QED
    BY <2>6, <2>7
<1>7. ASSUME NEW b \in last, ~b.ok
      PROVE  \E a \in Latest(evidence) : a.ok /\ b.end < a.end
  <2>1. b \in pending
    BY <1>4, <1>7
  <2>2. PICK a \in accepted : At(b) < At(a)
    BY <1>2, <2>1
  <2>3. b.end # Running0 /\ a.end # Running0
    BY <1>1, <1>2, <1>3, <2>1, <2>2
  <2>4. Stamp(b.end) < Stamp(a.end)
    BY <2>2, <2>3 DEF At
  <2>5. b.end \in Nat /\ a.end \in Nat
    BY <1>1, <1>3, <2>1, <2>2
  <2>6. b.end < a.end
    BY <2>4, <2>5, StampsFollowTime
  <2>7. QED
    BY <2>2, <2>6 DEF latest
<1>8. QED
  BY <1>5, <1>6, <1>7

\* Two lists of the same threads, in one order, are one list.
LEMMA OneOrderOneList ==
  ASSUME NEW s \in Seq(ThreadRecord), NEW u, ThreadList(u), AllIn(s, u), AllIn(u, s), InOrder(s, u)
  PROVE  s = u
<1>1. /\ u \in Seq(ThreadRecord) /\ DOMAIN u = 1..Len(u) /\ Len(u) \in Nat
      /\ DOMAIN s = 1..Len(s) /\ Len(s) \in Nat
  BY DEF ThreadList
<1>2. \A i, j \in DOMAIN u : u[i].id = u[j].id => i = j
  BY DEF ThreadList
<1>3. \A i, j \in DOMAIN s : i < j => \E p, q \in DOMAIN u : p < q /\ u[p].id = s[i].id /\ u[q].id = s[j].id
  BY DEF InOrder, Precedes
<1>4. \A i, j \in DOMAIN s : s[i] = s[j] => i = j
  BY <1>1, <1>2, <1>3
<1>5. \A i \in DOMAIN s : i \in DOMAIN u => s[i] = u[i]
  <2> DEFINE T == {i \in Nat : i \in DOMAIN s /\ i \in DOMAIN u /\ s[i] # u[i]}
  <2>1. SUFFICES ASSUME T # {} PROVE FALSE
    BY <1>1
  <2>2. PICK i \in T : \A k \in T : i <= k
    BY <2>1, LeastNumber
  <2>3. \A k \in 1..(i - 1) : s[k] = u[k]
    BY <1>1, <2>2
  <2>4. PICK p \in DOMAIN u : u[p] = s[i]
    BY <2>2 DEF AllIn, Has
  <2>5. PICK j \in DOMAIN s : s[j] = u[i]
    BY <2>2 DEF AllIn, Has
  <2>6. i < p
    BY <1>1, <1>4, <2>2, <2>3, <2>4
  <2>7. i < j
    BY <1>1, <1>2, <2>2, <2>3, <2>5
  <2>8. p < i
    BY <1>2, <1>3, <2>2, <2>4, <2>5, <2>7
  <2>9. QED
    BY <1>1, <2>2, <2>6, <2>8
<1>6. ~(Len(s) < Len(u))
  <2>1. SUFFICES ASSUME Len(s) < Len(u) PROVE FALSE
    OBVIOUS
  <2>2. Len(s) + 1 \in DOMAIN u
    BY <1>1, <2>1
  <2>3. PICK j \in DOMAIN s : s[j] = u[Len(s) + 1]
    BY <2>2 DEF AllIn, Has
  <2>4. QED
    BY <1>1, <1>2, <1>5, <2>1, <2>2, <2>3
<1>7. ~(Len(u) < Len(s))
  <2>1. SUFFICES ASSUME Len(u) < Len(s) PROVE FALSE
    OBVIOUS
  <2>2. Len(u) + 1 \in DOMAIN s
    BY <1>1, <2>1
  <2>3. PICK p \in DOMAIN u : u[p] = s[Len(u) + 1]
    BY <2>2 DEF AllIn, Has
  <2>4. QED
    BY <1>1, <1>4, <1>5, <2>1, <2>2, <2>3
<1>8. QED
  BY <1>1, <1>5, <1>6, <1>7

\* A change of one thread: it is not what it was, and the others are, where
\* they were.
MovesThread(id) ==
    /\ id \in Thread
    /\ ThreadList(threads')
    /\ \A x \in ThreadRecord :
          IF x.id = id THEN ~(Has(threads, x) /\ Has(threads', x))
          ELSE Has(threads, x) <=> Has(threads', x)
    /\ \A a, b \in Thread :
          Precedes(threads, a, b) /\ HasId(threads', a) /\ HasId(threads', b) =>
              Precedes(threads', a, b)
    /\ ChangesThread(id)

LEMMA OpenMoves ==
  ASSUME ThreadList(threads), OpenThread
  PROVE  \E id \in Thread : MovesThread(id)
<1>1. PICK id \in Thread : /\ \A i \in DOMAIN threads : threads[i].id # id
                           /\ threads' = Append(threads, ThreadOf(id))
                           /\ ChangesThread(id)
  BY DEF OpenThread
<1> DEFINE n == Len(threads)
           new == ThreadOf(id)
<1>2. new \in ThreadRecord /\ new.id = id
  BY DEF ThreadOf, ThreadRecord
<1>3. threads \in Seq(ThreadRecord) /\ n \in Nat /\ DOMAIN threads = 1..n
  BY DEF ThreadList
<1> HIDE DEF new
<1>4. /\ threads' \in Seq(ThreadRecord) /\ DOMAIN threads' = 1..(n + 1)
      /\ \A i \in 1..n : threads'[i] = threads[i]
      /\ threads'[n + 1] = new
  BY <1>1, <1>2, <1>3 DEF new
<1> HIDE DEF n
<1>5. ThreadList(threads')
  BY <1>1, <1>2, <1>3, <1>4 DEF ThreadList
<1>6. \A x \in ThreadRecord : Has(threads', x) <=> Has(threads, x) \/ x = new
  BY <1>3, <1>4 DEF Has
<1>7. \A x \in ThreadRecord :
          IF x.id = id THEN ~(Has(threads, x) /\ Has(threads', x))
          ELSE Has(threads, x) <=> Has(threads', x)
  BY <1>1, <1>2, <1>6 DEF Has
<1>8. \A a, b \in Thread : Precedes(threads, a, b) => Precedes(threads', a, b)
  BY <1>3, <1>4 DEF Precedes
<1>9. QED
  BY <1>1, <1>5, <1>7, <1>8 DEF MovesThread

LEMMA RestIs ==
  ASSUME NEW S, NEW s \in Seq(S), NEW k \in 1..Len(s)
  PROVE  /\ SubSeq(s, k, Len(s)) \in Seq(S)
         /\ Len(SubSeq(s, k, Len(s))) = Len(s) - k + 1
         /\ \A i \in 1..(Len(s) - k + 1) : SubSeq(s, k, Len(s))[i] = s[i + k - 1]
  OBVIOUS

LEMMA JoinedIs ==
  ASSUME NEW S, NEW a \in Seq(S), NEW b \in Seq(S)
  PROVE  /\ a \o b \in Seq(S)
         /\ Len(a \o b) = Len(a) + Len(b)
         /\ \A i \in 1..Len(a) : (a \o b)[i] = a[i]
         /\ \A i \in 1..Len(b) : (a \o b)[Len(a) + i] = b[i]
  OBVIOUS

LEMMA RemovedIs ==
  ASSUME NEW S, NEW s \in Seq(S), NEW d \in 1..Len(s)
  PROVE  /\ RemoveAt(s, d) \in Seq(S)
         /\ DOMAIN RemoveAt(s, d) = 1..(Len(s) - 1)
         /\ \A i \in 1..(Len(s) - 1) :
               RemoveAt(s, d)[i] = IF i < d THEN s[i] ELSE s[i + 1]
<1> DEFINE n == Len(s)
           a == SubSeq(s, 1, d - 1)
           b == SubSeq(s, d + 1, n)
<1>1. a \in Seq(S) /\ Len(a) = d - 1 /\ \A i \in 1..(d - 1) : a[i] = s[i]
  OBVIOUS
<1>2. b \in Seq(S) /\ Len(b) = n - d /\ \A i \in 1..(n - d) : b[i] = s[i + d]
  <2>1. CASE d = n
    BY <2>1
  <2>2. CASE d < n
    <3>1. PICK k \in 1..n : k = d + 1
      BY <2>2
    <3>2. b = SubSeq(s, k, Len(s)) /\ Len(s) - k + 1 = n - d
      BY <3>1
    <3>3. \A i \in 1..(n - d) : i + k - 1 = i + d
      BY <3>1
    <3> HIDE DEF b
    <3>4. QED
      BY <3>2, <3>3, RestIs
  <2>3. QED
    BY <2>1, <2>2
<1>3. n \in Nat /\ RemoveAt(s, d) = a \o b
  BY DEF RemoveAt
<1> HIDE DEF a, b, n
<1>4. (d - 1) + (n - d) = n - 1
  BY <1>3
<1>5. RemoveAt(s, d) \in Seq(S) /\ Len(RemoveAt(s, d)) = n - 1
  BY <1>1, <1>2, <1>3, <1>4, JoinedIs
<1>6. ASSUME NEW i \in 1..(n - 1)
      PROVE  RemoveAt(s, d)[i] = IF i < d THEN s[i] ELSE s[i + 1]
  <2>1. CASE i < d
    <3>1. i \in 1..Len(a)
      BY <1>1, <2>1
    <3>2. QED
      BY <1>1, <1>2, <1>3, <2>1, <3>1, JoinedIs
  <2>2. CASE ~(i < d)
    <3>1. PICK k \in 1..(n - d) : Len(a) + k = i /\ k + d = i + 1
      <4>1. i - (d - 1) \in 1..(n - d)
        BY <1>3, <2>2
      <4>2. Len(a) + (i - (d - 1)) = i /\ (i - (d - 1)) + d = i + 1
        BY <1>1, <1>3
      <4>3. QED
        BY <4>1, <4>2
    <3>2. (a \o b)[Len(a) + k] = b[k]
      <4>1. a \in Seq(S) /\ b \in Seq(S) /\ k \in 1..Len(b)
        BY <1>1, <1>2
      <4>2. QED
        BY <4>1, JoinedIs
    <3>3. QED
      BY <1>2, <1>3, <2>2, <3>1, <3>2
  <2>3. QED
    BY <2>1, <2>2
<1>7. QED
  BY <1>3, <1>5, <1>6 DEF n

LEMMA DeleteMoves ==
  ASSUME ThreadList(threads), DeleteThread
  PROVE  \E id \in Thread : MovesThread(id)
<1> DEFINE n == Len(threads)
<1>1. threads \in Seq(ThreadRecord) /\ n \in Nat /\ DOMAIN threads = 1..n
  BY DEF ThreadList
<1>2. PICK d \in 1..n : threads' = RemoveAt(threads, d) /\ ChangesThread(threads[d].id)
  BY <1>1 DEF DeleteThread
<1>3. /\ threads' \in Seq(ThreadRecord) /\ DOMAIN threads' = 1..(n - 1)
      /\ \A i \in 1..(n - 1) : threads'[i] = IF i < d THEN threads[i] ELSE threads[i + 1]
  BY <1>1, <1>2, RemovedIs
<1> HIDE DEF n
<1> DEFINE id == threads[d].id
<1>4. id \in Thread /\ \A i \in 1..n : threads[i].id = id => i = d
  <2>1. threads[d] \in ThreadRecord
    BY <1>1
  <2>2. id \in Thread
    BY <2>1 DEF ThreadRecord
  <2>3. \A i \in 1..n : threads[i].id = id => i = d
    BY <1>1 DEF ThreadList
  <2>4. QED
    BY <2>2, <2>3
<1>5. /\ \A i \in 1..(n - 1) : \E k \in 1..n : k # d /\ threads'[i] = threads[k]
      /\ \A k \in 1..n : k # d => \E i \in 1..(n - 1) : threads'[i] = threads[k]
  <2>1. \A i \in 1..(n - 1) : \E k \in 1..n : k # d /\ threads'[i] = threads[k]
    <3> TAKE i \in 1..(n - 1)
    <3>1. CASE i < d
      BY <1>1, <1>3, <3>1
    <3>2. CASE ~(i < d)
      <4>1. i + 1 \in 1..n /\ i + 1 # d
        BY <1>1, <3>2
      <4>2. QED
        BY <1>3, <3>2, <4>1
    <3>3. QED
      BY <3>1, <3>2
  <2>2. \A k \in 1..n : k # d => \E i \in 1..(n - 1) : threads'[i] = threads[k]
    <3> TAKE k \in 1..n
    <3>1. CASE k < d
      BY <1>1, <1>3, <3>1
    <3>2. CASE k > d
      <4>1. k - 1 \in 1..(n - 1) /\ ~(k - 1 < d) /\ (k - 1) + 1 = k
        BY <1>1, <3>2
      <4>2. threads'[k - 1] = threads[k]
        BY <1>3, <4>1
      <4>3. QED
        BY <4>1, <4>2
    <3>3. QED
      BY <3>1, <3>2
  <2>3. QED
    BY <2>1, <2>2
<1> DEFINE At1(k) == IF k < d THEN k ELSE k - 1
<1>6. \A k \in 1..n : k # d => At1(k) \in 1..(n - 1) /\ threads'[At1(k)] = threads[k]
  <2> TAKE k \in 1..n
  <2>1. CASE k < d
    BY <1>1, <1>3, <2>1
  <2>2. CASE k > d
    <3>1. k - 1 \in 1..(n - 1) /\ ~(k - 1 < d) /\ (k - 1) + 1 = k /\ At1(k) = k - 1
      BY <1>1, <2>2
    <3>2. QED
      BY <1>3, <3>1
  <2>3. QED
    BY <2>1, <2>2
<1>7. \A k, m \in 1..n : k < m /\ k # d /\ m # d => At1(k) < At1(m)
  OBVIOUS
<1>8. \A x \in ThreadRecord :
          IF x.id = id THEN ~(Has(threads, x) /\ Has(threads', x))
          ELSE Has(threads, x) <=> Has(threads', x)
  <2> HIDE DEF At1, id
  <2>1. SUFFICES ASSUME NEW x \in ThreadRecord
                 PROVE  IF x.id = id THEN ~(Has(threads, x) /\ Has(threads', x))
                        ELSE Has(threads, x) <=> Has(threads', x)
    OBVIOUS
  <2>2. CASE x.id = id
    <3>1. ASSUME NEW i \in 1..(n - 1), threads'[i] = x PROVE FALSE
      BY <1>4, <1>5, <2>2, <3>1
    <3>2. QED
      BY <1>3, <2>2, <3>1 DEF Has
  <2>3. CASE x.id # id
    <3>1. threads[d].id = id
      BY DEF id
    <3>2. Has(threads, x) => Has(threads', x)
      BY <1>1, <1>3, <1>5, <2>3, <3>1 DEF Has
    <3>3. ASSUME NEW i \in 1..(n - 1), threads'[i] = x PROVE Has(threads, x)
      BY <1>1, <1>5, <3>3 DEF Has
    <3>4. QED
      BY <1>3, <2>3, <3>2, <3>3 DEF Has
  <2>4. QED
    BY <2>2, <2>3
<1>9. \A a, b \in Thread :
          Precedes(threads, a, b) /\ HasId(threads', a) /\ HasId(threads', b) =>
              Precedes(threads', a, b)
  <2> HIDE DEF At1, id
  <2>1. ~HasId(threads', threads[d].id)
    BY <1>1, <1>3, <1>4, <1>5 DEF HasId, id
  <2>2. SUFFICES ASSUME NEW a \in Thread, NEW b \in Thread, NEW p \in 1..n, NEW q \in 1..n,
                        p < q, threads[p].id = a, threads[q].id = b, p # d, q # d
                 PROVE  Precedes(threads', a, b)
    BY <1>1, <2>1 DEF Precedes
  <2>3. At1(p) < At1(q) /\ At1(p) \in DOMAIN threads' /\ At1(q) \in DOMAIN threads'
        /\ threads'[At1(p)] = threads[p] /\ threads'[At1(q)] = threads[q]
    BY <1>3, <1>6, <1>7, <2>2
  <2>4. QED
    BY <2>2, <2>3 DEF Precedes
<1>10. ThreadList(threads')
  <2>1. \A i \in 1..(n - 1) : \E k \in 1..n : k # d /\ threads'[i] = threads[k] /\ i = At1(k)
    <3> TAKE i \in 1..(n - 1)
    <3>1. CASE i < d
      BY <1>1, <1>3, <3>1
    <3>2. CASE ~(i < d)
      <4>1. i + 1 \in 1..n /\ i + 1 # d /\ At1(i + 1) = i
        BY <1>1, <3>2
      <4>2. QED
        BY <1>3, <3>2, <4>1
    <3>3. QED
      BY <3>1, <3>2
  <2> HIDE DEF At1
  <2>2. ASSUME NEW i \in 1..(n - 1), NEW j \in 1..(n - 1), threads'[i].id = threads'[j].id
        PROVE  i = j
    <3>1. PICK k \in 1..n : threads'[i] = threads[k] /\ i = At1(k)
      BY <2>1
    <3>2. PICK m \in 1..n : threads'[j] = threads[m] /\ j = At1(m)
      BY <2>1
    <3>3. k = m
      BY <1>1, <2>2, <3>1, <3>2 DEF ThreadList
    <3>4. QED
      BY <3>1, <3>2, <3>3
  <2>3. QED
    BY <1>3, <2>2 DEF ThreadList
<1>11. QED
  BY <1>2, <1>4, <1>8, <1>9, <1>10 DEF MovesThread

LEMMA EditMoves ==
  ASSUME ThreadList(threads), NEW d \in DOMAIN threads, NEW new \in ThreadRecord,
         new.id = threads[d].id, new # threads[d],
         threads' = [threads EXCEPT ![d] = new], ChangesThread(threads[d].id)
  PROVE  MovesThread(threads[d].id)
<1>1. threads \in Seq(ThreadRecord) /\ threads[d] \in ThreadRecord
  BY DEF ThreadList
<1>2. /\ threads' \in Seq(ThreadRecord) /\ DOMAIN threads' = DOMAIN threads
      /\ threads'[d] = new
      /\ \A i \in DOMAIN threads : i # d => threads'[i] = threads[i]
  BY <1>1
<1>3. \A i \in DOMAIN threads : threads'[i].id = threads[i].id
  BY <1>2
<1>4. ThreadList(threads')
  BY <1>2, <1>3 DEF ThreadList
<1>5. \A i \in DOMAIN threads : threads[i].id = threads[d].id => i = d
  BY DEF ThreadList
<1>6. ASSUME NEW x \in ThreadRecord
      PROVE  IF x.id = threads[d].id THEN ~(Has(threads, x) /\ Has(threads', x))
             ELSE Has(threads, x) <=> Has(threads', x)
  BY <1>2, <1>3, <1>5 DEF Has
<1>7. \A a, b \in Thread : Precedes(threads, a, b) => Precedes(threads', a, b)
  BY <1>2, <1>3 DEF Precedes
<1>8. threads[d].id \in Thread
  BY <1>1 DEF ThreadRecord
<1>9. QED
  BY <1>4, <1>6, <1>7, <1>8 DEF MovesThread

LEMMA ThreadsMove ==
  ASSUME ThreadList(threads), GitHubThreads
  PROVE  LeaveHead \/ \E id \in Thread : MovesThread(id)
<1>0. \A d \in DOMAIN threads : threads[d] \in ThreadRecord
  BY DEF ThreadList
<1>1. CASE ToggleResolved
  <2>1. PICK d \in DOMAIN threads : /\ threads' = [threads EXCEPT ![d].resolved = ~threads[d].resolved]
                                    /\ ChangesThread(threads[d].id)
    BY <1>1 DEF ToggleResolved
  <2> DEFINE new == [threads[d] EXCEPT !.resolved = ~threads[d].resolved]
  <2>2. new \in ThreadRecord /\ new.id = threads[d].id
    BY <1>0 DEF ThreadRecord
  <2>3. new.resolved = ~threads[d].resolved /\ threads[d].resolved \in BOOLEAN
    BY <1>0, Zenon DEF ThreadRecord
  <2>4. new # threads[d]
    BY <2>3
  <2>5. threads' = [threads EXCEPT ![d] = new]
    BY <2>1
  <2> HIDE DEF new
  <2>6. QED
    BY <1>0, <2>1, <2>2, <2>4, <2>5, EditMoves DEF ThreadRecord
<1>2. CASE Talk
  <2>1. PICK d \in DOMAIN threads :
          /\ threads' = [threads EXCEPT ![d].talk =
                            IF threads[d].talk = "answered" THEN "followed up" ELSE "answered"]
          /\ ChangesThread(threads[d].id)
    BY <1>2 DEF Talk
  <2> DEFINE new == [threads[d] EXCEPT !.talk =
                        IF threads[d].talk = "answered" THEN "followed up" ELSE "answered"]
  <2>2. new \in ThreadRecord /\ new.id = threads[d].id /\ new.talk # threads[d].talk
    BY <1>0 DEF ThreadRecord
  <2>3. threads' = [threads EXCEPT ![d] = new]
    BY <2>1
  <2> HIDE DEF new
  <2>4. QED
    BY <1>0, <2>1, <2>2, <2>3, EditMoves DEF ThreadRecord
<1>3. QED
  BY <1>1, <1>2, OpenMoves, DeleteMoves DEF GitHubThreads

-----------------------------------------------------------------------------
\* A move and the reading: what has gone since it was read is touched, what a
\* reading will have it will have still, and the order stays.
LEMMA MoveAndTouch ==
  ASSUME ReviewType, ReadingReview, NEW id \in Thread, MovesThread(id)
  PROVE  /\ touched' \in [Thread -> Nat]
         /\ \A t \in Thread : touched'[t] >= touched[t]
         /\ \A x \in ThreadRecord :
               x.id # id => touched'[x.id] = touched[x.id] /\ (Has(threads, x) <=> Has(threads', x))
         /\ \A x \in ThreadRecord :
               x.id = id => touched'[x.id] = touched[x.id] + 1 /\ ~(Has(threads, x) /\ Has(threads', x))
<1>1. touched' = [touched EXCEPT ![id] = touched[id] + 1]
  BY DEF MovesThread, ChangesThread
<1>2. touched \in [Thread -> Nat]
  BY DEF ReviewType
<1>3. \A x \in ThreadRecord : x.id \in Thread
  BY DEF ThreadRecord
<1>4. \A x \in ThreadRecord : IF x.id = id THEN ~(Has(threads, x) /\ Has(threads', x))
                              ELSE Has(threads, x) <=> Has(threads', x)
  BY DEF MovesThread
<1>5. QED
  BY <1>1, <1>2, <1>3, <1>4

LEMMA CursorIsANode ==
  ASSUME NEW r, IsReading(r), r.nodes # <<>>
  PROVE  /\ Len(r.nodes) \in DOMAIN r.nodes
         /\ r.nodes[Len(r.nodes)] \in ThreadRecord
         /\ Has(r.nodes, r.nodes[Len(r.nodes)])
         /\ Cursor(r) \in Thread
<1>1. r.nodes \in Seq(ThreadRecord)
  BY DEF IsReading
<1>2. Len(r.nodes) \in DOMAIN r.nodes /\ r.nodes[Len(r.nodes)] \in ThreadRecord
  BY <1>1
<1>3. QED
  BY <1>2 DEF Has, Cursor, ThreadRecord

LEMMA MoveKeepsNodes ==
  ASSUME ReviewType, ReadingReview, NEW id \in Thread, MovesThread(id), NodesWereThere
  PROVE  NodesWereThere'
<1>1. reading' = reading
  BY DEF MovesThread, ChangesThread
<1>2. \A x \in ThreadRecord : x.id \in Thread /\ touched[x.id] \in Nat
  BY DEF ReviewType, ThreadRecord
<1>3. QED
  BY <1>1, <1>2, MoveAndTouch DEF NodesWereThere

LEMMA MoveKeepsAhead ==
  ASSUME ReviewType, ReadingReview, NEW id \in Thread, MovesThread(id), NodesWereThere,
         Once(touched'), NEW x \in ThreadRecord, Has(threads', x), WillHave(reading, threads, x),
         Has(threads, x)
  PROVE  WillHave(reading, threads', x)
<1>1. SUFFICES ASSUME reading.more, Ahead(reading, threads, x)
               PROVE  Ahead(reading, threads', x)
  BY DEF WillHave
<1> DEFINE c == reading.nodes[Len(reading.nodes)]
<1>2. c \in ThreadRecord /\ Has(reading.nodes, c) /\ Cursor(reading) = c.id /\ c.id \in Thread
  BY <1>1, CursorIsANode DEF ReviewType, IsReading, Cursor
<1> HIDE DEF c
<1>3. ThreadList(threads) /\ ThreadList(threads') /\ touched \in [Thread -> Nat]
  BY DEF ReviewType, MovesThread
<1>4. PICK j \in DOMAIN threads' : threads'[j] = x
  BY DEF Has
<1>5. PICK i \in DOMAIN threads :
        threads[i] = x /\ \A k \in DOMAIN threads : threads[k].id = c.id => k < i
  BY <1>1, <1>2 DEF Ahead
<1>6. SUFFICES ASSUME NEW k \in DOMAIN threads', threads'[k].id = c.id
               PROVE  k < j
  BY <1>2, <1>4 DEF Ahead
<1>7. HasId(threads, c.id)
  <2>1. SUFFICES ASSUME ~HasId(threads, c.id) PROVE FALSE
    OBVIOUS
  <2>2. ~Has(threads, c)
    BY <2>1 DEF Has, HasId
  <2>3. touched[c.id] >= 1
    BY <1>2, <2>2 DEF NodesWereThere
  <2>4. threads'[k] \in ThreadRecord /\ Has(threads', threads'[k]) /\ ~Has(threads, threads'[k])
    BY <1>3, <1>6, <2>1 DEF ThreadList, Has, HasId
  <2>5. touched'[c.id] = touched[c.id] + 1
    BY <1>6, <2>4, MoveAndTouch
  <2>6. touched'[c.id] <= 1
    BY <1>2 DEF Once
  <2>7. QED
    BY <1>2, <1>3, <2>3, <2>5, <2>6
<1>8. Precedes(threads, c.id, x.id)
  BY <1>5, <1>7 DEF HasId, Precedes
<1>9. HasId(threads', c.id) /\ HasId(threads', x.id) /\ x.id \in Thread
  BY <1>4, <1>6 DEF HasId, ThreadRecord
<1>10. Precedes(threads', c.id, x.id)
  BY <1>2, <1>8, <1>9 DEF MovesThread
<1>11. PICK p \in DOMAIN threads', q \in DOMAIN threads' :
          p < q /\ threads'[p].id = c.id /\ threads'[q].id = x.id
  BY <1>10 DEF Precedes
<1>12. p = k /\ q = j
  BY <1>3, <1>4, <1>6, <1>11 DEF ThreadList
<1>13. QED
  BY <1>11, <1>12

LEMMA MoveKeepsOrder ==
  ASSUME ReviewType, ReadingReview, NEW id \in Thread, MovesThread(id), NodesWereThere,
         Once(touched) /\ AllIn(reading.nodes, threads) => InOrder(reading.nodes, threads),
         Once(touched'), AllIn(reading.nodes, threads')
  PROVE  InOrder(reading.nodes, threads')
<1>1. reading.nodes \in Seq(ThreadRecord) /\ touched \in [Thread -> Nat]
  BY DEF ReviewType, IsReading
<1>2. Once(touched)
  <2>1. \A t \in Thread : touched'[t] >= touched[t] /\ touched'[t] <= 1
        /\ touched[t] \in Nat /\ touched'[t] \in Nat
    BY <1>1, MoveAndTouch DEF Once
  <2>2. QED
    BY <2>1 DEF Once
<1>3. AllIn(reading.nodes, threads)
  <2>1. SUFFICES ASSUME NEW i \in DOMAIN reading.nodes, ~Has(threads, reading.nodes[i])
                 PROVE  FALSE
    BY DEF AllIn
  <2> DEFINE x == reading.nodes[i]
  <2>2. x \in ThreadRecord /\ x.id \in Thread /\ Has(reading.nodes, x)
    <3>1. x \in ThreadRecord /\ Has(reading.nodes, x)
      BY <1>1 DEF Has
    <3> HIDE DEF x
    <3>2. QED
      BY <3>1 DEF ThreadRecord
  <2>3. Has(threads', x)
    BY DEF AllIn
  <2> HIDE DEF x
  <2>4. touched[x.id] >= 1
    BY <2>1, <2>2 DEF NodesWereThere, x
  <2>5. touched'[x.id] = touched[x.id] + 1
    BY <2>1, <2>2, <2>3, MoveAndTouch DEF x
  <2>6. touched'[x.id] <= 1
    BY <2>2 DEF Once
  <2>7. QED
    BY <1>1, <2>2, <2>4, <2>5, <2>6
<1>4. InOrder(reading.nodes, threads)
  BY <1>2, <1>3
<1>5. \A i \in DOMAIN reading.nodes :
          reading.nodes[i].id \in Thread /\ HasId(threads', reading.nodes[i].id)
  <2>1. \A i \in DOMAIN reading.nodes : reading.nodes[i] \in ThreadRecord
    BY <1>1
  <2>2. \A i \in DOMAIN reading.nodes : reading.nodes[i].id \in Thread
    BY <2>1 DEF ThreadRecord
  <2>3. \A i \in DOMAIN reading.nodes : HasId(threads', reading.nodes[i].id)
    BY DEF AllIn, Has, HasId
  <2>4. QED
    BY <2>2, <2>3
<1>6. QED
  BY <1>4, <1>5 DEF InOrder, MovesThread

LEMMA OnceWasOnce ==
  ASSUME ReviewType, ReadingReview, NEW id \in Thread, MovesThread(id), Once(touched')
  PROVE  Once(touched)
<1>1. \A t \in Thread : touched'[t] >= touched[t] /\ touched'[t] <= 1
        /\ touched[t] \in Nat /\ touched'[t] \in Nat
  BY MoveAndTouch DEF Once, ReviewType
<1>2. QED
  BY <1>1 DEF Once

LEMMA MoveKeepsFirstPages ==
  ASSUME ReviewType, ReadingReview, NEW id \in Thread, MovesThread(id), FirstPages
  PROVE  FirstPages'
<1>0. UNCHANGED <<reading, attempts>>
  BY DEF MovesThread, ChangesThread
<1>1. NodesWereThere'
  BY MoveKeepsNodes DEF FirstPages
<1>2. Once(touched') /\ AllIn(reading.nodes, threads') => InOrder(reading.nodes, threads')
  BY MoveKeepsOrder DEF FirstPages
<1>3. ASSUME Once(touched'), NEW x \in ThreadRecord, Has(threads', x), touched'[x.id] = 0
      PROVE  WillHave(reading, threads', x)
  <2>1. x.id \in Thread /\ touched[x.id] \in Nat
    BY DEF ThreadRecord, ReviewType
  <2>2. x.id # id
    BY <1>3, <2>1, MoveAndTouch
  <2>3. Has(threads, x) /\ touched[x.id] = 0
    BY <1>3, <2>2, MoveAndTouch
  <2>4. WillHave(reading, threads, x)
    BY <1>3, <2>3, OnceWasOnce DEF FirstPages
  <2>5. QED
    BY <1>3, <2>3, <2>4, MoveKeepsAhead DEF FirstPages
<1>4. QED
  BY <1>0, <1>1, <1>2, <1>3 DEF FirstPages

LEMMA MoveKeepsBetween ==
  ASSUME ReviewType, ReadingReview, NEW id \in Thread, MovesThread(id), BetweenReadings
  PROVE  BetweenReadings'
<1>0. UNCHANGED <<firstReading, reviewInstant, attempts>>
  BY DEF MovesThread, ChangesThread
<1>1. InstantOrder'
  BY <1>0, OnceWasOnce DEF BetweenReadings, InstantOrder
<1>2. ASSUME Once(touched'), NEW x \in ThreadRecord
      PROVE  /\ Has(reviewInstant.threads, x) =>
                   \/ Has(firstReading.nodes, x)
                   \/ touched'[x.id] >= 1 /\ Has(threads', x)
             /\ Has(firstReading.nodes, x) =>
                   \/ Has(reviewInstant.threads, x)
                   \/ touched'[x.id] >= 1 /\ ~Has(threads', x)
  <2>1. x.id \in Thread /\ touched[x.id] \in Nat /\ touched'[x.id] <= 1
    BY <1>2 DEF ThreadRecord, ReviewType, Once
  <2>2. /\ Has(reviewInstant.threads, x) =>
                \/ Has(firstReading.nodes, x)
                \/ touched[x.id] >= 1 /\ Has(threads, x)
        /\ Has(firstReading.nodes, x) =>
                \/ Has(reviewInstant.threads, x)
                \/ touched[x.id] >= 1 /\ ~Has(threads, x)
    BY <1>2, OnceWasOnce DEF BetweenReadings
  <2>3. CASE x.id = id
    <3>1. touched'[x.id] = touched[x.id] + 1
      BY <2>3, MoveAndTouch
    <3>2. ~(touched[x.id] >= 1)
      BY <2>1, <3>1
    <3>3. QED
      BY <2>2, <3>2
  <2>4. CASE x.id # id
    BY <2>2, <2>4, MoveAndTouch
  <2>5. QED
    BY <2>3, <2>4
<1>3. QED
  BY <1>0, <1>1, <1>2 DEF BetweenReadings

LEMMA MoveKeepsSecondPages ==
  ASSUME ReviewType, ReadingReview, NEW id \in Thread, MovesThread(id), SecondPages
  PROVE  SecondPages'
<1>0. UNCHANGED <<reading, firstReading, reviewInstant, attempts>>
  BY DEF MovesThread, ChangesThread
<1>1. InstantOrder'
  BY <1>0, OnceWasOnce DEF SecondPages, InstantOrder
<1>2. NodesWereThere'
  BY MoveKeepsNodes DEF SecondPages
<1>3. ASSUME Once(touched'), NEW x \in ThreadRecord
      PROVE  /\ Has(reviewInstant.threads, x) =>
                   \/ Has(firstReading.nodes, x)
                   \/ touched'[x.id] >= 1 /\ Has(threads', x) /\ WillHave(reading, threads', x)
             /\ Has(firstReading.nodes, x) =>
                   \/ Has(reviewInstant.threads, x)
                   \/ touched'[x.id] >= 1 /\ ~Has(threads', x) /\ ~Has(reading.nodes, x)
  <2>1. x.id \in Thread /\ touched[x.id] \in Nat /\ touched'[x.id] <= 1
    BY <1>3 DEF ThreadRecord, ReviewType, Once
  <2>2. /\ Has(reviewInstant.threads, x) =>
                \/ Has(firstReading.nodes, x)
                \/ touched[x.id] >= 1 /\ Has(threads, x) /\ WillHave(reading, threads, x)
        /\ Has(firstReading.nodes, x) =>
                \/ Has(reviewInstant.threads, x)
                \/ touched[x.id] >= 1 /\ ~Has(threads, x) /\ ~Has(reading.nodes, x)
    BY <1>3, OnceWasOnce DEF SecondPages
  <2>3. CASE x.id = id
    <3>1. touched'[x.id] = touched[x.id] + 1
      BY <2>3, MoveAndTouch
    <3>2. ~(touched[x.id] >= 1)
      BY <2>1, <3>1
    <3>3. QED
      BY <2>2, <3>2
  <2>4. CASE x.id # id
    <3>1. touched'[x.id] = touched[x.id] /\ (Has(threads, x) <=> Has(threads', x))
      BY <2>4, MoveAndTouch
    <3>2. WillHave(reading, threads, x) /\ Has(threads, x) => WillHave(reading, threads', x)
      BY <1>3, <3>1, MoveKeepsAhead DEF SecondPages
    <3>3. QED
      BY <2>2, <3>1, <3>2
  <2>5. QED
    BY <2>3, <2>4
<1>4. QED
  BY <1>0, <1>1, <1>2, <1>3 DEF SecondPages

LEMMA ThreadsKeepReview ==
  ASSUME ReviewInv, NEW id \in Thread, MovesThread(id)
  PROVE  ReviewInv'
<1>0. UNCHANGED <<step, seen, attempts, clock, reading, firstReading, reviewInstant>>
  BY DEF MovesThread, ChangesThread, waitVars
<1>1. ReviewType'
  <2>1. touched' \in [Thread -> Nat]
    <3>1. touched' = [touched EXCEPT ![id] = IF ReadingReview THEN touched[id] + 1 ELSE 0]
      BY DEF MovesThread, ChangesThread
    <3>2. touched \in [Thread -> Nat] /\ id \in Thread
      BY DEF MovesThread, ReviewInv, ReviewType
    <3>3. QED
      BY <3>1, <3>2
  <2>2. ThreadList(threads')
    BY DEF MovesThread
  <2>3. QED
    BY <1>0, <2>1, <2>2 DEF ReviewInv, ReviewType, IsReading
<1>2. CensusWasTrue' /\ TerminalIsLatest'
  BY <1>0 DEF ReviewInv, CensusWasTrue, TerminalIsLatest
<1>3. CASE step = "pages"
  BY <1>0, <1>1, <1>2, <1>3, MoveKeepsFirstPages DEF ReviewInv, ReadingReview
<1>4. CASE step = "observe again"
  BY <1>0, <1>1, <1>2, <1>4, MoveKeepsBetween DEF ReviewInv, ReadingReview
<1>5. CASE step = "pages again"
  BY <1>0, <1>1, <1>2, <1>5, MoveKeepsSecondPages DEF ReviewInv, ReadingReview
<1>6. QED
  BY <1>0, <1>1, <1>2, <1>3, <1>4, <1>5 DEF ReviewInv

-----------------------------------------------------------------------------
\* Evidence: what happens, happens later than all that was read.
LEMMA EvidenceMoves ==
  ASSUME ReviewType, GitHubEvidence
  PROVE  /\ clock' \in Nat \ {0}
         /\ \A evidence : Past(evidence, clock) => Past(evidence, clock')
         /\ Past(attempts', clock')
         /\ attempts' = attempts \/ \A old : Past(old, clock) => Moved(old, attempts')
         /\ UNCHANGED <<waitVars, threads, reading, firstReading, reviewInstant, touched>>
<1>0. /\ clock' = clock + 1 /\ clock \in Nat \ {0}
      /\ UNCHANGED <<waitVars, threads, reading, firstReading, reviewInstant, touched>>
  BY DEF GitHubEvidence, StartCheck, EndCheckRun, SubmitReview, EditReview, TimePasses, Happens,
     ReviewType
<1>1. \A evidence : Past(evidence, clock) => Past(evidence, clock')
  BY <1>0 DEF Past, AttemptRecord
<1>2. ASSUME NEW new \in AttemptRecord, new.start = clock \/ new.end = clock,
             new.start <= clock, new.end <= clock, new.ok => new.end # Running0,
             NEW rest \in SUBSET attempts, attempts' = rest \cup {new}
      PROVE  /\ Past(attempts', clock')
             /\ \A old : Past(old, clock) => Moved(old, attempts')
  <2>1. Past(attempts, clock)
    BY DEF ReviewType
  <2>2. new.start \in Nat /\ new.end \in Nat
    BY DEF AttemptRecord
  <2>3. new.start < clock' /\ new.end < clock'
    BY <1>0, <1>2, <2>2
  <2>4. Past(rest, clock')
    <3>1. Past(attempts, clock')
      BY <1>1, <2>1
    <3>2. QED
      BY <3>1 DEF Past
  <2>5. Past(attempts', clock')
    BY <1>2, <2>3, <2>4 DEF Past
  <2>6. ASSUME NEW old, Past(old, clock)
        PROVE  Moved(old, attempts')
    <3>1. NewerThan(old, new.start) \/ NewerThan(old, new.end)
      BY <1>2, <2>6 DEF Past, NewerThan
    <3>2. QED
      BY <1>2, <3>1 DEF Moved
  <2>7. QED
    BY <2>5, <2>6
<1>3. \A g \in {"check", "review"}, s \in Nat, e \in Nat, ok \in BOOLEAN :
          Attempt(g, s, e, ok) \in AttemptRecord
  BY DEF Attempt, AttemptRecord
<1>4. \A g, s, e, ok : /\ Attempt(g, s, e, ok).start = s
                       /\ Attempt(g, s, e, ok).end = e
  BY DEF Attempt
<1>5. \A g, s, e : \A ok \in BOOLEAN : Attempt(g, s, e, ok).ok = ok
  BY Zenon DEF Attempt
<1>6. CASE StartCheck
  <2>1. PICK ok \in BOOLEAN :
           ~ok /\ attempts' = attempts \cup {Attempt("check", clock, Running0, ok)}
    BY <1>6 DEF StartCheck, Happens
  <2> DEFINE new == Attempt("check", clock, Running0, ok)
  <2>2. Running0 \in Nat /\ clock \in Nat /\ Running0 <= clock
    BY <1>0 DEF Running0
  <2>3. new \in AttemptRecord /\ new.start = clock /\ new.end = Running0
    BY <1>3, <1>4, <2>2
  <2>4. ~new.ok
    BY <1>5, <2>1
  <2>5. attempts' = attempts \cup {new}
    BY <2>1
  <2> HIDE DEF new
  <2>6. new.start <= clock /\ new.end <= clock
    BY <2>2, <2>3
  <2>7. Past(attempts', clock') /\ \A old : Past(old, clock) => Moved(old, attempts')
    BY <1>2, <2>3, <2>4, <2>5, <2>6
  <2>8. QED
    BY <1>0, <1>1, <2>7
<1>7. CASE EndCheckRun
  <2>1. PICK a \in attempts, ok \in BOOLEAN :
           attempts' = (attempts \ {a}) \cup {Attempt("check", a.start, clock, ok)}
    BY <1>7 DEF EndCheckRun, Happens
  <2> DEFINE new == Attempt("check", a.start, clock, ok)
  <2>2. a.start \in Nat /\ a.start < clock
    BY DEF ReviewType, Past, AttemptRecord
  <2>3. new \in AttemptRecord /\ new.start = a.start /\ new.end = clock
    BY <1>0, <1>3, <1>4, <2>2
  <2>4. attempts' = (attempts \ {a}) \cup {new}
    BY <2>1
  <2> HIDE DEF new
  <2>5. new.start <= clock /\ new.end <= clock /\ new.end # Running0
    BY <1>0, <2>2, <2>3 DEF Running0
  <2>6. PICK rest \in SUBSET attempts : attempts' = rest \cup {new}
    BY <2>4
  <2>7. Past(attempts', clock') /\ \A old : Past(old, clock) => Moved(old, attempts')
    BY <1>2, <2>3, <2>5, <2>6
  <2>8. QED
    BY <1>0, <1>1, <2>7
<1>8. CASE SubmitReview
  <2>1. PICK ok \in BOOLEAN : attempts' = attempts \cup {Attempt("review", clock, clock, ok)}
    BY <1>8 DEF SubmitReview, Happens
  <2> DEFINE new == Attempt("review", clock, clock, ok)
  <2>2. new \in AttemptRecord /\ new.start = clock /\ new.end = clock
    BY <1>0, <1>3, <1>4
  <2>3. attempts' = attempts \cup {new}
    BY <2>1
  <2> HIDE DEF new
  <2>4. new.end # Running0 /\ new.start <= clock /\ new.end <= clock
    BY <1>0, <2>2 DEF Running0
  <2>5. PICK rest \in SUBSET attempts : attempts' = rest \cup {new}
    BY <2>3
  <2>6. Past(attempts', clock') /\ \A old : Past(old, clock) => Moved(old, attempts')
    BY <1>2, <2>2, <2>4, <2>5
  <2>7. QED
    BY <1>0, <1>1, <2>6
<1>9. CASE EditReview
  <2>1. PICK a \in attempts, ok \in BOOLEAN :
           attempts' = (attempts \ {a}) \cup {Attempt("review", clock, clock, ok)}
    BY <1>9 DEF EditReview, Happens
  <2> DEFINE new == Attempt("review", clock, clock, ok)
  <2>2. new \in AttemptRecord /\ new.start = clock /\ new.end = clock
    BY <1>0, <1>3, <1>4
  <2>3. attempts' = (attempts \ {a}) \cup {new}
    BY <2>1
  <2> HIDE DEF new
  <2>4. new.end # Running0 /\ new.start <= clock /\ new.end <= clock
    BY <1>0, <2>2 DEF Running0
  <2>5. PICK rest \in SUBSET attempts : attempts' = rest \cup {new}
    BY <2>3
  <2>6. Past(attempts', clock') /\ \A old : Past(old, clock) => Moved(old, attempts')
    BY <1>2, <2>2, <2>4, <2>5
  <2>7. QED
    BY <1>0, <1>1, <2>6
<1>10. CASE TimePasses
  <2>1. attempts' = attempts /\ Past(attempts, clock)
    BY <1>10 DEF TimePasses, Happens, ReviewType
  <2>2. QED
    BY <1>0, <1>1, <2>1
<1>11. QED
  BY <1>6, <1>7, <1>8, <1>9, <1>10 DEF GitHubEvidence

LEMMA EvidenceKeepsReview ==
  ASSUME ReviewInv, GitHubEvidence
  PROVE  ReviewInv'
<1>1. /\ clock' \in Nat \ {0}
      /\ \A evidence : Past(evidence, clock) => Past(evidence, clock')
      /\ Past(attempts', clock')
      /\ attempts' = attempts \/ \A old : Past(old, clock) => Moved(old, attempts')
  BY EvidenceMoves DEF ReviewInv
<1>2. UNCHANGED <<step, seen, threads, reading, firstReading, reviewInstant, touched>>
  BY EvidenceMoves DEF ReviewInv, waitVars
<1>3. ReviewType'
  <2>1. ReviewType
    BY DEF ReviewInv
  <2>2. IsReading(reading)' /\ IsReading(firstReading)'
    BY <1>1, <1>2, <2>1 DEF ReviewType, IsReading
  <2>3. QED
    BY <1>1, <1>2, <2>1, <2>2 DEF ReviewType
<1>4. Past(reading.evidence, clock) /\ Past(firstReading.evidence, clock)
  BY DEF ReviewInv, ReviewType, IsReading
<1>5. step = "pages" => FirstPages'
  BY <1>1, <1>2, <1>4 DEF ReviewInv, FirstPages, NodesWereThere
<1>6. step = "observe again" => BetweenReadings'
  BY <1>1, <1>2, <1>4 DEF ReviewInv, BetweenReadings, InstantOrder
<1>7. step = "pages again" => SecondPages'
  BY <1>2 DEF ReviewInv, SecondPages, NodesWereThere, InstantOrder
<1>8. CensusWasTrue' /\ TerminalIsLatest'
  BY <1>2 DEF ReviewInv, CensusWasTrue, TerminalIsLatest
<1>9. QED
  BY <1>2, <1>3, <1>5, <1>6, <1>7, <1>8 DEF ReviewInv

-----------------------------------------------------------------------------
\* The steps of the reading itself.
LEMMA FirstPageIs ==
  ASSUME ThreadList(threads)
  PROVE  /\ FirstPage(threads) \in Seq(ThreadRecord)
         /\ \A i \in DOMAIN FirstPage(threads) : i = 1 /\ threads # <<>>
         /\ threads # <<>> => /\ Len(FirstPage(threads)) = 1 /\ FirstPage(threads)[1] = threads[1]
                              /\ 1 \in DOMAIN threads /\ 1 \in DOMAIN FirstPage(threads)
         /\ Len(threads) > 1 => threads # <<>>
         /\ \A x \in ThreadRecord : Has(FirstPage(threads), x) => Has(threads, x)
<1>1. threads \in Seq(ThreadRecord)
  BY DEF ThreadList
<1>2. CASE threads = <<>>
  BY <1>2 DEF FirstPage, Has
<1>3. CASE threads # <<>>
  <2>1. 1 \in DOMAIN threads /\ threads[1] \in ThreadRecord
    BY <1>1, <1>3
  <2>2. FirstPage(threads) = <<threads[1]>>
    BY <1>3 DEF FirstPage
  <2>3. QED
    BY <1>3, <2>1, <2>2 DEF Has
<1>4. QED
  BY <1>2, <1>3

LEMMA FirstPageWillHaveAll ==
  ASSUME ThreadList(threads), NEW r, r.nodes = FirstPage(threads), Len(threads) > 1 => r.more,
         NEW x, Has(threads, x)
  PROVE  WillHave(r, threads, x)
<1>1. PICK i \in DOMAIN threads : threads[i] = x
  BY DEF Has
<1>2. threads \in Seq(ThreadRecord) /\ threads # <<>> /\ i \in 1..Len(threads)
  BY <1>1 DEF ThreadList
<1>3. Len(r.nodes) = 1 /\ r.nodes[1] = threads[1] /\ 1 \in DOMAIN threads /\ 1 \in DOMAIN r.nodes
  BY <1>2, FirstPageIs
<1>4. CASE i = 1
  BY <1>1, <1>3, <1>4 DEF WillHave, Has
<1>5. CASE i # 1
  <2>1. r.more
    BY <1>2, <1>5
  <2>2. \A k \in DOMAIN threads : threads[k].id = threads[1].id => k < i
    BY <1>2, <1>3, <1>5 DEF ThreadList
  <2>3. QED
    BY <1>1, <1>3, <2>1, <2>2 DEF WillHave, Ahead, Cursor
<1>6. QED
  BY <1>4, <1>5

LEMMA ReadFirstPageKeeps ==
  ASSUME ReviewInv, ReadFirstPage
  PROVE  ReviewInv'
<1>0. /\ UNCHANGED <<threads, attempts, clock, firstReading, reviewInstant, seen>>
      /\ step \in {"observe", "observe again"}
      /\ step' = IF step = "observe" THEN "pages" ELSE "pages again"
      /\ touched' = IF step = "observe" THEN Untouched ELSE touched
  BY DEF ReadFirstPage, Goes, reviewWorld
<1>1. /\ {"nodes", "more", "evidence"} \subseteq DOMAIN reading'
      /\ reading'.nodes = FirstPage(threads)
      /\ reading'.evidence = attempts
  BY DEF ReadFirstPage
<1>2. reading'.more <=> Len(threads) > 1
  BY Zenon DEF ReadFirstPage
<1>3. ReviewType /\ ThreadList(threads)
  BY DEF ReviewInv, ReviewType
<1>4. ReviewType'
  <2>1. IsReading(reading)'
    <3>1. reading'.nodes \in Seq(ThreadRecord) /\ (reading'.more => reading'.nodes # <<>>)
      BY <1>1, <1>2, <1>3, FirstPageIs
    <3>2. Past(reading'.evidence, clock')
      BY <1>0, <1>1, <1>3 DEF ReviewType
    <3>3. QED
      BY <1>1, <3>1, <3>2 DEF IsReading
  <2>2. touched' \in [Thread -> Nat]
    BY <1>0, <1>3 DEF ReviewType, Untouched
  <2>3. IsReading(firstReading)'
    BY <1>0, <1>3 DEF IsReading, ReviewType
  <2>4. QED
    BY <1>0, <1>3, <2>1, <2>2, <2>3 DEF ReviewType
<1>5. NodesWereThere'
  BY <1>0, <1>1, <1>3, FirstPageIs DEF NodesWereThere
<1>6. \A x : Has(threads, x) => WillHave(reading', threads, x)
  BY <1>1, <1>2, <1>3, FirstPageWillHaveAll
<1>7. CensusWasTrue' /\ TerminalIsLatest'
  BY <1>0 DEF ReviewInv, CensusWasTrue, TerminalIsLatest
<1>8. CASE step = "observe"
  <2>1. InOrder(reading'.nodes, threads)
    BY <1>1, <1>3, FirstPageIs DEF InOrder
  <2>2. FirstPages'
    BY <1>0, <1>1, <1>5, <1>6, <2>1 DEF FirstPages
  <2>3. QED
    BY <1>0, <1>4, <1>7, <1>8, <2>2 DEF ReviewInv
<1>9. CASE step = "observe again"
  <2>1. BetweenReadings /\ touched' = touched
    BY <1>0, <1>9 DEF ReviewInv
  <2>2. InstantOrder'
    BY <1>0, <2>1 DEF BetweenReadings, InstantOrder
  <2>3. \A x \in ThreadRecord : Has(reading'.nodes, x) => Has(threads, x)
    BY <1>1, <1>3, FirstPageIs
  <2>4. SecondPages'
    BY <1>0, <1>1, <1>5, <1>6, <2>1, <2>2, <2>3 DEF SecondPages, BetweenReadings
  <2>5. QED
    BY <1>0, <1>4, <1>7, <1>9, <2>4 DEF ReviewInv
<1>10. QED
  BY <1>0, <1>8, <1>9

\* What is left to read, in the list as it is.
Rest == After(Cursor(reading))

LEMMA NextPageIs ==
  ASSUME ReviewType, ReadNextPage
  PROVE  /\ {"nodes", "more", "evidence"} \subseteq DOMAIN reading'
         /\ reading'.evidence = reading.evidence
         /\ reading'.nodes \in Seq(ThreadRecord)
         /\ Len(reading'.nodes) >= Len(reading.nodes)
         /\ \A i \in DOMAIN reading.nodes : reading'.nodes[i] = reading.nodes[i]
         /\ \/ Rest = {} /\ Len(reading'.nodes) = Len(reading.nodes)
            \/ \E n \in Rest :
                  /\ \A k \in Rest : n <= k
                  /\ Len(reading'.nodes) = Len(reading.nodes) + 1
                  /\ reading'.nodes[Len(reading.nodes) + 1] = threads[n]
                  /\ \A i \in Rest : i # n => reading'.more
<1> DEFINE next == {i \in Rest : \A k \in Rest : i <= k}
           first == CHOOSE i \in next : TRUE
           page == [k \in 1..Cardinality(next) |-> threads[first]]
<1>1. IsReading(reading) /\ ThreadList(threads)
  BY DEF ReviewType
<1>2. reading' = [reading EXCEPT !.nodes = reading.nodes \o page, !.more = Cardinality(Rest) > 1]
  BY DEF ReadNextPage, Cursor, Rest
<1>3. /\ {"nodes", "more", "evidence"} \subseteq DOMAIN reading
      /\ reading.nodes \in Seq(ThreadRecord)
  BY <1>1 DEF IsReading
<1> HIDE DEF page
<1>4. /\ {"nodes", "more", "evidence"} \subseteq DOMAIN reading'
      /\ reading'.nodes = reading.nodes \o page
      /\ reading'.evidence = reading.evidence
  BY <1>2, <1>3
<1>5. reading'.more <=> Cardinality(Rest) > 1
  BY <1>2, <1>3, Zenon
<1>6. /\ threads \in Seq(ThreadRecord) /\ Rest \subseteq 1..Len(threads)
      /\ Len(threads) \in Nat
  BY <1>1 DEF After, ThreadList, Rest
<1>7. CASE Rest = {}
  <2>1. Cardinality(next) = 0
    BY <1>7, FS_EmptySet
  <2>2. page \in Seq(ThreadRecord) /\ Len(page) = 0
    BY <2>1 DEF page
  <2>3. reading.nodes \in Seq(ThreadRecord) /\ page \in Seq(ThreadRecord)
    BY <1>3, <2>2
  <2>4. /\ reading'.nodes \in Seq(ThreadRecord)
        /\ Len(reading'.nodes) = Len(reading.nodes) + Len(page)
        /\ \A i \in 1..Len(reading.nodes) : reading'.nodes[i] = reading.nodes[i]
    BY <1>4, <2>3, JoinedIs
  <2>5. QED
    BY <1>3, <1>4, <1>7, <2>2, <2>4
<1>8. CASE Rest # {}
  <2>1. PICK n \in Rest : \A k \in Rest : n <= k
    <3>1. Rest \subseteq Nat
      BY <1>6
    <3>2. QED
      BY <1>8, <3>1, LeastNumber
  <2>2. next = {n}
    <3>1. \A k \in Rest : k \in Nat
      BY <1>6
    <3>2. QED
      BY <2>1, <3>1
  <2>3. Cardinality(next) = 1 /\ first = n
    BY <2>2, FS_Singleton
  <2> HIDE DEF first, next
  <2>4. threads[n] \in ThreadRecord
    BY <1>6, <2>1
  <2>5. page \in Seq(ThreadRecord) /\ Len(page) = 1 /\ page[1] = threads[n]
    <3>1. page = [k \in 1..1 |-> threads[n]]
      BY <2>3 DEF page
    <3>2. QED
      BY <2>4, <3>1
  <2>6. ASSUME NEW i \in Rest, i # n PROVE reading'.more
    <3>1. IsFiniteSet(Rest)
      <4>1. IsFiniteSet(1..Len(threads))
        BY <1>6, FS_Interval
      <4>2. QED
        BY <1>6, <4>1, FS_Subset
    <3>2. Cardinality({n, i}) = 2
      <4>1. IsFiniteSet({n}) /\ Cardinality({n}) = 1
        BY FS_Singleton
      <4>2. Cardinality({n} \cup {i}) = 2
        BY <2>6, <4>1, FS_AddElement
      <4>3. {n} \cup {i} = {n, i}
        OBVIOUS
      <4>4. QED
        BY <4>2, <4>3
    <3>3. Cardinality({n, i}) <= Cardinality(Rest) /\ Cardinality(Rest) \in Nat
      BY <2>1, <2>6, <3>1, FS_Subset, FS_CardinalityType
    <3>4. QED
      BY <1>5, <3>2, <3>3
  <2>7. /\ reading'.nodes \in Seq(ThreadRecord)
        /\ Len(reading'.nodes) = Len(reading.nodes) + 1
        /\ \A i \in 1..Len(reading.nodes) : reading'.nodes[i] = reading.nodes[i]
    <3>1. reading.nodes \in Seq(ThreadRecord) /\ page \in Seq(ThreadRecord)
      BY <1>3, <2>5
    <3>2. /\ reading'.nodes \in Seq(ThreadRecord)
          /\ Len(reading'.nodes) = Len(reading.nodes) + Len(page)
          /\ \A i \in 1..Len(reading.nodes) : reading'.nodes[i] = reading.nodes[i]
      BY <1>4, <3>1, JoinedIs
    <3>3. QED
      BY <2>5, <3>2
  <2>8. reading'.nodes[Len(reading.nodes) + 1] = threads[n]
    <3>1. (reading.nodes \o page)[Len(reading.nodes) + 1] = page[1]
      <4>1. reading.nodes \in Seq(ThreadRecord) /\ page \in Seq(ThreadRecord) /\ 1 \in 1..Len(page)
        BY <1>3, <2>5
      <4>2. QED
        BY <4>1, JoinedIs
    <3>2. QED
      BY <1>4, <2>5, <3>1
  <2>9. QED
    BY <1>3, <1>4, <2>1, <2>6, <2>7, <2>8
<1>9. QED
  BY <1>7, <1>8

LEMMA NextPageAdds ==
  ASSUME ReviewType, ReadNextPage
  PROVE  /\ IsReading(reading)'
         /\ reading'.evidence = reading.evidence
         /\ \A x \in ThreadRecord :
               /\ Has(reading.nodes, x) => Has(reading'.nodes, x)
               /\ Has(reading'.nodes, x) => Has(reading.nodes, x) \/ Has(threads, x)
               /\ Has(threads, x) /\ WillHave(reading, threads, x) =>
                     WillHave(reading', threads, x)
         /\ AllIn(reading'.nodes, threads) => AllIn(reading.nodes, threads)
         /\ AllIn(reading'.nodes, threads) /\ InOrder(reading.nodes, threads) =>
               InOrder(reading'.nodes, threads)
<1> DEFINE m == Len(reading.nodes)
<1>0. /\ IsReading(reading) /\ ThreadList(threads) /\ threads \in Seq(ThreadRecord)
      /\ reading.nodes \in Seq(ThreadRecord) /\ m \in Nat /\ DOMAIN reading.nodes = 1..m
  BY DEF ReviewType, ThreadList, IsReading
<1>1. /\ {"nodes", "more", "evidence"} \subseteq DOMAIN reading'
      /\ reading'.evidence = reading.evidence
      /\ reading'.nodes \in Seq(ThreadRecord)
      /\ Len(reading'.nodes) >= m
      /\ \A i \in 1..m : reading'.nodes[i] = reading.nodes[i]
      /\ \/ Rest = {} /\ Len(reading'.nodes) = m
         \/ \E n \in Rest :
               /\ \A k \in Rest : n <= k
               /\ Len(reading'.nodes) = m + 1
               /\ reading'.nodes[m + 1] = threads[n]
               /\ \A i \in Rest : i # n => reading'.more
  BY <1>0, NextPageIs
<1>2. /\ reading.more /\ reading.nodes # <<>> /\ UNCHANGED <<clock, threads>>
  BY <1>0 DEF ReadNextPage, IsReading, reviewWorld
<1>3. m \in DOMAIN reading.nodes /\ m >= 1
  BY <1>0, <1>2
<1>4. Rest = {i \in DOMAIN threads : \A k \in DOMAIN threads : threads[k].id = Cursor(reading) => k < i}
  BY DEF After, Rest
<1>5. Cursor(reading) = reading.nodes[m].id
  BY DEF Cursor
<1>6. Len(reading'.nodes) \in Nat /\ DOMAIN reading'.nodes = 1..Len(reading'.nodes)
  BY <1>1
<1> HIDE DEF m
<1>7. IsReading(reading)'
  <2>1. Past(reading.evidence, clock)
    BY <1>0 DEF IsReading
  <2>2. reading'.nodes # <<>>
    BY <1>1, <1>0, <1>3
  <2>3. QED
    BY <1>1, <1>2, <2>1, <2>2 DEF IsReading
<1>8. ASSUME NEW x \in ThreadRecord, Has(reading.nodes, x)
      PROVE  Has(reading'.nodes, x)
  BY <1>0, <1>1, <1>6, <1>8 DEF Has
<1>9. ASSUME NEW x \in ThreadRecord, Has(reading'.nodes, x)
      PROVE  Has(reading.nodes, x) \/ Has(threads, x)
  <2>1. PICK i \in 1..Len(reading'.nodes) : reading'.nodes[i] = x
    BY <1>6, <1>9 DEF Has
  <2>2. CASE i <= m
    BY <1>0, <1>1, <2>1, <2>2 DEF Has
  <2>3. CASE i > m
    <3>1. i = m + 1 /\ \E n \in Rest : reading'.nodes[m + 1] = threads[n]
      BY <1>0, <1>1, <1>6, <2>1, <2>3
    <3>2. QED
      BY <1>4, <2>1, <3>1 DEF Has
  <2>4. QED
    BY <1>0, <2>1, <2>2, <2>3
<1>10. ASSUME NEW x \in ThreadRecord, Has(threads, x), WillHave(reading, threads, x)
       PROVE  WillHave(reading', threads, x)
  <2>1. CASE Has(reading.nodes, x)
    BY <1>8, <2>1 DEF WillHave
  <2>2. CASE Ahead(reading, threads, x)
    <3>1. PICK i \in Rest : threads[i] = x
      BY <1>4, <2>2 DEF Ahead
    <3>2. PICK n \in Rest : /\ \A k \in Rest : n <= k
                            /\ Len(reading'.nodes) = m + 1
                            /\ reading'.nodes[m + 1] = threads[n]
                            /\ \A k \in Rest : k # n => reading'.more
      BY <1>1, <3>1
    <3>3. CASE i = n
      <4>1. m + 1 \in DOMAIN reading'.nodes
        BY <1>0, <1>6, <3>2
      <4>2. QED
        BY <3>1, <3>2, <3>3, <4>1 DEF WillHave, Has
    <3>4. CASE i # n
      <4>1. reading'.more /\ Cursor(reading') = threads[n].id
        BY <3>2, <3>4 DEF Cursor
      <4>2. \A k \in DOMAIN threads : threads[k].id = threads[n].id => k = n
        BY <1>0, <1>4, <3>2 DEF ThreadList
      <4>3. n < i /\ i \in DOMAIN threads
        <5>1. n \in Nat /\ i \in Nat /\ i \in DOMAIN threads
          BY <1>0, <1>4, <3>1, <3>2
        <5>2. QED
          BY <3>1, <3>2, <3>4, <5>1
      <4>4. QED
        BY <3>1, <4>1, <4>2, <4>3 DEF WillHave, Ahead
    <3>5. QED
      BY <3>3, <3>4
  <2>3. QED
    BY <1>10, <2>1, <2>2 DEF WillHave
<1>11. ASSUME AllIn(reading'.nodes, threads)
       PROVE  AllIn(reading.nodes, threads)
  <2>1. SUFFICES ASSUME NEW i \in 1..m PROVE Has(threads, reading.nodes[i])
    BY <1>0 DEF AllIn
  <2>2. i \in DOMAIN reading'.nodes /\ reading'.nodes[i] = reading.nodes[i]
    BY <1>0, <1>1, <1>6
  <2>3. QED
    BY <1>11, <2>2 DEF AllIn
<1>12. ASSUME AllIn(reading'.nodes, threads), InOrder(reading.nodes, threads)
       PROVE  InOrder(reading'.nodes, threads)
  <2>1. SUFFICES ASSUME NEW i \in 1..Len(reading'.nodes), NEW j \in 1..Len(reading'.nodes), i < j
                 PROVE  Precedes(threads, reading'.nodes[i].id, reading'.nodes[j].id)
    BY <1>6 DEF InOrder
  <2>2. CASE j <= m
    <3>1. i \in 1..m /\ j \in 1..m
      BY <1>0, <2>1, <2>2
    <3>2. Precedes(threads, reading.nodes[i].id, reading.nodes[j].id)
      BY <1>0, <1>12, <2>1, <3>1 DEF InOrder
    <3>3. QED
      BY <1>1, <3>1, <3>2
  <2>3. CASE j > m
    <3>1. PICK n \in Rest : Len(reading'.nodes) = m + 1 /\ reading'.nodes[m + 1] = threads[n]
      BY <1>0, <1>1, <1>6, <2>1, <2>3
    <3>2. j = m + 1 /\ i \in 1..m /\ n \in DOMAIN threads
      BY <1>0, <1>4, <1>6, <2>1, <2>3, <3>1
    <3>3. \A k \in DOMAIN threads : threads[k].id = reading.nodes[m].id => k < n
      BY <1>4, <1>5, <3>1
    <3>4. \E p \in DOMAIN threads : p < n /\ threads[p].id = reading.nodes[i].id
      <4>1. CASE i = m
        <5>1. Has(threads, reading.nodes[m])
          BY <1>0, <1>3, <1>11, <1>12 DEF AllIn
        <5>2. QED
          BY <3>3, <4>1, <5>1 DEF Has
      <4>2. CASE i # m
        <5>1. i < m
          BY <1>0, <3>2, <4>2
        <5>2. Precedes(threads, reading.nodes[i].id, reading.nodes[m].id)
          BY <1>0, <1>3, <1>12, <3>2, <5>1 DEF InOrder
        <5>3. PICK p \in DOMAIN threads, q \in DOMAIN threads :
                 p < q /\ threads[p].id = reading.nodes[i].id /\ threads[q].id = reading.nodes[m].id
          BY <5>2 DEF Precedes
        <5>4. q < n
          BY <3>3, <5>3
        <5>5. p \in Nat /\ q \in Nat /\ n \in Nat
          BY <1>0, <3>2, <5>3
        <5>6. QED
          BY <5>3, <5>4, <5>5
      <4>3. QED
        BY <4>1, <4>2
    <3>5. reading'.nodes[i] = reading.nodes[i]
      BY <1>1, <3>2
    <3>6. QED
      BY <3>1, <3>2, <3>4, <3>5 DEF Precedes
  <2>4. QED
    BY <1>0, <2>1, <2>2, <2>3
<1>13. QED
  BY <1>1, <1>7, <1>8, <1>9, <1>10, <1>11, <1>12

LEMMA ReadNextPageKeeps ==
  ASSUME ReviewInv, ReadNextPage
  PROVE  ReviewInv'
<1>0. /\ UNCHANGED <<threads, attempts, clock, firstReading, reviewInstant, seen, touched>>
      /\ step \in {"pages", "pages again"} /\ step' = step
  BY DEF ReadNextPage, Goes, reviewWorld
<1>1. ReviewType
  BY DEF ReviewInv
<1>2. /\ IsReading(reading)'
      /\ reading'.evidence = reading.evidence
      /\ \A x \in ThreadRecord :
            /\ Has(reading.nodes, x) => Has(reading'.nodes, x)
            /\ Has(reading'.nodes, x) => Has(reading.nodes, x) \/ Has(threads, x)
            /\ Has(threads, x) /\ WillHave(reading, threads, x) => WillHave(reading', threads, x)
      /\ AllIn(reading'.nodes, threads) => AllIn(reading.nodes, threads)
      /\ AllIn(reading'.nodes, threads) /\ InOrder(reading.nodes, threads) =>
            InOrder(reading'.nodes, threads)
  BY <1>1, NextPageAdds
<1>3. ReviewType'
  <2>1. IsReading(firstReading)'
    BY <1>0, <1>1 DEF ReviewType, IsReading
  <2>2. QED
    BY <1>0, <1>1, <1>2, <2>1 DEF ReviewType
<1>4. NodesWereThere => NodesWereThere'
  BY <1>0, <1>2 DEF NodesWereThere
<1>5. CensusWasTrue' /\ TerminalIsLatest'
  BY <1>0 DEF ReviewInv, CensusWasTrue, TerminalIsLatest
<1>6. CASE step = "pages"
  <2>1. FirstPages
    BY <1>6 DEF ReviewInv
  <2>2. FirstPages'
    BY <1>0, <1>2, <1>4, <2>1 DEF FirstPages
  <2>3. QED
    BY <1>0, <1>3, <1>5, <1>6, <2>2 DEF ReviewInv
<1>7. CASE step = "pages again"
  <2>1. SecondPages
    BY <1>7 DEF ReviewInv
  <2>2. InstantOrder'
    BY <1>0, <2>1 DEF SecondPages, InstantOrder
  <2>3. SecondPages'
    BY <1>0, <1>2, <1>4, <2>1, <2>2 DEF SecondPages
  <2>4. QED
    BY <1>0, <1>3, <1>5, <1>7, <2>3 DEF ReviewInv
<1>8. QED
  BY <1>0, <1>6, <1>7

LEMMA NoReadingIs ==
  ASSUME clock \in Nat
  PROVE  IsReading(NoReading) /\ ThreadList(NoCensus.threads)
         /\ NoCensus = [threads |-> NoCensus.threads, evidence |-> NoCensus.evidence]
<1>1. ~NoReading.more
  BY Zenon DEF NoReading
<1>2. /\ NoReading.nodes = <<>> /\ NoReading.evidence = {}
      /\ {"nodes", "more", "evidence"} \subseteq DOMAIN NoReading
  BY DEF NoReading
<1>3. IsReading(NoReading)
  BY <1>1, <1>2 DEF IsReading, Past
<1>4. QED
  BY <1>3 DEF NoCensus, ThreadList

LEMMA EndFirstReadingKeeps ==
  ASSUME ReviewInv, EndFirstReading
  PROVE  ReviewInv'
<1>0. /\ UNCHANGED <<threads, attempts, clock, touched, seen>>
      /\ step = "pages" /\ step' = "observe again"
      /\ firstReading' = reading /\ reading' = NoReading
      /\ reviewInstant' = [threads |-> threads, evidence |-> attempts]
      /\ ~reading.more
  BY DEF EndFirstReading, Goes, Complete, reviewWorld
<1>1. ReviewType /\ FirstPages
  BY <1>0 DEF ReviewInv
<1>2. ReviewType'
  <2>1. IsReading(firstReading)'
    BY <1>0, <1>1 DEF ReviewType, IsReading
  <2>2. IsReading(reading)'
    BY <1>0, <1>1, NoReadingIs DEF ReviewType, IsReading
  <2>3. QED
    BY <1>0, <1>1, <2>1, <2>2 DEF ReviewType
<1>3. InstantOrder'
  BY <1>0, <1>1 DEF FirstPages, InstantOrder
<1>4. ASSUME Once(touched), NEW x \in ThreadRecord
      PROVE  /\ Has(threads, x) => Has(reading.nodes, x) \/ touched[x.id] >= 1
             /\ Has(reading.nodes, x) => Has(threads, x) \/ touched[x.id] >= 1
  <2>1. touched[x.id] \in Nat
    BY <1>1 DEF ReviewType, ThreadRecord
  <2>2. Has(threads, x) /\ touched[x.id] = 0 => Has(reading.nodes, x)
    BY <1>0, <1>1, <1>4 DEF FirstPages, WillHave
  <2>3. Has(reading.nodes, x) => Has(threads, x) \/ touched[x.id] >= 1
    BY <1>1 DEF FirstPages, NodesWereThere
  <2>4. QED
    BY <2>1, <2>2, <2>3
<1>5. BetweenReadings'
  BY <1>0, <1>1, <1>3, <1>4 DEF FirstPages, BetweenReadings
<1>6. CensusWasTrue' /\ TerminalIsLatest'
  BY <1>0 DEF ReviewInv, CensusWasTrue, TerminalIsLatest
<1>7. QED
  BY <1>0, <1>2, <1>5, <1>6 DEF ReviewInv

\* Two equal readings, and threads touched once at most: what both have is what
\* there was at the instant between them.
LEMMA EqualReadingsAreTrue ==
  ASSUME ReviewType, SecondPages, reading = firstReading, ~reading.more, Once(touched)
  PROVE  reading.nodes = reviewInstant.threads
<1> DEFINE s == reading.nodes
           u == reviewInstant.threads
<1>1. s \in Seq(ThreadRecord) /\ ThreadList(u) /\ u \in Seq(ThreadRecord)
  BY DEF ReviewType, IsReading, ThreadList
<1>2. \A x \in ThreadRecord : Has(s, x) <=> Has(u, x)
  BY DEF SecondPages, WillHave
<1>3. AllIn(s, u) /\ AllIn(u, s)
  <2> HIDE DEF s, u
  <2>1. \A i \in DOMAIN s : s[i] \in ThreadRecord /\ Has(s, s[i])
    BY <1>1 DEF Has
  <2>2. \A i \in DOMAIN u : u[i] \in ThreadRecord /\ Has(u, u[i])
    BY <1>1 DEF Has
  <2>3. QED
    BY <1>2, <2>1, <2>2 DEF AllIn
<1>4. InOrder(s, u)
  BY <1>3 DEF SecondPages, InstantOrder
<1>5. QED
  BY <1>1, <1>3, <1>4, OneOrderOneList

LEMMA EndSecondReadingKeeps ==
  ASSUME ReviewInv, EndSecondReading
  PROVE  ReviewInv'
<1> DEFINE terminal == Classify(reading.head, reading.nodes, reading.evidence)
           census == [threads |-> reading.nodes, evidence |-> reading.evidence]
<1>0. /\ UNCHANGED <<threads, attempts, clock>>
      /\ step = "pages again" /\ step' = "write"
      /\ reading = firstReading
      /\ reading' = NoReading /\ firstReading' = NoReading
      /\ reviewInstant' = NoCensus /\ touched' = Untouched
      /\ ~reading.more
  BY DEF EndSecondReading, Observed, ForgetReadings, Complete, reviewWorld
<1>1. /\ seen'.terminal = terminal
      /\ seen'.basis = [census |-> census, instant |-> reviewInstant, touched |-> touched]
  BY DEF EndSecondReading, Observed
<1>2. ReviewType /\ SecondPages
  BY <1>0 DEF ReviewInv
<1>3. ReviewType'
  <2>1. IsReading(reading)' /\ IsReading(firstReading)'
    BY <1>0, <1>2, NoReadingIs DEF ReviewType, IsReading
  <2>2. touched' \in [Thread -> Nat]
    BY <1>0 DEF Untouched
  <2>3. QED
    BY <1>0, <1>2, <2>1, <2>2, NoReadingIs DEF ReviewType
<1>4. reading.evidence = reviewInstant.evidence
  <2>1. SUFFICES ASSUME Moved(firstReading.evidence, reading.evidence) PROVE FALSE
    BY <1>0, <1>2 DEF SecondPages
  <2>2. PICK a \in reading.evidence : NewerThan(reading.evidence, a.start) \/ NewerThan(reading.evidence, a.end)
    BY <1>0, <2>1 DEF Moved
  <2>3. a.start < a.start \/ a.end < a.end
    BY <2>2 DEF NewerThan
  <2>4. a.start \in Nat /\ a.end \in Nat
    BY <1>2 DEF ReviewType, IsReading, Past, AttemptRecord
  <2>5. QED
    BY <2>3, <2>4
<1>5. CensusWasTrue'
  <2>1. CASE Once(touched)
    <3>1. reading.nodes = reviewInstant.threads
      BY <1>0, <1>2, <2>1, EqualReadingsAreTrue
    <3>2. reviewInstant = [threads |-> reviewInstant.threads, evidence |-> reviewInstant.evidence]
      BY <1>2 DEF ReviewType
    <3>3. census = reviewInstant
      BY <1>4, <3>1, <3>2
    <3>4. seen'.basis.census = seen'.basis.instant
      BY <1>1, <3>3
    <3>5. QED
      BY <3>4 DEF CensusWasTrue
  <2>2. CASE ~Once(touched)
    <3>1. PICK t \in Thread : ~(touched[t] <= 1)
      BY <2>2 DEF Once
    <3>2. touched[t] > 1
      BY <1>2, <3>1 DEF ReviewType
    <3>3. seen'.basis.touched = touched
      BY <1>1
    <3>4. QED
      BY <3>2, <3>3 DEF CensusWasTrue
  <2>3. QED
    BY <2>1, <2>2
<1>6. TerminalIsLatest'
  <2>1. SUFFICES ASSUME terminal \in {"satisfied", "judgment-required"}
                 PROVE  TerminalIsLatest'
    BY <1>1 DEF TerminalIsLatest
  <2> DEFINE evidence == reading.evidence
             last == {a \in evidence : \A b \in evidence : b.group = a.group => b.start <= a.start}
  <2>2. TerminalEvidence(evidence)
    BY <2>1 DEF Classify
  <2>3. Past(evidence, clock) /\ clock \in Nat
    BY <1>2 DEF ReviewType, IsReading
  <2>4. /\ \A a \in last : a.end # Running0
        /\ \E a \in last : a.ok
        /\ \A b \in last : ~b.ok => \E a \in Latest(evidence) : a.ok /\ b.end < a.end
    <3> HIDE DEF evidence
    <3>1. QED
      BY <2>2, <2>3, LastAreOver
  <2>5. seen'.basis.census.evidence = evidence
    BY <1>1
  <2> HIDE DEF evidence
  <2>6. QED
    BY <2>4, <2>5 DEF TerminalIsLatest
<1>7. QED
  BY <1>0, <1>3, <1>5, <1>6 DEF ReviewInv

LEMMA JudgmentStays ==
  ASSUME CensusWasTrue, TerminalIsLatest, seen' = seen \/ seen' = NoSeen
  PROVE  CensusWasTrue' /\ TerminalIsLatest'
<1>1. CASE seen' = seen
  BY <1>1 DEF CensusWasTrue, TerminalIsLatest
<1>2. CASE seen' = NoSeen
  <2>1. seen'.terminal = "none"
    BY <1>2 DEF NoSeen
  <2>2. QED
    BY <1>2, <2>1 DEF CensusWasTrue, TerminalIsLatest
<1>3. QED
  BY <1>1, <1>2

\* Outside the reading, nothing depends on where the wait is.
LEMMA OthersKeepReview ==
  ASSUME ReviewInv, UNCHANGED reviewVars, seen' = seen \/ seen' = NoSeen,
         step' = step \/ step' \notin {"pages", "observe again", "pages again"}
  PROVE  ReviewInv'
<1>0. UNCHANGED <<threads, attempts, clock, reading, firstReading, reviewInstant, touched>>
  BY DEF reviewVars, reviewWorld
<1>1. ReviewType'
  BY <1>0 DEF ReviewInv, ReviewType, IsReading
<1>2. CensusWasTrue' /\ TerminalIsLatest'
  BY JudgmentStays DEF ReviewInv
<1>3. CASE step' \notin {"pages", "observe again", "pages again"}
  BY <1>1, <1>2, <1>3 DEF ReviewInv
<1>4. CASE step' = step
  <2>1. /\ FirstPages => FirstPages'
        /\ BetweenReadings => BetweenReadings'
        /\ SecondPages => SecondPages'
    BY <1>0 DEF FirstPages, BetweenReadings, SecondPages, NodesWereThere, InstantOrder
  <2>2. QED
    BY <1>1, <1>2, <1>4, <2>1 DEF ReviewInv
<1>5. QED
  BY <1>3, <1>4

LEMMA FailureKeepsReview ==
  ASSUME ReviewInv, ReviewReadFails
  PROVE  ReviewInv'
<1>1. /\ seen' = seen \/ seen' = NoSeen
      /\ step' \in {"idle", "sleep"}
      /\ UNCHANGED <<threads, attempts, clock>>
      /\ reading' = NoReading /\ firstReading' = NoReading
      /\ reviewInstant' = NoCensus /\ touched' = Untouched
  BY DEF ReviewReadFails, ObserveFails, ObserveRefused, Report, ForgetReadings, reviewWorld
<1>2. ReviewType
  BY DEF ReviewInv
<1>3. ReviewType'
  <2>1. IsReading(reading)' /\ IsReading(firstReading)'
    BY <1>1, <1>2, NoReadingIs DEF ReviewType, IsReading
  <2>2. touched' \in [Thread -> Nat]
    BY <1>1 DEF Untouched
  <2>3. QED
    BY <1>1, <1>2, <2>1, <2>2, NoReadingIs DEF ReviewType
<1>4. CensusWasTrue' /\ TerminalIsLatest'
  BY <1>1, JudgmentStays DEF ReviewInv
<1>5. QED
  BY <1>1, <1>3, <1>4 DEF ReviewInv

LEMMA ReviewStep ==
  ASSUME IsReview, ReviewInv, [Next]_vars
  PROVE  ReviewInv'
<1>1. CASE UNCHANGED vars
  BY <1>1, OthersKeepReview DEF vars, waitVars
<1>2. CASE Start
  <2>1. UNCHANGED reviewVars /\ seen' = seen /\ (step' = step \/ step' = "top")
    BY <1>2 DEF Start, OnlyChecks, OnlyWorkflows, OnlyStack, IsReview, StartReviewWait, StartWait
  <2>2. QED
    BY <2>1, OthersKeepReview
<1>3. CASE Loop
  <2>1. /\ seen' = seen \/ seen' = NoSeen
        /\ UNCHANGED reviewVars
        /\ step' \in {"idle", "observe", "decide", "sleep", "top"}
    BY <1>3 DEF Loop, LoopStep, Cancelled, BeginObservation, WriteObservation, ReportChange,
       ReportTerminal, ReportDeadline, ReportObservation, Sleep, Wake, Report
  <2>2. QED
    BY <2>1, OthersKeepReview
<1>4. CASE Observe
  <2>1. ReadReview \/ ReviewReadFails
    BY <1>4 DEF Observe, OnlyChecks, OnlyWorkflows, OnlyStack, IsReview
  <2>2. QED
    BY <2>1, FailureKeepsReview, ReadFirstPageKeeps, ReadNextPageKeeps, EndFirstReadingKeeps,
       EndSecondReadingKeeps DEF ReadReview
<1>5. CASE GitHub
  <2>1. GitHubThreads \/ GitHubEvidence
    BY <1>5 DEF GitHub, OnlyChecks, OnlyWorkflows, OnlyStack, IsReview
  <2>2. CASE LeaveHead
    <3>1. /\ UNCHANGED <<threads, attempts, clock, reading, firstReading, reviewInstant, touched>>
          /\ seen' = seen /\ step' = step
      BY <2>2 DEF LeaveHead, waitVars
    <3>2. ReviewType' /\ CensusWasTrue' /\ TerminalIsLatest'
      BY <3>1 DEF ReviewInv, ReviewType, IsReading, CensusWasTrue, TerminalIsLatest
    <3>3. /\ FirstPages => FirstPages'
          /\ BetweenReadings => BetweenReadings'
          /\ SecondPages => SecondPages'
      BY <3>1 DEF FirstPages, BetweenReadings, SecondPages, NodesWereThere, InstantOrder
    <3>4. QED
      BY <3>1, <3>2, <3>3 DEF ReviewInv
  <2>3. CASE GitHubThreads
    <3>1. LeaveHead \/ \E id \in Thread : MovesThread(id)
      BY <2>3, ThreadsMove DEF ReviewInv, ReviewType
    <3>2. QED
      BY <2>2, <3>1, ThreadsKeepReview
  <2>4. QED
    BY <2>1, <2>3, EvidenceKeepsReview
<1>6. CASE Disturb
  <2>1. /\ seen' = seen \/ seen' = NoSeen
        /\ UNCHANGED reviewVars
        /\ step' = step \/ step' = "idle"
    BY <1>6 DEF Disturb, DeadlinePasses, Interrupt, Kill
  <2>2. QED
    BY <2>1, OthersKeepReview
<1>7. QED
  BY <1>1, <1>2, <1>3, <1>4, <1>5, <1>6 DEF Next

LEMMA ReviewStart ==
  ASSUME Init
  PROVE  ReviewInv
<1>1. /\ threads = <<ThreadOf(CHOOSE t \in Thread : TRUE)>>
      /\ attempts \in {{}, {Attempt("review", 1, 1, TRUE)}}
      /\ clock = 2 /\ reading = NoReading /\ firstReading = NoReading
      /\ reviewInstant = NoCensus /\ touched = Untouched
      /\ step = "idle" /\ seen = NoSeen
  BY DEF Init, ReviewInit, WaitInit
<1>2. ThreadList(threads)
  <2>1. (CHOOSE t \in Thread : TRUE) \in Thread
    BY ThreadAssumption
  <2>2. PICK t \in Thread : threads = <<ThreadOf(t)>>
    BY <1>1, <2>1
  <2>3. ThreadOf(t) \in ThreadRecord
    BY DEF ThreadOf, ThreadRecord
  <2>4. QED
    BY <2>2, <2>3 DEF ThreadList
<1>3. Past(attempts, clock)
  <2>1. Attempt("review", 1, 1, TRUE).start = 1 /\ Attempt("review", 1, 1, TRUE).end = 1
    BY DEF Attempt
  <2>2. Attempt("review", 1, 1, TRUE) \in AttemptRecord
    BY DEF Attempt, AttemptRecord
  <2>3. \A a \in attempts : a \in AttemptRecord /\ a.start = 1 /\ a.end = 1
    BY <1>1, <2>1, <2>2
  <2>4. QED
    BY <1>1, <2>3 DEF Past, Running0
<1>4. ReviewType
  BY <1>1, <1>2, <1>3, NoReadingIs DEF ReviewType, Untouched
<1>5. QED
  BY <1>1, <1>4 DEF ReviewInv, CensusWasTrue, TerminalIsLatest, NoSeen

\* The feedback that two equal readings report was there at one instant, for
\* any number of threads and pages (review_census).
THEOREM ReviewsWereTrue == Spec => []ReviewWasTrue
<1> DEFINE I == IsReview => ReviewInv
<1>1. Init => I
  BY ReviewStart
<1>2. I /\ [Next]_vars => I'
  BY ReviewStep, KindStays DEF IsReview
<1>3. I => ReviewWasTrue
  BY DEF ReviewInv, ReviewWasTrue
<1>4. QED
  BY <1>1, <1>2, <1>3, PTL DEF Spec

\* The automation is called done by its latest attempts and in the real order
\* of events, for any number of attempts (terminal_evidence).
THEOREM ReviewsAreTerminal == Spec => []ReviewIsTerminal
<1> DEFINE I == IsReview => ReviewInv
<1>1. Init => I
  BY ReviewStart
<1>2. I /\ [Next]_vars => I'
  BY ReviewStep, KindStays DEF IsReview
<1>3. I => ReviewIsTerminal
  BY DEF ReviewInv, ReviewIsTerminal, IsReview
<1>4. QED
  BY <1>1, <1>2, <1>3, PTL DEF Spec
=============================================================================
