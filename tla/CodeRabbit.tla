----------------------------- MODULE CodeRabbit -----------------------------
(***************************************************************************)
(* "run" of .agents/skills/address-feedback/scripts/coderabbit_adapter.py: *)
(* invocations for one head of one pull request take the owner's trigger   *)
(* lock in turn, read the evidence in several requests, decide, post a     *)
(* trigger where one is permitted, and sleep until the state can change.   *)
(*                                                                         *)
(* GitHub and CodeRabbit are external, as the adapter takes them to be:    *)
(* CodeRabbit reviews one head at a time and may refuse, stop, pause, skip *)
(* or lose a review; the head can leave the branch and come back; people   *)
(* open, close, share and mark ready, and post triggers too.  A comment    *)
(* that was posted may be missing from a listing.  Time goes on between    *)
(* any two steps.                                                          *)
(***************************************************************************)
EXTENDS CodeRabbitDecision, Functions

CONSTANTS
    Run, NoRun,     \* the invocations
    Interval,       \* --interval
    Deadline,       \* --deadline of each
    StatedWait,     \* the lengths of the waits CodeRabbit states, with the buffer
    MaxTime,        \* bound on the time
    MaxEvents       \* bound on what CodeRabbit and people do

ASSUME RunAssumption ==
    /\ NoRun \notin Run
    /\ Interval \in Nat /\ Deadline \in [Run -> Nat] /\ StatedWait \subseteq Nat

VARIABLES
    now,
    pull,           \* the evidence there is; the triggers in the order of their ids
    reviewing,      \* the newest review of the head: none that is left, running
                    \* silently or having stated findings, or interrupted silently
    misled,         \* history: a skip for another pull request lost its cause
    events,         \* how much CodeRabbit and people have done so far
    holder,         \* the invocation with the trigger lock
    stage,          \* what each invocation does next
    evidence,       \* the evidence the holder has read
    posted,         \* the ids of the triggers it has posted
    wake,           \* until when it sleeps before it reads
    unseen,         \* history: since it began to read, the newest review was silent
    lagged          \* history: an invocation read a listing without a posted trigger

runVars == <<holder, stage, evidence, posted, wake, unseen, lagged>>
outside == <<now, pull, reviewing, misled, events>>
reviewVars == <<outside, runVars>>

\* The newest review of the head has not stated what it found.
Silent == {"silent", "interrupted"}

NoReading == [head |-> ThisHead, open |-> TRUE, draft |-> FALSE, shared |-> FALSE,
              arrival |-> 0, opened |-> 0, earlier |-> "none", earlierEnd |-> Never,
              statuses |-> <<>>, findings |-> Never, clean |-> FALSE, triggers |-> {}]
NoPull == [NoReading EXCEPT !.triggers = <<>>]

\* A head that has just arrived, perhaps on a draft and with CodeRabbit still at
\* an earlier head; or a head that was reviewed with findings, without any, or
\* without a word.
FirstPulls ==
    LET arrived == [NoPull EXCEPT !.arrival = 1, !.opened = 1]
        ended == [NoPull EXCEPT !.statuses = <<Status(0, "in-progress", NoWait),
                                               Status(1, "completed", NoWait)>>]
    IN  {arrived, [arrived EXCEPT !.draft = TRUE, !.earlier = "running"],
         ended, [ended EXCEPT !.findings = 1], [ended EXCEPT !.clean = TRUE]}

ReviewInit ==
    /\ now = 1
    /\ pull \in FirstPulls
    /\ reviewing = "no" /\ misled = FALSE
    /\ events = 0
    /\ holder = NoRun
    /\ stage = [r \in Run |-> "lock"]
    /\ evidence = NoReading
    /\ posted = {}
    /\ wake = Never
    /\ unseen = FALSE
    /\ lagged = FALSE

Proceed(r, step) == stage' = [stage EXCEPT ![r] = step]

Forget(r) ==
    /\ evidence' = NoReading
    /\ unseen' = FALSE

\* The invocation reports its last decision, or an error, and its lock is
\* released.
Ends(r) ==
    /\ Proceed(r, "done")
    /\ holder' = NoRun
    /\ Forget(r)
    /\ posted' = {}
    /\ wake' = Never

SleepUntil(r, time) ==
    /\ Proceed(r, "read")
    /\ wake' = time
    /\ Forget(r)
    /\ UNCHANGED <<holder, posted>>

-----------------------------------------------------------------------------
\* acquire_lock: a free lock, or another try until the deadline.
TakeLock(r) ==
    /\ stage[r] = "lock"
    /\ \/ /\ holder = NoRun
          /\ holder' = r
          /\ Proceed(r, "read")
       \/ /\ holder # NoRun /\ now >= Deadline[r]
          /\ Proceed(r, "done")
          /\ UNCHANGED holder
    /\ UNCHANGED <<outside, evidence, posted, wake, unseen, lagged>>

\* pull_evidence reads the pull request, its statuses and who shares the head,
\* and later the comments, the reviews and the timeline.
ReadStatuses(r) ==
    /\ stage[r] = "read" /\ now >= wake
    /\ wake' = Never
    /\ evidence' = [evidence EXCEPT !.head = pull.head, !.open = pull.open,
                                   !.draft = pull.draft, !.shared = pull.shared,
                                   !.statuses = pull.statuses]
    /\ unseen' = (reviewing \in Silent)
    /\ Proceed(r, "read-more")
    /\ UNCHANGED <<outside, holder, posted, lagged>>

\* with_posted adds the triggers of this run that no listing shows yet.
WithPosted ==
    {[id |-> i, at |-> pull.triggers[i].at, mode |-> pull.triggers[i].mode,
      listed |-> pull.triggers[i].listed] :
        i \in {k \in DOMAIN pull.triggers : pull.triggers[k].listed \/ k \in posted}}

Gathered ==
    [evidence EXCEPT !.arrival = pull.arrival, !.opened = pull.opened,
                     !.earlier = pull.earlier, !.earlierEnd = pull.earlierEnd,
                     !.findings = pull.findings, !.clean = pull.clean,
                     !.triggers = WithPosted]

\* A run stops at a final state or at its deadline; otherwise it sleeps for the
\* interval at most, until the deadline or the bound of its state.
Stops(r, d) == d.state \in Final \/ now >= Deadline[r]
WakeTime(r, d) ==
    Min({now + Interval, Deadline[r]} \cup (IF d.until = Never THEN {} ELSE {d.until}))

Conclude(r, d) ==
    \/ Stops(r, d) /\ Ends(r)
    \/ ~Stops(r, d) /\ SleepUntil(r, WakeTime(r, d))

\* The last answers arrive and the run decides.
Posting(mode) == IF mode = "full" THEN "post-full" ELSE "post-incremental"

ReadAndJudge(r) ==
    LET d == Decide(Gathered, now)
        post == d.state \in Permits /\ now < Deadline[r]
    IN  /\ stage[r] = "read-more"
        /\ \/ /\ post
              /\ evidence' = Gathered
              /\ unseen' = FALSE
              /\ Proceed(r, Posting(d.mode))
              /\ UNCHANGED <<holder, posted, wake>>
           \/ ~post /\ Conclude(r, d)
        /\ lagged' = (lagged \/ \E i \in DOMAIN pull.triggers :
                            ~pull.triggers[i].listed /\ pull.triggers[i].by # r)
        /\ UNCHANGED outside

\* A transient failure waits for the next round.
ReadingFails(r) ==
    /\ stage[r] \in {"read", "read-more"} /\ now >= wake /\ now < Deadline[r]
    /\ SleepUntil(r, Min({now + Interval, Deadline[r]}))
    /\ UNCHANGED <<outside, lagged>>

\* The comment is created, and the same evidence with it says what follows; the
\* listing may not show it at once.
Trigger(r, mode, listed) == [at |-> now, mode |-> mode, by |-> r, listed |-> listed]
NewId == Len(pull.triggers) + 1
Creates(r, mode) ==
    \E listed \in BOOLEAN :
        pull' = [pull EXCEPT !.triggers = Append(@, Trigger(r, mode, listed))]
WithNew(mode) ==
    [evidence EXCEPT !.triggers =
        @ \cup {[id |-> NewId, at |-> now, mode |-> mode, listed |-> FALSE]}]

PostTrigger(r) == \E mode \in Modes :
    LET d == Decide(WithNew(mode), now)
    IN  /\ stage[r] = Posting(mode)
        /\ Creates(r, mode)
        /\ \/ Stops(r, d) /\ Ends(r)
           \/ /\ ~Stops(r, d)
              /\ Proceed(r, "read")
              /\ wake' = WakeTime(r, d)
              /\ posted' = posted \cup {NewId}
              /\ Forget(r)
              /\ UNCHANGED holder
        /\ UNCHANGED <<now, reviewing, misled, events, lagged>>

\* A POST that failed may have created the comment, and ends the run.
PostFails(r) == \E mode \in Modes :
    /\ stage[r] = Posting(mode)
    /\ Creates(r, mode)
    /\ Ends(r)
    /\ UNCHANGED <<now, reviewing, misled, events, lagged>>

\* A request fails for good, or the run is killed: its lock is released.
Fail(r) ==
    /\ holder = r
    /\ Ends(r)
    /\ UNCHANGED <<outside, lagged>>

-----------------------------------------------------------------------------
\* Nothing matters to anybody once every run has ended or the pull request is
\* closed.
Awaited == pull.open /\ \E r \in Run : stage[r] # "done"

Tick ==
    /\ Awaited
    /\ now < MaxTime
    /\ now' = now + 1
    /\ UNCHANGED <<pull, reviewing, misled, events, runVars>>

Changes(newPull, review) ==
    /\ Awaited
    /\ pull' = newPull
    /\ reviewing' = review
    /\ misled' = \/ misled
                 \/ /\ pull.shared /\ ~newPull.shared
                    /\ TimesOf(pull.statuses, {"skipped"}) # {}
    /\ unseen' = (unseen /\ review \in Silent)
    /\ UNCHANGED <<now, holder, stage, evidence, posted, wake, lagged>>

Happens(newPull, review) ==
    /\ events < MaxEvents
    /\ events' = events + 1
    /\ Changes(newPull, review)

Posts(kind, wait) == [pull EXCEPT !.statuses = Append(pull.statuses, Status(now, kind, wait))]

\* CodeRabbit begins a review of the head, states findings, and ends it: with
\* findings or a clean pass, with neither, or without having completed it.
Running == {"silent", "stated"}
Left == IF reviewing \in Silent THEN "interrupted" ELSE "no"

Begin ==
    /\ pull.open /\ ~pull.draft /\ pull.head = ThisHead /\ reviewing \notin Running
    /\ pull.earlier # "running"
    /\ Happens(Posts("in-progress", NoWait), "silent")

StateFindings ==
    /\ reviewing = "silent"
    /\ Happens([pull EXCEPT !.findings = now], "stated")

Complete ==
    /\ reviewing \in Running
    /\ \E clean \in (IF reviewing = "silent" THEN BOOLEAN ELSE {FALSE}) :
          Happens([Posts("completed", NoWait) EXCEPT !.clean = (pull.clean \/ clean)], "no")

Pause == reviewing \in Running /\ Happens(Posts("paused", NoWait), "no")
LoseLock == reviewing \in Running /\ Happens(Posts("lock-loss", NoWait), Left)

\* It refuses to start or to go on, and may have stated how long.
Refuse ==
    \E wait \in {NoWait} \cup [retryAt : {now + s : s \in StatedWait}, noCapacity : BOOLEAN] :
        Happens(Posts("rate-limited", wait), Left)

\* It skips the head; on a shared head, for the other pull request perhaps.
Skip ==
    \/ pull.draft /\ reviewing \notin Running /\ Happens(Posts("draft-skip", NoWait), "no")
    \/ ~pull.draft /\ reviewing \notin Running /\ Happens(Posts("skipped", NoWait), "no")
    \/ pull.shared /\ Happens(Posts("skipped", NoWait), reviewing)

EndEarlierReview ==
    /\ pull.earlier = "running"
    /\ Happens([pull EXCEPT !.earlier = "ended", !.earlierEnd = now], reviewing)

\* People.  The latest force push that leaves or reaches the head dates its
\* arrival; a push that is not forced is not dated.
LeaveHead ==
    /\ pull.head = ThisHead
    /\ Happens([pull EXCEPT !.head = "other", !.arrival = now], reviewing)

ReturnHead ==
    /\ pull.head # ThisHead
    /\ \E arrival \in {pull.arrival, now} :
          /\ Changes([pull EXCEPT !.head = ThisHead, !.arrival = arrival], reviewing)
          /\ UNCHANGED events

MarkReady ==
    /\ pull.draft
    /\ Happens([pull EXCEPT !.draft = FALSE, !.opened = now], reviewing)

CloseOrShare ==
    \/ pull.open /\ Happens([pull EXCEPT !.open = FALSE], reviewing)
    \/ Happens([pull EXCEPT !.shared = ~pull.shared], reviewing)

PersonAsks ==
    \E mode \in Modes :
        Happens([pull EXCEPT !.triggers = Append(@, Trigger(NoRun, mode, TRUE))], reviewing)

\* A comment reaches the listing.
BecomesListed ==
    \E i \in DOMAIN pull.triggers :
        /\ ~pull.triggers[i].listed
        /\ pull' = [pull EXCEPT !.triggers[i].listed = TRUE]
        /\ UNCHANGED <<now, reviewing, misled, events, runVars>>

GitHub ==
    \/ Begin \/ StateFindings \/ Complete \/ Pause \/ LoseLock \/ Refuse \/ Skip
    \/ EndEarlierReview \/ LeaveHead \/ ReturnHead \/ MarkReady \/ CloseOrShare
    \/ PersonAsks \/ BecomesListed

RunStep(r) ==
    \/ TakeLock(r) \/ ReadStatuses(r) \/ ReadAndJudge(r) \/ ReadingFails(r)
    \/ PostTrigger(r) \/ PostFails(r) \/ Fail(r)

ReviewNext == Tick \/ GitHub \/ \E r \in Run : RunStep(r)

ReviewSpec == ReviewInit /\ [][ReviewNext]_reviewVars

-----------------------------------------------------------------------------
\* The evidence a run decides on in its next step.
Judged(r) ==
    IF stage[r] = "read-more" THEN {Gathered}
    ELSE {WithNew(mode) : mode \in {m \in Modes : stage[r] = Posting(m)}}

\* Every state that waits on CodeRabbit ends: with the evidence a run has, and
\* nothing more happening, the longest bound after the last thing it knows of
\* finds the head final or permits the trigger.
LastKnown(e) ==
    Latest({Start(e), e.earlierEnd} \cup {t.at : t \in e.triggers}
           \cup {e.statuses[i].at : i \in DOMAIN e.statuses}
           \cup {e.statuses[i].wait.retryAt : i \in DOMAIN e.statuses})

EveryWaitIsBounded ==
    \A r \in Run : \A e \in Judged(r) :
        LET longest == Max({Automatic, TriggerAnswer, InProgress, UnknownWait})
        IN  Decide(e, LastKnown(e) + longest).state \in Final \cup Permits

\* What a run decides does not change, on the evidence it has, before the time
\* at which it would wake.
WakesInTime ==
    \A r \in Run : \A e \in Judged(r) :
        LET d == Decide(e, now)
        IN  ~Stops(r, d) => \A t \in (now + 1)..(WakeTime(r, d) - 1) :
                Decide(e, t).state = d.state

\* A head is called complete only if CodeRabbit reviewed that commit, and its
\* newest review of it was not, while the run looked, one that ran or was
\* interrupted before it stated findings; unless a skip for another pull request
\* lost its cause, which the adapter takes for a skip of this one.
CompleteIsReviewed ==
    \A r \in Run : stage[r] = "read-more" /\ Decide(Gathered, now).state \in Completed =>
        /\ pull.findings # Never \/ pull.clean
        /\ ~unseen \/ misled

\* Runs, one after another or at once, killed or failed, ask only again in one
\* cycle when CodeRabbit has answered the last trigger, and for a full review
\* again only when it was refused or lost; unless a listing lagged.
TriggersAreAnswered ==
    \/ lagged
    \/ \A i, k \in DOMAIN pull.triggers :
        LET first == pull.triggers[i]
            second == pull.triggers[k]
            between == {s \in Range(pull.statuses) : first.at < s.at /\ s.at <= second.at}
        IN  i < k /\ first.by # NoRun /\ second.by # NoRun /\ first.at >= Start(pull) =>
                /\ between # {}
                /\ first.mode = "full" /\ second.mode = "full" =>
                      \E s \in between : s.kind \in {"rate-limited", "lock-loss"}
=============================================================================
