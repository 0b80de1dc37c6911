---------------------------- MODULE ReviewCensus ----------------------------
(***************************************************************************)
(* The review wait of .agents/skills/address-feedback/scripts:             *)
(* review_census of review_observation.py reads every page of the pull     *)
(* request's feedback twice and accepts two equal readings;                *)
(* terminal_evidence decides whether the automation is done;               *)
(* review_snapshot and classify of review_wait.py tell what is left.       *)
(*                                                                         *)
(* Review threads stand for the paginated connections: a page holds one.   *)
(* The automation's evidence, its check attempts and its reviews of the    *)
(* head, is on the first page.  GitHub's timestamps have whole seconds: an *)
(* event at the real time t is stamped t \div 2, so that two can have one  *)
(* stamp.                                                                  *)
(***************************************************************************)
EXTENDS TransitionWait, Sequences, FiniteSets, SequencesExt

CONSTANTS
    Thread,         \* the review threads there can be
    MaxChanges,     \* bound on the changes to threads
    MaxAttempt,     \* bound on the automation's attempts
    MaxClock        \* bound on the real time

ASSUME ThreadAssumption == Thread # {}

VARIABLES
    threads,        \* GitHub: the threads, oldest first
    attempts,       \* GitHub: the automation's checks and reviews of the head
    clock,          \* the real time
    headLeft,       \* the pull request has another head
    changes,        \* changes to threads so far
    reading,        \* the reading in progress: its pages, total, and evidence
    firstReading,   \* the completed first reading of an observation
    reviewInstant,        \* history: what there was when the first reading ended
    touched         \* history: changes to each thread since the first page was read

reviewWorld == <<threads, attempts, clock, headLeft, changes>>
reviewVars == <<reviewWorld, reading, firstReading, reviewInstant, touched>>

\* A thread: an automation's finding, the maintainer's answer, and the
\* automation's answer to that.
ThreadOf(id) == [id |-> id, resolved |-> FALSE, talk |-> "finding"]
NoReading == [head |-> FALSE, nodes |-> <<>>, total |-> 0, more |-> FALSE,
              evidence |-> {}]
NoCensus == [threads |-> <<>>, evidence |-> {}]
Untouched == [t \in Thread |-> 0]

\* An attempt ends at 0 while it runs; a review is over when it is submitted.
Running0 == 0
Attempt(group, start, end, ok) == [group |-> group, start |-> start, end |-> end, ok |-> ok]
Stamp(t) == t \div 2

ReviewInit ==
    /\ threads = <<ThreadOf(CHOOSE t \in Thread : TRUE)>>
    /\ attempts \in {{}, {Attempt("review", 1, 1, TRUE)}}
    /\ clock = 2
    /\ headLeft = FALSE
    /\ changes = 0
    /\ reading = NoReading /\ firstReading = NoReading
    /\ reviewInstant = NoCensus
    /\ touched = Untouched

\* terminal_evidence.  Of each group, the check runs and the reviews, the
\* attempts with the newest start are looked at; a check that has not completed
\* has its start for a time.
At(a) == Stamp(IF a.end = Running0 THEN a.start ELSE a.end)
Latest(evidence) ==
    {a \in evidence : \A b \in evidence : b.group = a.group => Stamp(b.start) <= Stamp(a.start)}

\* Seeded fault: of attempts stamped with one second the accepted one counts.
TerminalEvidenceTied(evidence) ==
    LET latest == Latest(evidence)
        accepted == {a \in latest : a.ok}
        pending == latest \ accepted
    IN  /\ accepted # {}
        /\ \A b \in pending : b.end # Running0
        /\ \A b \in pending : \E a \in accepted : At(b) <= At(a)

TerminalEvidence(evidence) ==
    LET latest == Latest(evidence)
        accepted == {a \in latest : a.ok}
        pending == latest \ accepted
    IN  /\ accepted # {}
        /\ \A a \in accepted, b \in pending : a.group # b.group
        /\ \A b \in pending : b.end # Running0
        /\ \A b \in pending : \E a \in accepted : At(b) < At(a)

\* A resolved thread whose last word is the maintainer's is no finding.
FindingSurface(thread) == ~(thread.resolved /\ thread.talk = "answered")

Classify(head, seenThreads, evidence) ==
    LET surfaces == \E i \in DOMAIN seenThreads : FindingSurface(seenThreads[i])
    IN  IF head THEN "invalidated"
        ELSE IF TerminalEvidence(evidence) /\ surfaces THEN "judgment-required"
        ELSE IF TerminalEvidence(evidence) THEN "satisfied"
        ELSE "waiting"

\* review_transition_key: attempts that are still running are left out of it.
ReviewKey(head, seenThreads, evidence) ==
    [head |-> head, threads |-> seenThreads, terminal |-> TerminalEvidence(evidence),
     latest |-> Latest(evidence), completed |-> {a \in evidence : a.end # Running0}]

-----------------------------------------------------------------------------
StartReviewWait(t) ==
    /\ StartWait(t)
    /\ UNCHANGED reviewVars

Goes(to) ==
    /\ step' = to
    /\ UNCHANGED <<target, prior, checkpoint, seen, late, stopped, result, waits,
                   known, killed>>

\* A page holds one thread.
FirstPage(all) == IF all = <<>> THEN <<>> ELSE <<all[1]>>

\* The first query: the head, the first page, and the evidence.
ReadFirstPage ==
    /\ step \in {"observe", "observe again"}
    /\ reading' = [head |-> headLeft, nodes |-> FirstPage(threads),
                   total |-> Len(threads), more |-> Len(threads) > 1,
                   evidence |-> attempts]
    /\ Goes(IF step = "observe" THEN "pages" ELSE "pages again")
    /\ touched' = IF step = "observe" THEN Untouched ELSE touched
    /\ UNCHANGED <<reviewWorld, firstReading, reviewInstant>>

\* collect(): the page after the cursor.  A changed total or head is transient.
After(id) == {i \in DOMAIN threads : \A k \in DOMAIN threads : threads[k].id = id => k < i}

ReadNextPage ==
    /\ step \in {"pages", "pages again"} /\ reading.more
    /\ headLeft = reading.head /\ Len(threads) = reading.total
    /\ LET rest == After(reading.nodes[Len(reading.nodes)].id)
           next == {i \in rest : \A k \in rest : i <= k}
       IN  reading' = [reading EXCEPT
                !.nodes = reading.nodes \o [k \in 1..Cardinality(next) |->
                                               threads[CHOOSE i \in next : TRUE]],
                !.more = Cardinality(rest) > 1]
    /\ Goes(step)
    /\ UNCHANGED <<reviewWorld, firstReading, reviewInstant, touched>>

Complete ==
    /\ ~reading.more
    /\ Len(reading.nodes) = reading.total
    /\ IsInjective([i \in DOMAIN reading.nodes |-> reading.nodes[i].id])

EndFirstReading ==
    /\ step = "pages" /\ Complete
    /\ firstReading' = reading
    /\ reviewInstant' = [threads |-> threads, evidence |-> attempts]
    /\ Goes("observe again")
    /\ reading' = NoReading
    /\ UNCHANGED <<reviewWorld, touched>>

ForgetReadings ==
    /\ reading' = NoReading /\ firstReading' = NoReading
    /\ reviewInstant' = NoCensus /\ touched' = Untouched
    /\ UNCHANGED reviewWorld

\* Seeded fault: the second reading is accepted whatever the first one was.
EndReading ==
    /\ step = "pages again" /\ Complete
    /\ Observed(Classify(reading.head, reading.nodes, reading.evidence),
                ReviewKey(reading.head, reading.nodes, reading.evidence),
                [census |-> [threads |-> reading.nodes, evidence |-> reading.evidence],
                 instant |-> reviewInstant, touched |-> touched])
    /\ ForgetReadings

EndSecondReading ==
    /\ step = "pages again" /\ Complete
    /\ reading = firstReading
    /\ Observed(Classify(reading.head, reading.nodes, reading.evidence),
                ReviewKey(reading.head, reading.nodes, reading.evidence),
                [census |-> [threads |-> reading.nodes, evidence |-> reading.evidence],
                 instant |-> reviewInstant, touched |-> touched])
    /\ ForgetReadings

ReadingReview == step \in {"observe", "observe again", "pages", "pages again"}

\* A reading that moved under its reader fails, and any request may.
ReviewReadFails ==
    /\ ReadingReview
    /\ ObserveFails("timed-out") \/ ObserveRefused
    /\ ForgetReadings

ReadReview == ReadFirstPage \/ ReadNextPage \/ EndFirstReading \/ EndSecondReading

-----------------------------------------------------------------------------
\* GitHub: threads are opened, deleted, resolved, reopened and talked on.
ChangesThread(id) ==
    /\ changes < MaxChanges
    /\ changes' = changes + 1
    /\ touched' = [touched EXCEPT ![id] = IF ReadingReview THEN touched[id] + 1 ELSE 0]
    /\ UNCHANGED <<waitVars, attempts, clock, headLeft, reading, firstReading, reviewInstant>>

OpenThread ==
    \E id \in Thread :
        /\ \A i \in DOMAIN threads : threads[i].id # id
        /\ threads' = Append(threads, ThreadOf(id))
        /\ ChangesThread(id)

DeleteThread ==
    \E i \in DOMAIN threads :
        /\ threads' = RemoveAt(threads, i)
        /\ ChangesThread(threads[i].id)

ToggleResolved ==
    \E i \in DOMAIN threads :
        /\ threads' = [threads EXCEPT ![i].resolved = ~threads[i].resolved]
        /\ ChangesThread(threads[i].id)

Talk ==
    \E i \in DOMAIN threads :
        /\ threads' = [threads EXCEPT ![i].talk =
                          IF threads[i].talk = "answered" THEN "followed up" ELSE "answered"]
        /\ ChangesThread(threads[i].id)

\* The automation: a check starts, ends, a review is submitted or edited.
Happens(newAttempts) ==
    /\ clock < MaxClock
    /\ clock' = clock + 1
    /\ attempts' = newAttempts
    /\ UNCHANGED <<waitVars, threads, headLeft, changes, reading, firstReading,
                   reviewInstant, touched>>

StartCheck ==
    /\ Cardinality(attempts) < MaxAttempt
    /\ Happens(attempts \cup {Attempt("check", clock, Running0, FALSE)})

EndCheckRun ==
    \E a \in attempts, ok \in BOOLEAN :
        /\ a.end = Running0
        /\ Happens((attempts \ {a}) \cup {Attempt("check", a.start, clock, ok)})

SubmitReview ==
    /\ Cardinality(attempts) < MaxAttempt
    /\ \E ok \in BOOLEAN : Happens(attempts \cup {Attempt("review", clock, clock, ok)})

EditReview ==
    \E a \in attempts, ok \in BOOLEAN :
        /\ a.group = "review"
        /\ Happens((attempts \ {a}) \cup {Attempt("review", clock, clock, ok)})

TimePasses == Happens(attempts)

LeaveHead ==
    /\ ~headLeft
    /\ headLeft' = TRUE
    /\ UNCHANGED <<waitVars, threads, attempts, clock, changes, reading, firstReading,
                   reviewInstant, touched>>

GitHubThreads == OpenThread \/ DeleteThread \/ ToggleResolved \/ Talk \/ LeaveHead
GitHubEvidence == StartCheck \/ EndCheckRun \/ SubmitReview \/ EditReview \/ TimePasses

-----------------------------------------------------------------------------
\* What two equal readings say was so at one instant, between them: unless a
\* thread changed at least twice during the observation, away and back.
CensusWasTrue ==
    seen # NoSeen =>
        \/ seen.basis.census = seen.basis.instant
        \/ \E t \in Thread : seen.basis.touched[t] > 1

\* The automation is called done only when the attempt it started last of each
\* kind is over, one of these was accepted, and each that was not was over before
\* an accepted one: by the real order of events and not by that of their stamps,
\* but for which attempts of one kind began in its last second.
TerminalIsLatest ==
    seen.terminal \in {"satisfied", "judgment-required"} =>
        LET evidence == seen.basis.census.evidence
            last == {a \in evidence : \A b \in evidence : b.group = a.group => b.start <= a.start}
        IN  /\ \A a \in last : a.end # Running0
            /\ \E a \in last : a.ok
            /\ \A b \in last : ~b.ok => \E a \in Latest(evidence) : a.ok /\ b.end < a.end
=============================================================================
