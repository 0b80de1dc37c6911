------------------------- MODULE CodeRabbitDecision -------------------------
(***************************************************************************)
(* What .agents/skills/address-feedback/scripts/coderabbit_adapter.py      *)
(* makes of the evidence about one head of one pull request: decide() and  *)
(* the functions that date the evidence.  Nothing here has state.          *)
(*                                                                         *)
(* Times are whole numbers and Never is before all of them.  The evidence  *)
(* is a record: the pull request's head, open, draft; shared, whether      *)
(* another open pull request has the head; arrival, when the head reached  *)
(* the branch; opened, when the pull request was last opened or marked     *)
(* ready; earlier, the review of an earlier head; statuses, CodeRabbit's   *)
(* on the head in their order; findings, when the newest review with       *)
(* findings was submitted; clean, whether the summary marks the head       *)
(* covered; triggers, the trigger comments of the pull request, each with  *)
(* its id, its time, the mode it asks for, and whether a listing shows it. *)
(***************************************************************************)
EXTENDS Integers, Sequences, FiniteSets, FiniteSetsExt

CONSTANTS
    ThisHead,           \* the head that was asked for
    Automatic,          \* AUTOMATIC_REVIEW_SECONDS
    TriggerAnswer,      \* TRIGGER_ANSWER_SECONDS
    InProgress,         \* IN_PROGRESS_SECONDS
    UnknownWait         \* UNKNOWN_WAIT_SECONDS

ASSUME BoundsAssumption == {Automatic, TriggerAnswer, InProgress, UnknownWait} \subseteq Nat \ {0}

Never == -1

\* A refusal's stated wait, if the summary had one (correlated_wait).
NoWait == [retryAt |-> Never, noCapacity |-> FALSE]
Status(at, kind, wait) == [at |-> at, kind |-> kind, wait |-> wait]
NoStatus == Status(Never, "none", NoWait)

Latest(times) == Max(times \cup {Never})
TimesOf(seq, kinds) == {seq[i].at : i \in {k \in DOMAIN seq : seq[k].kind \in kinds}}
Newest(seq) == IF seq = <<>> THEN NoStatus ELSE seq[Len(seq)]

Final == {"review-complete", "clean-complete", "draft", "invalidated", "skipped", "paused",
          "blocked-unanswered", "blocked-stalled", "blocked-unknown-wait",
          "blocked-no-capacity", "blocked-unconfirmed", "blocked-lock-loss",
          "unrecognized-status", "closed"}
Completed == {"review-complete", "clean-complete"}
Permit(mode) == IF mode = "full" THEN "trigger-full" ELSE "trigger-incremental"
Modes == {"incremental", "full"}
Permits == {Permit(mode) : mode \in Modes}

-----------------------------------------------------------------------------
\* automatic_review_start: the event after which CodeRabbit starts by itself.
Start(e) == Latest({e.arrival, e.opened})

\* head_triggers lists those since the head arrived; decide() looks at those of
\* the cycle.
Asked(e) == {t \in e.triggers : t.at >= e.arrival}
OfCycle(e) == {t \in e.triggers : t.at >= Start(e)}

\* The order of the triggers: by time and then id, and with_posted puts those no
\* listing shows behind the listed ones of their second.
Precedes(t, u) ==
    \/ t.at < u.at
    \/ t.at = u.at /\ t.listed /\ ~u.listed
    \/ t.at = u.at /\ t.listed = u.listed /\ t.id < u.id

NoTrigger == [id |-> 0, at |-> Never, mode |-> "none", listed |-> TRUE]
LatestTrigger(e) ==
    IF OfCycle(e) = {} THEN NoTrigger
    ELSE CHOOSE t \in OfCycle(e) : \A u \in OfCycle(e) \ {t} : Precedes(u, t)

\* On a shared head a skip may answer another pull request: the pending status
\* before it stays current.
CurrentStatus(e) ==
    LET answered == {k \in DOMAIN e.statuses : e.statuses[k].kind # "skipped"}
        pending == answered # {} /\ e.statuses[Max(answered)].kind = "in-progress"
    IN  IF e.shared /\ Newest(e.statuses).kind = "skipped" /\ pending
        THEN e.statuses[Max(answered)]
        ELSE Newest(e.statuses)

\* Seeded fault: a trigger in the second of the status counts as answered by it.
TriggerStrictlyNewer(e) ==
    LatestTrigger(e) # NoTrigger /\ LatestTrigger(e).at > CurrentStatus(e).at

TriggerNewer(e) ==
    LatestTrigger(e) # NoTrigger /\ LatestTrigger(e).at >= CurrentStatus(e).at

\* Seeded fault: an interrupted review counts as ended.
EndingWithLosses(e) == {"completed", "paused", "draft-skip", "lock-loss"}

\* When the newest review that has not ended began.
Ending(e) == {"completed", "paused", "draft-skip"} \cup (IF e.shared THEN {} ELSE {"skipped"})

Unfinished(e) ==
    {e.statuses[i].at : i \in {k \in DOMAIN e.statuses :
        /\ e.statuses[k].kind = "in-progress"
        /\ \A n \in DOMAIN e.statuses : n > k =>
              e.statuses[n].kind \notin Ending(e) \cup {"in-progress"}}}

\* Only what came after this completes the head.
ReviewedSince(e) ==
    Latest({e.arrival} \cup {t.at : t \in Asked(e)} \cup Unfinished(e))

-----------------------------------------------------------------------------
\* The possible answers: a state, the mode of the trigger it is about, and the
\* time at which it can change by itself.
Verdict(state, mode, until) == [state |-> state, mode |-> mode, until |-> until]
Is(state) == Verdict(state, "none", Never)

\* Seeded fault: the wait starts again at every look.
BoundedFromNow(pending, blocked, since, seconds, mode, now) ==
    Verdict(pending, mode, now + seconds)

\* A wait for at most "seconds", then a blocked state.
Bounded(pending, blocked, since, seconds, mode, now) ==
    IF now < since + seconds THEN Verdict(pending, mode, since + seconds) ELSE Is(blocked)

\* Seeded fault: the answer does not say when it can change.
AwaitUndated(until) == Verdict("awaiting-automatic", "none", Never)

AwaitAutomatic(until) == Verdict("awaiting-automatic", "none", until)

\* gate(): the head's own refusal holds a trigger back.
Gate(e, mode, now) ==
    LET status == CurrentStatus(e)
        wait == status.wait
        refused == status.kind = "rate-limited"
    IN  IF refused /\ wait = NoWait
        THEN Bounded("rate-limited-unknown-wait", "blocked-unknown-wait", status.at,
                     UnknownWait, mode, now)
        ELSE IF refused /\ wait.noCapacity THEN Is("blocked-no-capacity")
        ELSE IF refused /\ wait.retryAt > now THEN Verdict("waiting", mode, wait.retryAt)
        ELSE Verdict(Permit(mode), mode, Never)

\* Until when CodeRabbit may still start by itself: not while it reviews an
\* earlier head of the pull request.
AutomaticUntil(e) ==
    IF e.earlier = "running" THEN Start(e) + InProgress
    ELSE IF e.earlier = "none" THEN Start(e) + Automatic
    ELSE Latest({Start(e), e.earlierEnd}) + Automatic

\* One retry of an interrupted review, in the mode of the trigger that nothing
\* else has answered.
AfterLockLoss(e, now) ==
    LET status == CurrentStatus(e)
        latest == LatestTrigger(e)
        losses == {i \in DOMAIN e.statuses :
                      e.statuses[i].kind = "lock-loss" /\ e.statuses[i].at >= Start(e)}
        answered == \E i \in DOMAIN e.statuses :
                        /\ e.statuses[i].kind # "in-progress"
                        /\ latest.at < e.statuses[i].at /\ e.statuses[i].at < status.at
    IN  IF Cardinality(losses) > 1 THEN Is("blocked-lock-loss")
        ELSE Gate(e, IF latest = NoTrigger \/ answered THEN "incremental" ELSE latest.mode, now)

\* A completed review that left no review and no marker: a full one, once.
AfterCompleted(e, now) ==
    LET status == CurrentStatus(e)
    IN  IF \E t \in OfCycle(e) : t.mode = "full" THEN Is("blocked-unconfirmed")
        ELSE IF now < status.at + Automatic THEN AwaitAutomatic(status.at + Automatic)
        ELSE Gate(e, "full", now)

\* The status alone decides.
ByStatus(e, now) ==
    LET kind == CurrentStatus(e).kind
        latest == LatestTrigger(e)
    IN  IF kind \in {"none", "draft-skip"} THEN Gate(e, "incremental", now)
        ELSE IF kind = "lock-loss" THEN AfterLockLoss(e, now)
        ELSE IF kind \in {"skipped", "paused"} THEN Is(kind)
        ELSE IF kind = "rate-limited"
             THEN Gate(e, IF latest = NoTrigger THEN "incremental" ELSE latest.mode, now)
        ELSE IF kind = "completed" THEN AfterCompleted(e, now)
        ELSE Is("unrecognized-status")

\* decide(): completion belongs to the commit; otherwise the newest of a pending
\* status, a trigger and an automatic start decides.
Decide(e, now) ==
    LET status == CurrentStatus(e)
        kind == status.kind
        unreviewed == kind \in {"none", "draft-skip"}
        finished == TimesOf(e.statuses, {"completed"})
    IN  IF e.head # ThisHead THEN Is("invalidated")
        ELSE IF ~e.open THEN Is("closed")
        ELSE IF /\ e.findings > ReviewedSince(e)
                /\ kind # "in-progress" \/ e.findings > status.at
             THEN Is("review-complete")
        ELSE IF kind = "in-progress" /\ ~TriggerNewer(e)
             THEN Bounded("in-progress", "blocked-stalled", Latest({status.at, Start(e)}),
                          InProgress, "none", now)
        ELSE IF e.clean /\ Latest(finished) > ReviewedSince(e) THEN Is("clean-complete")
        ELSE IF unreviewed /\ e.draft THEN Is("draft")
        ELSE IF TriggerNewer(e)
             THEN Bounded("triggered", "blocked-unanswered", LatestTrigger(e).at,
                          TriggerAnswer, "none", now)
        ELSE IF (unreviewed \/ Start(e) > status.at) /\ now < AutomaticUntil(e)
             THEN AwaitAutomatic(AutomaticUntil(e))
        ELSE ByStatus(e, now)
=============================================================================
