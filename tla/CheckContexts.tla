---------------------------- MODULE CheckContexts ----------------------------
(***************************************************************************)
(* checks-terminal of                                                      *)
(* .agents/skills/delivery-wait/scripts/delivery_wait.py without           *)
(* --all-workflows: pr_snapshot reads the check contexts of the head in    *)
(* one query, in no particular order; checks_by_name keeps the newest suite*)
(* of each name from each source, in one pass over the list; classify_pr   *)
(* judges the expected names by them.                                      *)
(*                                                                         *)
(* GitHub numbers suites in creation order.  A commit status has no suite; *)
(* the query lists one state per status, so it is a source of suite 0.     *)
(***************************************************************************)
EXTENDS TransitionWait, Sequences, FiniteSets, SequencesExt

CONSTANTS
    CheckName,      \* the names there are
    ExpectedCheck,  \* the names the wait was given
    Source,         \* app, workflow and event
    MaxSuite

ASSUME NameAssumption == IsFiniteSet(CheckName)

VARIABLES
    contexts,       \* GitHub: the check contexts of the head
    suites,         \* GitHub: suites created so far
    headGone        \* the pull request has another head

checkVars == <<contexts, suites, headGone>>

Context == [name : CheckName, source : Source, suite : 0..MaxSuite,
            state : {"QUEUED", "SUCCESS", "FAILURE"}]

CheckInit ==
    /\ contexts = {}
    /\ suites = 0
    /\ headGone = FALSE

\* checks_by_name: a pass over the list that keeps, for each name and source,
\* the contexts of the newest suite met so far.
SameKey(c, d) == c.name = d.name /\ c.source = d.source

\* Seeded fault: the context listed last is kept.
KeepLast(kept, c) == {d \in kept : ~SameKey(c, d)} \cup {c}

KeepNewest(kept, c) ==
    LET rivals == {d \in kept : SameKey(c, d)}
    IN  IF \A d \in rivals : c.suite > d.suite THEN (kept \ rivals) \cup {c}
        ELSE IF \A d \in rivals : c.suite = d.suite THEN kept \cup {c}
        ELSE kept

ChecksByName(listing) ==
    LET kept[n \in 0..Len(listing)] ==
            IF n = 0 THEN {} ELSE KeepNewest(kept[n - 1], listing[n])
    IN  kept[Len(listing)]

FailedChecks(observed) ==
    {n \in ExpectedCheck : \E c \in observed : c.name = n /\ c.state = "FAILURE"}

\* classify_pr: one failure decides; otherwise every expected name has to be
\* there and done.
ClassifyChecks(observed) ==
    IF FailedChecks(observed) # {} THEN "changed"
    ELSE IF \A n \in ExpectedCheck :
                /\ \E c \in observed : c.name = n
                /\ \A c \in observed : c.name = n => c.state # "QUEUED"
         THEN "satisfied"
    ELSE "waiting"

ChecksKey(head, verdict, observed) ==
    [head |-> head, nonSuccess |-> FailedChecks(observed),
     terminal |-> verdict = "satisfied"]

-----------------------------------------------------------------------------
StartChecksWait(t) ==
    /\ StartWait(t)
    /\ UNCHANGED checkVars

\* One query; the nodes come in any order.
ReadContexts ==
    /\ step = "observe"
    /\ \E listing \in SetToAllKPermutations(contexts) :
        /\ Len(listing) = Cardinality(contexts)
        /\ LET observed == ChecksByName(listing)
               verdict == IF headGone THEN "invalidated" ELSE ClassifyChecks(observed)
           IN  Observed(verdict, ChecksKey(headGone, verdict, observed), contexts)
    /\ UNCHANGED checkVars

ContextsFail ==
    /\ step = "observe"
    /\ ObserveFails("timed-out") \/ ObserveRefused
    /\ UNCHANGED checkVars

\* GitHub: a source starts a new suite with a check of some names, a check
\* ends, the head moves.
NewSuite ==
    /\ suites < MaxSuite
    /\ suites' = suites + 1
    /\ \E source \in Source, names \in SUBSET CheckName \ {{}} :
        contexts' = contexts \cup
            {[name |-> n, source |-> source, suite |-> suites', state |-> "QUEUED"] : n \in names}
    /\ UNCHANGED <<waitVars, headGone>>

EndCheck ==
    /\ \E c \in contexts, state \in {"SUCCESS", "FAILURE"} :
        /\ c.state = "QUEUED"
        /\ contexts' = (contexts \ {c}) \cup {[c EXCEPT !.state = state]}
    /\ UNCHANGED <<waitVars, suites, headGone>>

LoseHead ==
    /\ ~headGone
    /\ headGone' = TRUE
    /\ UNCHANGED <<waitVars, contexts, suites>>

GitHubChecks == NewSuite \/ EndCheck \/ LoseHead

-----------------------------------------------------------------------------
\* The verdict is about the newest suite of every source and about nothing
\* else, in whatever order the contexts were listed: a re-run that passed
\* outweighs the failure it replaces, and one that is running holds a pass
\* back; but two sources of one name do not replace each other.
Current(observed) ==
    {c \in observed : /\ c.name \in ExpectedCheck
                      /\ \A d \in observed : SameKey(c, d) => d.suite <= c.suite}

ChecksAreCurrent ==
    seen.terminal \in {"satisfied", "changed"} =>
        LET current == Current(seen.basis)
        IN  /\ seen.terminal = "satisfied" =>
                /\ \A n \in ExpectedCheck : \E c \in current : c.name = n
                /\ \A c \in current : c.state = "SUCCESS"
            /\ seen.terminal = "changed" => \E c \in current : c.state = "FAILURE"
=============================================================================
