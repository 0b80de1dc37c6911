------------------------------ MODULE StackPush ------------------------------
(***************************************************************************)
(* .agents/skills/git-workflow/scripts/stack_push_guard.py: "run" binds a  *)
(* native stack push to an approved admission, that says for each branch   *)
(* the commit to push and the commit it may replace at one remote URL.  It *)
(* prepares a guard directory with a frozen pre-push hook, and starts the  *)
(* push; Git runs the hook with what it is about to update.                *)
(*                                                                         *)
(* Git and the gh-stack extension are external: a push reads where the     *)
(* remote's branches are, asks the hook once, and then has the server move *)
(* each branch, not together, if it still is where the push read it.  What *)
(* of a stack a push leaves out (current branches, stale leases) is its    *)
(* own choice.                                                             *)
(***************************************************************************)
EXTENDS Integers, FiniteSets

CONSTANTS
    Push,           \* the invocations
    Branch, Commit, Url,
    MaxChanges      \* bound on what others do to branches, remotes and checkout

\* The remote has a URL and the branches are at commits.
ASSUME SomewhereAssumption == Url # {} /\ Commit # {}

VARIABLES
    local,      \* the branches of the checkout
    remote,     \* the branches at each URL
    url,        \* the push URL of the remote
    dirty,      \* whether the checkout has uncommitted changes
    hooked,     \* whether the repository has a pre-push hook of its own
    push,       \* the invocations
    receipts,   \* the receipts in their guard directories
    approved,   \* history: the moves that were approved
    moves,      \* history: the moves pushes made
    changes     \* how much others did

pushVars == <<local, remote, url, dirty, hooked, push, receipts, approved, moves, changes>>

Update == [branch : Branch, source : Commit, expected : Commit]

\* An invocation: its admission; the URL its push resolved; the updates it asks
\* for, with the remote heads it read; and those the server has not handled.
NoPush == [pc |-> "none", refs |-> {}, admittedUrl |-> "", url |-> "", left |-> {}]

PushInit ==
    /\ local \in [Branch -> Commit]
    /\ remote = [u \in Url |-> [b \in Branch |-> CHOOSE c \in Commit : TRUE]]
    /\ url = CHOOSE u \in Url : TRUE
    /\ dirty = FALSE
    /\ hooked \in BOOLEAN
    /\ push = [p \in Push |-> NoPush]
    /\ receipts = {} /\ approved = {} /\ moves = {}
    /\ changes = 0

Step(p, pc) == push' = [push EXCEPT ![p].pc = pc]
PushEnds(p) == push' = [push EXCEPT ![p] = [NoPush EXCEPT !.pc = "done"]]

\* Branches that are to move are approved as they are seen now.
Approve(p) ==
    /\ push[p].pc = "none"
    /\ \E branches \in SUBSET Branch \ {{}} :
        LET refs == {[branch |-> b, source |-> local[b], expected |-> remote[url][b]] :
                        b \in branches}
        IN  /\ push' = [push EXCEPT ![p].pc = "prepare", ![p].admittedUrl = url, ![p].refs = refs]
            /\ approved' = approved \cup [by : {p}, url : {url}, update : refs]
    /\ UNCHANGED <<local, remote, url, dirty, hooked, receipts, moves, changes>>

\* prepare(): a clean checkout and the admitted URL, or no push at all.
Prepare(p) ==
    /\ push[p].pc = "prepare"
    /\ \/ ~dirty /\ url = push[p].admittedUrl /\ Step(p, "push")
       \/ (dirty \/ url # push[p].admittedUrl) /\ PushEnds(p)
    /\ UNCHANGED <<local, remote, url, dirty, hooked, receipts, approved, moves, changes>>

\* The push resolves the URL, reads the remote's heads and asks the hook.
Advertise(p) ==
    /\ push[p].pc = "push"
    /\ \E branches \in SUBSET {b \in Branch : local[b] # remote[url][b]} :
          push' = [push EXCEPT ![p].pc = "hook", ![p].url = url,
                     ![p].left = {[branch |-> b, source |-> local[b], expected |-> remote[url][b]] :
                                     b \in branches}]
    /\ UNCHANGED <<local, remote, url, dirty, hooked, receipts, approved, moves, changes>>

\* Seeded fault: what a branch may replace is left to the push's own lease.
ValidSources(p) ==
    /\ push[p].url = push[p].admittedUrl
    /\ \A u \in push[p].left :
          \E a \in push[p].refs : a.branch = u.branch /\ a.source = u.source

\* validate_updates: the admitted URL, and every update as it was admitted.
ValidUpdates(p) ==
    /\ push[p].url = push[p].admittedUrl
    /\ push[p].left \subseteq push[p].refs

\* hook(): it refuses, as the repository's own hook may, or accepts once its
\* receipt is on disk.
Accept(p) ==
    /\ push[p].pc = "hook" /\ ValidUpdates(p)
    /\ receipts' = receipts \cup {[by |-> p, updates |-> push[p].left]}
    /\ Step(p, "update")
    /\ UNCHANGED <<local, remote, url, dirty, hooked, approved, moves, changes>>

Refuse(p) ==
    /\ push[p].pc = "hook" /\ (hooked \/ ~ValidUpdates(p))
    /\ PushEnds(p)
    /\ UNCHANGED <<local, remote, url, dirty, hooked, receipts, approved, moves, changes>>

\* The server moves a branch that still is where the push read it.
ServerUpdate(p) == \E u \in push[p].left :
    LET current == remote[push[p].url][u.branch] = u.expected
    IN  /\ push[p].pc = "update"
        /\ remote' = IF current THEN [remote EXCEPT ![push[p].url][u.branch] = u.source] ELSE remote
        /\ moves' = IF current THEN moves \cup {[by |-> p, url |-> push[p].url, update |-> u]} ELSE moves
        /\ push' = [push EXCEPT ![p].left = @ \ {u}]
        /\ UNCHANGED <<local, url, dirty, hooked, receipts, approved, changes>>

\* The push ends, or breaks off.
PushDone(p) ==
    /\ push[p].pc \in {"prepare", "push", "hook", "update"}
    /\ PushEnds(p)
    /\ UNCHANGED <<local, remote, url, dirty, hooked, receipts, approved, moves, changes>>

\* Others commit to a branch, push one, change the remote, or edit files.
Meanwhile ==
    /\ changes < MaxChanges
    /\ changes' = changes + 1
    /\ \/ \E b \in Branch, c \in Commit :
             local' = [local EXCEPT ![b] = c] /\ UNCHANGED <<remote, url, dirty>>
       \/ \E u \in Url, b \in Branch, c \in Commit :
             remote' = [remote EXCEPT ![u][b] = c] /\ UNCHANGED <<local, url, dirty>>
       \/ \E u \in Url \ {url} : url' = u /\ UNCHANGED <<local, remote, dirty>>
       \/ dirty' = ~dirty /\ UNCHANGED <<local, remote, url>>
    /\ UNCHANGED <<hooked, push, receipts, approved, moves>>

PushNext ==
    \/ Meanwhile
    \/ \E p \in Push : \/ Approve(p) \/ Prepare(p) \/ Advertise(p) \/ Accept(p) \/ Refuse(p)
                       \/ ServerUpdate(p) \/ PushDone(p)

-----------------------------------------------------------------------------
\* A push moves a branch only as it was approved for that URL, from the commit
\* that was seen there to the one that was seen here, and after a receipt that
\* names the move; whatever happened to either branch, to the remote's URL or
\* to other pushes in between.
MovesWereApproved ==
    \A m \in moves :
        /\ m \in approved
        /\ \E r \in receipts : r.by = m.by /\ m.update \in r.updates
=============================================================================
