----------------------------- MODULE ReviewReply -----------------------------
(***************************************************************************)
(* Mutations of review feedback, review_mutations.py: reply() posts one    *)
(* inline reply per operation id, and the checkpoint written before the    *)
(* POST is what keeps a retry from posting another; resolve() resolves a   *)
(* review thread and reads it back.                                        *)
(*                                                                         *)
(* Every invocation that replies has the same operation id and state file, *)
(* each with the body it was given; one that resolves takes no lock.  A    *)
(* call to GitHub can fail at any step; a failed POST may have been        *)
(* carried out, at once or later, and the comment listing may lag.  The    *)
(* pull request's head can move away, and a resolved thread be reopened.   *)
(***************************************************************************)
EXTENDS StateLock, FiniteSets

CONSTANTS
    Body,           \* the reply bodies the invocations ask for
    Resolve         \* the request to resolve the thread

ASSUME RequestAssumption == Resolve \notin Body

VARIABLES
    request,        \* what each invocation was asked for: a body, or Resolve
    reply,          \* "none", or the reply it posted: "unlisted", then "listed"
    checkpoint,     \* the request and phase in the state file
    prior,          \* whether an invocation found a checkpoint
    outcome,        \* what an invocation reported
    moved,          \* the head is no longer the one the invocations name
    resolved,       \* the review thread is resolved
    shared          \* history: two invocations were inside the lock at once

world == <<moved, resolved>>
replyVars == <<request, reply, checkpoint, prior, outcome, world, shared>>
vars == <<lock, pc, tries, seen, replyVars>>

NoCheckpoint == [body |-> Resolve, phase |-> "none"]

ReplySteps == {"head1", "load", "discover1", "head2", "save", "post", "mark",
               "discover2", "confirm", "head3"}
Inside(p) == pc[p] \in ReplySteps

Posted == {p \in Process : reply[p] # "none"}
Listed == {p \in Process : reply[p] = "listed"}

Init ==
    /\ LockInit
    /\ request \in [Process -> Body \cup {Resolve}]
    /\ pc = [p \in Process |-> IF request[p] = Resolve THEN "read1" ELSE "create"]
    /\ reply = [p \in Process |-> "none"]
    /\ checkpoint = NoCheckpoint
    /\ prior = [p \in Process |-> FALSE]
    /\ outcome = [p \in Process |-> "none"]
    /\ moved = FALSE
    /\ resolved = FALSE
    /\ shared = FALSE

\* Release the lock and report.
Report(p, state) ==
    /\ outcome' = [outcome EXCEPT ![p] = state]
    /\ Goto(p, "exitRead")

Continue(p, step) == Goto(p, step) /\ UNCHANGED outcome

\* discover(): the listed replies with the operation's marker.  More than one,
\* or one with another body, is an error; otherwise there is a receipt or none.
Conflicting(p) ==
    \/ Cardinality(Listed) > 1
    \/ \E q \in Listed : request[q] # request[p]

Save(p, phase) == checkpoint' = [body |-> request[p], phase |-> phase]

-----------------------------------------------------------------------------
\* observed_head before anything else.
CheckHead(p) ==
    /\ pc[p] = "head1"
    /\ \/ moved /\ Report(p, "invalidated")
       \/ ~moved /\ Continue(p, "load")
    /\ UNCHANGED <<checkpoint, reply, prior>>

\* The author and target are verified (no effect but an error) and the
\* checkpoint is loaded; one of another request is an error.
LoadCheckpoint(p) ==
    /\ pc[p] = "load"
    /\ \/ /\ checkpoint # NoCheckpoint /\ checkpoint.body # request[p]
          /\ Report(p, "operational-error")
          /\ UNCHANGED prior
       \/ /\ checkpoint = NoCheckpoint \/ checkpoint.body = request[p]
          /\ prior' = [prior EXCEPT ![p] = (checkpoint # NoCheckpoint)]
          /\ Continue(p, "discover1")
    /\ UNCHANGED <<checkpoint, reply>>

\* A receipt needs no POST; without one, a checkpoint forbids it.
DiscoverBefore(p) ==
    /\ pc[p] = "discover1"
    /\ \/ Conflicting(p) /\ Report(p, "operational-error")
       \/ ~Conflicting(p) /\ Listed # {} /\ Continue(p, "confirm")
       \/ Listed = {} /\ prior[p] /\ Report(p, "pending")
       \/ Listed = {} /\ ~prior[p] /\ Continue(p, "head2")
    /\ UNCHANGED <<checkpoint, reply, prior>>

RecheckHead(p) ==
    /\ pc[p] = "head2"
    /\ \/ moved /\ Report(p, "invalidated")
       \/ ~moved /\ Continue(p, "save")
    /\ UNCHANGED <<checkpoint, reply, prior>>

\* Seeded fault: nothing is written before the POST.
PostWithoutCheckpoint(p) ==
    /\ pc[p] = "save"
    /\ Continue(p, "post")
    /\ UNCHANGED <<checkpoint, reply, prior>>

SavePosting(p) ==
    /\ pc[p] = "save"
    /\ Save(p, "posting")
    /\ Continue(p, "post")
    /\ UNCHANGED <<reply, prior>>

\* The POST: carried out or not, whether or not the answer arrives.  An
\* interrupt is no WaitError and leaves reply() at once.
Post(p) ==
    /\ pc[p] = "post"
    /\ reply' \in {reply, [reply EXCEPT ![p] = "unlisted"]}
    /\ Continue(p, "mark") \/ Report(p, "interrupted")
    /\ UNCHANGED <<checkpoint, prior>>

\* The comment id or the error of the POST is added to the checkpoint.
MarkPosted(p) ==
    /\ pc[p] = "mark"
    /\ Save(p, "posting")
    /\ Continue(p, "discover2")
    /\ UNCHANGED <<reply, prior>>

\* Seeded fault: the answer to the POST is taken for a confirmation.
ConfirmUnseen(p) ==
    /\ pc[p] = "discover2"
    /\ Continue(p, "confirm")
    /\ UNCHANGED <<checkpoint, reply, prior>>

\* A discovery that fails is recorded; the write stays unconfirmed.
DiscoverAfter(p) ==
    /\ pc[p] = "discover2"
    /\ \/ /\ Report(p, "pending")
          /\ Save(p, "posting")
       \/ /\ Listed = {} /\ Report(p, "pending")
          /\ UNCHANGED checkpoint
       \/ /\ ~Conflicting(p) /\ Listed # {} /\ Continue(p, "confirm")
          /\ UNCHANGED checkpoint
    /\ UNCHANGED <<reply, prior>>

SaveConfirmed(p) ==
    /\ pc[p] = "confirm"
    /\ Save(p, "confirmed")
    /\ Continue(p, "head3")
    /\ UNCHANGED <<reply, prior>>

CheckHeadAfter(p) ==
    /\ pc[p] = "head3"
    /\ \/ Report(p, "pending")
       \/ moved /\ Report(p, "invalidated")
       \/ ~moved /\ Report(p, "satisfied")
    /\ UNCHANGED <<checkpoint, reply, prior>>

\* A read of GitHub fails where reply() does not catch it.
ReadFails(p) ==
    /\ pc[p] \in {"head1", "load", "discover1", "head2"}
    /\ Report(p, "operational-error")
    /\ UNCHANGED <<checkpoint, reply, prior>>

ReplyStep(p) ==
    \/ CheckHead(p) \/ LoadCheckpoint(p) \/ DiscoverBefore(p) \/ RecheckHead(p)
    \/ SavePosting(p) \/ Post(p) \/ MarkPosted(p) \/ DiscoverAfter(p)
    \/ SaveConfirmed(p) \/ CheckHeadAfter(p) \/ ReadFails(p)

-----------------------------------------------------------------------------
\* resolve(): read the thread and head, mutate unless resolved, read again.
Answer(p, state) ==
    /\ outcome' = [outcome EXCEPT ![p] = state]
    /\ Goto(p, "done")

ReadThread(p) ==
    /\ pc[p] = "read1"
    /\ \/ Answer(p, "operational-error")
       \/ moved /\ Answer(p, "invalidated")
       \/ ~moved /\ Continue(p, IF resolved THEN "read2" ELSE "mutate")
    /\ UNCHANGED resolved

\* The mutation may fail, with or without its effect.
MutateThread(p) ==
    /\ pc[p] = "mutate"
    /\ resolved' \in {resolved, TRUE}
    /\ Continue(p, "read2")

RereadThread(p) ==
    /\ pc[p] = "read2"
    /\ \/ Answer(p, "pending")
       \/ moved /\ Answer(p, "invalidated")
       \/ ~moved /\ Answer(p, IF resolved THEN "satisfied" ELSE "pending")
    /\ UNCHANGED resolved

ResolveStep(p) == ReadThread(p) \/ MutateThread(p) \/ RereadThread(p)

-----------------------------------------------------------------------------
\* Entering the lock, with the history of who else is inside.
Enter(p) ==
    /\ WriteOwner(p, "head1")
    /\ shared' = (shared \/ \E q \in Process : Inside(q))

\* GitHub: a reply reaches the listing, the head moves, a thread is reopened.
Appear(p) ==
    /\ reply[p] = "unlisted"
    /\ reply' = [reply EXCEPT ![p] = "listed"]
    /\ UNCHANGED <<lockVars, request, checkpoint, prior, outcome, world, shared>>

MoveHead ==
    /\ ~moved
    /\ moved' = TRUE
    /\ UNCHANGED <<lockVars, request, reply, checkpoint, prior, outcome, resolved, shared>>

Reopen ==
    /\ resolved
    /\ resolved' = FALSE
    /\ UNCHANGED <<lockVars, request, reply, checkpoint, prior, outcome, moved, shared>>

Next ==
    \/ \E p \in Process :
         \/ LockStep(p) /\ UNCHANGED replyVars
         \/ Enter(p)
            /\ UNCHANGED <<request, reply, checkpoint, prior, outcome, world>>
         \/ ReplyStep(p) /\ UNCHANGED <<lock, tries, seen, request, world, shared>>
         \/ ResolveStep(p)
            /\ UNCHANGED <<lock, tries, seen, request, reply, checkpoint, prior,
                          moved, shared>>
         \/ Appear(p)
    \/ MoveHead \/ Reopen

Spec == Init /\ [][Next]_vars

-----------------------------------------------------------------------------
TypeOK ==
    /\ lock \in [owner : Process \cup {NoProcess}, written : BOOLEAN]
    /\ pc \in [Process -> LockSteps \cup ReplySteps \cup Stopped
                            \cup {"read1", "mutate", "read2"}]
    /\ tries \in [Process -> Nat]
    /\ seen \in [Process -> Process \cup {NoProcess}]
    /\ request \in [Process -> Body \cup {Resolve}]
    /\ reply \in [Process -> {"none", "unlisted", "listed"}]
    /\ checkpoint \in [body : Body \cup {Resolve}, phase : {"none", "posting", "confirmed"}]
    /\ prior \in [Process -> BOOLEAN]
    /\ outcome \in [Process -> {"none", "satisfied", "pending", "invalidated",
                                "interrupted", "operational-error"}]
    /\ moved \in BOOLEAN /\ resolved \in BOOLEAN /\ shared \in BOOLEAN

\* However often an operation is retried, through failed and unanswered POSTs
\* and kills at any step, it posts one reply: unless two invocations were
\* inside the lock at once.
PostsOnceUnlessShared == shared \/ \A p, q \in Posted : p = q

\* Two invocations are inside the lock at once only after an earlier one was
\* killed and left its file: live owners are never displaced.
SharedOnlyAfterAKill == shared => \E p \in Process : pc[p] = "dead" /\ request[p] # Resolve

\* "satisfied" for a reply means that a reply with the requested body, and no
\* other body under this operation, is on the pull request, whoever posted it.
SatisfiedIsPosted ==
    \A p \in Process : outcome[p] = "satisfied" /\ request[p] # Resolve =>
        /\ \E q \in Listed : request[q] = request[p]
        /\ shared \/ \A q \in Posted : request[q] = request[p]
=============================================================================
