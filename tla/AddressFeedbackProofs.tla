------------------------ MODULE AddressFeedbackProofs ------------------------
(***************************************************************************)
(* The scripts of the address-feedback skill, for any number of            *)
(* invocations.                                                            *)
(*                                                                         *)
(* First review_mutations.py, for any bodies: a reply is posted once,      *)
(* unless two invocations are inside the lock at once; that takes a kill;  *)
(* and "satisfied" says what the pull request has.  As long as invocations *)
(* are inside one at a time (Alone), whatever was posted left a checkpoint *)
(* (Recorded), because the POST comes after the checkpoint is saved; and   *)
(* an invocation on its way to the POST found no checkpoint, so that       *)
(* nothing had been posted (Clear).  The others stand before their         *)
(* theorems.                                                               *)
(*                                                                         *)
(* Then coderabbit_adapter.py, for any bounds, deadlines and interval.     *)
(* Three facts about decide() on fixed evidence carry the results: its     *)
(* answer stays until the time it names (DecisionStays), the longest bound *)
(* after the last thing known settles it (DecisionSettles), and it permits *)
(* a trigger or calls a head complete only on the evidence for it          *)
(* (PermitMeans, CompletedMeans).  What evidence the runs can have is the  *)
(* invariant AdapterInv: a trigger of a run is in the evidence of every    *)
(* later one unless a listing lagged, statuses are read as a prefix of     *)
(* those there are, and a silent review shows among them as unfinished.    *)
(***************************************************************************)
EXTENDS ReviewReply, CodeRabbit, FiniteSetTheorems, WellFoundedInduction, TLAPS

Alone ==
    \A p, q \in Process : Inside(p) /\ Inside(q) => p = q

Recorded ==
    /\ Posted # {} => checkpoint # NoCheckpoint
    /\ \A p \in Process : pc[p] = "post" => checkpoint # NoCheckpoint

\* On its way to the POST: no checkpoint was there, so no reply is.
Clear ==
    \A p \in Process :
        \/ pc[p] \in {"head2", "save", "post"}
        \/ pc[p] = "discover1" /\ ~prior[p]
        => Posted = {}

Inv == TypeOK /\ (~shared => Alone /\ Recorded /\ Clear /\ PostsOnceUnlessShared)

-----------------------------------------------------------------------------
\* The steps of one invocation, spelled out.
LEMMA NextCases ==
  ASSUME [Next]_vars
  PROVE  \/ \E p \in Process : LockStep(p) /\ UNCHANGED replyVars
         \/ \E p \in Process : Enter(p)
              /\ UNCHANGED <<request, reply, checkpoint, prior, outcome, world>>
         \/ \E p \in Process : ReplyStep(p)
              /\ UNCHANGED <<lock, tries, seen, request, world, shared>>
         \/ \E p \in Process : ResolveStep(p)
              /\ UNCHANGED <<lock, tries, seen, request, reply, checkpoint, prior,
                            moved, shared>>
         \/ \E p \in Process : Appear(p)
         \/ MoveHead \/ Reopen \/ UNCHANGED vars
  BY DEF Next

\* The lock's steps keep its types.
LEMMA LockTypes ==
  ASSUME TypeOK, NEW p \in Process, LockStep(p), UNCHANGED replyVars
  PROVE  TypeOK'
<1>1. CASE Create(p)
  <2>1. lock' \in [owner : Process \cup {NoProcess}, written : BOOLEAN]
    <3>1. CASE lock' = [owner |-> p, written |-> FALSE]
      BY <3>1
    <3>2. CASE lock' = lock
      BY <3>2 DEF TypeOK
    <3>3. QED
      BY <1>1, <3>1, <3>2 DEF Create
  <2>2. \/ pc' = [pc EXCEPT ![p] = "write"]
        \/ pc' = [pc EXCEPT ![p] = "read"]
    BY <1>1 DEF Create, Goto
  <2>3. UNCHANGED <<tries, seen>>
    BY <1>1 DEF Create
  <2>4. QED
    BY <2>1, <2>2, <2>3 DEF replyVars, world, TypeOK, LockSteps
<1>2. CASE ReadOwner(p)
  BY <1>2, NoProcessAssumption DEF ReadOwner, Goto, NoLock, replyVars, world, TypeOK, LockSteps, Stopped, MaxTries
<1>3. CASE Probe(p)
  BY <1>3, NoProcessAssumption DEF Probe, Goto, NoLock, replyVars, world, TypeOK, LockSteps, Stopped, MaxTries
<1>4. CASE Reread(p)
  BY <1>4, NoProcessAssumption DEF Reread, NextAttempt, MaxTries, Goto, NoLock, replyVars, world, TypeOK, LockSteps, Stopped, MaxTries
<1>5. CASE Unlink(p)
  BY <1>5, NoProcessAssumption DEF Unlink, NextAttempt, MaxTries, Goto, NoLock, replyVars, world, TypeOK, LockSteps, Stopped, MaxTries
<1>6. CASE ExitRead(p)
  BY <1>6, NoProcessAssumption DEF ExitRead, Goto, NoLock, replyVars, world, TypeOK, LockSteps, Stopped, MaxTries
<1>7. CASE ExitUnlink(p)
  BY <1>7, NoProcessAssumption DEF ExitUnlink, Goto, NoLock, replyVars, world, TypeOK, LockSteps, Stopped, MaxTries
<1>8. CASE Kill(p)
  BY <1>8, NoProcessAssumption DEF Kill, Goto, NoLock, replyVars, world, TypeOK, LockSteps, Stopped, MaxTries
<1>9. QED
  BY <1>1, <1>2, <1>3, <1>4, <1>5, <1>6, <1>7, <1>8 DEF LockStep

LEMMA EnterTypes ==
  ASSUME TypeOK, NEW p \in Process, Enter(p),
         UNCHANGED <<request, reply, checkpoint, prior, outcome, world>>
  PROVE  TypeOK'
  BY DEF Enter, WriteOwner, Goto, world, TypeOK, ReplySteps, Inside

\* The steps of a reply keep the types.
LEMMA ReplyTypes ==
  ASSUME TypeOK, NEW p \in Process, ReplyStep(p),
         UNCHANGED <<lock, tries, seen, request, world, shared>>
  PROVE  TypeOK'
<1> USE DEF Goto, Report, Continue, Save, world, TypeOK, LockSteps, ReplySteps
<1>1. CASE CheckHead(p)
  BY <1>1 DEF CheckHead
<1>2. CASE LoadCheckpoint(p)
  BY <1>2 DEF LoadCheckpoint
<1>3. CASE DiscoverBefore(p)
  BY <1>3 DEF DiscoverBefore
<1>4. CASE RecheckHead(p)
  BY <1>4 DEF RecheckHead
<1>5. CASE SavePosting(p)
  BY <1>5 DEF SavePosting
<1>6. CASE Post(p)
  BY <1>6 DEF Post
<1>7. CASE MarkPosted(p)
  BY <1>7 DEF MarkPosted
<1>8. CASE DiscoverAfter(p)
  BY <1>8 DEF DiscoverAfter
<1>9. CASE SaveConfirmed(p)
  BY <1>9 DEF SaveConfirmed
<1>10. CASE CheckHeadAfter(p)
  BY <1>10 DEF CheckHeadAfter
<1>11. CASE ReadFails(p)
  BY <1>11 DEF ReadFails
<1>12. QED
  BY <1>1, <1>2, <1>3, <1>4, <1>5, <1>6, <1>7, <1>8, <1>9, <1>10, <1>11 DEF ReplyStep

LEMMA ResolveTypes ==
  ASSUME TypeOK, NEW p \in Process, ResolveStep(p),
         UNCHANGED <<lock, tries, seen, request, reply, checkpoint, prior, moved, shared>>
  PROVE  TypeOK'
<1> USE DEF Goto, Answer, Continue, TypeOK, Stopped
<1>1. CASE ReadThread(p)
  BY <1>1 DEF ReadThread
<1>2. CASE MutateThread(p)
  BY <1>2 DEF MutateThread
<1>3. CASE RereadThread(p)
  BY <1>3 DEF RereadThread
<1>4. QED
  BY <1>1, <1>2, <1>3 DEF ResolveStep

LEMMA TypeStep == TypeOK /\ [Next]_vars => TypeOK'
<1> SUFFICES ASSUME TypeOK, [Next]_vars
             PROVE  TypeOK'
  OBVIOUS
<1>1. ASSUME NEW p \in Process, Appear(p) PROVE TypeOK'
  BY <1>1 DEF Appear, lockVars, world, TypeOK
<1>2. CASE MoveHead
  BY <1>2 DEF MoveHead, lockVars, TypeOK
<1>3. CASE Reopen
  BY <1>3 DEF Reopen, lockVars, TypeOK
<1>4. CASE UNCHANGED vars
  BY <1>4 DEF vars, replyVars, world, TypeOK
<1>5. QED
  BY <1>1, <1>2, <1>3, <1>4, NextCases, LockTypes, EnterTypes, ReplyTypes, ResolveTypes

-----------------------------------------------------------------------------
\* Nothing but entering brings an invocation inside, and what the other
\* steps do not write they keep.
LEMMA LockKeeps ==
  ASSUME Inv, NEW p \in Process, LockStep(p), UNCHANGED replyVars
  PROVE  Inv'
<1>1. TypeOK'
  BY LockTypes DEF Inv
<1>2. \A q \in Process : pc'[q] \in ReplySteps => pc'[q] = pc[q]
  BY DEF Inv, TypeOK, LockStep, Create, ReadOwner, Probe, Reread, Unlink, ExitRead,
         ExitUnlink, Kill, NextAttempt, Goto, ReplySteps
<1>3. QED
  BY <1>1, <1>2 DEF Inv, replyVars, world, Alone, Inside, Recorded, Clear, Posted,
     PostsOnceUnlessShared, ReplySteps, NoCheckpoint

LEMMA EnterKeeps ==
  ASSUME Inv, NEW p \in Process, Enter(p),
         UNCHANGED <<request, reply, checkpoint, prior, outcome, world>>
  PROVE  Inv'
<1>1. TypeOK'
  BY EnterTypes DEF Inv
<1>2. /\ pc'[p] = "head1"
      /\ \A q \in Process \ {p} : pc'[q] = pc[q]
  BY DEF Inv, TypeOK, Enter, WriteOwner, Goto
<1>3. shared' = (shared \/ \E q \in Process : Inside(q))
  BY DEF Enter
<1>4. SUFFICES ASSUME ~shared'
               PROVE  Alone' /\ Recorded' /\ Clear' /\ PostsOnceUnlessShared'
  BY <1>1 DEF Inv
<1>5. ~shared /\ \A q \in Process : ~Inside(q)
  BY <1>3, <1>4
<1>6. Alone /\ Recorded /\ Clear /\ PostsOnceUnlessShared
  BY <1>5 DEF Inv
<1>7. Alone'
  BY <1>2, <1>5 DEF Alone, Inside
<1>8. \A q \in Process : pc'[q] \in ReplySteps \ {"head1"} => pc'[q] = pc[q]
  BY <1>2
<1>9. Posted' = Posted
  BY DEF Posted
<1>10. Recorded' /\ Clear'
  BY <1>6, <1>8, <1>9 DEF Recorded, Clear, ReplySteps, NoCheckpoint
<1>11. PostsOnceUnlessShared'
  BY <1>5, <1>6, <1>9 DEF PostsOnceUnlessShared
<1>12. QED
  BY <1>7, <1>10, <1>11

\* Of the others, a reply's steps move one invocation that was inside.
LEMMA ReplyStaysInside ==
  ASSUME TypeOK, NEW p \in Process, ReplyStep(p)
  PROVE  Inside(p) /\ \A q \in Process \ {p} : pc'[q] = pc[q]
<1> USE DEF Goto, Report, Continue, TypeOK, Inside, ReplySteps
<1>1. CASE CheckHead(p)
  BY <1>1 DEF CheckHead
<1>2. CASE LoadCheckpoint(p)
  BY <1>2 DEF LoadCheckpoint
<1>3. CASE DiscoverBefore(p)
  BY <1>3 DEF DiscoverBefore
<1>4. CASE RecheckHead(p)
  BY <1>4 DEF RecheckHead
<1>5. CASE SavePosting(p)
  BY <1>5 DEF SavePosting
<1>6. CASE Post(p)
  BY <1>6 DEF Post
<1>7. CASE MarkPosted(p)
  BY <1>7 DEF MarkPosted
<1>8. CASE DiscoverAfter(p)
  BY <1>8 DEF DiscoverAfter
<1>9. CASE SaveConfirmed(p)
  BY <1>9 DEF SaveConfirmed
<1>10. CASE CheckHeadAfter(p)
  BY <1>10 DEF CheckHeadAfter
<1>11. CASE ReadFails(p)
  BY <1>11 DEF ReadFails
<1>12. QED
  BY <1>1, <1>2, <1>3, <1>4, <1>5, <1>6, <1>7, <1>8, <1>9, <1>10, <1>11 DEF ReplyStep

LEMMA ReplyKeeps ==
  ASSUME Inv, NEW p \in Process, ReplyStep(p),
         UNCHANGED <<lock, tries, seen, request, world, shared>>
  PROVE  Inv'
<1>1. TypeOK'
  BY ReplyTypes DEF Inv
<1>2. SUFFICES ASSUME ~shared
               PROVE  Alone' /\ Recorded' /\ Clear' /\ PostsOnceUnlessShared'
  BY <1>1 DEF Inv
<1>3. /\ Inside(p)
      /\ \A q \in Process \ {p} : pc'[q] = pc[q] /\ ~Inside(q)
  BY <1>2, ReplyStaysInside DEF Inv, Alone
<1>4. Alone'
  BY <1>3 DEF Alone, Inside
<1>5. \A q \in Process \ {p} : pc'[q] \notin ReplySteps
  BY <1>3 DEF Inside
<1>6. TypeOK /\ Recorded /\ Clear /\ (\A r, q \in Posted : r = q)
  BY <1>2 DEF Inv, PostsOnceUnlessShared
<1>7. Recorded' /\ Clear' /\ (\A r, q \in Posted' : r = q)
  <2> USE <1>5, <1>6 DEF Goto, Report, Continue, Save, TypeOK, Recorded, Clear, Posted,
          ReplySteps, NoCheckpoint
  <2>1. CASE CheckHead(p)
    BY <2>1 DEF CheckHead
  <2>2. CASE LoadCheckpoint(p)
    <3>1. CASE pc'[p] = "exitRead" /\ prior' = prior
      BY <2>2, <3>1 DEF LoadCheckpoint
    <3>2. CASE pc'[p] = "discover1" /\ (prior'[p] <=> checkpoint # NoCheckpoint)
      <4>1. checkpoint' = checkpoint /\ Posted' = Posted
        BY <2>2 DEF LoadCheckpoint
      <4>2. ~prior'[p] => Posted = {}
        BY <3>2
      <4>3. QED
        BY <3>2, <4>1, <4>2
    <3>3. QED
      <4>1. pc' = [pc EXCEPT ![p] = "exitRead"] \/ pc' = [pc EXCEPT ![p] = "discover1"]
        BY <2>2 DEF LoadCheckpoint
      <4>2. CASE prior' = prior /\ pc' = [pc EXCEPT ![p] = "exitRead"]
        BY <3>1, <4>2
      <4>3. CASE /\ prior' = [prior EXCEPT ![p] = (checkpoint # NoCheckpoint)]
                 /\ pc' = [pc EXCEPT ![p] = "discover1"]
        <5>1. prior'[p] = (checkpoint # NoCheckpoint)
          BY <4>3, Zenon
        <5>2. QED
          BY <3>2, <4>3, <5>1
      <4>4. QED
        BY <2>2, <4>2, <4>3 DEF LoadCheckpoint
  <2>3. CASE DiscoverBefore(p)
    BY <2>3 DEF DiscoverBefore
  <2>4. CASE RecheckHead(p)
    BY <2>4 DEF RecheckHead
  <2>5. CASE SavePosting(p)
    BY <2>5 DEF SavePosting
  <2>6. CASE Post(p)
    BY <2>6 DEF Post
  <2>7. CASE MarkPosted(p)
    BY <2>7 DEF MarkPosted
  <2>8. CASE DiscoverAfter(p)
    BY <2>8 DEF DiscoverAfter
  <2>9. CASE SaveConfirmed(p)
    BY <2>9 DEF SaveConfirmed
  <2>10. CASE CheckHeadAfter(p)
    BY <2>10 DEF CheckHeadAfter
  <2>11. CASE ReadFails(p)
    BY <2>11 DEF ReadFails
  <2>12. QED
    BY <2>1, <2>2, <2>3, <2>4, <2>5, <2>6, <2>7, <2>8, <2>9, <2>10, <2>11 DEF ReplyStep
<1>8. QED
  BY <1>2, <1>4, <1>7 DEF PostsOnceUnlessShared

\* Resolving touches no lock and no reply.
LEMMA ResolveKeeps ==
  ASSUME Inv, NEW p \in Process, ResolveStep(p),
         UNCHANGED <<lock, tries, seen, request, reply, checkpoint, prior, moved, shared>>
  PROVE  Inv'
<1>1. TypeOK'
  BY ResolveTypes DEF Inv
<1>2. \A q \in Process : pc'[q] \in ReplySteps => pc'[q] = pc[q]
  BY DEF Inv, TypeOK, ResolveStep, ReadThread, MutateThread, RereadThread, Answer,
         Continue, Goto, ReplySteps
<1>3. QED
  BY <1>1, <1>2 DEF Inv, Alone, Inside, Recorded, Clear, Posted,
     PostsOnceUnlessShared, ReplySteps, NoCheckpoint

LEMMA InvStep == Inv /\ [Next]_vars => Inv'
<1> SUFFICES ASSUME Inv, [Next]_vars
             PROVE  Inv'
  OBVIOUS
<1>0. TypeOK'
  BY TypeStep DEF Inv
<1>1. ASSUME NEW p \in Process, Appear(p) PROVE Inv'
  <2>1. UNCHANGED <<pc, prior, checkpoint, shared>> /\ Posted' = Posted
    BY <1>1 DEF Appear, lockVars, Posted, Inv, TypeOK
  <2>2. QED
    BY <1>0, <2>1 DEF Inv, Alone, Inside, Recorded, Clear, PostsOnceUnlessShared,
       NoCheckpoint
<1>2. CASE MoveHead \/ Reopen \/ UNCHANGED vars
  BY <1>0, <1>2 DEF MoveHead, Reopen, vars, replyVars, lockVars, Inv, Alone, Inside,
     Recorded, Clear, Posted, PostsOnceUnlessShared, NoCheckpoint
<1>3. QED
  BY <1>1, <1>2, NextCases, LockKeeps, EnterKeeps, ReplyKeeps, ResolveKeeps

LEMMA InitInv == Init => Inv
<1> SUFFICES ASSUME Init
             PROVE  Inv
  OBVIOUS
<1>1. \A p \in Process : pc[p] \in {"read1", "create"}
  BY DEF Init
<1>2. Posted = {}
  BY DEF Init, Posted
<1>3. TypeOK
  BY DEF Init, LockInit, NoLock, NoCheckpoint, TypeOK, LockSteps
<1>4. QED
  BY <1>1, <1>2, <1>3 DEF Inv, Alone, Inside, ReplySteps, Recorded, Clear,
     PostsOnceUnlessShared

\* The invariant holds throughout.
THEOREM InvCorrect == Spec => []Inv
<1>1. Inv /\ [Next]_vars => Inv'
  BY InvStep
<1>2. QED
  BY InitInv, <1>1, PTL DEF Spec

\* Types hold for every set of invocations and bodies.
THEOREM ReplyTypeCorrect == Spec => []TypeOK
<1>1. Inv => TypeOK
  BY DEF Inv
<1>2. QED
  BY InvCorrect, <1>1, PTL

\* reply() with one operation id posts one reply however often it is retried
\* and wherever invocations are killed, unless two were in the lock at once.
THEOREM PostsOnce == Spec => []PostsOnceUnlessShared
<1>1. Inv => PostsOnceUnlessShared
  BY DEF Inv, PostsOnceUnlessShared
<1>2. QED
  BY InvCorrect, <1>1, PTL
-----------------------------------------------------------------------------
(* The lock lets two invocations in only after one of them was killed.  As    *)
(* long as no invocation that replies died (Calm), the file belongs to the    *)
(* one invocation between its creation and its removal (Owned), so that one   *)
(* that found its owner gone finds another file when it looks again, and      *)
(* never removes it (Gone).                                                   *)

Calm == \A p \in Process : pc[p] = "dead" => request[p] = Resolve

Holding(p) == pc[p] \in ReplySteps \cup {"write", "exitRead", "exitUnlink"}

Owned ==
    /\ \A p \in Process : Holding(p) => lock.owner = p /\ (lock.written <=> pc[p] # "write")
    /\ lock.owner \in Process => Holding(lock.owner)
    /\ lock.written => lock.owner \in Process

Gone ==
    \A p \in Process :
        /\ pc[p] \in {"probe", "reread"} => seen[p] \in Process
        /\ pc[p] = "reread" => pc[seen[p]] \in Stopped
        /\ pc[p] # "unlink"

\* One that resolves never has to do with the lock.
Apart ==
    \A p \in Process :
        request[p] = Resolve => pc[p] \in {"read1", "mutate", "read2"} \cup Stopped

LockInv == TypeOK /\ Apart /\ (Calm => Owned /\ Gone /\ ~shared)

\* An invocation that stopped takes no step, so that calm, once lost, stays lost.
LEMMA StepsOfTheLiving ==
  ASSUME TypeOK, NEW p \in Process,
         LockStep(p) \/ Enter(p) \/ ReplyStep(p) \/ ResolveStep(p)
  PROVE  /\ pc[p] \notin Stopped
         /\ \A q \in Process \ {p} : pc'[q] = pc[q]
  BY DEF TypeOK, Stopped, Exists, LockStep, Create, ReadOwner, Probe, Reread, Unlink,
     ExitRead, ExitUnlink, Kill, NextAttempt, Goto, Enter, WriteOwner, ReplyStep, CheckHead,
     LoadCheckpoint, DiscoverBefore, RecheckHead, SavePosting, Post, MarkPosted,
     DiscoverAfter, SaveConfirmed, CheckHeadAfter, ReadFails, Report, Continue,
     ResolveStep, ReadThread, MutateThread, RereadThread, Answer

LEMMA CalmBefore ==
  ASSUME TypeOK, Calm', request' = request, NEW p \in Process,
         pc[p] \notin Stopped, \A q \in Process \ {p} : pc'[q] = pc[q]
  PROVE  Calm
  BY DEF Calm, Stopped

LEMMA LockOwned ==
  ASSUME LockInv, NEW p \in Process, LockStep(p), UNCHANGED replyVars
  PROVE  LockInv'
<1> USE DEF Goto, NextAttempt
<1>1. TypeOK' /\ TypeOK
  BY LockTypes DEF LockInv
<1>2. /\ pc[p] \notin Stopped
      /\ \A q \in Process \ {p} : pc'[q] = pc[q]
      /\ request' = request /\ shared' = shared
  BY <1>1, StepsOfTheLiving DEF replyVars
<1>3. request[p] = Resolve => pc'[p] = "dead"
  <2>1. request[p] = Resolve => pc[p] \in {"read1", "mutate", "read2"}
    BY <1>2 DEF LockInv, Apart
  <2>2. QED
    BY <1>1, <2>1 DEF TypeOK, LockStep, Create, ReadOwner, Probe, Reread, Unlink, ExitRead,
       ExitUnlink, Kill
<1>4. Apart'
  BY <1>2, <1>3 DEF LockInv, Apart, Stopped
<1>5. SUFFICES ASSUME Calm'
               PROVE  Owned' /\ Gone' /\ ~shared'
  BY <1>1, <1>4 DEF LockInv
<1>6. Calm /\ Owned /\ Gone /\ ~shared /\ Apart
  BY <1>1, <1>2, <1>5, CalmBefore DEF LockInv
<1>7. Owned' /\ Gone'
  <2> USE <1>1, <1>2, <1>6, NoProcessAssumption
      DEF Owned, Gone, Holding, TypeOK, ReplySteps, Stopped, NoLock
  <2>1. CASE Create(p)
    <3>1. CASE lock = NoLock /\ lock' = [owner |-> p, written |-> FALSE] /\ pc' = [pc EXCEPT ![p] = "write"]
      <4>1. \A q \in Process : ~Holding(q)
        BY <3>1
      <4>2. lock'.owner = p /\ ~lock'.written /\ pc'[p] = "write"
        BY <3>1
      <4>3. \A q \in Process \ {p} : ~Holding(q)'
        BY <4>1
      <4>4. Owned'
        BY <4>2, <4>3
      <4>5. Gone'
        BY <2>1, <3>1 DEF Create
      <4>6. QED
        BY <4>4, <4>5
    <3>2. CASE lock' = lock /\ pc' = [pc EXCEPT ![p] = "read"]
      BY <2>1, <3>2 DEF Create
    <3>3. QED
      BY <2>1, <3>1, <3>2 DEF Create
  <2>2. CASE ReadOwner(p)
    BY <2>2 DEF ReadOwner
  <2>3. CASE Probe(p)
    BY <2>3 DEF Probe, Exists
  <2>4. CASE Reread(p)
    <3>1. ~(lock.written /\ lock.owner = seen[p])
      BY <2>4 DEF Reread
    <3>2. QED
      BY <2>4, <3>1 DEF Reread
  <2>5. CASE Unlink(p)
    BY <2>5 DEF Unlink
  <2>6. CASE ExitRead(p)
    BY <2>6 DEF ExitRead
  <2>7. CASE ExitUnlink(p)
    <3>1. \A q \in Process \ {p} : ~Holding(q)
      BY <2>7 DEF ExitUnlink
    <3>2. QED
      BY <2>7, <3>1 DEF ExitUnlink
  <2>8. CASE Kill(p)
    <3>1. pc'[p] = "dead" /\ lock' = lock /\ seen' = seen
      BY <2>8 DEF Kill
    <3>2. ~Holding(p)
      BY <3>1, <1>5 DEF Calm, Apart
    <3>3. QED
      BY <3>1, <3>2
  <2>9. QED
    BY <2>1, <2>2, <2>3, <2>4, <2>5, <2>6, <2>7, <2>8 DEF LockStep
<1>8. QED
  BY <1>2, <1>6, <1>7

LEMMA EnterOwned ==
  ASSUME LockInv, NEW p \in Process, Enter(p),
         UNCHANGED <<request, reply, checkpoint, prior, outcome, world>>
  PROVE  LockInv'
<1>1. TypeOK' /\ TypeOK
  BY EnterTypes DEF LockInv
<1>2. /\ pc[p] = "write" /\ pc'[p] = "head1"
      /\ \A q \in Process \ {p} : pc'[q] = pc[q]
      /\ request' = request /\ seen' = seen
  BY <1>1 DEF Enter, WriteOwner, Goto, TypeOK
<1>3. Apart'
  BY <1>2 DEF LockInv, Apart, Stopped
<1>4. SUFFICES ASSUME Calm'
               PROVE  Owned' /\ Gone' /\ ~shared'
  BY <1>1, <1>3 DEF LockInv
<1>5. Owned /\ Gone /\ ~shared
  BY <1>1, <1>2, <1>4, CalmBefore DEF LockInv, Stopped
<1>6. \A q \in Process \ {p} : ~Holding(q)
  BY <1>2, <1>5 DEF Owned, Holding
<1>7. lock'.owner = p /\ lock'.written
  <2>1. lock.owner = p
    BY <1>2, <1>5 DEF Owned, Holding
  <2>2. lock' = [lock EXCEPT !.written = TRUE]
    BY <2>1 DEF Enter, WriteOwner
  <2>3. QED
    BY <1>1, <2>1, <2>2 DEF TypeOK
<1>8. Owned'
  BY <1>2, <1>6, <1>7 DEF Owned, Holding, ReplySteps
<1>9. Gone'
  BY <1>2, <1>5 DEF Gone, Stopped
<1>10. ~shared'
  BY <1>2, <1>5, <1>6 DEF Enter, Inside, Holding, ReplySteps
<1>11. QED
  BY <1>8, <1>9, <1>10

\* A reply's steps stay inside or begin to leave; they see the lock nowhere.
LEMMA ReplyHolds ==
  ASSUME TypeOK, NEW p \in Process, ReplyStep(p)
  PROVE  pc'[p] \in ReplySteps \cup {"exitRead"}
  BY DEF TypeOK, ReplySteps, Goto, Report, Continue, ReplyStep, CheckHead, LoadCheckpoint,
     DiscoverBefore, RecheckHead, SavePosting, Post, MarkPosted, DiscoverAfter,
     SaveConfirmed, CheckHeadAfter, ReadFails

LEMMA ReplyOwned ==
  ASSUME LockInv, NEW p \in Process, ReplyStep(p),
         UNCHANGED <<lock, tries, seen, request, world, shared>>
  PROVE  LockInv'
<1>1. TypeOK' /\ TypeOK
  BY ReplyTypes DEF LockInv
<1>2. /\ pc[p] \in ReplySteps /\ pc'[p] \in ReplySteps \cup {"exitRead"}
      /\ \A q \in Process \ {p} : pc'[q] = pc[q]
  BY <1>1, ReplyHolds, ReplyStaysInside DEF Inside
<1>3. Apart'
  BY <1>2 DEF LockInv, Apart, Stopped, ReplySteps
<1>4. Calm' => Calm
  BY <1>1, <1>2, CalmBefore DEF Stopped, ReplySteps
<1>5. Owned => Owned'
  BY <1>2 DEF Owned, Holding, ReplySteps
<1>6. Gone => Gone'
  BY <1>2 DEF Gone, Stopped, ReplySteps
<1>7. QED
  BY <1>1, <1>3, <1>4, <1>5, <1>6 DEF LockInv

LEMMA ResolveOwned ==
  ASSUME LockInv, NEW p \in Process, ResolveStep(p),
         UNCHANGED <<lock, tries, seen, request, reply, checkpoint, prior, moved, shared>>
  PROVE  LockInv'
<1>1. TypeOK' /\ TypeOK
  BY ResolveTypes DEF LockInv
<1>2. /\ pc[p] \in {"read1", "mutate", "read2"} /\ pc'[p] \in {"mutate", "read2", "done"}
      /\ \A q \in Process \ {p} : pc'[q] = pc[q]
  <2> USE <1>1 DEF TypeOK, Answer, Continue, Goto
  <2>1. CASE ReadThread(p)
    BY <2>1 DEF ReadThread
  <2>2. CASE MutateThread(p)
    BY <2>2 DEF MutateThread
  <2>3. CASE RereadThread(p)
    BY <2>3 DEF RereadThread
  <2>4. QED
    BY <2>1, <2>2, <2>3 DEF ResolveStep
<1>3. Apart'
  BY <1>2 DEF LockInv, Apart, Stopped
<1>4. Calm' => Calm
  BY <1>1, <1>2, CalmBefore DEF Stopped
<1>5. Owned => Owned'
  BY <1>2 DEF Owned, Holding, ReplySteps
<1>6. Gone => Gone'
  BY <1>2 DEF Gone, Stopped
<1>7. QED
  BY <1>1, <1>3, <1>4, <1>5, <1>6 DEF LockInv

LEMMA LockInvStep == LockInv /\ [Next]_vars => LockInv'
<1> SUFFICES ASSUME LockInv, [Next]_vars
             PROVE  LockInv'
  OBVIOUS
<1>0. TypeOK'
  BY TypeStep DEF LockInv
<1>1. ASSUME NEW p \in Process, Appear(p) PROVE LockInv'
  BY <1>0, <1>1 DEF Appear, lockVars, LockInv, Apart, Calm, Owned, Holding, Gone
<1>2. CASE MoveHead \/ Reopen \/ UNCHANGED vars
  BY <1>0, <1>2 DEF MoveHead, Reopen, vars, replyVars, lockVars, LockInv, Apart, Calm,
     Owned, Holding, Gone
<1>3. QED
  BY <1>1, <1>2, NextCases, LockOwned, EnterOwned, ReplyOwned, ResolveOwned

\* Two invocations are inside the lock of one checkpoint at once only after one
\* that had it was killed (StateLock, the second read and the unlink).
THEOREM SharedNeedsAKill == Spec => []SharedOnlyAfterAKill
<1>1. Init => LockInv
  <2> SUFFICES ASSUME Init
               PROVE  LockInv
    OBVIOUS
  <2>1. TypeOK
    BY InitInv DEF Inv
  <2>2. \A p \in Process : pc[p] = IF request[p] = Resolve THEN "read1" ELSE "create"
    BY DEF Init
  <2>3. Apart /\ Gone
    BY <2>2 DEF Apart, Gone
  <2>4. Owned
    BY <2>2, NoProcessAssumption DEF Init, LockInit, NoLock, Owned, Holding, ReplySteps
  <2>5. QED
    BY <2>1, <2>3, <2>4 DEF Init, LockInv
<1>2. LockInv => SharedOnlyAfterAKill
  BY DEF LockInv, Calm, SharedOnlyAfterAKill
<1>3. QED
  BY <1>1, <1>2, LockInvStep, PTL DEF Spec

-----------------------------------------------------------------------------
(* What "satisfied" says.  An invocation posts at most once (Unposted), so    *)
(* that what a listing once showed it goes on showing; and it goes on to      *)
(* "satisfied" only past a listing that shows its body (Known).               *)

BeforePost == {"create", "write", "read", "probe", "reread", "unlink",
               "head1", "load", "discover1", "head2", "save", "post"}

Unposted == \A p \in Process : pc[p] \in BeforePost => reply[p] = "none"

Resolving == \A p \in Process : pc[p] \in {"read1", "mutate", "read2"} => request[p] = Resolve

IsListed(p) == \E q \in Process : reply[q] = "listed" /\ request[q] = request[p]

Known ==
    \A p \in Process :
        /\ request[p] # Resolve
        /\ pc[p] \in {"confirm", "head3"} \/ outcome[p] = "satisfied"
        => IsListed(p)

ListedInv == TypeOK /\ Unposted /\ Resolving /\ Known

LEMMA StaysListed ==
  ASSUME TypeOK, request' = request,
         \A q \in Process : reply[q] = "listed" => reply'[q] = "listed",
         NEW p \in Process, IsListed(p)
  PROVE  IsListed(p)'
  BY DEF IsListed

\* The steps of the lock, entering included, read and write nothing of a reply.
LEMMA LockListed ==
  ASSUME ListedInv, NEW p \in Process, LockStep(p) \/ Enter(p),
         UNCHANGED <<request, reply, outcome>>, TypeOK'
  PROVE  ListedInv'
<1> USE DEF ListedInv, TypeOK, Goto, NextAttempt, BeforePost
<1>1. /\ \A q \in Process \ {p} : pc'[q] = pc[q]
      /\ pc'[p] \in BeforePost => pc[p] \in BeforePost
      /\ pc'[p] \notin {"confirm", "head3", "read1", "mutate", "read2"}
  <2>1. CASE LockStep(p)
    BY <2>1 DEF LockStep, Create, ReadOwner, Probe, Reread, Unlink, ExitRead, ExitUnlink, Kill
  <2>2. CASE Enter(p)
    BY <2>2 DEF Enter, WriteOwner
  <2>3. QED
    BY <2>1, <2>2
<1>2. Unposted'
  BY <1>1 DEF Unposted
<1>3. Resolving'
  BY <1>1 DEF Resolving
<1>4. \A q \in Process : IsListed(q) => IsListed(q)'
  BY StaysListed
<1>5. Known'
  BY <1>1, <1>4 DEF Known
<1>6. QED
  BY <1>2, <1>3, <1>5

LEMMA ReplyListed ==
  ASSUME ListedInv, NEW p \in Process, ReplyStep(p),
         UNCHANGED <<request, shared>>, TypeOK'
  PROVE  ListedInv'
<1> USE DEF ListedInv, TypeOK, Goto, Continue, Report, BeforePost
<1>1. /\ \A q \in Process \ {p} : pc'[q] = pc[q] /\ reply'[q] = reply[q]
                                    /\ outcome'[q] = outcome[q]
      /\ pc'[p] \in BeforePost => pc[p] \in BeforePost /\ reply'[p] = reply[p]
      /\ reply'[p] = reply[p] \/ pc[p] = "post"
      /\ pc'[p] \notin {"read1", "mutate", "read2"}
      /\ \/ pc'[p] \notin {"confirm", "head3"} /\ outcome'[p] # "satisfied"
         \/ reply' = reply /\ ~Conflicting(p) /\ Listed # {}
         \/ reply' = reply /\ pc[p] \in {"confirm", "head3"}
         \/ outcome' = outcome /\ pc'[p] \notin {"confirm", "head3"}
  <2>1. CASE CheckHead(p)
    BY <2>1 DEF CheckHead
  <2>2. CASE LoadCheckpoint(p)
    BY <2>2 DEF LoadCheckpoint
  <2>3. CASE DiscoverBefore(p)
    BY <2>3 DEF DiscoverBefore
  <2>4. CASE RecheckHead(p)
    BY <2>4 DEF RecheckHead
  <2>5. CASE SavePosting(p)
    BY <2>5 DEF SavePosting
  <2>6. CASE Post(p)
    BY <2>6 DEF Post
  <2>7. CASE MarkPosted(p)
    BY <2>7 DEF MarkPosted
  <2>8. CASE DiscoverAfter(p)
    BY <2>8 DEF DiscoverAfter
  <2>9. CASE SaveConfirmed(p)
    BY <2>9 DEF SaveConfirmed
  <2>10. CASE CheckHeadAfter(p)
    BY <2>10 DEF CheckHeadAfter
  <2>11. CASE ReadFails(p)
    BY <2>11 DEF ReadFails
  <2>12. QED
    BY <2>1, <2>2, <2>3, <2>4, <2>5, <2>6, <2>7, <2>8, <2>9, <2>10, <2>11 DEF ReplyStep
<1>2. Unposted'
  BY <1>1 DEF Unposted
<1>3. Resolving'
  BY <1>1 DEF Resolving
<1>4. \A q \in Process : reply[q] = "listed" => reply'[q] = "listed"
  BY <1>1 DEF Unposted
<1>5. \A q \in Process : IsListed(q) => IsListed(q)'
  BY <1>4, StaysListed
<1>6. ~Conflicting(p) /\ Listed # {} => IsListed(p)
  BY DEF Conflicting, Listed, IsListed
<1>7. Known'
  BY <1>1, <1>5, <1>6 DEF Known
<1>8. QED
  BY <1>2, <1>3, <1>7

LEMMA ResolveListed ==
  ASSUME ListedInv, NEW p \in Process, ResolveStep(p),
         UNCHANGED <<request, reply>>, TypeOK'
  PROVE  ListedInv'
<1> USE DEF ListedInv, TypeOK
<1>1. /\ pc[p] \in {"read1", "mutate", "read2"}
      /\ pc'[p] \notin BeforePost
      /\ \A q \in Process \ {p} : pc'[q] = pc[q] /\ outcome'[q] = outcome[q]
  <2> USE DEF Goto, Continue, Answer, BeforePost
  <2>1. CASE ReadThread(p)
    BY <2>1 DEF ReadThread
  <2>2. CASE MutateThread(p)
    BY <2>2 DEF MutateThread
  <2>3. CASE RereadThread(p)
    BY <2>3 DEF RereadThread
  <2>4. QED
    BY <2>1, <2>2, <2>3 DEF ResolveStep
<1>2. request[p] = Resolve
  BY <1>1 DEF Resolving
<1>3. Unposted' /\ Resolving'
  BY <1>1, <1>2 DEF Unposted, Resolving
<1>4. \A q \in Process : IsListed(q) => IsListed(q)'
  BY StaysListed
<1>5. Known'
  BY <1>1, <1>2, <1>4 DEF Known
<1>6. QED
  BY <1>3, <1>5

LEMMA ListedStep == ListedInv /\ [Next]_vars => ListedInv'
<1> SUFFICES ASSUME ListedInv, [Next]_vars
             PROVE  ListedInv'
  OBVIOUS
<1>0. TypeOK /\ TypeOK'
  BY TypeStep DEF ListedInv
<1>1. ASSUME NEW p \in Process, Appear(p) PROVE ListedInv'
  <2>1. \A q \in Process : IsListed(q) => IsListed(q)'
    BY <1>0, <1>1, StaysListed DEF Appear, TypeOK
  <2>2. /\ UNCHANGED <<pc, request, outcome>>
        /\ reply[p] # "none" /\ \A q \in Process \ {p} : reply'[q] = reply[q]
    BY <1>0, <1>1 DEF Appear, lockVars, TypeOK
  <2>3. Unposted' /\ Resolving' /\ Known'
    BY <2>1, <2>2 DEF ListedInv, Unposted, Resolving, Known
  <2>4. QED
    BY <1>0, <2>3 DEF ListedInv
<1>2. CASE MoveHead \/ Reopen \/ UNCHANGED vars
  <2>1. UNCHANGED <<pc, request, reply, outcome>>
    BY <1>2 DEF MoveHead, Reopen, vars, replyVars, lockVars
  <2>2. QED
    BY <1>0, <2>1 DEF ListedInv, Unposted, Resolving, Known, IsListed
<1>3. QED
  BY <1>0, <1>1, <1>2, NextCases, LockListed, ReplyListed, ResolveListed DEF replyVars

\* An invocation that reports a reply as done has seen it, and not another, in
\* the listing (discover), where it stays.
THEOREM SatisfiedReplyIsThere == Spec => []SatisfiedIsPosted
<1>1. Init => ListedInv
  <2> SUFFICES ASSUME Init
               PROVE  ListedInv
    OBVIOUS
  <2>1. TypeOK
    BY InitInv DEF Inv
  <2>2. QED
    BY <2>1 DEF Init, ListedInv, Unposted, Resolving, Known
<1>2. ListedInv /\ Inv => SatisfiedIsPosted
  <2> SUFFICES ASSUME ListedInv, Inv, NEW p \in Process,
                      outcome[p] = "satisfied", request[p] # Resolve
               PROVE  /\ \E q \in Listed : request[q] = request[p]
                      /\ shared \/ \A q \in Posted : request[q] = request[p]
    BY DEF SatisfiedIsPosted
  <2>1. PICK q \in Process : reply[q] = "listed" /\ request[q] = request[p]
    BY DEF ListedInv, Known, IsListed
  <2>2. q \in Listed /\ q \in Posted
    BY <2>1 DEF Listed, Posted
  <2>3. shared \/ \A r \in Posted : r = q
    BY <2>2 DEF Inv, PostsOnceUnlessShared
  <2>4. QED
    BY <2>1, <2>2, <2>3
<1>3. QED
  BY <1>1, <1>2, ListedStep, InvCorrect, PTL DEF Spec

-----------------------------------------------------------------------------
(* The CodeRabbit adapter.  Sets of numbers first: where Max and Min are.    *)

\* A set of natural numbers has a least element.
LEMMA LeastCount ==
  ASSUME NEW T, T \subseteq Nat, T # {}
  PROVE  \E m \in T : \A k \in T : m <= k
<1> DEFINE R == {ss \in Nat \X Nat : ss[1] < ss[2]}
<1>1. IsWellFoundedOn(R, Nat)
  BY NatLessThanWellFounded DEF OpToRel
<1> HIDE DEF R
<1>2. PICK m \in T : \A k \in T : <<k, m>> \notin R
  BY <1>1, WFMin
<1>3. \A k \in T : ~(k < m)
  BY <1>2 DEF R
<1>4. QED
  BY <1>2, <1>3

\* A finite set that a relation orders has a greatest element.
LEMMA GreatestExists ==
  ASSUME NEW S, IsFiniteSet(S), S # {}, NEW R,
         \A x, y, z \in S : <<x, y>> \in R /\ <<y, z>> \in R => <<x, z>> \in R,
         \A x, y \in S : x = y \/ <<x, y>> \in R \/ <<y, x>> \in R
  PROVE  \E m \in S : \A x \in S \ {m} : <<x, m>> \in R
<1> DEFINE Greatest(T, m) == m \in T /\ \A x \in T \ {m} : <<x, m>> \in R
           Bad == {T \in SUBSET S : T # {} /\ ~ \E m : Greatest(T, m)}
           Sizes == {Cardinality(T) : T \in Bad}
<1> SUFFICES ASSUME Bad # {} PROVE FALSE
  <2>1. S \notin Bad => \E m : Greatest(S, m)
    OBVIOUS
  <2>2. QED
    BY <2>1
<1>1. \A T \in Bad : IsFiniteSet(T) /\ Cardinality(T) \in Nat
  BY FS_Subset, FS_CardinalityType
<1>2. PICK n \in Sizes : \A k \in Sizes : n <= k
  <2>1. Sizes \subseteq Nat /\ Sizes # {}
    BY <1>1
  <2> HIDE DEF Sizes
  <2>2. QED
    BY <2>1, LeastCount
<1>3. PICK T \in Bad : Cardinality(T) = n
  OBVIOUS
<1>4. PICK a \in T : TRUE
  OBVIOUS
<1> DEFINE Rest == T \ {a}
<1>5. IsFiniteSet(Rest) /\ Cardinality(Rest) = n - 1 /\ n \in Nat
  <2>1. IsFiniteSet(T) /\ Cardinality(T) = n /\ n \in Nat
    BY <1>1, <1>3
  <2>2. a \in T
    OBVIOUS
  <2> HIDE DEF Bad, Sizes
  <2>3. QED
    BY <2>1, <2>2, FS_RemoveElement
<1>6. Rest \notin Bad
  <2> SUFFICES ASSUME Rest \in Bad PROVE FALSE
    OBVIOUS
  <2>1. Cardinality(Rest) \in Sizes
    OBVIOUS
  <2> HIDE DEF Bad, Sizes, Rest
  <2>2. QED
    BY <1>2, <1>5, <2>1
<1>7. CASE Rest = {}
  <2>1. Greatest(T, a)
    BY <1>4, <1>7
  <2>2. QED
    BY <2>1
<1>8. CASE Rest # {}
  <2>1. PICK m : Greatest(Rest, m)
    BY <1>6, <1>8
  <2>2. Greatest(T, m) \/ Greatest(T, a)
    <3>1. m \in S /\ a \in S /\ m # a /\ \A x \in Rest : x \in S
      BY <1>4, <2>1
    <3>2. CASE <<a, m>> \in R
      BY <1>4, <2>1, <3>2
    <3>3. CASE <<m, a>> \in R
      <4>1. ASSUME NEW x \in Rest PROVE <<x, a>> \in R
        BY <2>1, <3>1, <3>3
      <4>2. QED
        BY <1>4, <4>1
    <3>4. QED
      BY <3>1, <3>2, <3>3
  <2>3. QED
    BY <2>2
<1>9. QED
  BY <1>7, <1>8

\* The greatest of a finite set of numbers.
LEMMA MaxIs ==
  ASSUME NEW S, S \subseteq Int, IsFiniteSet(S), S # {}
  PROVE  Max(S) \in S /\ \A x \in S : Max(S) >= x
<1> DEFINE R == {p \in Int \X Int : p[1] < p[2]}
<1>1. \A x, y \in Int : <<x, y>> \in R <=> x < y
  OBVIOUS
<1>2. PICK m \in S : \A x \in S \ {m} : <<x, m>> \in R
  <2>1. /\ \A x, y, z \in S : <<x, y>> \in R /\ <<y, z>> \in R => <<x, z>> \in R
        /\ \A x, y \in S : x = y \/ <<x, y>> \in R \/ <<y, x>> \in R
    OBVIOUS
  <2> HIDE DEF R
  <2>2. QED
    BY <2>1, GreatestExists
<1> HIDE DEF R
<1>3. \A x \in S : m >= x
  <2> TAKE x \in S
  <2>1. x # m => <<x, m>> \in R
    BY <1>2
  <2>2. x \in Int /\ m \in Int
    OBVIOUS
  <2>3. QED
    BY <1>1, <2>1, <2>2
<1>4. QED
  BY <1>3 DEF Max

LEMMA PairFinite ==
  ASSUME NEW a, NEW b
  PROVE  IsFiniteSet({a, b})
<1>1. IsFiniteSet({a})
  BY FS_Singleton
<1>2. IsFiniteSet({a} \cup {b})
  BY <1>1, FS_AddElement
<1>3. {a, b} = {a} \cup {b}
  OBVIOUS
<1>4. QED
  BY <1>2, <1>3

LEMMA LatestIs ==
  ASSUME NEW times, times \subseteq Int, IsFiniteSet(times)
  PROVE  /\ Latest(times) \in times \cup {Never}
         /\ Latest(times) \in Int
         /\ Latest(times) >= Never
         /\ \A x \in times : Latest(times) >= x
<1>1. IsFiniteSet(times \cup {Never}) /\ times \cup {Never} \subseteq Int
  BY FS_AddElement DEF Never
<1>2. QED
  BY <1>1, MaxIs DEF Latest, Never
-----------------------------------------------------------------------------
\* What evidence is: times are numbers, and no two triggers have one id.
Kinds == {"none", "in-progress", "completed", "paused", "skipped", "draft-skip", "rate-limited",
          "lock-loss"}
Waits == [retryAt : Int, noCapacity : BOOLEAN]
StatusRecords == [at : Int, kind : Kinds, wait : Waits]
Entries == [id : Nat, at : Nat, mode : Modes, listed : BOOLEAN]

TriggersOK(triggers) ==
    /\ triggers \subseteq Entries
    /\ IsFiniteSet(triggers)
    /\ \A t, u \in triggers : t.id = u.id => t = u

EvidenceOK(e) ==
    /\ {e.arrival, e.opened, e.earlierEnd, e.findings} \subseteq Int
    /\ e.statuses \in Seq(StatusRecords)
    /\ TriggersOK(e.triggers)

LEMMA BoundsAre ==
  /\ Automatic \in Nat \ {0} /\ TriggerAnswer \in Nat \ {0}
  /\ InProgress \in Nat \ {0} /\ UnknownWait \in Nat \ {0}
BY BoundsAssumption

LEMMA StartOfPull ==
  ASSUME NEW p, p.arrival \in Int, p.opened \in Int
  PROVE  /\ Start(p) \in Int /\ Start(p) >= Never
         /\ Start(p) >= p.arrival /\ Start(p) >= p.opened
         /\ Start(p) \in {p.arrival, p.opened, Never}
<1>1. IsFiniteSet({p.arrival, p.opened})
  BY PairFinite
<1>2. {p.arrival, p.opened} \subseteq Int
  OBVIOUS
<1>3. QED
  BY <1>1, <1>2, LatestIs DEF Start

LEMMA StartIs ==
  ASSUME NEW e, EvidenceOK(e)
  PROVE  Start(e) \in Int /\ Start(e) >= e.arrival /\ Start(e) >= e.opened /\ Start(e) >= Never
<1>1. e.arrival \in Int /\ e.opened \in Int
  BY DEF EvidenceOK
<1>2. QED
  BY <1>1, StartOfPull

\* The triggers of a cycle have a latest.
LEMMA LatestTriggerIs ==
  ASSUME NEW e, EvidenceOK(e), OfCycle(e) # {}
  PROVE  /\ LatestTrigger(e) \in OfCycle(e)
         /\ \A u \in OfCycle(e) : u.at <= LatestTrigger(e).at
<1> DEFINE S == OfCycle(e)
           R == {p \in Entries \X Entries : Precedes(p[1], p[2])}
<1>1. S \subseteq e.triggers /\ IsFiniteSet(S) /\ S \subseteq Entries
  BY FS_Subset DEF OfCycle, EvidenceOK, TriggersOK
<1>2. \A t, u \in Entries : <<t, u>> \in R <=> Precedes(t, u)
  OBVIOUS
<1>3. \A t, u \in S : t = u \/ Precedes(t, u) \/ Precedes(u, t)
  <2> TAKE t, u \in S
  <2>1. t.id = u.id => t = u
    BY <1>1 DEF EvidenceOK, TriggersOK
  <2>2. /\ t.id \in Nat /\ u.id \in Nat /\ t.at \in Nat /\ u.at \in Nat
        /\ t.listed \in BOOLEAN /\ u.listed \in BOOLEAN
    BY <1>1 DEF Entries
  <2>3. QED
    BY <2>1, <2>2 DEF Precedes
<1>4. \A t, u, v \in Entries : Precedes(t, u) /\ Precedes(u, v) => Precedes(t, v)
  <2> TAKE t, u, v \in Entries
  <2>1. /\ t.id \in Nat /\ u.id \in Nat /\ v.id \in Nat
        /\ t.at \in Nat /\ u.at \in Nat /\ v.at \in Nat
        /\ t.listed \in BOOLEAN /\ u.listed \in BOOLEAN /\ v.listed \in BOOLEAN
    BY DEF Entries
  <2>2. QED
    BY <2>1 DEF Precedes
<1> HIDE DEF S, R
<1>5. PICK m \in S : \A u \in S \ {m} : <<u, m>> \in R
  <2>1. S # {}
    BY DEF S
  <2>2. /\ \A x, y, z \in S : <<x, y>> \in R /\ <<y, z>> \in R => <<x, z>> \in R
        /\ \A x, y \in S : x = y \/ <<x, y>> \in R \/ <<y, x>> \in R
    BY <1>1, <1>2, <1>3, <1>4
  <2>3. QED
    BY <1>1, <2>1, <2>2, GreatestExists
<1>6. \A u \in S \ {m} : Precedes(u, m)
  BY <1>1, <1>2, <1>5
<1>7. /\ LatestTrigger(e) \in S
      /\ \A u \in S \ {LatestTrigger(e)} : Precedes(u, LatestTrigger(e))
  BY <1>6 DEF LatestTrigger, S
<1>8. \A u \in S : u.at <= LatestTrigger(e).at
  <2> TAKE u \in S
  <2>1. u.at \in Nat /\ LatestTrigger(e).at \in Nat
    BY <1>1, <1>7 DEF Entries
  <2>2. QED
    BY <1>7, <2>1 DEF Precedes
<1>9. QED
  BY <1>7, <1>8 DEF S

LEMMA LatestTriggerType ==
  ASSUME NEW e, EvidenceOK(e)
  PROVE  /\ LatestTrigger(e) \in e.triggers \cup {NoTrigger}
         /\ LatestTrigger(e).at \in Int
         /\ LatestTrigger(e) # NoTrigger => LatestTrigger(e) \in e.triggers
         /\ OfCycle(e) # {} => LatestTrigger(e) # NoTrigger
<1>1. CASE OfCycle(e) = {}
  BY <1>1 DEF LatestTrigger, NoTrigger, Never
<1>2. CASE OfCycle(e) # {}
  <2>1. LatestTrigger(e) \in e.triggers /\ LatestTrigger(e) \in Entries
    BY <1>2, LatestTriggerIs DEF OfCycle, EvidenceOK, TriggersOK
  <2>2. LatestTrigger(e).at \in Nat
    BY <2>1 DEF Entries
  <2>3. NoTrigger.at = -1
    BY DEF NoTrigger, Never
  <2>4. QED
    BY <2>1, <2>2, <2>3
<1>3. QED
  BY <1>1, <1>2

\* The status that decides is one of the head's, or none.
LEMMA CurrentStatusIs ==
  ASSUME NEW e, EvidenceOK(e)
  PROVE  \/ \E k \in DOMAIN e.statuses : CurrentStatus(e) = e.statuses[k]
         \/ CurrentStatus(e) = NoStatus
<1> DEFINE answered == {k \in DOMAIN e.statuses : e.statuses[k].kind # "skipped"}
<1>1. Newest(e.statuses) = NoStatus \/ \E k \in DOMAIN e.statuses : Newest(e.statuses) = e.statuses[k]
  <2>1. e.statuses # <<>> => Len(e.statuses) \in DOMAIN e.statuses
    BY DEF EvidenceOK
  <2>2. QED
    BY <2>1 DEF Newest
<1>2. answered # {} => Max(answered) \in DOMAIN e.statuses
  <2>1. answered \subseteq 1..Len(e.statuses) /\ Len(e.statuses) \in Nat
    BY DEF EvidenceOK
  <2>2. IsFiniteSet(answered) /\ answered \subseteq Int
    <3>1. IsFiniteSet(1..Len(e.statuses))
      BY <2>1, FS_Interval
    <3>2. QED
      BY <2>1, <3>1, FS_Subset
  <2>3. answered # {} => Max(answered) \in answered
    BY <2>2, MaxIs
  <2>4. QED
    BY <2>3
<1>3. QED
  BY <1>1, <1>2 DEF CurrentStatus

LEMMA CurrentStatusType ==
  ASSUME NEW e, EvidenceOK(e)
  PROVE  /\ CurrentStatus(e).at \in Int
         /\ CurrentStatus(e).wait.retryAt \in Int
<1>1. \A k \in DOMAIN e.statuses : e.statuses[k] \in StatusRecords
  BY DEF EvidenceOK
<1>2. NoStatus.at \in Int /\ NoStatus.wait.retryAt \in Int
  BY DEF NoStatus, Status, NoWait, Never
<1>3. QED
  BY <1>1, <1>2, CurrentStatusIs DEF StatusRecords, Waits
-----------------------------------------------------------------------------
(* What decide() answers stays the answer until the time it names.  The      *)
(* evidence is fixed; n is the time of the decision and t a later one.       *)

Kept(d, n, t) == d.until = Never \/ t < d.until

LEMMA BoundedIs ==
  ASSUME NEW pending, NEW blocked, NEW since \in Int, NEW seconds \in Nat, NEW mode,
         NEW n \in Nat, NEW t \in Int, n < t,
         Kept(Bounded(pending, blocked, since, seconds, mode, n), n, t)
  PROVE  Bounded(pending, blocked, since, seconds, mode, t).state
            = Bounded(pending, blocked, since, seconds, mode, n).state
BY DEF Bounded, Kept, Verdict, Is, Never

LEMMA GateStays ==
  ASSUME NEW e, EvidenceOK(e), NEW mode, NEW n \in Nat, NEW t \in Int, n < t,
         Kept(Gate(e, mode, n), n, t)
  PROVE  Gate(e, mode, t).state = Gate(e, mode, n).state
<1> DEFINE status == CurrentStatus(e)
           refused == status.kind = "rate-limited"
           unknown(now_) == Bounded("rate-limited-unknown-wait", "blocked-unknown-wait", status.at,
                                    UnknownWait, mode, now_)
<1>1. status.at \in Int /\ status.wait.retryAt \in Int /\ UnknownWait \in Nat
  BY CurrentStatusType, BoundsAre
<1>2. CASE refused /\ status.wait = NoWait
  <2>1. Gate(e, mode, n) = unknown(n) /\ Gate(e, mode, t) = unknown(t)
    BY <1>2 DEF Gate
  <2>2. QED
    BY <1>1, <2>1, BoundedIs
<1>3. CASE ~(refused /\ status.wait = NoWait)
  BY <1>1, <1>3 DEF Gate, Kept, Verdict, Is, Never
<1>4. QED
  BY <1>2, <1>3

LEMMA AfterLockLossStays ==
  ASSUME NEW e, EvidenceOK(e), NEW n \in Nat, NEW t \in Int, n < t,
         Kept(AfterLockLoss(e, n), n, t)
  PROVE  AfterLockLoss(e, t).state = AfterLockLoss(e, n).state
<1> DEFINE losses == {i \in DOMAIN e.statuses :
                        e.statuses[i].kind = "lock-loss" /\ e.statuses[i].at >= Start(e)}
           answered == \E i \in DOMAIN e.statuses :
                          /\ e.statuses[i].kind # "in-progress"
                          /\ LatestTrigger(e).at < e.statuses[i].at
                          /\ e.statuses[i].at < CurrentStatus(e).at
           mode == IF LatestTrigger(e) = NoTrigger \/ answered THEN "incremental"
                   ELSE LatestTrigger(e).mode
<1>1. \A x : AfterLockLoss(e, x) =
                IF Cardinality(losses) > 1 THEN Is("blocked-lock-loss") ELSE Gate(e, mode, x)
  BY DEF AfterLockLoss
<1> HIDE DEF losses, mode
<1>2. CASE Cardinality(losses) > 1
  BY <1>1, <1>2
<1>3. CASE ~(Cardinality(losses) > 1)
  BY <1>1, <1>3, GateStays
<1>4. QED
  BY <1>2, <1>3

LEMMA AfterCompletedStays ==
  ASSUME NEW e, EvidenceOK(e), NEW n \in Nat, NEW t \in Int, n < t,
         Kept(AfterCompleted(e, n), n, t)
  PROVE  AfterCompleted(e, t).state = AfterCompleted(e, n).state
<1> DEFINE until == CurrentStatus(e).at + Automatic
           twice == \E u \in OfCycle(e) : u.mode = "full"
<1>1. until \in Int
  BY CurrentStatusType, BoundsAre
<1>2. \A x : AfterCompleted(e, x) =
                IF twice THEN Is("blocked-unconfirmed")
                ELSE IF x < until THEN AwaitAutomatic(until) ELSE Gate(e, "full", x)
  BY DEF AfterCompleted
<1> HIDE DEF until, twice
<1>3. CASE twice
  BY <1>2, <1>3
<1>4. CASE ~twice /\ n < until
  <2>1. AfterCompleted(e, n) = AwaitAutomatic(until)
    BY <1>2, <1>4
  <2>2. t < until
    BY <1>1, <1>4, <2>1 DEF Kept, AwaitAutomatic, Verdict, Never
  <2>3. QED
    BY <1>2, <1>4, <2>2
<1>5. CASE ~twice /\ ~(n < until)
  <2>1. ~(t < until)
    BY <1>1, <1>5
  <2>2. QED
    BY <1>2, <1>5, <2>1, GateStays
<1>6. QED
  BY <1>3, <1>4, <1>5

LEMMA ByStatusStays ==
  ASSUME NEW e, EvidenceOK(e), NEW n \in Nat, NEW t \in Int, n < t,
         Kept(ByStatus(e, n), n, t)
  PROVE  ByStatus(e, t).state = ByStatus(e, n).state
<1> DEFINE kind == CurrentStatus(e).kind
           mode == IF LatestTrigger(e) = NoTrigger THEN "incremental" ELSE LatestTrigger(e).mode
<1>1. \A x : ByStatus(e, x) =
          IF kind \in {"none", "draft-skip"} THEN Gate(e, "incremental", x)
          ELSE IF kind = "lock-loss" THEN AfterLockLoss(e, x)
          ELSE IF kind \in {"skipped", "paused"} THEN Is(kind)
          ELSE IF kind = "rate-limited" THEN Gate(e, mode, x)
          ELSE IF kind = "completed" THEN AfterCompleted(e, x)
          ELSE Is("unrecognized-status")
  BY DEF ByStatus
<1> HIDE DEF kind, mode
<1>2. CASE kind \in {"none", "draft-skip"}
  BY <1>1, <1>2, GateStays
<1>3. CASE kind = "lock-loss"
  BY <1>1, <1>3, AfterLockLossStays
<1>4. CASE kind = "rate-limited"
  BY <1>1, <1>4, GateStays
<1>5. CASE kind = "completed"
  BY <1>1, <1>5, AfterCompletedStays
<1>6. CASE kind \notin {"none", "draft-skip", "lock-loss", "rate-limited", "completed"}
  BY <1>1, <1>6
<1>7. QED
  BY <1>2, <1>3, <1>4, <1>5, <1>6
\* What decide() makes of the evidence before the time matters.
Reviewed(e) ==
    /\ e.findings > ReviewedSince(e)
    /\ CurrentStatus(e).kind # "in-progress" \/ e.findings > CurrentStatus(e).at
Pends(e) == CurrentStatus(e).kind = "in-progress" /\ ~TriggerNewer(e)
Passed(e) == e.clean /\ Latest(TimesOf(e.statuses, {"completed"})) > ReviewedSince(e)
Unreviewed(e) == CurrentStatus(e).kind \in {"none", "draft-skip"}
Automatically(e) == Unreviewed(e) \/ Start(e) > CurrentStatus(e).at

PendingAnswer(e, x) ==
    Bounded("in-progress", "blocked-stalled", Latest({CurrentStatus(e).at, Start(e)}),
            InProgress, "none", x)
TriggeredAnswer(e, x) ==
    Bounded("triggered", "blocked-unanswered", LatestTrigger(e).at, TriggerAnswer, "none", x)

LEMMA DecideIs ==
  ASSUME NEW e, NEW x
  PROVE  Decide(e, x) =
            IF e.head # ThisHead THEN Is("invalidated")
            ELSE IF ~e.open THEN Is("closed")
            ELSE IF Reviewed(e) THEN Is("review-complete")
            ELSE IF Pends(e) THEN PendingAnswer(e, x)
            ELSE IF Passed(e) THEN Is("clean-complete")
            ELSE IF Unreviewed(e) /\ e.draft THEN Is("draft")
            ELSE IF TriggerNewer(e) THEN TriggeredAnswer(e, x)
            ELSE IF Automatically(e) /\ x < AutomaticUntil(e)
                 THEN AwaitAutomatic(AutomaticUntil(e))
            ELSE ByStatus(e, x)
BY DEF Decide, Reviewed, Pends, Passed, Unreviewed, Automatically, PendingAnswer, TriggeredAnswer

LEMMA AutomaticUntilIs ==
  ASSUME NEW e, EvidenceOK(e)
  PROVE  /\ AutomaticUntil(e) \in Int
         /\ \/ AutomaticUntil(e) = Start(e) + InProgress
            \/ AutomaticUntil(e) = Start(e) + Automatic
            \/ AutomaticUntil(e) = Latest({Start(e), e.earlierEnd}) + Automatic
         /\ Latest({Start(e), e.earlierEnd}) \in {Start(e), e.earlierEnd, Never}
<1>1. {Start(e), e.earlierEnd} \subseteq Int
  BY StartIs DEF EvidenceOK
<1>2. IsFiniteSet({Start(e), e.earlierEnd})
  BY PairFinite
<1>3. /\ Latest({Start(e), e.earlierEnd}) \in Int
      /\ Latest({Start(e), e.earlierEnd}) \in {Start(e), e.earlierEnd} \cup {Never}
  BY <1>1, <1>2, LatestIs
<1>4. QED
  BY <1>3, StartIs, BoundsAre DEF AutomaticUntil

LEMMA PendingSince ==
  ASSUME NEW e, EvidenceOK(e)
  PROVE  /\ Latest({CurrentStatus(e).at, Start(e)}) \in Int
         /\ Latest({CurrentStatus(e).at, Start(e)}) \in {CurrentStatus(e).at, Start(e), Never}
<1>1. {CurrentStatus(e).at, Start(e)} \subseteq Int
  BY StartIs, CurrentStatusType
<1>2. IsFiniteSet({CurrentStatus(e).at, Start(e)})
  BY PairFinite
<1>3. /\ Latest({CurrentStatus(e).at, Start(e)}) \in Int
      /\ Latest({CurrentStatus(e).at, Start(e)}) \in {CurrentStatus(e).at, Start(e)} \cup {Never}
  BY <1>1, <1>2, LatestIs
<1>4. QED
  BY <1>3

\* What decide() answers is the answer until the time it names.
LEMMA DecisionStays ==
  ASSUME NEW e, EvidenceOK(e), NEW n \in Nat, NEW t \in Int, n < t, Kept(Decide(e, n), n, t)
  PROVE  Decide(e, t).state = Decide(e, n).state
<1> DEFINE until == AutomaticUntil(e)
<1>1. CASE e.head # ThisHead
  BY <1>1, DecideIs
<1>2. CASE e.head = ThisHead /\ ~e.open
  BY <1>2, DecideIs
<1>3. CASE e.head = ThisHead /\ e.open /\ Reviewed(e)
  BY <1>3, DecideIs
<1>4. CASE e.head = ThisHead /\ e.open /\ ~Reviewed(e) /\ Pends(e)
  <2>1. \A x : Decide(e, x) = PendingAnswer(e, x)
    BY <1>4, DecideIs
  <2>2. QED
    BY <2>1, BoundedIs, PendingSince, BoundsAre DEF PendingAnswer
<1>5. CASE e.head = ThisHead /\ e.open /\ ~Reviewed(e) /\ ~Pends(e) /\ Passed(e)
  BY <1>5, DecideIs
<1> DEFINE Goes == e.head = ThisHead /\ e.open /\ ~Reviewed(e) /\ ~Pends(e) /\ ~Passed(e)
<1>6. CASE Goes /\ Unreviewed(e) /\ e.draft
  BY <1>6, DecideIs
<1>7. CASE Goes /\ ~(Unreviewed(e) /\ e.draft) /\ TriggerNewer(e)
  <2>1. \A x : Decide(e, x) = TriggeredAnswer(e, x)
    BY <1>7, DecideIs
  <2>2. QED
    BY <2>1, BoundedIs, LatestTriggerType, BoundsAre DEF TriggeredAnswer
<1> DEFINE Last0 == Goes /\ ~(Unreviewed(e) /\ e.draft) /\ ~TriggerNewer(e)
<1>8. CASE Last0 /\ Automatically(e) /\ n < until
  <2>1. Decide(e, n) = AwaitAutomatic(until)
    BY <1>8, DecideIs
  <2>2. t < until
    BY <1>8, <2>1, AutomaticUntilIs DEF Kept, AwaitAutomatic, Verdict, Never
  <2>3. Decide(e, t) = AwaitAutomatic(until)
    BY <1>8, <2>2, DecideIs
  <2>4. QED
    BY <2>1, <2>3
<1>9. CASE Last0 /\ ~(Automatically(e) /\ n < until)
  <2>1. ~(Automatically(e) /\ t < until)
    <3>1. until \in Int
      BY AutomaticUntilIs
    <3>2. ~Automatically(e) \/ ~(n < until)
      BY <1>9
    <3> HIDE DEF until
    <3>3. t < until => n < until
      BY <3>1
    <3>4. QED
      BY <3>2, <3>3
  <2>2. Decide(e, n) = ByStatus(e, n)
    BY <1>9, DecideIs
  <2>3. Decide(e, t) = ByStatus(e, t)
    BY <1>9, <2>1, DecideIs
  <2>4. QED
    BY <2>2, <2>3, ByStatusStays
<1>10. QED
  BY <1>1, <1>2, <1>3, <1>4, <1>5, <1>6, <1>7, <1>8, <1>9
-----------------------------------------------------------------------------
(* Once the longest bound has passed since the last thing the evidence tells, *)
(* the answer is final or permits a trigger.                                  *)

Settled(d) == d.state \in Final \cup Permits

LEMMA PermitSettles ==
  ASSUME NEW mode, NEW until
  PROVE  Settled(Verdict(Permit(mode), mode, until))
BY DEF Settled, Verdict, Permit, Permits, Modes

LEMMA GateSettles ==
  ASSUME NEW e, EvidenceOK(e), NEW mode, NEW t \in Int,
         t >= CurrentStatus(e).at + UnknownWait, t >= CurrentStatus(e).wait.retryAt
  PROVE  Settled(Gate(e, mode, t))
<1> DEFINE status == CurrentStatus(e)
           refused == status.kind = "rate-limited"
<1>1. status.at \in Int /\ status.wait.retryAt \in Int /\ UnknownWait \in Nat
  BY CurrentStatusType, BoundsAre
<1>2. CASE refused /\ status.wait = NoWait
  <2>1. Gate(e, mode, t) = Is("blocked-unknown-wait")
    BY <1>1, <1>2 DEF Gate, Bounded
  <2>2. QED
    BY <2>1 DEF Settled, Is, Verdict, Final
<1>3. CASE ~(refused /\ status.wait = NoWait) /\ refused /\ status.wait.noCapacity
  <2>1. Gate(e, mode, t) = Is("blocked-no-capacity")
    BY <1>3 DEF Gate
  <2>2. QED
    BY <2>1 DEF Settled, Is, Verdict, Final
<1>4. CASE ~(refused /\ status.wait = NoWait) /\ ~(refused /\ status.wait.noCapacity)
  <2>1. Gate(e, mode, t) = Verdict(Permit(mode), mode, Never)
    BY <1>1, <1>4 DEF Gate
  <2>2. QED
    BY <2>1, PermitSettles
<1>5. QED
  BY <1>2, <1>3, <1>4

LEMMA ByStatusSettles ==
  ASSUME NEW e, EvidenceOK(e), NEW t \in Int,
         t >= CurrentStatus(e).at + UnknownWait, t >= CurrentStatus(e).at + Automatic,
         t >= CurrentStatus(e).wait.retryAt
  PROVE  Settled(ByStatus(e, t))
<1>1. \A mode : Settled(Gate(e, mode, t))
  BY GateSettles
<1>2. \A state \in Final : Settled(Is(state))
  BY DEF Settled, Is, Verdict
<1>3. {"blocked-lock-loss", "blocked-unconfirmed", "skipped", "paused", "unrecognized-status"}
        \subseteq Final
  BY DEF Final
<1>4. Settled(AfterLockLoss(e, t))
  BY <1>1, <1>2, <1>3 DEF AfterLockLoss
<1>5. Settled(AfterCompleted(e, t))
  <2>1. ~(t < CurrentStatus(e).at + Automatic)
    BY CurrentStatusType, BoundsAre
  <2>2. AfterCompleted(e, t) \in {Is("blocked-unconfirmed"), Gate(e, "full", t)}
    BY <2>1 DEF AfterCompleted
  <2>3. QED
    BY <1>1, <1>2, <1>3, <2>2
<1>6. QED
  <2> DEFINE kind == CurrentStatus(e).kind
             mode == IF LatestTrigger(e) = NoTrigger THEN "incremental" ELSE LatestTrigger(e).mode
  <2>1. ByStatus(e, t) =
          IF kind \in {"none", "draft-skip"} THEN Gate(e, "incremental", t)
          ELSE IF kind = "lock-loss" THEN AfterLockLoss(e, t)
          ELSE IF kind \in {"skipped", "paused"} THEN Is(kind)
          ELSE IF kind = "rate-limited" THEN Gate(e, mode, t)
          ELSE IF kind = "completed" THEN AfterCompleted(e, t)
          ELSE Is("unrecognized-status")
    BY DEF ByStatus
  <2> HIDE DEF kind, mode
  <2>2. QED
    BY <1>1, <1>2, <1>3, <1>4, <1>5, <2>1

\* The last time the evidence tells.
LEMMA LastKnownIs ==
  ASSUME NEW e, EvidenceOK(e)
  PROVE  /\ LastKnown(e) \in Int /\ LastKnown(e) >= Never
         /\ LastKnown(e) >= Start(e) /\ LastKnown(e) >= e.earlierEnd
         /\ \A t \in e.triggers : LastKnown(e) >= t.at
         /\ \A k \in DOMAIN e.statuses :
               /\ LastKnown(e) >= e.statuses[k].at
               /\ LastKnown(e) >= e.statuses[k].wait.retryAt
<1> DEFINE A == {Start(e), e.earlierEnd}
           B == {t.at : t \in e.triggers}
           C == {e.statuses[i].at : i \in DOMAIN e.statuses}
           D == {e.statuses[i].wait.retryAt : i \in DOMAIN e.statuses}
<1>1. IsFiniteSet(A) /\ A \subseteq Int
  <2>1. A \subseteq Int
    BY StartIs DEF EvidenceOK
  <2>2. QED
    BY <2>1, PairFinite
<1>2. IsFiniteSet(B) /\ B \subseteq Int
  <2>1. IsFiniteSet(e.triggers) /\ e.triggers \subseteq Entries
    BY DEF EvidenceOK, TriggersOK
  <2>2. IsFiniteSet(B)
    <3> DEFINE f == [t \in e.triggers |-> t.at]
    <3>1. f \in Surjection(e.triggers, B)
      BY DEF Surjection
    <3>2. QED
      BY <2>1, <3>1, FS_Surjection
  <2>3. QED
    BY <2>1, <2>2 DEF Entries
<1>3. IsFiniteSet(DOMAIN e.statuses) /\ \A k \in DOMAIN e.statuses : e.statuses[k] \in StatusRecords
  <2>1. DOMAIN e.statuses = 1..Len(e.statuses) /\ Len(e.statuses) \in Nat
    BY DEF EvidenceOK
  <2>2. IsFiniteSet(1..Len(e.statuses))
    BY <2>1, FS_Interval
  <2>3. \A k \in DOMAIN e.statuses : e.statuses[k] \in StatusRecords
    BY DEF EvidenceOK
  <2>4. QED
    BY <2>1, <2>2, <2>3
<1>4. IsFiniteSet(C) /\ C \subseteq Int
  <2> DEFINE f == [k \in DOMAIN e.statuses |-> e.statuses[k].at]
  <2>1. f \in Surjection(DOMAIN e.statuses, C)
    BY DEF Surjection
  <2>2. IsFiniteSet(C)
    BY <1>3, <2>1, FS_Surjection
  <2>3. QED
    BY <1>3, <2>2 DEF StatusRecords
<1>5. IsFiniteSet(D) /\ D \subseteq Int
  <2> DEFINE f == [k \in DOMAIN e.statuses |-> e.statuses[k].wait.retryAt]
  <2>1. f \in Surjection(DOMAIN e.statuses, D)
    BY DEF Surjection
  <2>2. IsFiniteSet(D)
    BY <1>3, <2>1, FS_Surjection
  <2>3. QED
    BY <1>3, <2>2 DEF StatusRecords, Waits
<1>6. LastKnown(e) = Latest(A \cup B \cup C \cup D)
  BY DEF LastKnown
<1> HIDE DEF A, B, C, D
<1>7. IsFiniteSet(A \cup B \cup C \cup D) /\ A \cup B \cup C \cup D \subseteq Int
  <2>1. IsFiniteSet(A \cup B)
    BY <1>1, <1>2, FS_Union
  <2>2. IsFiniteSet((A \cup B) \cup C)
    BY <1>4, <2>1, FS_Union
  <2>3. IsFiniteSet(((A \cup B) \cup C) \cup D)
    BY <1>5, <2>2, FS_Union
  <2>4. QED
    BY <1>1, <1>2, <1>4, <1>5, <2>3
<1>8. /\ LastKnown(e) \in Int /\ LastKnown(e) >= Never
      /\ \A x \in A \cup B \cup C \cup D : LastKnown(e) >= x
  BY <1>6, <1>7, LatestIs
<1>9. QED
  BY <1>8 DEF A, B, C, D
LEMMA LongestIs ==
  /\ Max({Automatic, TriggerAnswer, InProgress, UnknownWait}) \in Int
  /\ \A b \in {Automatic, TriggerAnswer, InProgress, UnknownWait} :
        Max({Automatic, TriggerAnswer, InProgress, UnknownWait}) >= b
<1> DEFINE S == {Automatic, TriggerAnswer, InProgress, UnknownWait}
<1>1. IsFiniteSet({Automatic, TriggerAnswer}) /\ IsFiniteSet({InProgress, UnknownWait})
  BY PairFinite
<1>2. IsFiniteSet({Automatic, TriggerAnswer} \cup {InProgress, UnknownWait})
  BY <1>1, FS_Union
<1>3. S = {Automatic, TriggerAnswer} \cup {InProgress, UnknownWait}
  OBVIOUS
<1>4. IsFiniteSet(S) /\ S \subseteq Int /\ S # {}
  BY <1>2, <1>3, BoundsAre
<1> HIDE DEF S
<1>5. Max(S) \in S /\ \A x \in S : Max(S) >= x
  BY <1>4, MaxIs
<1>6. Max(S) \in Int
  BY <1>4, <1>5
<1>7. QED
  BY <1>5, <1>6 DEF S

LEMMA DecisionSettles ==
  ASSUME NEW e, EvidenceOK(e), NEW t \in Int,
         \A b \in {Automatic, TriggerAnswer, InProgress, UnknownWait} : t >= LastKnown(e) + b
  PROVE  Settled(Decide(e, t))
<1>1. \A state \in Final : Settled(Is(state))
  BY DEF Settled, Is, Verdict
<1>2. {"invalidated", "closed", "review-complete", "clean-complete", "draft", "blocked-stalled",
       "blocked-unanswered"} \subseteq Final
  BY DEF Final
<1>3. LastKnown(e) \in Int /\ LastKnown(e) >= Never
  BY LastKnownIs
<1>4. /\ t >= LastKnown(e) + Automatic /\ t >= LastKnown(e) + TriggerAnswer
      /\ t >= LastKnown(e) + InProgress /\ t >= LastKnown(e) + UnknownWait
  OBVIOUS
<1>5. CurrentStatus(e).at <= LastKnown(e) /\ CurrentStatus(e).wait.retryAt <= LastKnown(e)
  <2>1. NoStatus.at = Never /\ NoStatus.wait.retryAt = Never
    BY DEF NoStatus, Status, NoWait
  <2>2. QED
    BY <1>3, <2>1, CurrentStatusIs, LastKnownIs, CurrentStatusType DEF Never
<1>6. PendingAnswer(e, t) = Is("blocked-stalled")
  <2>1. Latest({CurrentStatus(e).at, Start(e)}) <= LastKnown(e)
    BY <1>3, <1>5, PendingSince, LastKnownIs, StartIs, CurrentStatusType DEF Never
  <2>2. ~(t < Latest({CurrentStatus(e).at, Start(e)}) + InProgress)
    BY <1>3, <1>4, <2>1, PendingSince, BoundsAre
  <2>3. QED
    BY <2>2 DEF PendingAnswer, Bounded
<1>7. TriggerNewer(e) => TriggeredAnswer(e, t) = Is("blocked-unanswered")
  <2> SUFFICES ASSUME TriggerNewer(e) PROVE TriggeredAnswer(e, t) = Is("blocked-unanswered")
    OBVIOUS
  <2>1. LatestTrigger(e) \in e.triggers
    BY LatestTriggerType DEF TriggerNewer
  <2>2. LatestTrigger(e).at <= LastKnown(e) /\ LatestTrigger(e).at \in Int
    BY <2>1, LastKnownIs, LatestTriggerType
  <2>3. ~(t < LatestTrigger(e).at + TriggerAnswer)
    BY <1>3, <1>4, <2>2, BoundsAre
  <2>4. QED
    BY <2>3 DEF TriggeredAnswer, Bounded
<1>8. ~(t < AutomaticUntil(e))
  <2>1. e.earlierEnd \in Int /\ Start(e) \in Int
    BY StartIs DEF EvidenceOK
  <2>2. Latest({Start(e), e.earlierEnd}) <= LastKnown(e) /\ Latest({Start(e), e.earlierEnd}) \in Int
    BY <1>3, <2>1, AutomaticUntilIs, LastKnownIs DEF Never
  <2>3. QED
    BY <1>3, <1>4, <2>1, <2>2, AutomaticUntilIs, LastKnownIs, BoundsAre
<1>9. Settled(ByStatus(e, t))
  <2>1. /\ t >= CurrentStatus(e).at + UnknownWait /\ t >= CurrentStatus(e).at + Automatic
        /\ t >= CurrentStatus(e).wait.retryAt
    BY <1>3, <1>4, <1>5, CurrentStatusType, BoundsAre
  <2>2. QED
    BY <2>1, ByStatusSettles
<1>10. Decide(e, t) =
            IF e.head # ThisHead THEN Is("invalidated")
            ELSE IF ~e.open THEN Is("closed")
            ELSE IF Reviewed(e) THEN Is("review-complete")
            ELSE IF Pends(e) THEN PendingAnswer(e, t)
            ELSE IF Passed(e) THEN Is("clean-complete")
            ELSE IF Unreviewed(e) /\ e.draft THEN Is("draft")
            ELSE IF TriggerNewer(e) THEN TriggeredAnswer(e, t)
            ELSE IF Automatically(e) /\ t < AutomaticUntil(e)
                 THEN AwaitAutomatic(AutomaticUntil(e))
            ELSE ByStatus(e, t)
  BY DecideIs
<1>11. QED
  BY <1>1, <1>2, <1>6, <1>7, <1>8, <1>9, <1>10
-----------------------------------------------------------------------------
(* What a permitted trigger and a completed head mean.                       *)

LEMMA GateIs ==
  ASSUME NEW e, NEW mode, NEW n
  PROVE  /\ Gate(e, mode, n).mode \in {mode, "none"}
         /\ Gate(e, mode, n).state \notin Completed
<1>1. /\ Permit(mode) \notin Completed
  BY DEF Permit, Completed
<1>2. QED
  BY <1>1 DEF Gate, Bounded, Verdict, Is, Completed

LEMMA ByStatusCompletes ==
  ASSUME NEW e, NEW n
  PROVE  ByStatus(e, n).state \notin Completed
<1>1. \A mode : Gate(e, mode, n).state \notin Completed
  BY GateIs
<1>2. AfterLockLoss(e, n).state \notin Completed
  BY <1>1 DEF AfterLockLoss, Is, Verdict, Completed
<1>3. AfterCompleted(e, n).state \notin Completed
  <2>1. /\ Is("blocked-unconfirmed").state \notin Completed
        /\ \A x : AwaitAutomatic(x).state \notin Completed
    BY DEF Is, Verdict, Completed, AwaitAutomatic
  <2>2. QED
    BY <1>1, <2>1 DEF AfterCompleted
<1>4. /\ Is("skipped").state \notin Completed /\ Is("paused").state \notin Completed
      /\ Is("unrecognized-status").state \notin Completed
  BY DEF Is, Verdict, Completed
<1>5. QED
  <2> DEFINE kind == CurrentStatus(e).kind
             mode == IF LatestTrigger(e) = NoTrigger THEN "incremental" ELSE LatestTrigger(e).mode
  <2>1. ByStatus(e, n) =
          IF kind \in {"none", "draft-skip"} THEN Gate(e, "incremental", n)
          ELSE IF kind = "lock-loss" THEN AfterLockLoss(e, n)
          ELSE IF kind \in {"skipped", "paused"} THEN Is(kind)
          ELSE IF kind = "rate-limited" THEN Gate(e, mode, n)
          ELSE IF kind = "completed" THEN AfterCompleted(e, n)
          ELSE Is("unrecognized-status")
    BY DEF ByStatus
  <2> HIDE DEF kind, mode
  <2>2. QED
    BY <1>1, <1>2, <1>3, <1>4, <2>1

\* A head is complete by a review with findings or by a clean pass.
LEMMA CompletedMeans ==
  ASSUME NEW e, NEW n, Decide(e, n).state \in Completed
  PROVE  Reviewed(e) \/ Passed(e)
<1> SUFFICES ASSUME ~Reviewed(e), ~Passed(e) PROVE FALSE
  OBVIOUS
<1>1. /\ Is("invalidated").state \notin Completed /\ Is("closed").state \notin Completed
      /\ Is("draft").state \notin Completed
      /\ \A x : AwaitAutomatic(x).state \notin Completed
  BY DEF Is, Verdict, Completed, AwaitAutomatic
<1>2. PendingAnswer(e, n).state \notin Completed /\ TriggeredAnswer(e, n).state \notin Completed
  BY DEF PendingAnswer, TriggeredAnswer, Bounded, Is, Verdict, Completed
<1>3. QED
  BY <1>1, <1>2, ByStatusCompletes, DecideIs

\* A trigger is permitted by the status alone, and never while one is newer.
LEMMA PermitByStatus ==
  ASSUME NEW e, NEW n, Decide(e, n).state \in Permits
  PROVE  Decide(e, n) = ByStatus(e, n) /\ ~TriggerNewer(e)
<1>1. Permits = {"trigger-full", "trigger-incremental"}
  BY DEF Permits, Permit, Modes
<1>2. /\ Is("invalidated").state \notin Permits /\ Is("closed").state \notin Permits
      /\ Is("draft").state \notin Permits /\ Is("review-complete").state \notin Permits
      /\ Is("clean-complete").state \notin Permits
      /\ \A x : AwaitAutomatic(x).state \notin Permits
  BY <1>1 DEF Is, Verdict, AwaitAutomatic
<1>3. PendingAnswer(e, n).state \notin Permits /\ TriggeredAnswer(e, n).state \notin Permits
  BY <1>1 DEF PendingAnswer, TriggeredAnswer, Bounded, Is, Verdict
<1>4. QED
  BY <1>2, <1>3, DecideIs

\* Then every trigger of the cycle has been answered, and a full one, before a
\* full one, by a refusal or a loss.
LEMMA PermitMeans ==
  ASSUME NEW e, EvidenceOK(e), NEW n, Decide(e, n).state \in Permits, NEW t \in OfCycle(e)
  PROVE  \E k \in DOMAIN e.statuses :
            /\ t.at < e.statuses[k].at
            /\ Decide(e, n).mode = "full" /\ t.mode = "full" =>
                  e.statuses[k].kind \in {"rate-limited", "lock-loss"}
<1> DEFINE status == CurrentStatus(e)
<1>1. Decide(e, n) = ByStatus(e, n) /\ ~TriggerNewer(e)
  BY PermitByStatus
<1>2. /\ LatestTrigger(e) # NoTrigger
      /\ LatestTrigger(e) \in OfCycle(e) /\ t.at <= LatestTrigger(e).at
  BY LatestTriggerIs, LatestTriggerType
<1>3. t.at \in Nat /\ LatestTrigger(e).at \in Nat
  BY <1>2 DEF OfCycle, EvidenceOK, TriggersOK, Entries
<1>4. t.at < status.at
  BY <1>1, <1>2, <1>3, CurrentStatusType DEF TriggerNewer
<1>5. PICK k \in DOMAIN e.statuses : status = e.statuses[k]
  <2>1. NoStatus.at = -1
    BY DEF NoStatus, Status, Never
  <2>2. QED
    BY <1>3, <1>4, <2>1, CurrentStatusIs
<1>6. ASSUME Decide(e, n).mode = "full", t.mode = "full"
      PROVE  status.kind \in {"rate-limited", "lock-loss"}
  <2>1. \A x : Is(x).mode = "none" /\ Is(x).state = x
    BY DEF Is, Verdict
  <2>2. Gate(e, "incremental", n).mode # "full"
    BY GateIs
  <2>3. AfterCompleted(e, n) = Is("blocked-unconfirmed")
    BY <1>6 DEF AfterCompleted
  <2> DEFINE kind == status.kind
             mode == IF LatestTrigger(e) = NoTrigger THEN "incremental" ELSE LatestTrigger(e).mode
  <2>4. ByStatus(e, n) =
          IF kind \in {"none", "draft-skip"} THEN Gate(e, "incremental", n)
          ELSE IF kind = "lock-loss" THEN AfterLockLoss(e, n)
          ELSE IF kind \in {"skipped", "paused"} THEN Is(kind)
          ELSE IF kind = "rate-limited" THEN Gate(e, mode, n)
          ELSE IF kind = "completed" THEN AfterCompleted(e, n)
          ELSE Is("unrecognized-status")
    BY DEF ByStatus
  <2> HIDE DEF kind, mode
  <2>5. ByStatus(e, n).mode = "full"
    BY <1>1, <1>6
  <2>6. kind \in {"rate-limited", "lock-loss"}
    BY <2>1, <2>2, <2>3, <2>4, <2>5
  <2>7. QED
    BY <2>6 DEF kind
<1>7. QED
  BY <1>4, <1>5, <1>6
-----------------------------------------------------------------------------
(* What holds of the runs, CodeRabbit and the people, whatever they do.      *)

Stages == {"lock", "read", "read-more", "post-incremental", "post-full", "done"}
Asking == {"post-incremental", "post-full"}
Comments == [at : Nat, mode : Modes, by : Run \cup {NoRun}, listed : BOOLEAN]
Heads == {ThisHead, "other"}
PullRecords ==
    [head : Heads, open : BOOLEAN, draft : BOOLEAN, shared : BOOLEAN, arrival : Int, opened : Int,
     earlier : {"none", "running", "ended"}, earlierEnd : Int, statuses : Seq(StatusRecords),
     findings : Int, clean : BOOLEAN, triggers : Seq(Comments)]
EvidenceRecords ==
    [head : Heads, open : BOOLEAN, draft : BOOLEAN, shared : BOOLEAN, arrival : Int, opened : Int,
     earlier : {"none", "running", "ended"}, earlierEnd : Int, statuses : Seq(StatusRecords),
     findings : Int, clean : BOOLEAN, triggers : SUBSET Entries]

AdapterTypeOK ==
    /\ now \in Nat
    /\ pull \in PullRecords
    /\ reviewing \in {"no", "silent", "stated", "interrupted"}
    /\ misled \in BOOLEAN /\ unseen \in BOOLEAN /\ lagged \in BOOLEAN
    /\ holder \in Run \cup {NoRun}
    /\ stage \in [Run -> Stages]
    /\ evidence \in EvidenceRecords
    /\ TriggersOK(evidence.triggers)
    /\ \A t \in evidence.triggers : t.id <= Len(pull.triggers)
    /\ posted \subseteq 1..Len(pull.triggers)

\* One run works at a time.
HolderWorks == \A r \in Run : holder = r <=> stage[r] \in {"read", "read-more"} \cup Asking

\* What is recorded has happened, and in this order.
RecordsInOrder ==
    /\ pull.arrival <= now /\ pull.opened <= now /\ pull.findings <= now
    /\ \A k \in DOMAIN pull.statuses : pull.statuses[k].at <= now
    /\ \A i, k \in DOMAIN pull.statuses : i < k => pull.statuses[i].at <= pull.statuses[k].at
    /\ \A k \in DOMAIN pull.triggers : pull.triggers[k].at <= now

\* The statuses a run has read are the first of those there are.
ReadIsPrefix(r) ==
    stage[r] \in {"read-more"} \cup Asking =>
        /\ Len(evidence.statuses) <= Len(pull.statuses)
        /\ \A k \in DOMAIN evidence.statuses : evidence.statuses[k] = pull.statuses[k]

\* A run knows the ids of the triggers it has posted.
OwnAreKnown(r) ==
    \A i \in DOMAIN pull.triggers :
        pull.triggers[i].by = r => stage[r] = "done" \/ (holder = r /\ i \in posted)

\* A run that is about to ask has seen every trigger of every run, and all of
\* those in the cycle were answered before.
AsksWhenAnswered(r) ==
    stage[r] \in Asking =>
        /\ Start(evidence) <= Start(pull)
        /\ lagged \/ \A i \in DOMAIN pull.triggers : pull.triggers[i].by # NoRun =>
              \E t \in evidence.triggers :
                  t.at = pull.triggers[i].at /\ t.mode = pull.triggers[i].mode
        /\ \A t \in OfCycle(evidence) : \E k \in DOMAIN pull.statuses :
              /\ t.at < pull.statuses[k].at
              /\ stage[r] = "post-full" /\ t.mode = "full" =>
                    pull.statuses[k].kind \in {"rate-limited", "lock-loss"}

\* The statuses show a review of the head that began after any findings were
\* stated and has not ended.
ShowsUnfinished(e, findings) ==
    \E k \in DOMAIN e.statuses :
        /\ e.statuses[k].kind = "in-progress"
        /\ findings <= e.statuses[k].at
        /\ \A n \in DOMAIN e.statuses : n > k =>
              e.statuses[n].kind \notin Ending(e) \cup {"in-progress"}
        /\ \A n \in DOMAIN e.statuses :
              e.statuses[n].kind = "completed" => e.statuses[n].at <= e.statuses[k].at

SilenceShows ==
    reviewing \in Silent /\ ~misled => ShowsUnfinished(pull, pull.findings)

SilenceWasRead(r) ==
    stage[r] = "read-more" /\ unseen /\ ~misled => ShowsUnfinished(evidence, pull.findings)

AdapterInv ==
    /\ AdapterTypeOK
    /\ HolderWorks
    /\ RecordsInOrder
    /\ SilenceShows
    /\ \A r \in Run : ReadIsPrefix(r) /\ OwnAreKnown(r) /\ AsksWhenAnswered(r) /\ SilenceWasRead(r)
    /\ TriggersAreAnswered

\* TriggersAreAnswered, of any pull request.
Between(p, first, second) ==
    {s \in Range(p.statuses) : first.at < s.at /\ s.at <= second.at}
PairAnswered(p, first, second) ==
    first.by # NoRun /\ second.by # NoRun /\ first.at >= Start(p) =>
        /\ Between(p, first, second) # {}
        /\ first.mode = "full" /\ second.mode = "full" =>
              \E s \in Between(p, first, second) : s.kind \in {"rate-limited", "lock-loss"}
AllAnswered(p) ==
    \A i, k \in DOMAIN p.triggers : i < k => PairAnswered(p, p.triggers[i], p.triggers[k])

LEMMA AnsweredIs == TriggersAreAnswered <=> lagged \/ AllAnswered(pull)
BY DEF TriggersAreAnswered, AllAnswered, PairAnswered, Between

LEMMA AnsweredIsPrime == TriggersAreAnswered' <=> lagged' \/ AllAnswered(pull')
BY DEF TriggersAreAnswered, AllAnswered, PairAnswered, Between

\* What may have become of a pull request p: q has the same statuses or more,
\* and its cycle began no earlier.
Extends(q, p) ==
    /\ Len(p.statuses) <= Len(q.statuses)
    /\ \A k \in DOMAIN p.statuses : q.statuses[k] = p.statuses[k]
    /\ Start(p) <= Start(q)

LEMMA StartGrows ==
  ASSUME NEW p, NEW q, p.arrival \in Int, p.opened \in Int, q.arrival \in Int, q.opened \in Int,
         p.arrival <= q.arrival, p.opened <= q.opened
  PROVE  Start(p) <= Start(q)
<1>1. Start(p) \in {p.arrival, p.opened, Never}
  BY StartOfPull
<1>2. /\ Start(q) \in Int /\ Start(q) >= Never
      /\ Start(q) >= q.arrival /\ Start(q) >= q.opened
  BY StartOfPull
<1>3. QED
  BY <1>1, <1>2 DEF Never

LEMMA PairStays ==
  ASSUME NEW p, NEW q, p \in PullRecords, q \in PullRecords, Extends(q, p),
         NEW first, NEW second, first.at \in Int, PairAnswered(p, first, second)
  PROVE  PairAnswered(q, first, second)
<1>1. Start(p) \in Int /\ Start(q) \in Int
  BY StartOfPull DEF PullRecords
<1>2. Range(p.statuses) \subseteq Range(q.statuses)
  <2>1. DOMAIN p.statuses \subseteq DOMAIN q.statuses
    BY DEF Extends, PullRecords
  <2>2. QED
    BY <2>1 DEF Extends, Range
<1>3. Between(p, first, second) \subseteq Between(q, first, second)
  BY <1>2 DEF Between
<1>4. first.at >= Start(q) => first.at >= Start(p)
  BY <1>1 DEF Extends
<1>5. QED
  BY <1>3, <1>4 DEF PairAnswered

\* The triggers of q are those of p, some listed since, or one more.
SameTriggers(q, p) ==
    /\ Len(q.triggers) = Len(p.triggers)
    /\ \A i \in DOMAIN p.triggers :
          /\ q.triggers[i].at = p.triggers[i].at /\ q.triggers[i].by = p.triggers[i].by
          /\ q.triggers[i].mode = p.triggers[i].mode

LEMMA AnsweredStays ==
  ASSUME NEW p, NEW q, p \in PullRecords, q \in PullRecords, Extends(q, p), AllAnswered(p),
         \/ SameTriggers(q, p)
         \/ \E c \in Comments :
               /\ q.triggers = Append(p.triggers, c)
               /\ \A i \in DOMAIN p.triggers : PairAnswered(q, p.triggers[i], c)
  PROVE  AllAnswered(q)
<1>1. \A i \in DOMAIN p.triggers : p.triggers[i] \in Comments /\ p.triggers[i].at \in Int
  <2>1. \A i \in DOMAIN p.triggers : p.triggers[i] \in Comments
    BY DEF PullRecords
  <2>2. \A c \in Comments : c.at \in Int
    BY DEF Comments
  <2>3. QED
    BY <2>1, <2>2
<1>2. ASSUME NEW i \in DOMAIN p.triggers, NEW k \in DOMAIN p.triggers, i < k
      PROVE  PairAnswered(q, p.triggers[i], p.triggers[k])
  BY <1>1, <1>2, PairStays DEF AllAnswered
<1>3. DOMAIN p.triggers = 1..Len(p.triggers) /\ DOMAIN q.triggers = 1..Len(q.triggers)
  BY DEF PullRecords
<1>4. CASE SameTriggers(q, p)
  <2> SUFFICES ASSUME NEW i \in DOMAIN q.triggers, NEW k \in DOMAIN q.triggers, i < k
               PROVE  PairAnswered(q, q.triggers[i], q.triggers[k])
    BY DEF AllAnswered
  <2>1. i \in DOMAIN p.triggers /\ k \in DOMAIN p.triggers
    BY <1>3, <1>4 DEF SameTriggers
  <2>2. PairAnswered(q, p.triggers[i], p.triggers[k])
    BY <1>2, <2>1
  <2>3. Between(q, p.triggers[i], p.triggers[k]) = Between(q, q.triggers[i], q.triggers[k])
    BY <1>4, <2>1 DEF SameTriggers, Between
  <2>4. QED
    BY <1>4, <2>1, <2>2, <2>3 DEF SameTriggers, PairAnswered
<1>5. ASSUME NEW c \in Comments, q.triggers = Append(p.triggers, c),
             \A i \in DOMAIN p.triggers : PairAnswered(q, p.triggers[i], c)
      PROVE  AllAnswered(q)
  <2> SUFFICES ASSUME NEW i \in DOMAIN q.triggers, NEW k \in DOMAIN q.triggers, i < k
               PROVE  PairAnswered(q, q.triggers[i], q.triggers[k])
    BY DEF AllAnswered
  <2>1. p.triggers \in Seq(Comments)
    BY DEF PullRecords
  <2>2. i \in DOMAIN p.triggers /\ q.triggers[i] = p.triggers[i]
    BY <1>3, <1>5, <2>1
  <2>3. CASE k = Len(p.triggers) + 1
    <3>1. q.triggers[k] = c
      BY <1>5, <2>1, <2>3
    <3>2. QED
      BY <1>5, <2>2, <3>1
  <2>4. CASE k # Len(p.triggers) + 1
    <3>1. k \in DOMAIN p.triggers /\ q.triggers[k] = p.triggers[k]
      BY <1>3, <1>5, <2>1, <2>4
    <3>2. QED
      BY <1>2, <2>2, <3>1
  <2>5. QED
    BY <2>3, <2>4
<1>6. QED
  BY <1>4, <1>5
-----------------------------------------------------------------------------
\* What happens to a pull request in a step.
Grows(q) ==
    /\ q \in PullRecords
    /\ \/ q.statuses = pull.statuses
       \/ \E s \in StatusRecords : s.at = now /\ q.statuses = Append(pull.statuses, s)
    /\ q.arrival \in {pull.arrival, now} /\ q.opened \in {pull.opened, now}
    /\ q.findings \in {pull.findings, now}

LEMMA PullTypes ==
  ASSUME NEW p \in PullRecords
  PROVE  /\ p.arrival \in Int /\ p.opened \in Int /\ p.findings \in Int /\ p.earlierEnd \in Int
         /\ p.statuses \in Seq(StatusRecords) /\ p.triggers \in Seq(Comments)
         /\ DOMAIN p.statuses = 1..Len(p.statuses) /\ Len(p.statuses) \in Nat
         /\ DOMAIN p.triggers = 1..Len(p.triggers) /\ Len(p.triggers) \in Nat
         /\ \A k \in DOMAIN p.statuses : p.statuses[k] \in StatusRecords /\ p.statuses[k].at \in Int
         /\ \A i \in DOMAIN p.triggers : p.triggers[i] \in Comments /\ p.triggers[i].at \in Nat
<1>1. p.statuses \in Seq(StatusRecords) /\ p.triggers \in Seq(Comments)
  BY DEF PullRecords
<1>2. \A s \in StatusRecords : s.at \in Int
  BY DEF StatusRecords
<1>3. \A c \in Comments : c.at \in Nat
  BY DEF Comments
<1>4. QED
  BY <1>1, <1>2, <1>3 DEF PullRecords

LEMMA GrowsExtends ==
  ASSUME AdapterInv, NEW q, Grows(q)
  PROVE  /\ Extends(q, pull)
         /\ q.arrival <= now /\ q.opened <= now /\ q.findings <= now
         /\ \A k \in DOMAIN q.statuses : q.statuses[k].at <= now
         /\ \A i, k \in DOMAIN q.statuses : i < k => q.statuses[i].at <= q.statuses[k].at
<1>1. now \in Nat /\ pull \in PullRecords /\ q \in PullRecords
  BY DEF AdapterInv, AdapterTypeOK, Grows
<1>2. /\ pull.arrival \in Int /\ pull.opened \in Int /\ q.arrival \in Int /\ q.opened \in Int
      /\ pull.statuses \in Seq(StatusRecords)
      /\ DOMAIN pull.statuses = 1..Len(pull.statuses) /\ Len(pull.statuses) \in Nat
      /\ \A k \in DOMAIN pull.statuses : pull.statuses[k].at \in Int
  BY <1>1, PullTypes
<1>3. /\ pull.arrival <= now /\ pull.opened <= now /\ pull.findings <= now
      /\ \A k \in DOMAIN pull.statuses : pull.statuses[k].at <= now
      /\ \A i, k \in DOMAIN pull.statuses : i < k => pull.statuses[i].at <= pull.statuses[k].at
  BY DEF AdapterInv, RecordsInOrder
<1>4. pull.arrival <= q.arrival /\ pull.opened <= q.opened
  BY <1>1, <1>2, <1>3 DEF Grows
<1>5. Start(pull) <= Start(q)
  BY <1>2, <1>4, StartGrows
<1>6. q.arrival <= now /\ q.opened <= now /\ q.findings <= now
  BY <1>1, <1>3 DEF Grows
<1>7. CASE q.statuses = pull.statuses
  <2>1. Extends(q, pull)
    BY <1>2, <1>5, <1>7 DEF Extends
  <2>2. QED
    BY <1>3, <1>6, <1>7, <2>1
<1>8. ASSUME NEW s \in StatusRecords, s.at = now, q.statuses = Append(pull.statuses, s)
      PROVE  /\ Extends(q, pull)
             /\ \A k \in DOMAIN q.statuses : q.statuses[k].at <= now
             /\ \A i, k \in DOMAIN q.statuses : i < k => q.statuses[i].at <= q.statuses[k].at
  <2>1. /\ Len(q.statuses) = Len(pull.statuses) + 1
        /\ DOMAIN q.statuses = 1..(Len(pull.statuses) + 1)
        /\ \A k \in DOMAIN pull.statuses : q.statuses[k] = pull.statuses[k]
        /\ q.statuses[Len(pull.statuses) + 1] = s
    BY <1>2, <1>8
  <2>2. Extends(q, pull)
    BY <1>2, <1>5, <2>1 DEF Extends
  <2>3. \A k \in DOMAIN q.statuses : k \in DOMAIN pull.statuses \/ q.statuses[k] = s
    BY <1>2, <2>1
  <2>4. \A k \in DOMAIN q.statuses : q.statuses[k].at <= now
    BY <1>1, <1>3, <1>8, <2>1, <2>3
  <2>5. ASSUME NEW i \in DOMAIN q.statuses, NEW k \in DOMAIN q.statuses, i < k
        PROVE  q.statuses[i].at <= q.statuses[k].at
    <3>1. i \in DOMAIN pull.statuses
      BY <1>2, <2>1, <2>5
    <3>2. CASE k \in DOMAIN pull.statuses
      BY <1>3, <2>1, <2>5, <3>1, <3>2
    <3>3. CASE k \notin DOMAIN pull.statuses
      BY <1>3, <1>8, <2>1, <2>3, <3>1, <3>3
    <3>4. QED
      BY <3>2, <3>3
  <2>6. QED
    BY <2>2, <2>4, <2>5
<1>9. QED
  BY <1>6, <1>7, <1>8 DEF Grows

\* What the evidence shows is not lost when it grows by a status that ends nothing.
LEMMA ShowsStays ==
  ASSUME NEW p \in PullRecords, NEW q \in PullRecords, NEW findings \in Int,
         ShowsUnfinished(p, findings),
         \A n \in DOMAIN p.statuses : p.statuses[n].kind \in Ending(q) => p.statuses[n].kind \in Ending(p),
         \/ q.statuses = p.statuses
         \/ \E s \in StatusRecords : /\ q.statuses = Append(p.statuses, s)
                                     /\ s.kind \notin Ending(q) \cup {"in-progress", "completed"}
  PROVE  ShowsUnfinished(q, findings)
<1>1. PICK k \in DOMAIN p.statuses :
        /\ p.statuses[k].kind = "in-progress"
        /\ findings <= p.statuses[k].at
        /\ \A n \in DOMAIN p.statuses : n > k =>
              p.statuses[n].kind \notin Ending(p) \cup {"in-progress"}
        /\ \A n \in DOMAIN p.statuses :
              p.statuses[n].kind = "completed" => p.statuses[n].at <= p.statuses[k].at
  BY DEF ShowsUnfinished
<1>2. CASE q.statuses = p.statuses
  BY <1>1, <1>2 DEF ShowsUnfinished
<1>3. ASSUME NEW s \in StatusRecords, q.statuses = Append(p.statuses, s),
             s.kind \notin Ending(q) \cup {"in-progress", "completed"}
      PROVE  ShowsUnfinished(q, findings)
  <2>1. /\ p.statuses \in Seq(StatusRecords)
        /\ DOMAIN p.statuses = 1..Len(p.statuses) /\ Len(p.statuses) \in Nat
    BY PullTypes
  <2>2. /\ DOMAIN q.statuses = 1..(Len(p.statuses) + 1)
        /\ \A n \in DOMAIN p.statuses : q.statuses[n] = p.statuses[n]
        /\ q.statuses[Len(p.statuses) + 1] = s
    BY <1>3, <2>1
  <2>3. \A n \in DOMAIN q.statuses : n \in DOMAIN p.statuses \/ q.statuses[n] = s
    BY <2>1, <2>2
  <2>4. k \in DOMAIN q.statuses
    BY <2>1, <2>2
  <2>5. \A n \in DOMAIN q.statuses : n > k =>
              q.statuses[n].kind \notin Ending(q) \cup {"in-progress"}
    BY <1>1, <1>3, <2>2, <2>3
  <2>6. \A n \in DOMAIN q.statuses :
              q.statuses[n].kind = "completed" => q.statuses[n].at <= q.statuses[k].at
    BY <1>1, <1>3, <2>2, <2>3
  <2>7. QED
    BY <1>1, <2>2, <2>4, <2>5, <2>6 DEF ShowsUnfinished
<1>4. QED
  BY <1>2, <1>3

\* CodeRabbit or a person does something.
LEMMA ChangesKeep ==
  ASSUME AdapterInv, NEW q, NEW review, Changes(q, review), Grows(q),
         review \in {"no", "silent", "stated", "interrupted"},
         \/ q.triggers = pull.triggers
         \/ \E c \in Comments : c.at = now /\ c.by = NoRun /\ q.triggers = Append(pull.triggers, c),
         review \in Silent => q.findings = pull.findings,
         review \in Silent /\ ~misled' => ShowsUnfinished(q, q.findings)
  PROVE  AdapterInv'
<1>1. /\ now' = now /\ pull' = q /\ reviewing' = review /\ stage' = stage /\ holder' = holder
      /\ evidence' = evidence /\ posted' = posted /\ lagged' = lagged
      /\ unseen' = (unseen /\ review \in Silent)
      /\ misled' \in BOOLEAN /\ (misled => misled')
  BY DEF Changes
<1>2. /\ now \in Nat /\ pull \in PullRecords /\ q \in PullRecords
      /\ Extends(q, pull)
  BY GrowsExtends DEF AdapterInv, AdapterTypeOK, Grows
<1>3. /\ pull.triggers \in Seq(Comments)
      /\ DOMAIN pull.triggers = 1..Len(pull.triggers) /\ Len(pull.triggers) \in Nat
      /\ DOMAIN q.triggers = 1..Len(q.triggers) /\ Len(q.triggers) \in Nat
      /\ DOMAIN pull.statuses = 1..Len(pull.statuses) /\ Len(pull.statuses) \in Nat
      /\ DOMAIN q.statuses = 1..Len(q.statuses) /\ Len(q.statuses) \in Nat
  BY <1>2, PullTypes
<1>4. /\ Len(pull.triggers) <= Len(q.triggers)
      /\ \A i \in DOMAIN pull.triggers : q.triggers[i] = pull.triggers[i]
      /\ \A i \in DOMAIN q.triggers : i \in DOMAIN pull.triggers
            \/ (q.triggers[i].at = now /\ q.triggers[i].by = NoRun)
  <2>1. CASE q.triggers = pull.triggers
    BY <1>3, <2>1
  <2>2. ASSUME NEW c \in Comments, c.at = now, c.by = NoRun, q.triggers = Append(pull.triggers, c)
        PROVE  /\ Len(pull.triggers) <= Len(q.triggers)
               /\ \A i \in DOMAIN pull.triggers : q.triggers[i] = pull.triggers[i]
               /\ \A i \in DOMAIN q.triggers : i \in DOMAIN pull.triggers
                    \/ (q.triggers[i].at = now /\ q.triggers[i].by = NoRun)
    <3>1. /\ Len(q.triggers) = Len(pull.triggers) + 1
          /\ \A i \in DOMAIN pull.triggers : q.triggers[i] = pull.triggers[i]
          /\ q.triggers[Len(pull.triggers) + 1] = c
      BY <1>3, <2>2
    <3>2. \A i \in DOMAIN q.triggers : i \in DOMAIN pull.triggers \/ i = Len(pull.triggers) + 1
      BY <1>3, <3>1
    <3>3. QED
      BY <1>3, <2>2, <3>1, <3>2
  <2>3. QED
    BY <2>1, <2>2
<1>5. AdapterTypeOK'
  <2>1. \A t \in evidence.triggers : t.id \in Nat
    BY DEF AdapterInv, AdapterTypeOK, TriggersOK, Entries
  <2>2. \A t \in evidence.triggers : t.id <= Len(q.triggers)
    BY <1>3, <1>4, <2>1 DEF AdapterInv, AdapterTypeOK
  <2>3. posted \subseteq 1..Len(q.triggers)
    BY <1>3, <1>4 DEF AdapterInv, AdapterTypeOK
  <2>4. QED
    BY <1>1, <1>2, <2>2, <2>3 DEF AdapterInv, AdapterTypeOK
<1>6. HolderWorks'
  BY <1>1 DEF AdapterInv, HolderWorks
<1>7. RecordsInOrder'
  <2>1. \A k \in DOMAIN q.triggers : q.triggers[k].at <= now
    BY <1>2, <1>4 DEF AdapterInv, RecordsInOrder
  <2>2. QED
    BY <1>1, <2>1, GrowsExtends DEF RecordsInOrder
<1>8. SilenceShows'
  BY <1>1 DEF SilenceShows
<1>9. ASSUME NEW r \in Run PROVE ReadIsPrefix(r)'
  <2>1. evidence.statuses \in Seq(StatusRecords)
    BY DEF AdapterInv, AdapterTypeOK, EvidenceRecords
  <2>2. DOMAIN evidence.statuses = 1..Len(evidence.statuses) /\ Len(evidence.statuses) \in Nat
    BY <2>1
  <2>3. ReadIsPrefix(r)
    BY DEF AdapterInv
  <2>4. /\ Len(evidence.statuses) <= Len(pull.statuses) => Len(evidence.statuses) <= Len(q.statuses)
        /\ \A k \in DOMAIN pull.statuses : q.statuses[k] = pull.statuses[k]
    BY <1>2, <1>3, <2>2 DEF Extends
  <2>5. Len(evidence.statuses) <= Len(pull.statuses) =>
            DOMAIN evidence.statuses \subseteq DOMAIN pull.statuses
    BY <1>3, <2>2
  <2>6. QED
    BY <1>1, <2>3, <2>4, <2>5 DEF ReadIsPrefix
<1>10. ASSUME NEW r \in Run PROVE OwnAreKnown(r)'
  <2>1. OwnAreKnown(r) /\ r # NoRun
    BY RunAssumption DEF AdapterInv
  <2>2. QED
    BY <1>1, <1>4, <2>1 DEF OwnAreKnown
<1>11. ASSUME NEW r \in Run PROVE AsksWhenAnswered(r)'
  <2>1. AsksWhenAnswered(r)
    BY DEF AdapterInv
  <2>2. Start(pull) \in Int /\ Start(q) \in Int /\ Start(evidence) \in Int
    BY <1>2, StartOfPull DEF PullRecords, AdapterInv, AdapterTypeOK, EvidenceRecords
  <2>3. Start(evidence) <= Start(pull) => Start(evidence) <= Start(q)
    BY <1>2, <2>2 DEF Extends
  <2>4. \A k \in DOMAIN pull.statuses : k \in DOMAIN q.statuses /\ q.statuses[k] = pull.statuses[k]
    BY <1>2, <1>3 DEF Extends
  <2>5. SUFFICES ASSUME stage[r] \in Asking PROVE AsksWhenAnswered(r)'
    BY <1>1 DEF AsksWhenAnswered
  <2>6. Start(evidence') <= Start(q)
    BY <1>1, <2>1, <2>3, <2>5 DEF AsksWhenAnswered
  <2>7. lagged \/ \A i \in DOMAIN q.triggers : q.triggers[i].by # NoRun =>
              \E t \in evidence.triggers : t.at = q.triggers[i].at /\ t.mode = q.triggers[i].mode
    BY <1>4, <2>1, <2>5 DEF AsksWhenAnswered
  <2>8. ASSUME NEW t \in OfCycle(evidence)
        PROVE  \E k \in DOMAIN q.statuses :
                  /\ t.at < q.statuses[k].at
                  /\ stage[r] = "post-full" /\ t.mode = "full" =>
                        q.statuses[k].kind \in {"rate-limited", "lock-loss"}
    BY <2>1, <2>4, <2>5 DEF AsksWhenAnswered
  <2>9. QED
    BY <1>1, <2>6, <2>7, <2>8 DEF AsksWhenAnswered
<1>12. ASSUME NEW r \in Run PROVE SilenceWasRead(r)'
  <2>1. SilenceWasRead(r)
    BY DEF AdapterInv
  <2>2. QED
    BY <1>1, <2>1 DEF SilenceWasRead
<1>13. TriggersAreAnswered'
  <2>1. SUFFICES ASSUME ~lagged PROVE AllAnswered(q)
    BY <1>1, AnsweredIsPrime
  <2>2. AllAnswered(pull)
    BY <2>1, AnsweredIs DEF AdapterInv
  <2>3. \A c \in Comments : c.by = NoRun =>
            \A i \in DOMAIN pull.triggers : PairAnswered(q, pull.triggers[i], c)
    BY DEF PairAnswered
  <2>4. q.triggers = pull.triggers => SameTriggers(q, pull)
    BY DEF SameTriggers
  <2>5. QED
    BY <1>2, <2>2, <2>3, <2>4, AnsweredStays
<1>14. QED
  BY <1>5, <1>6, <1>7, <1>8, <1>9, <1>10, <1>11, <1>12, <1>13 DEF AdapterInv

\* Each thing CodeRabbit and people do.
LEMMA StatusPosted ==
  ASSUME AdapterInv, NEW kind \in Kinds, NEW wait \in Waits
  PROVE  /\ Grows(Posts(kind, wait))
         /\ Posts(kind, wait).triggers = pull.triggers
         /\ Posts(kind, wait).findings = pull.findings
         /\ Posts(kind, wait).shared = pull.shared
         /\ Posts(kind, wait).statuses = Append(pull.statuses, Status(now, kind, wait))
         /\ Status(now, kind, wait) \in StatusRecords
         /\ Status(now, kind, wait).at = now /\ Status(now, kind, wait).kind = kind
<1>1. now \in Nat /\ pull \in PullRecords
  BY DEF AdapterInv, AdapterTypeOK
<1>2. Status(now, kind, wait) \in StatusRecords
  BY <1>1 DEF Status, StatusRecords
<1>3. Append(pull.statuses, Status(now, kind, wait)) \in Seq(StatusRecords)
  BY <1>1, <1>2, PullTypes
<1>4. /\ Status(now, kind, wait).at = now /\ Status(now, kind, wait).kind = kind
  BY DEF Status
<1> HIDE DEF Status
<1>5. /\ Posts(kind, wait) \in PullRecords
      /\ Posts(kind, wait).triggers = pull.triggers
      /\ Posts(kind, wait).findings = pull.findings
      /\ Posts(kind, wait).shared = pull.shared
      /\ Posts(kind, wait).arrival = pull.arrival /\ Posts(kind, wait).opened = pull.opened
      /\ Posts(kind, wait).statuses = Append(pull.statuses, Status(now, kind, wait))
  BY <1>1, <1>3 DEF Posts, PullRecords
<1>6. QED
  BY <1>2, <1>4, <1>5 DEF Grows

\* A status that neither begins nor ends a review leaves it to be seen.
LEMMA StatusShows ==
  ASSUME AdapterInv, NEW kind \in Kinds, NEW wait \in Waits, pull.shared \in BOOLEAN,
         ShowsUnfinished(pull, pull.findings),
         kind \notin Ending(pull) \cup {"in-progress", "completed"}
  PROVE  ShowsUnfinished(Posts(kind, wait), Posts(kind, wait).findings)
<1>1. /\ pull \in PullRecords /\ pull.findings \in Int
      /\ Posts(kind, wait) \in PullRecords
      /\ Ending(Posts(kind, wait)) = Ending(pull)
  BY StatusPosted, PullTypes DEF AdapterInv, AdapterTypeOK, Grows, Ending
<1>2. \E s \in StatusRecords :
          /\ Posts(kind, wait).statuses = Append(pull.statuses, s)
          /\ s.kind \notin Ending(Posts(kind, wait)) \cup {"in-progress", "completed"}
  BY <1>1, StatusPosted
<1>3. ShowsUnfinished(Posts(kind, wait), pull.findings)
  BY <1>1, <1>2, ShowsStays
<1>4. QED
  BY <1>3, StatusPosted

LEMMA WaitsAre ==
  ASSUME AdapterInv
  PROVE  /\ NoWait \in Waits
         /\ [retryAt : {now + s : s \in StatedWait}, noCapacity : BOOLEAN] \subseteq Waits
<1>1. now \in Nat /\ StatedWait \subseteq Nat
  BY RunAssumption DEF AdapterInv, AdapterTypeOK
<1>2. QED
  BY <1>1 DEF NoWait, Waits, Never

LEMMA KindsAre ==
  /\ "in-progress" \in Kinds /\ "completed" \in Kinds /\ "paused" \in Kinds /\ "skipped" \in Kinds
  /\ "draft-skip" \in Kinds /\ "rate-limited" \in Kinds /\ "lock-loss" \in Kinds
BY DEF Kinds

LEMMA HappensIs ==
  ASSUME NEW q, NEW review, Happens(q, review)
  PROVE  Changes(q, review)
BY DEF Happens

LEMMA BeginKeeps ==
  ASSUME AdapterInv, Begin
  PROVE  AdapterInv'
<1> DEFINE q == Posts("in-progress", NoWait)
<1>1. Changes(q, "silent")
  BY HappensIs DEF Begin
<1>2. /\ Grows(q) /\ q.triggers = pull.triggers /\ q.findings = pull.findings
      /\ q.statuses = Append(pull.statuses, Status(now, "in-progress", NoWait))
      /\ Status(now, "in-progress", NoWait).at = now
      /\ Status(now, "in-progress", NoWait).kind = "in-progress"
  BY StatusPosted, WaitsAre, KindsAre
<1>3. ShowsUnfinished(q, q.findings)
  <2> DEFINE k == Len(pull.statuses) + 1
  <2>1. /\ pull \in PullRecords /\ now \in Nat /\ RecordsInOrder
        /\ pull.statuses \in Seq(StatusRecords)
        /\ DOMAIN pull.statuses = 1..Len(pull.statuses) /\ Len(pull.statuses) \in Nat
    BY PullTypes DEF AdapterInv, AdapterTypeOK
  <2>2. /\ DOMAIN q.statuses = 1..k
        /\ q.statuses[k] = Status(now, "in-progress", NoWait)
        /\ \A n \in DOMAIN pull.statuses : q.statuses[n] = pull.statuses[n]
    BY <1>2, <2>1
  <2>3. q.statuses[k].kind = "in-progress" /\ q.statuses[k].at = now /\ q.findings <= now
    BY <1>2, <2>1, <2>2 DEF RecordsInOrder
  <2>4. \A n \in DOMAIN q.statuses : q.statuses[n].at <= now /\ ~(n > k)
    <3>1. \A n \in DOMAIN q.statuses : n \in DOMAIN pull.statuses \/ n = k
      BY <2>1, <2>2
    <3>2. QED
      BY <2>1, <2>2, <2>3, <3>1 DEF RecordsInOrder
  <2>5. k \in DOMAIN q.statuses
    BY <2>1, <2>2
  <2> HIDE DEF k, q
  <2>6. QED
    BY <2>3, <2>4, <2>5 DEF ShowsUnfinished
<1> HIDE DEF q
<1>4. QED
  BY <1>1, <1>2, <1>3, ChangesKeep

\* A status that ends a review, or comes when none is silent.
LEMMA EndKeeps ==
  ASSUME AdapterInv, NEW kind \in Kinds, NEW wait \in Waits, NEW review \in {"no", "stated"},
         Changes(Posts(kind, wait), review)
  PROVE  AdapterInv'
<1>1. review \notin Silent
  BY DEF Silent
<1>2. QED
  BY <1>1, StatusPosted, ChangesKeep

\* A status after which a silent review is interrupted.
LEMMA InterruptKeeps ==
  ASSUME AdapterInv, NEW kind \in {"rate-limited", "lock-loss"}, NEW wait \in Waits,
         Changes(Posts(kind, wait), Left)
  PROVE  AdapterInv'
<1>1. kind \in Kinds
  BY KindsAre
<1>2. CASE reviewing \notin Silent
  <2>1. Left = "no"
    BY <1>2 DEF Left
  <2>2. QED
    BY <1>1, <2>1, EndKeeps
<1>3. CASE reviewing \in Silent
  <2>1. Left = "interrupted"
    BY <1>3 DEF Left
  <2>2. misled \in BOOLEAN /\ (misled => misled')
    BY DEF Changes, AdapterInv, AdapterTypeOK
  <2>3. ~misled' => ShowsUnfinished(Posts(kind, wait), Posts(kind, wait).findings)
    <3>1. SUFFICES ASSUME ~misled
                   PROVE  ShowsUnfinished(Posts(kind, wait), Posts(kind, wait).findings)
      BY <2>2
    <3>2. ShowsUnfinished(pull, pull.findings)
      BY <1>3, <3>1 DEF AdapterInv, SilenceShows
    <3>3. kind \notin Ending(pull) \cup {"in-progress", "completed"}
      BY DEF Ending
    <3>4. pull.shared \in BOOLEAN
      BY DEF AdapterInv, AdapterTypeOK, PullRecords
    <3>5. QED
      BY <1>1, <3>2, <3>3, <3>4, StatusShows
  <2>4. QED
    BY <1>1, <2>1, <2>3, StatusPosted, ChangesKeep
<1>4. QED
  BY <1>2, <1>3

LEMMA CompleteKeeps ==
  ASSUME AdapterInv, Complete
  PROVE  AdapterInv'
<1>1. PICK clean \in BOOLEAN :
        Happens([Posts("completed", NoWait) EXCEPT !.clean = (pull.clean \/ clean)], "no")
  BY DEF Complete
<1> DEFINE p == Posts("completed", NoWait)
           q == [p EXCEPT !.clean = (pull.clean \/ clean)]
<1>2. Grows(p) /\ p.triggers = pull.triggers /\ p.findings = pull.findings
  BY StatusPosted, WaitsAre, KindsAre
<1>3. p \in PullRecords
  BY <1>2 DEF Grows
<1>4. (pull.clean \/ clean) \in BOOLEAN
  OBVIOUS
<1> HIDE DEF p
<1>5. /\ q \in PullRecords /\ q.triggers = p.triggers /\ q.findings = p.findings
      /\ q.statuses = p.statuses /\ q.arrival = p.arrival /\ q.opened = p.opened
  BY <1>3, <1>4 DEF PullRecords
<1>6. Changes(q, "no")
  BY <1>1, HappensIs DEF p
<1> HIDE DEF q
<1>7. Grows(q)
  BY <1>2, <1>5 DEF Grows
<1>8. QED
  BY <1>2, <1>5, <1>6, <1>7, ChangesKeep DEF Silent

LEMMA PauseKeeps ==
  ASSUME AdapterInv, Pause
  PROVE  AdapterInv'
BY HappensIs, EndKeeps, WaitsAre, KindsAre DEF Pause

LEMMA LoseLockKeeps ==
  ASSUME AdapterInv, LoseLock
  PROVE  AdapterInv'
BY HappensIs, InterruptKeeps, WaitsAre DEF LoseLock

LEMMA RefuseKeeps ==
  ASSUME AdapterInv, Refuse
  PROVE  AdapterInv'
<1>1. PICK wait \in Waits : Happens(Posts("rate-limited", wait), Left)
  BY WaitsAre DEF Refuse
<1>2. QED
  BY <1>1, HappensIs, InterruptKeeps

LEMMA SkipKeeps ==
  ASSUME AdapterInv, Skip
  PROVE  AdapterInv'
<1>1. CASE \E kind \in {"skipped", "draft-skip"} : Happens(Posts(kind, NoWait), "no")
  BY <1>1, HappensIs, EndKeeps, WaitsAre, KindsAre
<1>2. CASE pull.shared /\ Happens(Posts("skipped", NoWait), reviewing)
  <2>1. Changes(Posts("skipped", NoWait), reviewing)
    BY <1>2, HappensIs
  <2>2. "skipped" \in Kinds /\ NoWait \in Waits /\ pull.shared \in BOOLEAN
    BY <1>2, WaitsAre, KindsAre DEF AdapterInv, AdapterTypeOK, PullRecords
  <2>3. misled \in BOOLEAN /\ (misled => misled')
    BY <2>1 DEF Changes, AdapterInv, AdapterTypeOK
  <2>4. ASSUME reviewing \in Silent, ~misled
        PROVE  ShowsUnfinished(Posts("skipped", NoWait), Posts("skipped", NoWait).findings)
    <3>1. ShowsUnfinished(pull, pull.findings)
      BY <2>4 DEF AdapterInv, SilenceShows
    <3>2. "skipped" \notin Ending(pull) \cup {"in-progress", "completed"}
      BY <1>2 DEF Ending
    <3>3. QED
      BY <2>2, <3>1, <3>2, StatusShows
  <2>5. reviewing \in {"no", "silent", "stated", "interrupted"}
    BY DEF AdapterInv, AdapterTypeOK
  <2>6. QED
    BY <2>1, <2>2, <2>3, <2>4, <2>5, StatusPosted, ChangesKeep
<1>3. QED
  BY <1>1, <1>2 DEF Skip

\* What leaves the statuses as they are.
LEMMA QuietKeeps ==
  ASSUME AdapterInv, NEW q \in PullRecords, Changes(q, reviewing),
         q.statuses = pull.statuses, q.findings = pull.findings,
         q.arrival \in {pull.arrival, now}, q.opened \in {pull.opened, now},
         \/ q.triggers = pull.triggers
         \/ \E c \in Comments : c.at = now /\ c.by = NoRun /\ q.triggers = Append(pull.triggers, c),
         ~misled' => \A n \in DOMAIN pull.statuses :
            pull.statuses[n].kind \in Ending(q) => pull.statuses[n].kind \in Ending(pull)
  PROVE  AdapterInv'
<1>1. Grows(q)
  BY DEF Grows
<1>2. misled \in BOOLEAN /\ (misled => misled') /\ pull \in PullRecords /\ pull.findings \in Int
      /\ reviewing \in {"no", "silent", "stated", "interrupted"}
  BY PullTypes DEF Changes, AdapterInv, AdapterTypeOK
<1>3. ASSUME reviewing \in Silent, ~misled' PROVE ShowsUnfinished(q, q.findings)
  <2>1. ShowsUnfinished(pull, pull.findings)
    BY <1>2, <1>3 DEF AdapterInv, SilenceShows
  <2>2. QED
    BY <1>2, <1>3, <2>1, ShowsStays
<1>4. QED
  BY <1>1, <1>2, <1>3, ChangesKeep

LEMMA StateFindingsKeeps ==
  ASSUME AdapterInv, StateFindings
  PROVE  AdapterInv'
<1> DEFINE q == [pull EXCEPT !.findings = now]
<1>1. Changes(q, "stated")
  BY HappensIs DEF StateFindings
<1>2. now \in Nat /\ pull \in PullRecords
  BY DEF AdapterInv, AdapterTypeOK
<1>3. /\ q \in PullRecords /\ q.triggers = pull.triggers /\ q.findings = now
      /\ q.statuses = pull.statuses /\ q.arrival = pull.arrival /\ q.opened = pull.opened
  BY <1>2 DEF PullRecords
<1> HIDE DEF q
<1>4. Grows(q)
  BY <1>3 DEF Grows
<1>5. QED
  BY <1>1, <1>3, <1>4, ChangesKeep DEF Silent

LEMMA FieldsAre ==
  ASSUME AdapterInv
  PROVE  /\ now \in Int /\ "ended" \in {"none", "running", "ended"} /\ FALSE \in BOOLEAN
         /\ "other" \in Heads /\ ThisHead \in Heads
BY DEF AdapterInv, AdapterTypeOK, Heads

LEMMA EndEarlierReviewKeeps ==
  ASSUME AdapterInv, EndEarlierReview
  PROVE  AdapterInv'
<1> DEFINE q == [pull EXCEPT !.earlier = "ended", !.earlierEnd = now]
<1>1. Changes(q, reviewing)
  BY HappensIs DEF EndEarlierReview
<1>2. now \in Nat /\ pull \in PullRecords
  BY DEF AdapterInv, AdapterTypeOK
<1>3. /\ q \in PullRecords /\ q.triggers = pull.triggers /\ q.findings = pull.findings
      /\ q.statuses = pull.statuses /\ q.arrival = pull.arrival /\ q.opened = pull.opened
      /\ q.shared = pull.shared
  <2>1. q \in PullRecords
    BY <1>2, FieldsAre, Zenon DEF PullRecords
  <2>2. /\ q.triggers = pull.triggers /\ q.findings = pull.findings
        /\ q.statuses = pull.statuses /\ q.arrival = pull.arrival /\ q.opened = pull.opened
    BY <1>2 DEF PullRecords
  <2>3. q.shared = pull.shared
    BY <1>2, Zenon DEF PullRecords
  <2>4. QED
    BY <2>1, <2>2, <2>3
<1> HIDE DEF q
<1>4. QED
  BY <1>1, <1>3, QuietKeeps DEF Ending

LEMMA LeaveHeadKeeps ==
  ASSUME AdapterInv, LeaveHead
  PROVE  AdapterInv'
<1> DEFINE q == [pull EXCEPT !.head = "other", !.arrival = now]
<1>1. Changes(q, reviewing)
  BY HappensIs DEF LeaveHead
<1>2. now \in Nat /\ pull \in PullRecords
  BY DEF AdapterInv, AdapterTypeOK
<1>3. /\ q \in PullRecords /\ q.triggers = pull.triggers /\ q.findings = pull.findings
      /\ q.statuses = pull.statuses /\ q.arrival = now /\ q.opened = pull.opened
      /\ q.shared = pull.shared
  <2>1. q \in PullRecords
    BY <1>2, FieldsAre, Zenon DEF PullRecords
  <2>2. /\ q.triggers = pull.triggers /\ q.findings = pull.findings
        /\ q.statuses = pull.statuses /\ q.arrival = now /\ q.opened = pull.opened
    BY <1>2 DEF PullRecords
  <2>3. q.shared = pull.shared
    BY <1>2, Zenon DEF PullRecords
  <2>4. QED
    BY <2>1, <2>2, <2>3
<1> HIDE DEF q
<1>4. QED
  BY <1>1, <1>3, QuietKeeps DEF Ending

LEMMA ReturnHeadKeeps ==
  ASSUME AdapterInv, ReturnHead
  PROVE  AdapterInv'
<1>1. PICK arrival \in {pull.arrival, now} :
        Changes([pull EXCEPT !.head = ThisHead, !.arrival = arrival], reviewing)
  BY DEF ReturnHead
<1> DEFINE q == [pull EXCEPT !.head = ThisHead, !.arrival = arrival]
<1>2. now \in Nat /\ pull \in PullRecords /\ pull.arrival \in Int
  BY PullTypes DEF AdapterInv, AdapterTypeOK
<1>3. /\ q \in PullRecords /\ q.triggers = pull.triggers /\ q.findings = pull.findings
      /\ q.statuses = pull.statuses /\ q.arrival = arrival /\ q.opened = pull.opened
      /\ q.shared = pull.shared
  <2>1. q \in PullRecords
    <3>1. arrival \in Int
      BY <1>1, <1>2
    <3>2. QED
      BY <1>2, <3>1, FieldsAre, Zenon DEF PullRecords
  <2>2. /\ q.triggers = pull.triggers /\ q.findings = pull.findings
        /\ q.statuses = pull.statuses /\ q.arrival = arrival /\ q.opened = pull.opened
    BY <1>2 DEF PullRecords
  <2>3. q.shared = pull.shared
    BY <1>2, Zenon DEF PullRecords
  <2>4. QED
    BY <2>1, <2>2, <2>3
<1>4. Changes(q, reviewing)
  BY <1>1
<1> HIDE DEF q
<1>5. QED
  BY <1>3, <1>4, QuietKeeps DEF Ending

LEMMA MarkReadyKeeps ==
  ASSUME AdapterInv, MarkReady
  PROVE  AdapterInv'
<1> DEFINE q == [pull EXCEPT !.draft = FALSE, !.opened = now]
<1>1. Changes(q, reviewing)
  BY HappensIs DEF MarkReady
<1>2. now \in Nat /\ pull \in PullRecords
  BY DEF AdapterInv, AdapterTypeOK
<1>3. /\ q \in PullRecords /\ q.triggers = pull.triggers /\ q.findings = pull.findings
      /\ q.statuses = pull.statuses /\ q.arrival = pull.arrival /\ q.opened = now
      /\ q.shared = pull.shared
  <2>1. q \in PullRecords
    BY <1>2, FieldsAre, Zenon DEF PullRecords
  <2>2. /\ q.triggers = pull.triggers /\ q.findings = pull.findings
        /\ q.statuses = pull.statuses /\ q.arrival = pull.arrival /\ q.opened = now
    BY <1>2 DEF PullRecords
  <2>3. q.shared = pull.shared
    BY <1>2, Zenon DEF PullRecords
  <2>4. QED
    BY <2>1, <2>2, <2>3
<1> HIDE DEF q
<1>4. QED
  BY <1>1, <1>3, QuietKeeps DEF Ending

LEMMA CloseOrShareKeeps ==
  ASSUME AdapterInv, CloseOrShare
  PROVE  AdapterInv'
<1>1. now \in Nat /\ pull \in PullRecords
  BY DEF AdapterInv, AdapterTypeOK
<1>2. CASE Happens([pull EXCEPT !.open = FALSE], reviewing)
  <2> DEFINE q == [pull EXCEPT !.open = FALSE]
  <2>1. Changes(q, reviewing)
    BY <1>2, HappensIs
  <2>2. /\ q \in PullRecords /\ q.triggers = pull.triggers /\ q.findings = pull.findings
        /\ q.statuses = pull.statuses /\ q.arrival = pull.arrival /\ q.opened = pull.opened
        /\ q.shared = pull.shared
    <3>1. q \in PullRecords
      BY <1>1, FieldsAre, Zenon DEF PullRecords
    <3>2. /\ q.triggers = pull.triggers /\ q.findings = pull.findings
          /\ q.statuses = pull.statuses /\ q.arrival = pull.arrival /\ q.opened = pull.opened
      BY <1>1 DEF PullRecords
    <3>3. q.shared = pull.shared
      BY <1>1, Zenon DEF PullRecords
    <3>4. QED
      BY <3>1, <3>2, <3>3
  <2> HIDE DEF q
  <2>3. QED
    BY <2>1, <2>2, QuietKeeps DEF Ending
<1>3. CASE Happens([pull EXCEPT !.shared = ~pull.shared], reviewing)
  <2> DEFINE q == [pull EXCEPT !.shared = ~pull.shared]
  <2>1. Changes(q, reviewing)
    BY <1>3, HappensIs
  <2>2. (~pull.shared) \in BOOLEAN /\ pull.shared \in BOOLEAN
    BY <1>1 DEF PullRecords
  <2>3. /\ q \in PullRecords /\ q.triggers = pull.triggers /\ q.findings = pull.findings
        /\ q.statuses = pull.statuses /\ q.arrival = pull.arrival /\ q.opened = pull.opened
    <3>1. q \in PullRecords
      BY <1>1, <2>2, Zenon DEF PullRecords
    <3>2. QED
      BY <1>1, <3>1 DEF PullRecords
  <2>4. q.shared = ~pull.shared
    BY <1>1, Zenon DEF PullRecords
  <2> HIDE DEF q
  <2>5. ASSUME ~misled', NEW n \in DOMAIN pull.statuses, pull.statuses[n].kind \in Ending(q)
        PROVE  pull.statuses[n].kind \in Ending(pull)
    <3>1. CASE ~pull.shared
      BY <2>4, <2>5, <3>1 DEF Ending
    <3>2. CASE pull.shared
      <4>1. TimesOf(pull.statuses, {"skipped"}) = {}
        BY <2>1, <2>4, <2>5, <3>2 DEF Changes
      <4>2. pull.statuses[n].kind # "skipped"
        BY <4>1 DEF TimesOf
      <4>3. QED
        BY <2>5, <4>2 DEF Ending
    <3>3. QED
      BY <3>1, <3>2
  <2>6. QED
    BY <2>1, <2>3, <2>5, QuietKeeps
<1>4. QED
  BY <1>2, <1>3 DEF CloseOrShare

LEMMA PersonAsksKeeps ==
  ASSUME AdapterInv, PersonAsks
  PROVE  AdapterInv'
<1>1. PICK mode \in Modes :
        Happens([pull EXCEPT !.triggers = Append(@, Trigger(NoRun, mode, TRUE))], reviewing)
  BY DEF PersonAsks
<1> DEFINE c == Trigger(NoRun, mode, TRUE)
           q == [pull EXCEPT !.triggers = Append(pull.triggers, c)]
<1>2. now \in Nat /\ pull \in PullRecords /\ pull.triggers \in Seq(Comments)
  BY PullTypes DEF AdapterInv, AdapterTypeOK
<1>3. c \in Comments /\ c.at = now /\ c.by = NoRun
  BY <1>2 DEF Comments, Trigger
<1> HIDE DEF c
<1>4. Append(pull.triggers, c) \in Seq(Comments)
  BY <1>2, <1>3
<1>5. /\ q \in PullRecords /\ q.triggers = Append(pull.triggers, c) /\ q.findings = pull.findings
      /\ q.statuses = pull.statuses /\ q.arrival = pull.arrival /\ q.opened = pull.opened
      /\ q.shared = pull.shared
  BY <1>2, <1>4 DEF PullRecords
<1>6. Changes(q, reviewing)
  BY <1>1, HappensIs DEF c
<1> HIDE DEF q
<1>7. QED
  BY <1>3, <1>5, <1>6, QuietKeeps DEF Ending

\* A comment is listed, and time goes on.
LEMMA BecomesListedKeeps ==
  ASSUME AdapterInv, BecomesListed
  PROVE  AdapterInv'
<1>1. PICK i \in DOMAIN pull.triggers : pull' = [pull EXCEPT !.triggers[i].listed = TRUE]
  BY DEF BecomesListed
<1> DEFINE c == [pull.triggers[i] EXCEPT !.listed = TRUE]
           seq == [pull.triggers EXCEPT ![i] = c]
<1>2. now \in Nat /\ pull \in PullRecords /\ pull.triggers \in Seq(Comments)
      /\ pull.triggers[i] \in Comments
      /\ DOMAIN pull.triggers = 1..Len(pull.triggers)
      /\ \A n \in DOMAIN pull.triggers : pull.triggers[n].at \in Int
  BY PullTypes DEF AdapterInv, AdapterTypeOK
<1>3. c \in Comments /\ c.at = pull.triggers[i].at /\ c.by = pull.triggers[i].by
      /\ c.mode = pull.triggers[i].mode
  <2>1. c \in Comments
    BY <1>2, Zenon DEF Comments
  <2>2. QED
    BY <1>2, <2>1 DEF Comments
<1> HIDE DEF c
<1>4. seq \in Seq(Comments) /\ Len(seq) = Len(pull.triggers)
      /\ DOMAIN seq = DOMAIN pull.triggers /\ seq[i] = c
      /\ \A n \in DOMAIN pull.triggers : n # i => seq[n] = pull.triggers[n]
  BY <1>2, <1>3
<1> HIDE DEF seq
<1>5. pull' = [pull EXCEPT !.triggers = seq]
  BY <1>1 DEF seq, c
<1>6. /\ pull' \in PullRecords /\ pull'.triggers = seq /\ pull'.findings = pull.findings
      /\ pull'.statuses = pull.statuses /\ pull'.arrival = pull.arrival
      /\ pull'.opened = pull.opened
  BY <1>2, <1>4, <1>5 DEF PullRecords
<1>7. pull'.shared = pull.shared
  BY <1>2, <1>5, Zenon DEF PullRecords
<1>8. /\ now' = now /\ reviewing' = reviewing /\ misled' = misled /\ stage' = stage
      /\ holder' = holder /\ evidence' = evidence /\ posted' = posted /\ lagged' = lagged
      /\ unseen' = unseen
  BY DEF BecomesListed, runVars
<1>9. /\ DOMAIN pull'.triggers = DOMAIN pull.triggers
      /\ Len(pull'.triggers) = Len(pull.triggers)
      /\ \A n \in DOMAIN pull.triggers :
            /\ pull'.triggers[n].at = pull.triggers[n].at
            /\ pull'.triggers[n].by = pull.triggers[n].by
            /\ pull'.triggers[n].mode = pull.triggers[n].mode
  BY <1>3, <1>4, <1>6
<1>10. AdapterTypeOK'
  BY <1>6, <1>8, <1>9 DEF AdapterInv, AdapterTypeOK
<1>11. HolderWorks'
  BY <1>8 DEF AdapterInv, HolderWorks
<1>12. RecordsInOrder'
  BY <1>6, <1>8, <1>9 DEF AdapterInv, RecordsInOrder
<1>13. SilenceShows'
  BY <1>6, <1>7, <1>8 DEF AdapterInv, SilenceShows, ShowsUnfinished, Ending
<1>14. Start(pull') = Start(pull)
  BY <1>6 DEF Start
<1>15. ASSUME NEW r \in Run
       PROVE  ReadIsPrefix(r)' /\ OwnAreKnown(r)' /\ AsksWhenAnswered(r)' /\ SilenceWasRead(r)'
  <2>1. ReadIsPrefix(r) /\ OwnAreKnown(r) /\ AsksWhenAnswered(r) /\ SilenceWasRead(r)
    BY DEF AdapterInv
  <2>2. ReadIsPrefix(r)'
    BY <1>6, <1>8, <2>1 DEF ReadIsPrefix
  <2>3. OwnAreKnown(r)'
    BY <1>8, <1>9, <2>1 DEF OwnAreKnown
  <2>4. AsksWhenAnswered(r)'
    <3>1. SUFFICES ASSUME stage[r] \in Asking PROVE AsksWhenAnswered(r)'
      BY <1>8 DEF AsksWhenAnswered
    <3>2. Start(evidence') <= Start(pull')
      BY <1>8, <1>14, <2>1, <3>1 DEF AsksWhenAnswered
    <3>3. lagged \/ \A n \in DOMAIN pull'.triggers : pull'.triggers[n].by # NoRun =>
              \E t \in evidence.triggers :
                  t.at = pull'.triggers[n].at /\ t.mode = pull'.triggers[n].mode
      BY <1>9, <2>1, <3>1 DEF AsksWhenAnswered
    <3>4. \A t \in OfCycle(evidence) : \E k \in DOMAIN pull'.statuses :
              /\ t.at < pull'.statuses[k].at
              /\ stage[r] = "post-full" /\ t.mode = "full" =>
                    pull'.statuses[k].kind \in {"rate-limited", "lock-loss"}
      BY <1>6, <2>1, <3>1 DEF AsksWhenAnswered
    <3>5. QED
      BY <1>8, <3>2, <3>3, <3>4 DEF AsksWhenAnswered
  <2>5. SilenceWasRead(r)'
    BY <1>6, <1>8, <2>1 DEF SilenceWasRead
  <2>6. QED
    BY <2>2, <2>3, <2>4, <2>5
<1>16. TriggersAreAnswered'
  <2>1. SUFFICES ASSUME ~lagged PROVE AllAnswered(pull')
    BY <1>8, AnsweredIsPrime
  <2>2. AllAnswered(pull)
    BY <2>1, AnsweredIs DEF AdapterInv
  <2>3. SameTriggers(pull', pull)
    BY <1>9 DEF SameTriggers
  <2>4. Start(pull) \in Int
    BY <1>2, StartOfPull DEF PullRecords
  <2>5. Len(pull.statuses) \in Int
    BY <1>2, PullTypes
  <2>6. Extends(pull', pull)
    BY <1>6, <1>14, <2>4, <2>5 DEF Extends
  <2>7. QED
    BY <1>2, <1>6, <2>2, <2>3, <2>6, AnsweredStays
<1>17. QED
  BY <1>10, <1>11, <1>12, <1>13, <1>15, <1>16 DEF AdapterInv

LEMMA TickKeeps ==
  ASSUME AdapterInv, Tick
  PROVE  AdapterInv'
<1>1. /\ now' = now + 1 /\ pull' = pull /\ reviewing' = reviewing /\ misled' = misled
      /\ stage' = stage /\ holder' = holder /\ evidence' = evidence /\ posted' = posted
      /\ lagged' = lagged /\ unseen' = unseen
  BY DEF Tick, runVars
<1>2. now \in Nat /\ pull \in PullRecords
  BY DEF AdapterInv, AdapterTypeOK
<1>3. AdapterTypeOK'
  BY <1>1, <1>2 DEF AdapterInv, AdapterTypeOK
<1>4. RecordsInOrder'
  <2>1. /\ pull.arrival \in Int /\ pull.opened \in Int /\ pull.findings \in Int
        /\ \A k \in DOMAIN pull.statuses : pull.statuses[k].at \in Int
        /\ \A k \in DOMAIN pull.triggers : pull.triggers[k].at \in Int
    BY <1>2, PullTypes
  <2>2. RecordsInOrder
    BY DEF AdapterInv
  <2>3. \A x \in Int : x <= now => x <= now + 1
    BY <1>2
  <2>4. QED
    BY <1>1, <2>1, <2>2, <2>3 DEF RecordsInOrder
<1>5. HolderWorks' /\ SilenceShows'
  BY <1>1 DEF AdapterInv, HolderWorks, SilenceShows
<1>6. ASSUME NEW r \in Run
      PROVE  ReadIsPrefix(r)' /\ OwnAreKnown(r)' /\ AsksWhenAnswered(r)' /\ SilenceWasRead(r)'
  BY <1>1 DEF AdapterInv, ReadIsPrefix, OwnAreKnown, AsksWhenAnswered, SilenceWasRead
<1>7. TriggersAreAnswered'
  BY <1>1 DEF AdapterInv, TriggersAreAnswered
<1>8. QED
  BY <1>3, <1>4, <1>5, <1>6, <1>7 DEF AdapterInv
-----------------------------------------------------------------------------
(* What a run does.                                                          *)

Working == {"read", "read-more"} \cup Asking

\* A run changes the pull request only by its own comments, and leaves all
\* triggers answered.
PullKeeps(r) ==
    /\ now' = now /\ reviewing' = reviewing /\ misled' = misled
    /\ pull' \in PullRecords
    /\ pull'.statuses = pull.statuses /\ pull'.findings = pull.findings
    /\ pull'.arrival = pull.arrival /\ pull'.opened = pull.opened
    /\ pull'.shared = pull.shared
    /\ Len(pull.triggers) <= Len(pull'.triggers)
    /\ \A i \in DOMAIN pull'.triggers :
          \/ i \in DOMAIN pull.triggers /\ pull'.triggers[i] = pull.triggers[i]
          \/ pull'.triggers[i].at = now /\ pull'.triggers[i].by = r
    /\ lagged' \in BOOLEAN /\ TriggersAreAnswered'

LEMMA OutsideKeeps ==
  ASSUME AdapterInv, NEW r \in Run, UNCHANGED outside, lagged' \in BOOLEAN, lagged => lagged'
  PROVE  PullKeeps(r)
<1>1. now' = now /\ reviewing' = reviewing /\ misled' = misled /\ pull' = pull
  BY DEF outside
<1>2. pull \in PullRecords /\ Len(pull.triggers) \in Nat
  BY PullTypes DEF AdapterInv, AdapterTypeOK
<1>3. TriggersAreAnswered'
  BY <1>1, AnsweredIs, AnsweredIsPrime DEF AdapterInv
<1>4. QED
  BY <1>1, <1>2, <1>3 DEF PullKeeps

\* While a run works, the others have ended or wait for the lock.
LEMMA OthersWait ==
  ASSUME AdapterInv, NEW r \in Run, holder \in {r, NoRun}, NEW s \in Run, s # r
  PROVE  /\ stage[s] \notin Working
         /\ \A i \in DOMAIN pull.triggers : pull.triggers[i].by = s => stage[s] = "done"
BY RunAssumption DEF AdapterInv, HolderWorks, OwnAreKnown, Working

LEMMA StepKeeps ==
  ASSUME AdapterInv, NEW r \in Run, NEW step \in Stages, Proceed(r, step), PullKeeps(r),
         holder \in {r, NoRun}, holder' \in {r, NoRun}, holder' = r <=> step \in Working,
         unseen' \in BOOLEAN, evidence' \in EvidenceRecords, TriggersOK(evidence'.triggers),
         \A t \in evidence'.triggers : t.id <= Len(pull.triggers),
         posted' \subseteq 1..Len(pull'.triggers),
         ReadIsPrefix(r)', OwnAreKnown(r)', AsksWhenAnswered(r)', SilenceWasRead(r)'
  PROVE  AdapterInv'
<1>1. /\ pull \in PullRecords /\ pull' \in PullRecords /\ now \in Nat
      /\ stage \in [Run -> Stages] /\ r # NoRun
  BY RunAssumption DEF AdapterInv, AdapterTypeOK, PullKeeps
<1>2. /\ Len(pull.triggers) \in Nat /\ Len(pull'.triggers) \in Nat
      /\ DOMAIN pull.triggers = 1..Len(pull.triggers)
  BY <1>1, PullTypes
<1>3. stage' \in [Run -> Stages] /\ stage'[r] = step /\ \A s \in Run : s # r => stage'[s] = stage[s]
  BY <1>1 DEF Proceed
<1>4. AdapterTypeOK'
  <2>1. \A t \in evidence'.triggers : t.id \in Nat
    BY DEF TriggersOK, Entries
  <2>2. \A t \in evidence'.triggers : t.id <= Len(pull'.triggers)
    BY <1>2, <2>1 DEF PullKeeps
  <2>3. now' \in Nat /\ reviewing' \in {"no", "silent", "stated", "interrupted"}
        /\ misled' \in BOOLEAN /\ lagged' \in BOOLEAN /\ holder' \in Run \cup {NoRun}
    BY DEF PullKeeps, AdapterInv, AdapterTypeOK
  <2>4. QED
    BY <1>1, <1>3, <2>2, <2>3 DEF AdapterTypeOK
<1>5. HolderWorks'
  <2>1. SUFFICES ASSUME NEW s \in Run PROVE holder' = s <=> stage'[s] \in Working
    BY DEF HolderWorks, Working
  <2>2. CASE s = r
    BY <1>3, <2>2
  <2>3. CASE s # r
    <3>1. s # NoRun
      BY RunAssumption
    <3>2. QED
      BY <1>3, <2>3, <3>1, OthersWait
  <2>4. QED
    BY <2>2, <2>3
<1>6. RecordsInOrder'
  <2>1. /\ \A i \in DOMAIN pull'.triggers : pull'.triggers[i].at <= now
    BY <1>1 DEF PullKeeps, AdapterInv, RecordsInOrder
  <2>2. QED
    BY <2>1 DEF PullKeeps, AdapterInv, RecordsInOrder
<1>7. SilenceShows'
  BY DEF PullKeeps, AdapterInv, SilenceShows, ShowsUnfinished, Ending
<1>8. ASSUME NEW s \in Run, s # r
      PROVE  ReadIsPrefix(s)' /\ OwnAreKnown(s)' /\ AsksWhenAnswered(s)' /\ SilenceWasRead(s)'
  <2>1. stage'[s] = stage[s] /\ stage'[s] \notin Working
    BY <1>3, <1>8, OthersWait
  <2>2. ReadIsPrefix(s)' /\ AsksWhenAnswered(s)' /\ SilenceWasRead(s)'
    BY <2>1 DEF ReadIsPrefix, AsksWhenAnswered, SilenceWasRead, Working
  <2>3. OwnAreKnown(s)'
    BY <1>8, <2>1, OthersWait DEF OwnAreKnown, PullKeeps
  <2>4. QED
    BY <2>2, <2>3
<1>9. TriggersAreAnswered'
  BY DEF PullKeeps
<1>10. QED
  BY <1>4, <1>5, <1>6, <1>7, <1>8, <1>9 DEF AdapterInv

LEMMA NoReadingOK ==
  /\ NoReading \in EvidenceRecords /\ TriggersOK(NoReading.triggers)
  /\ NoReading.triggers = {}
<1>1. NoReading.triggers = {}
  BY DEF NoReading
<1>2. TriggersOK({})
  BY FS_EmptySet DEF TriggersOK
<1>3. /\ NoReading.head \in Heads /\ NoReading.open \in BOOLEAN /\ NoReading.draft \in BOOLEAN
      /\ NoReading.shared \in BOOLEAN /\ NoReading.clean \in BOOLEAN
  BY Zenon DEF NoReading, Heads
<1>4. NoReading \in EvidenceRecords
  BY DEF NoReading, EvidenceRecords, Heads, Never
<1>5. QED
  BY <1>1, <1>2, <1>4

\* A run that ends.
LEMMA EndsKeeps ==
  ASSUME AdapterInv, NEW r \in Run, holder = r, Ends(r), PullKeeps(r)
  PROVE  AdapterInv'
<1>1. /\ Proceed(r, "done") /\ holder' = NoRun /\ evidence' = NoReading /\ unseen' = FALSE
      /\ posted' = {}
  BY DEF Ends, Forget
<1>2. "done" \in Stages /\ "done" \notin Working /\ holder' # r
  BY <1>1, RunAssumption DEF Stages, Working, Asking
<1>3. stage'[r] = "done"
  BY <1>1 DEF Proceed, AdapterInv, AdapterTypeOK
<1>4. ReadIsPrefix(r)' /\ OwnAreKnown(r)' /\ AsksWhenAnswered(r)' /\ SilenceWasRead(r)'
  BY <1>3 DEF ReadIsPrefix, OwnAreKnown, AsksWhenAnswered, SilenceWasRead, Asking
<1>5. QED
  BY <1>1, <1>2, <1>4, NoReadingOK, StepKeeps

\* A run that sleeps before it reads again.
LEMMA SleepKeeps ==
  ASSUME AdapterInv, NEW r \in Run, holder = r, PullKeeps(r), Proceed(r, "read"), Forget(r),
         holder' = holder, posted' \subseteq 1..Len(pull'.triggers),
         \A i \in DOMAIN pull'.triggers : pull'.triggers[i].by = r => i \in posted'
  PROVE  AdapterInv'
<1>1. evidence' = NoReading /\ unseen' = FALSE
  BY DEF Forget
<1>2. "read" \in Stages /\ "read" \in Working
  BY DEF Stages, Working
<1>3. stage'[r] = "read"
  BY DEF Proceed, AdapterInv, AdapterTypeOK
<1>4. ReadIsPrefix(r)' /\ OwnAreKnown(r)' /\ AsksWhenAnswered(r)' /\ SilenceWasRead(r)'
  BY <1>3 DEF ReadIsPrefix, OwnAreKnown, AsksWhenAnswered, SilenceWasRead, Asking
<1>5. QED
  BY <1>1, <1>2, <1>4, NoReadingOK, StepKeeps

\* The same on evidence that had none of its comments added.
LEMMA SleepUntilKeeps ==
  ASSUME AdapterInv, NEW r \in Run, holder = r, NEW time, SleepUntil(r, time),
         UNCHANGED outside, lagged' \in BOOLEAN, lagged => lagged'
  PROVE  AdapterInv'
<1>1. /\ Proceed(r, "read") /\ Forget(r) /\ holder' = holder /\ posted' = posted /\ pull' = pull
  BY DEF SleepUntil, outside
<1>2. PullKeeps(r)
  BY OutsideKeeps
<1>3. stage[r] # "done"
  BY DEF AdapterInv, HolderWorks, Asking
<1>4. posted' \subseteq 1..Len(pull'.triggers)
  BY <1>1 DEF AdapterInv, AdapterTypeOK
<1>5. \A i \in DOMAIN pull'.triggers : pull'.triggers[i].by = r => i \in posted'
  BY <1>1, <1>3 DEF AdapterInv, OwnAreKnown
<1>6. QED
  BY <1>1, <1>2, <1>4, <1>5, SleepKeeps

LEMMA ConcludeKeeps ==
  ASSUME AdapterInv, NEW r \in Run, holder = r, NEW d, Conclude(r, d),
         UNCHANGED outside, lagged' \in BOOLEAN, lagged => lagged'
  PROVE  AdapterInv'
<1>1. CASE Ends(r)
  BY <1>1, OutsideKeeps, EndsKeeps
<1>2. CASE SleepUntil(r, WakeTime(r, d))
  BY <1>2, SleepUntilKeeps
<1>3. QED
  BY <1>1, <1>2 DEF Conclude

LEMMA HolderIs ==
  ASSUME AdapterInv, NEW r \in Run
  PROVE  /\ holder = r <=> stage[r] \in Working
         /\ lagged \in BOOLEAN
BY DEF AdapterInv, HolderWorks, AdapterTypeOK, Working

LEMMA FailKeeps ==
  ASSUME AdapterInv, NEW r \in Run, Fail(r)
  PROVE  AdapterInv'
BY HolderIs, OutsideKeeps, EndsKeeps DEF Fail

LEMMA ReadingFailsKeeps ==
  ASSUME AdapterInv, NEW r \in Run, ReadingFails(r)
  PROVE  AdapterInv'
<1>1. holder = r /\ lagged \in BOOLEAN
  BY HolderIs DEF ReadingFails, Working
<1>2. QED
  BY <1>1, SleepUntilKeeps DEF ReadingFails

LEMMA TakeLockKeeps ==
  ASSUME AdapterInv, NEW r \in Run, TakeLock(r)
  PROVE  AdapterInv'
<1>1. /\ UNCHANGED outside /\ evidence' = evidence /\ posted' = posted /\ unseen' = unseen
      /\ lagged' = lagged /\ stage[r] = "lock" /\ pull' = pull
  BY DEF TakeLock, outside
<1>2. /\ PullKeeps(r) /\ r # NoRun /\ stage \in [Run -> Stages]
      /\ unseen \in BOOLEAN /\ evidence \in EvidenceRecords /\ TriggersOK(evidence.triggers)
      /\ \A t \in evidence.triggers : t.id <= Len(pull.triggers)
      /\ posted \subseteq 1..Len(pull.triggers)
  BY <1>1, OutsideKeeps, RunAssumption DEF AdapterInv, AdapterTypeOK
<1>3. \A i \in DOMAIN pull.triggers : pull.triggers[i].by # r
  <2>1. holder # r
    BY <1>1 DEF AdapterInv, HolderWorks, Asking
  <2>2. QED
    BY <1>1, <2>1 DEF AdapterInv, OwnAreKnown
<1>4. ASSUME NEW step \in {"read", "done"}, stage'[r] = step
      PROVE  ReadIsPrefix(r)' /\ OwnAreKnown(r)' /\ AsksWhenAnswered(r)' /\ SilenceWasRead(r)'
  BY <1>1, <1>3, <1>4 DEF ReadIsPrefix, OwnAreKnown, AsksWhenAnswered, SilenceWasRead, Asking
<1>5. CASE holder = NoRun /\ holder' = r /\ Proceed(r, "read")
  <2>1. stage'[r] = "read" /\ "read" \in Stages /\ "read" \in Working
    BY <1>2, <1>5 DEF Proceed, Stages, Working
  <2>2. QED
    BY <1>1, <1>2, <1>4, <1>5, <2>1, StepKeeps
<1>6. CASE holder' = holder /\ Proceed(r, "done")
  \* The lock is somebody else's.
  <2>1. stage' = [stage EXCEPT ![r] = "done"] /\ stage'[r] = "done"
    BY <1>2, <1>6 DEF Proceed
  <2>2. AdapterTypeOK'
    <3>1. stage' \in [Run -> Stages]
      BY <1>2, <2>1 DEF Stages
    <3>2. QED
      BY <1>1, <1>2, <1>6, <3>1 DEF AdapterInv, AdapterTypeOK, outside
  <2>3. HolderWorks'
    BY <1>1, <1>2, <1>6, <2>1 DEF AdapterInv, HolderWorks, Asking
  <2>4. RecordsInOrder' /\ SilenceShows'
    BY <1>1 DEF AdapterInv, RecordsInOrder, SilenceShows, outside
  <2>5. ASSUME NEW s \in Run, s # r
        PROVE  ReadIsPrefix(s)' /\ OwnAreKnown(s)' /\ AsksWhenAnswered(s)' /\ SilenceWasRead(s)'
    <3>1. stage'[s] = stage[s] /\ misled' = misled
      BY <1>1, <1>2, <2>1, <2>5 DEF outside
    <3>2. QED
      BY <1>1, <1>6, <3>1
      DEF AdapterInv, ReadIsPrefix, OwnAreKnown, AsksWhenAnswered, SilenceWasRead
  <2>6. QED
    BY <1>2, <1>4, <2>1, <2>2, <2>3, <2>4, <2>5 DEF AdapterInv, PullKeeps
<1>7. QED
  BY <1>5, <1>6 DEF TakeLock

LEMMA ReadStatusesKeeps ==
  ASSUME AdapterInv, NEW r \in Run, ReadStatuses(r)
  PROVE  AdapterInv'
<1>1. /\ UNCHANGED outside /\ holder' = holder /\ posted' = posted /\ lagged' = lagged
      /\ stage[r] = "read" /\ pull' = pull /\ misled' = misled
      /\ unseen' = (reviewing \in Silent) /\ Proceed(r, "read-more")
      /\ evidence' = [evidence EXCEPT !.head = pull.head, !.open = pull.open,
                                      !.draft = pull.draft, !.shared = pull.shared,
                                      !.statuses = pull.statuses]
  BY DEF ReadStatuses, outside
<1>2. holder = r /\ lagged \in BOOLEAN
  BY <1>1, HolderIs DEF Working
<1>3. /\ PullKeeps(r) /\ stage'[r] = "read-more"
      /\ evidence \in EvidenceRecords /\ TriggersOK(evidence.triggers)
      /\ \A t \in evidence.triggers : t.id <= Len(pull.triggers)
      /\ posted \subseteq 1..Len(pull.triggers) /\ pull \in PullRecords
  BY <1>1, <1>2, OutsideKeeps DEF AdapterInv, AdapterTypeOK, Proceed
<1>4. /\ pull.head \in Heads /\ pull.open \in BOOLEAN /\ pull.draft \in BOOLEAN
      /\ pull.shared \in BOOLEAN /\ pull.statuses \in Seq(StatusRecords)
  BY <1>3, Zenon DEF PullRecords
<1>5. evidence' \in EvidenceRecords
  BY <1>1, <1>3, <1>4, Zenon DEF EvidenceRecords
<1>6. evidence'.triggers = evidence.triggers /\ evidence'.statuses = pull.statuses
  BY <1>1, <1>3 DEF EvidenceRecords
<1>7. evidence'.shared = pull.shared
  BY <1>1, <1>3, Zenon DEF EvidenceRecords
<1>8. ReadIsPrefix(r)'
  <2>1. Len(pull.statuses) \in Nat
    BY <1>3, PullTypes
  <2>2. pull' = pull
    BY <1>1
  <2>3. Len(pull.statuses) <= Len(pull.statuses)
    BY <2>1
  <2>4. QED
    BY <1>6, <2>2, <2>3 DEF ReadIsPrefix
<1>9. OwnAreKnown(r)'
  BY <1>1, <1>2, <1>3 DEF AdapterInv, OwnAreKnown
<1>10. AsksWhenAnswered(r)'
  BY <1>3 DEF AsksWhenAnswered, Asking
<1>11. SilenceWasRead(r)'
  <2>1. SUFFICES ASSUME reviewing \in Silent, ~misled
                 PROVE  ShowsUnfinished(evidence', pull.findings)
    BY <1>1 DEF SilenceWasRead
  <2>2. ShowsUnfinished(pull, pull.findings)
    BY <2>1 DEF AdapterInv, SilenceShows
  <2>3. QED
    BY <1>6, <1>7, <2>2 DEF ShowsUnfinished, Ending
<1>12. "read-more" \in Stages /\ "read-more" \in Working /\ unseen' \in BOOLEAN
  <2>1. unseen' \in BOOLEAN
    <3>1. (reviewing \in Silent) \in BOOLEAN
      OBVIOUS
    <3>2. QED
      BY <1>1, <3>1, Zenon
  <2>2. QED
    BY <2>1 DEF Stages, Working
<1>13. QED
  BY <1>1, <1>2, <1>3, <1>5, <1>6, <1>8, <1>9, <1>10, <1>11, <1>12, StepKeeps

\* The evidence a run decides on is evidence.
LEMMA EvidenceIsOK ==
  ASSUME NEW e \in EvidenceRecords, TriggersOK(e.triggers)
  PROVE  EvidenceOK(e)
BY DEF EvidenceRecords, EvidenceOK

\* What was gathered: every trigger that is listed or the run's own.
Entry(i) == [id |-> i, at |-> pull.triggers[i].at, mode |-> pull.triggers[i].mode,
             listed |-> pull.triggers[i].listed]

LEMMA WithPostedIs ==
  ASSUME AdapterInv
  PROVE  /\ TriggersOK(WithPosted)
         /\ \A t \in WithPosted : t.id <= Len(pull.triggers)
         /\ \A i \in DOMAIN pull.triggers : pull.triggers[i].listed \/ i \in posted =>
              \E t \in WithPosted : t.at = pull.triggers[i].at /\ t.mode = pull.triggers[i].mode
<1> DEFINE ids == {k \in DOMAIN pull.triggers : pull.triggers[k].listed \/ k \in posted}
<1>1. WithPosted = {Entry(i) : i \in ids}
  BY DEF WithPosted, Entry
<1>2. /\ pull \in PullRecords /\ DOMAIN pull.triggers = 1..Len(pull.triggers)
      /\ Len(pull.triggers) \in Nat
      /\ \A i \in DOMAIN pull.triggers : pull.triggers[i] \in Comments
  BY PullTypes DEF AdapterInv, AdapterTypeOK
<1>3. \A c \in Comments : c.at \in Nat /\ c.mode \in Modes
  BY DEF Comments
<1>4. \A c \in Comments : c.listed \in BOOLEAN
  BY Zenon DEF Comments
<1>5. ASSUME NEW i \in ids
      PROVE  /\ Entry(i) \in Entries /\ Entry(i).id = i
             /\ Entry(i).at = pull.triggers[i].at /\ Entry(i).mode = pull.triggers[i].mode
  <2>1. i \in Nat /\ pull.triggers[i].at \in Nat /\ pull.triggers[i].mode \in Modes
    BY <1>2, <1>3
  <2>2. pull.triggers[i].listed \in BOOLEAN
    BY <1>2, <1>4
  <2>3. Entry(i) \in Entries
    BY <2>1, <2>2, Zenon DEF Entry, Entries
  <2>4. QED
    BY <2>3 DEF Entry
<1>6. IsFiniteSet(WithPosted)
  <2>1. IsFiniteSet(1..Len(pull.triggers))
    BY <1>2, FS_Interval
  <2>2. IsFiniteSet(ids)
    BY <1>2, <2>1, FS_Subset
  <2> HIDE DEF ids
  <2>3. IsFiniteSet({Entry(i) : i \in ids})
    <3> DEFINE f == [i \in ids |-> Entry(i)]
    <3>1. f \in Surjection(ids, {Entry(i) : i \in ids})
      BY DEF Surjection
    <3>2. QED
      BY <2>2, <3>1, FS_Surjection
  <2>4. QED
    BY <1>1, <2>3
<1> HIDE DEF Entry
<1>7. WithPosted \subseteq Entries
  BY <1>1, <1>5
<1>8. \A t, u \in WithPosted : t.id = u.id => t = u
  BY <1>1, <1>5
<1>9. \A t \in WithPosted : t.id <= Len(pull.triggers)
  BY <1>1, <1>2, <1>5
<1>10. \A i \in ids :
         \E t \in WithPosted : t.at = pull.triggers[i].at /\ t.mode = pull.triggers[i].mode
  BY <1>1, <1>5
<1>11. QED
  BY <1>6, <1>7, <1>8, <1>9, <1>10 DEF TriggersOK

LEMMA GatheredIs ==
  ASSUME AdapterInv
  PROVE  /\ Gathered \in EvidenceRecords /\ EvidenceOK(Gathered)
         /\ Gathered.triggers = WithPosted /\ Gathered.statuses = evidence.statuses
         /\ Gathered.arrival = pull.arrival /\ Gathered.opened = pull.opened
         /\ Gathered.findings = pull.findings
         /\ Gathered.clean = pull.clean /\ Gathered.shared = evidence.shared
<1>1. evidence \in EvidenceRecords /\ pull \in PullRecords
  BY DEF AdapterInv, AdapterTypeOK
<1>2. WithPosted \in SUBSET Entries /\ TriggersOK(WithPosted)
  BY WithPostedIs DEF TriggersOK
<1>3. /\ pull.arrival \in Int /\ pull.opened \in Int /\ pull.findings \in Int
      /\ pull.earlierEnd \in Int
  BY <1>1, PullTypes
<1>4. pull.earlier \in {"none", "running", "ended"} /\ pull.clean \in BOOLEAN
  BY <1>1, Zenon DEF PullRecords
<1> HIDE DEF WithPosted
<1>5. Gathered \in EvidenceRecords
  BY <1>1, <1>2, <1>3, <1>4, Zenon DEF Gathered, EvidenceRecords
<1>6. /\ Gathered.triggers = WithPosted /\ Gathered.statuses = evidence.statuses
      /\ Gathered.arrival = pull.arrival /\ Gathered.opened = pull.opened
      /\ Gathered.findings = pull.findings
  BY <1>1 DEF Gathered, EvidenceRecords
<1>7. Gathered.clean = pull.clean /\ Gathered.shared = evidence.shared
  BY <1>1, Zenon DEF Gathered, EvidenceRecords
<1>8. QED
  BY <1>2, <1>5, <1>6, <1>7, EvidenceIsOK

\* The evidence with the new comment.
LEMMA WithNewIs ==
  ASSUME AdapterInv, NEW mode \in Modes
  PROVE  EvidenceOK(WithNew(mode))
<1> DEFINE new == [id |-> NewId, at |-> now, mode |-> mode, listed |-> FALSE]
<1>1. /\ evidence \in EvidenceRecords /\ TriggersOK(evidence.triggers)
      /\ \A t \in evidence.triggers : t.id <= Len(pull.triggers)
      /\ now \in Nat /\ Len(pull.triggers) \in Nat
  BY PullTypes DEF AdapterInv, AdapterTypeOK
<1>2. NewId \in Nat /\ FALSE \in BOOLEAN
  BY <1>1 DEF NewId
<1>3. new \in Entries
  BY <1>1, <1>2, Zenon DEF Entries
<1>4. new.id = Len(pull.triggers) + 1
  BY DEF NewId
<1> DEFINE all == evidence.triggers \cup {new}
<1>5. WithNew(mode) = [evidence EXCEPT !.triggers = all]
  BY DEF WithNew
<1> HIDE DEF new
<1>6. TriggersOK(all)
  <2>1. IsFiniteSet(all) /\ all \subseteq Entries
    BY <1>1, <1>3, FS_AddElement DEF TriggersOK
  <2>2. \A t \in evidence.triggers : t.id \in Nat /\ t.id # new.id
    BY <1>1, <1>4 DEF TriggersOK, Entries
  <2>3. QED
    BY <1>1, <2>1, <2>2 DEF TriggersOK
<1> HIDE DEF all
<1>7. WithNew(mode) \in EvidenceRecords /\ WithNew(mode).triggers = all
  BY <1>1, <1>5, <1>6 DEF TriggersOK, EvidenceRecords
<1>8. QED
  BY <1>6, <1>7, EvidenceIsOK

LEMMA ReadAndJudgeKeeps ==
  ASSUME AdapterInv, NEW r \in Run, ReadAndJudge(r)
  PROVE  AdapterInv'
<1> DEFINE d == Decide(Gathered, now)
           post == d.state \in Permits /\ now < Deadline[r]
           late == \E i \in DOMAIN pull.triggers :
                      ~pull.triggers[i].listed /\ pull.triggers[i].by # r
<1>1. /\ stage[r] = "read-more" /\ UNCHANGED outside /\ lagged' = (lagged \/ late)
      /\ pull' = pull
  BY DEF ReadAndJudge, outside
<1>2. holder = r /\ lagged \in BOOLEAN
  BY <1>1, HolderIs DEF Working
<1>3. lagged' \in BOOLEAN /\ (lagged => lagged')
  BY <1>1, Zenon
<1>4. CASE ~post /\ Conclude(r, d)
  <2> HIDE DEF d
  <2>1. QED
    BY <1>1, <1>2, <1>3, <1>4, ConcludeKeeps
<1>5. CASE /\ post /\ evidence' = Gathered /\ unseen' = FALSE /\ Proceed(r, Posting(d.mode))
           /\ holder' = holder /\ posted' = posted
  <2>1. /\ Gathered \in EvidenceRecords /\ EvidenceOK(Gathered) /\ TriggersOK(Gathered.triggers)
        /\ Gathered.triggers = WithPosted /\ Gathered.statuses = evidence.statuses
        /\ Gathered.arrival = pull.arrival /\ Gathered.opened = pull.opened
        /\ \A t \in Gathered.triggers : t.id <= Len(pull.triggers)
    BY GatheredIs, WithPostedIs
  <2>2. /\ Posting(d.mode) \in Asking /\ Posting(d.mode) \in Stages /\ Posting(d.mode) \in Working
        /\ Posting(d.mode) \notin {"done", "read-more"}
        /\ Posting(d.mode) = "post-full" => d.mode = "full"
    BY DEF Posting, Asking, Stages, Working
  <2>3. d = Decide(Gathered, now)
    OBVIOUS
  <2> HIDE DEF d
  <2>4. stage'[r] = Posting(d.mode)
    BY <1>5 DEF Proceed, AdapterInv, AdapterTypeOK
  <2>5. ReadIsPrefix(r)
    BY DEF AdapterInv
  <2>6. /\ Len(evidence.statuses) <= Len(pull.statuses)
        /\ \A k \in DOMAIN evidence.statuses : evidence.statuses[k] = pull.statuses[k]
    BY <1>1, <2>5 DEF ReadIsPrefix
  <2>7. ReadIsPrefix(r)'
    BY <1>1, <1>5, <2>1, <2>6 DEF ReadIsPrefix
  <2>8. \A i \in DOMAIN pull.triggers : pull.triggers[i].by = r => i \in posted
    BY <1>1 DEF AdapterInv, OwnAreKnown
  <2>9. OwnAreKnown(r)'
    BY <1>1, <1>2, <1>5, <2>8 DEF OwnAreKnown
  <2>10. AsksWhenAnswered(r)'
    <3>1. Start(Gathered) = Start(pull) /\ Start(pull) \in Int
      <4>1. pull.arrival \in Int /\ pull.opened \in Int
        BY PullTypes DEF AdapterInv, AdapterTypeOK
      <4>2. Start(pull) \in Int
        BY <4>1, StartOfPull
      <4>3. QED
        BY <2>1, <4>2 DEF Start
    <3>2. lagged' \/ \A i \in DOMAIN pull.triggers : pull.triggers[i].by # NoRun =>
              \E t \in Gathered.triggers :
                  t.at = pull.triggers[i].at /\ t.mode = pull.triggers[i].mode
      <4>1. SUFFICES ASSUME ~lagged', NEW i \in DOMAIN pull.triggers
                     PROVE  pull.triggers[i].listed \/ i \in posted
        BY <2>1, WithPostedIs
      <4>2. ~late
        BY <1>1, <4>1
      <4>3. QED
        BY <2>8, <4>2
    <3>3. ASSUME NEW t \in OfCycle(Gathered)
          PROVE  \E k \in DOMAIN pull.statuses :
                    /\ t.at < pull.statuses[k].at
                    /\ Posting(d.mode) = "post-full" /\ t.mode = "full" =>
                          pull.statuses[k].kind \in {"rate-limited", "lock-loss"}
      <4>1. PICK k \in DOMAIN evidence.statuses :
              /\ t.at < evidence.statuses[k].at
              /\ d.mode = "full" /\ t.mode = "full" =>
                    evidence.statuses[k].kind \in {"rate-limited", "lock-loss"}
        BY <1>5, <2>1, <2>3, <3>3, PermitMeans
      <4>2. k \in DOMAIN pull.statuses
        <5>1. /\ DOMAIN evidence.statuses = 1..Len(evidence.statuses)
              /\ Len(evidence.statuses) \in Nat
          BY DEF AdapterInv, AdapterTypeOK, EvidenceRecords
        <5>2. DOMAIN pull.statuses = 1..Len(pull.statuses) /\ Len(pull.statuses) \in Nat
          BY PullTypes DEF AdapterInv, AdapterTypeOK
        <5>3. QED
          BY <2>6, <5>1, <5>2
      <4>3. QED
        BY <2>2, <2>6, <4>1, <4>2
    <3>4. pull' = pull /\ evidence' = Gathered
      BY <1>1, <1>5
    <3>5. Start(evidence') <= Start(pull')
      BY <3>1, <3>4
    <3> HIDE DEF late, post
    <3>6. QED
      BY <2>4, <3>2, <3>3, <3>4, <3>5 DEF AsksWhenAnswered
  <2>11. SilenceWasRead(r)'
    BY <2>2, <2>4 DEF SilenceWasRead
  <2>12. posted' \subseteq 1..Len(pull'.triggers)
    BY <1>1, <1>5 DEF AdapterInv, AdapterTypeOK
  <2>13. unseen' \in BOOLEAN
    BY <1>5
  <2>14. QED
    BY <1>1, <1>2, <1>3, <1>5, <2>1, <2>2, <2>7, <2>9, <2>10, <2>11, <2>12, <2>13,
       OutsideKeeps, StepKeeps
<1>6. QED
  BY <1>4, <1>5 DEF ReadAndJudge

-----------------------------------------------------------------------------
(* A comment is created.                                                     *)

LEMMA CreatesKeeps ==
  ASSUME AdapterInv, NEW r \in Run, NEW mode \in Modes, stage[r] = Posting(mode),
         Creates(r, mode), UNCHANGED <<now, reviewing, misled, events, lagged>>
  PROVE  /\ holder = r
         /\ PullKeeps(r)
         /\ Len(pull'.triggers) = NewId
         /\ \A i \in DOMAIN pull'.triggers : i \in DOMAIN pull.triggers \/ i = NewId
         /\ \A i \in DOMAIN pull.triggers : pull'.triggers[i] = pull.triggers[i]
<1>1. PICK listed \in BOOLEAN :
        pull' = [pull EXCEPT !.triggers = Append(pull.triggers, Trigger(r, mode, listed))]
  BY DEF Creates
<1> DEFINE c == Trigger(r, mode, listed)
           all == Append(pull.triggers, c)
<1>2. /\ now \in Nat /\ pull \in PullRecords /\ pull.triggers \in Seq(Comments)
      /\ Len(pull.triggers) \in Nat /\ lagged \in BOOLEAN
      /\ DOMAIN pull.triggers = 1..Len(pull.triggers)
      /\ \A i \in DOMAIN pull.triggers : pull.triggers[i].at \in Int
  BY PullTypes DEF AdapterInv, AdapterTypeOK
<1>3. /\ c.at = now /\ c.by = r /\ c.mode = mode
      /\ c \in Comments
  <2>1. c \in Comments
    BY <1>2, Zenon DEF Trigger, Comments
  <2>2. QED
    BY <2>1 DEF Trigger
<1>4. pull' = [pull EXCEPT !.triggers = all]
  BY <1>1
<1> HIDE DEF c
<1>5. /\ all \in Seq(Comments) /\ Len(all) = NewId
      /\ \A i \in DOMAIN pull.triggers : all[i] = pull.triggers[i]
      /\ all[NewId] = c /\ DOMAIN all = 1..NewId
  BY <1>2, <1>3 DEF NewId
<1>6. \A i \in DOMAIN all : i \in DOMAIN pull.triggers \/ i = NewId
  BY <1>2, <1>5 DEF NewId
<1>7. Len(pull.triggers) <= NewId
  BY <1>2 DEF NewId
<1>8. /\ pull' \in PullRecords /\ pull'.triggers = all /\ pull'.statuses = pull.statuses
      /\ pull'.findings = pull.findings /\ pull'.arrival = pull.arrival
      /\ pull'.opened = pull.opened
  <2> HIDE DEF all
  <2>1. QED
    BY <1>2, <1>4, <1>5 DEF PullRecords
<1>9. pull'.shared = pull.shared
  BY <1>2, <1>4, Zenon DEF PullRecords
<1>10. stage[r] \in Asking /\ holder = r /\ (mode = "full" => stage[r] = "post-full")
  <2>1. stage[r] \in Asking /\ (mode = "full" => stage[r] = "post-full")
    BY DEF Posting, Asking
  <2>2. QED
    BY <2>1, HolderIs DEF Working
<1>11. TriggersAreAnswered'
  <2>1. SUFFICES ASSUME ~lagged PROVE AllAnswered(pull')
    BY AnsweredIsPrime
  <2>2. AllAnswered(pull)
    BY <2>1, AnsweredIs DEF AdapterInv
  <2>3. Start(pull) \in Int /\ Start(evidence) \in Int /\ Start(pull') = Start(pull)
    <3>1. pull.arrival \in Int /\ pull.opened \in Int
      BY <1>2, PullTypes
    <3>2. evidence.arrival \in Int /\ evidence.opened \in Int
      BY DEF AdapterInv, AdapterTypeOK, EvidenceRecords
    <3>3. Start(pull') = Start(pull)
      BY <1>8 DEF Start
    <3>4. QED
      BY <3>1, <3>2, <3>3, StartOfPull
  <2>4. Extends(pull', pull)
    <3>1. Len(pull.statuses) \in Nat
      BY <1>2, PullTypes
    <3>2. QED
      BY <1>8, <2>3, <3>1 DEF Extends
  <2>5. ASSUME NEW i \in DOMAIN pull.triggers PROVE PairAnswered(pull', pull.triggers[i], c)
    <3> DEFINE first == pull.triggers[i]
    <3>1. SUFFICES ASSUME first.by # NoRun, first.at >= Start(pull')
                   PROVE  \E s \in Between(pull', first, c) :
                            first.mode = "full" /\ c.mode = "full" =>
                                s.kind \in {"rate-limited", "lock-loss"}
      BY DEF PairAnswered
    <3>2. AsksWhenAnswered(r)
      BY DEF AdapterInv
    <3>3. Start(evidence) <= Start(pull)
      BY <1>10, <3>2 DEF AsksWhenAnswered
    <3>4. PICK t \in evidence.triggers : t.at = first.at /\ t.mode = first.mode
      BY <1>10, <2>1, <3>1, <3>2 DEF AsksWhenAnswered
    <3>5. t \in OfCycle(evidence)
      <4>1. first.at \in Int
        BY <1>2
      <4>2. t.at >= Start(evidence)
        <5> HIDE DEF first
        <5>1. QED
          BY <2>3, <3>1, <3>3, <3>4, <4>1
      <4>3. QED
        BY <4>2 DEF OfCycle
    <3>6. PICK k \in DOMAIN pull.statuses :
            /\ t.at < pull.statuses[k].at
            /\ stage[r] = "post-full" /\ t.mode = "full" =>
                  pull.statuses[k].kind \in {"rate-limited", "lock-loss"}
      BY <1>10, <3>2, <3>5 DEF AsksWhenAnswered
    <3>7. pull.statuses[k].at <= now
      BY DEF AdapterInv, RecordsInOrder
    <3>8. pull.statuses[k] \in Range(pull'.statuses)
      BY <1>8 DEF Range
    <3>9. pull.statuses[k] \in Between(pull', first, c)
      BY <1>3, <3>4, <3>6, <3>7, <3>8 DEF Between
    <3>10. QED
      BY <1>3, <1>10, <3>4, <3>6, <3>9
  <2>6. QED
    BY <1>2, <1>3, <1>8, <2>2, <2>4, <2>5, AnsweredStays
<1>12. PullKeeps(r)
  <2>1. \A i \in DOMAIN pull'.triggers :
          \/ i \in DOMAIN pull.triggers /\ pull'.triggers[i] = pull.triggers[i]
          \/ pull'.triggers[i].at = now /\ pull'.triggers[i].by = r
    BY <1>3, <1>5, <1>6, <1>8
  <2>2. QED
    BY <1>2, <1>5, <1>7, <1>8, <1>9, <1>11, <2>1 DEF PullKeeps
<1>13. QED
  BY <1>5, <1>6, <1>8, <1>10, <1>12

LEMMA PostFailsKeeps ==
  ASSUME AdapterInv, NEW r \in Run, PostFails(r)
  PROVE  AdapterInv'
BY CreatesKeeps, EndsKeeps DEF PostFails

LEMMA PostTriggerKeeps ==
  ASSUME AdapterInv, NEW r \in Run, PostTrigger(r)
  PROVE  AdapterInv'
<1>1. PICK mode \in Modes :
        LET d == Decide(WithNew(mode), now)
        IN  /\ stage[r] = Posting(mode)
            /\ Creates(r, mode)
            /\ \/ Stops(r, d) /\ Ends(r)
               \/ /\ Proceed(r, "read")
                  /\ posted' = posted \cup {NewId}
                  /\ Forget(r)
                  /\ UNCHANGED holder
            /\ UNCHANGED <<now, reviewing, misled, events, lagged>>
  BY DEF PostTrigger
<1>2. /\ holder = r
      /\ PullKeeps(r)
      /\ Len(pull'.triggers) = NewId
      /\ \A i \in DOMAIN pull'.triggers : i \in DOMAIN pull.triggers \/ i = NewId
      /\ \A i \in DOMAIN pull.triggers : pull'.triggers[i] = pull.triggers[i]
  BY <1>1, CreatesKeeps
<1>3. CASE Ends(r)
  BY <1>2, <1>3, EndsKeeps
<1>4. CASE /\ Proceed(r, "read") /\ posted' = posted \cup {NewId} /\ Forget(r)
           /\ UNCHANGED holder
  <2>1. posted \subseteq 1..Len(pull.triggers) /\ Len(pull.triggers) \in Nat
    BY PullTypes DEF AdapterInv, AdapterTypeOK
  <2>2. posted' \subseteq 1..Len(pull'.triggers)
    <3>1. NewId = Len(pull.triggers) + 1
      BY DEF NewId
    <3>2. posted \cup {NewId} \subseteq 1..NewId
      <4>1. \A x \in 1..Len(pull.triggers) : x \in 1..NewId
        BY <2>1, <3>1
      <4>2. NewId \in 1..NewId
        BY <2>1, <3>1
      <4>3. QED
        BY <2>1, <4>1, <4>2
    <3>3. QED
      BY <1>2, <1>4, <3>2
  <2>3. stage[r] # "done"
    BY <1>1 DEF Posting
  <2>4. \A i \in DOMAIN pull.triggers : pull.triggers[i].by = r => i \in posted
    BY <2>3 DEF AdapterInv, OwnAreKnown
  <2>5. \A i \in DOMAIN pull'.triggers : pull'.triggers[i].by = r => i \in posted'
    BY <1>2, <1>4, <2>4
  <2>6. QED
    BY <1>2, <1>4, <2>2, <2>5, SleepKeeps
<1>5. QED
  BY <1>1, <1>3, <1>4
-----------------------------------------------------------------------------
(* The invariant, and what it says of the decisions.                         *)

LEMMA FirstPullsAre ==
  ASSUME NEW p \in FirstPulls
  PROVE  /\ p \in PullRecords /\ p.triggers = <<>>
         /\ p.arrival <= 1 /\ p.opened <= 1 /\ p.findings <= 1
         /\ \/ p.statuses = <<>>
            \/ p.statuses = <<Status(0, "in-progress", NoWait), Status(1, "completed", NoWait)>>
<1> DEFINE two == <<Status(0, "in-progress", NoWait), Status(1, "completed", NoWait)>>
           arrived == [NoPull EXCEPT !.arrival = 1, !.opened = 1]
           ended == [NoPull EXCEPT !.statuses = two]
           First(q) == /\ q \in PullRecords /\ q.triggers = <<>>
                       /\ q.arrival <= 1 /\ q.opened <= 1 /\ q.findings <= 1
                       /\ q.statuses \in {<<>>, two}
<1>1. two \in Seq(StatusRecords)
  <2>1. NoWait \in Waits
    BY DEF NoWait, Waits, Never
  <2>2. \A n \in Int, kind \in Kinds : Status(n, kind, NoWait) \in StatusRecords
    BY <2>1 DEF Status, StatusRecords
  <2>3. Status(0, "in-progress", NoWait) \in StatusRecords
        /\ Status(1, "completed", NoWait) \in StatusRecords
    BY <2>2, KindsAre
  <2> HIDE DEF Status
  <2>4. QED
    BY <2>3
<1> HIDE DEF two
<1>2. First(NoPull)
  <2>1. /\ NoReading \in EvidenceRecords /\ NoReading.statuses = <<>>
        /\ NoReading.arrival = 0 /\ NoReading.opened = 0 /\ NoReading.findings = -1
    BY NoReadingOK DEF NoReading, Never
  <2>2. NoPull = [NoReading EXCEPT !.triggers = <<>>]
    BY DEF NoPull
  <2> HIDE DEF NoReading
  <2>3. <<>> \in Seq(Comments)
    OBVIOUS
  <2>4. NoPull \in PullRecords
    BY <2>1, <2>2, <2>3, Zenon DEF EvidenceRecords, PullRecords
  <2>5. /\ NoPull.triggers = <<>> /\ NoPull.statuses = <<>>
        /\ NoPull.arrival = 0 /\ NoPull.opened = 0 /\ NoPull.findings = -1
    BY <2>1, <2>2 DEF EvidenceRecords
  <2>6. QED
    BY <2>4, <2>5
<1> HIDE DEF NoPull
<1>3. First(arrived)
  <2>1. NoPull \in PullRecords /\ 1 \in Int
    BY <1>2
  <2>2. arrived \in PullRecords
    BY <2>1, Zenon DEF PullRecords
  <2>3. /\ arrived.triggers = NoPull.triggers /\ arrived.statuses = NoPull.statuses
        /\ arrived.arrival = 1 /\ arrived.opened = 1 /\ arrived.findings = NoPull.findings
    BY <2>1 DEF PullRecords
  <2>4. QED
    BY <1>2, <2>2, <2>3
<1>4. First(ended)
  <2>1. NoPull \in PullRecords
    BY <1>2
  <2>2. ended \in PullRecords
    BY <1>1, <2>1 DEF PullRecords
  <2>3. /\ ended.triggers = NoPull.triggers /\ ended.statuses = two
        /\ ended.arrival = NoPull.arrival /\ ended.opened = NoPull.opened
        /\ ended.findings = NoPull.findings
    BY <2>1 DEF PullRecords
  <2>4. QED
    BY <1>2, <2>2, <2>3
<1>5. FirstPulls = {arrived, [arrived EXCEPT !.draft = TRUE, !.earlier = "running"],
                    ended, [ended EXCEPT !.findings = 1], [ended EXCEPT !.clean = TRUE]}
  BY DEF FirstPulls, two
<1> HIDE DEF arrived, ended
<1>6. First([arrived EXCEPT !.draft = TRUE, !.earlier = "running"])
  <2> DEFINE q == [arrived EXCEPT !.draft = TRUE, !.earlier = "running"]
  <2>1. arrived \in PullRecords /\ TRUE \in BOOLEAN /\ "running" \in {"none", "running", "ended"}
    BY <1>3
  <2>2. q \in PullRecords
    BY <2>1, Zenon DEF PullRecords
  <2>3. /\ q.triggers = arrived.triggers /\ q.statuses = arrived.statuses
        /\ q.arrival = arrived.arrival /\ q.opened = arrived.opened
        /\ q.findings = arrived.findings
    BY <2>1 DEF PullRecords
  <2> HIDE DEF q
  <2>4. QED
    BY <1>3, <2>2, <2>3 DEF q
<1>7. First([ended EXCEPT !.findings = 1])
  <2> DEFINE q == [ended EXCEPT !.findings = 1]
  <2>1. ended \in PullRecords
    BY <1>4
  <2>2. q \in PullRecords
    BY <2>1 DEF PullRecords
  <2>3. /\ q.triggers = ended.triggers /\ q.statuses = ended.statuses
        /\ q.arrival = ended.arrival /\ q.opened = ended.opened /\ q.findings = 1
    BY <2>1 DEF PullRecords
  <2> HIDE DEF q
  <2>4. QED
    BY <1>4, <2>2, <2>3 DEF q
<1>8. First([ended EXCEPT !.clean = TRUE])
  <2> DEFINE q == [ended EXCEPT !.clean = TRUE]
  <2>1. ended \in PullRecords /\ TRUE \in BOOLEAN
    BY <1>4
  <2>2. q \in PullRecords
    BY <2>1, Zenon DEF PullRecords
  <2>3. /\ q.triggers = ended.triggers /\ q.statuses = ended.statuses
        /\ q.arrival = ended.arrival /\ q.opened = ended.opened /\ q.findings = ended.findings
    BY <2>1 DEF PullRecords
  <2> HIDE DEF q
  <2>4. QED
    BY <1>4, <2>2, <2>3 DEF q
<1>9. First(p)
  <2> HIDE DEF First
  <2>1. QED
    BY <1>3, <1>4, <1>5, <1>6, <1>7, <1>8
<1>10. QED
  BY <1>9 DEF two

LEMMA AdapterStarts == ReviewInit => AdapterInv
<1> SUFFICES ASSUME ReviewInit PROVE AdapterInv
  OBVIOUS
<1> DEFINE two == <<Status(0, "in-progress", NoWait), Status(1, "completed", NoWait)>>
<1>1. /\ now = 1 /\ reviewing = "no" /\ misled = FALSE /\ holder = NoRun
      /\ stage = [r \in Run |-> "lock"] /\ evidence = NoReading /\ posted = {}
      /\ unseen = FALSE /\ lagged = FALSE
  BY DEF ReviewInit
<1>2. /\ pull \in PullRecords /\ pull.triggers = <<>>
      /\ pull.arrival <= 1 /\ pull.opened <= 1 /\ pull.findings <= 1
      /\ pull.statuses = <<>> \/ pull.statuses = two
  BY FirstPullsAre DEF ReviewInit
<1>3. Len(pull.triggers) = 0 /\ DOMAIN pull.triggers = {}
  BY <1>2
<1>4. AdapterTypeOK
  BY <1>1, <1>2, <1>3, NoReadingOK DEF AdapterTypeOK, Stages
<1>5. HolderWorks
  BY <1>1, RunAssumption DEF HolderWorks, Asking
<1>6. RecordsInOrder
  <2>1. two[1].at = 0 /\ two[2].at = 1
    BY DEF Status
  <2>2. DOMAIN two = {1, 2}
    OBVIOUS
  <2> HIDE DEF two
  <2>3. QED
    BY <1>1, <1>2, <1>3, <2>1, <2>2 DEF RecordsInOrder
<1>7. SilenceShows
  BY <1>1 DEF SilenceShows, Silent
<1>8. ASSUME NEW r \in Run
      PROVE  ReadIsPrefix(r) /\ OwnAreKnown(r) /\ AsksWhenAnswered(r) /\ SilenceWasRead(r)
  BY <1>1, <1>3 DEF ReadIsPrefix, OwnAreKnown, AsksWhenAnswered, SilenceWasRead, Asking
<1>9. TriggersAreAnswered
  BY <1>3 DEF TriggersAreAnswered
<1>10. QED
  BY <1>4, <1>5, <1>6, <1>7, <1>8, <1>9 DEF AdapterInv

LEMMA AdapterRests == AdapterInv /\ UNCHANGED reviewVars => AdapterInv'
<1> SUFFICES ASSUME AdapterInv, UNCHANGED reviewVars PROVE AdapterInv'
  OBVIOUS
<1>1. /\ now' = now /\ pull' = pull /\ reviewing' = reviewing /\ misled' = misled
      /\ stage' = stage /\ holder' = holder /\ evidence' = evidence /\ posted' = posted
      /\ lagged' = lagged /\ unseen' = unseen
  BY DEF reviewVars, outside, runVars
<1>2. AdapterTypeOK' /\ HolderWorks' /\ RecordsInOrder' /\ SilenceShows'
  BY <1>1 DEF AdapterInv, AdapterTypeOK, HolderWorks, RecordsInOrder, SilenceShows
<1>3. ASSUME NEW r \in Run
      PROVE  ReadIsPrefix(r)' /\ OwnAreKnown(r)' /\ AsksWhenAnswered(r)' /\ SilenceWasRead(r)'
  BY <1>1 DEF AdapterInv, ReadIsPrefix, OwnAreKnown, AsksWhenAnswered, SilenceWasRead
<1>4. TriggersAreAnswered'
  BY <1>1 DEF AdapterInv, TriggersAreAnswered
<1>5. QED
  BY <1>2, <1>3, <1>4 DEF AdapterInv

\* What holds of the runs in every state: see AdapterInv.
THEOREM AdapterKeepsInv == ReviewSpec => []AdapterInv
<1>1. ReviewInit => AdapterInv
  BY AdapterStarts
<1>2. AdapterInv /\ [ReviewNext]_reviewVars => AdapterInv'
  <2> SUFFICES ASSUME AdapterInv, [ReviewNext]_reviewVars PROVE AdapterInv'
    OBVIOUS
  <2>1. CASE Tick
    BY <2>1, TickKeeps
  <2>2. CASE GitHub
    BY <2>2, BeginKeeps, StateFindingsKeeps, CompleteKeeps, PauseKeeps, LoseLockKeeps,
       RefuseKeeps, SkipKeeps, EndEarlierReviewKeeps, LeaveHeadKeeps, ReturnHeadKeeps,
       MarkReadyKeeps, CloseOrShareKeeps, PersonAsksKeeps, BecomesListedKeeps
    DEF GitHub
  <2>3. ASSUME NEW r \in Run, RunStep(r) PROVE AdapterInv'
    BY <2>3, TakeLockKeeps, ReadStatusesKeeps, ReadAndJudgeKeeps, ReadingFailsKeeps,
       PostTriggerKeeps, PostFailsKeeps, FailKeeps
    DEF RunStep
  <2>4. CASE UNCHANGED reviewVars
    BY <2>4, AdapterRests
  <2>5. QED
    BY <2>1, <2>2, <2>3, <2>4 DEF ReviewNext
<1>3. QED
  BY <1>1, <1>2, PTL DEF ReviewSpec

\* Triggers of the runs in one cycle are answered in between: no run, nor two
\* of them, asks twice for what CodeRabbit may still be about to do.
THEOREM AdapterAsksOnce == ReviewSpec => []TriggersAreAnswered
<1>1. AdapterInv => TriggersAreAnswered
  BY DEF AdapterInv
<1>2. QED
  BY <1>1, AdapterKeepsInv, PTL

LEMMA JudgedIs ==
  ASSUME AdapterInv, NEW r \in Run, NEW e \in Judged(r)
  PROVE  EvidenceOK(e)
BY GatheredIs, WithNewIs DEF Judged

\* Every state that waits on CodeRabbit ends by a bound of its own after the
\* last thing known.
THEOREM AdapterWaitsAreBounded == ReviewSpec => []EveryWaitIsBounded
<1>1. AdapterInv => EveryWaitIsBounded
  <2> DEFINE longest == Max({Automatic, TriggerAnswer, InProgress, UnknownWait})
  <2> SUFFICES ASSUME AdapterInv, NEW r \in Run, NEW e \in Judged(r)
               PROVE  Decide(e, LastKnown(e) + longest).state \in Final \cup Permits
    BY DEF EveryWaitIsBounded
  <2>1. EvidenceOK(e)
    BY JudgedIs
  <2>2. longest \in Int /\ \A b \in {Automatic, TriggerAnswer, InProgress, UnknownWait} : longest >= b
    BY LongestIs
  <2>3. LastKnown(e) \in Int
    BY <2>1, LastKnownIs
  <2>4. {Automatic, TriggerAnswer, InProgress, UnknownWait} \subseteq Int
    BY BoundsAre
  <2> DEFINE t == LastKnown(e) + longest
  <2>5. t \in Int /\ \A b \in {Automatic, TriggerAnswer, InProgress, UnknownWait} :
                        t >= LastKnown(e) + b
    <3> HIDE DEF longest
    <3>1. QED
      BY <2>2, <2>3, <2>4
  <2> HIDE DEF t
  <2>6. Settled(Decide(e, t))
    BY <2>1, <2>5, DecisionSettles
  <2>7. QED
    BY <2>6 DEF Settled, t
<1>2. QED
  BY <1>1, AdapterKeepsInv, PTL
-----------------------------------------------------------------------------
(* A run that sleeps wakes no later than its state can change.               *)

LEMMA MinIs ==
  ASSUME NEW S, S \subseteq Int, IsFiniteSet(S), S # {}
  PROVE  Min(S) \in S /\ \A x \in S : Min(S) <= x
<1> DEFINE R == {p \in Int \X Int : p[1] > p[2]}
<1>1. \A x, y \in Int : <<x, y>> \in R <=> x > y
  OBVIOUS
<1>2. PICK m \in S : \A x \in S \ {m} : <<x, m>> \in R
  <2>1. /\ \A x, y, z \in S : <<x, y>> \in R /\ <<y, z>> \in R => <<x, z>> \in R
        /\ \A x, y \in S : x = y \/ <<x, y>> \in R \/ <<y, x>> \in R
    OBVIOUS
  <2> HIDE DEF R
  <2>2. QED
    BY <2>1, GreatestExists
<1> HIDE DEF R
<1>3. ASSUME NEW x \in S PROVE m <= x
  <2>1. CASE x = m
    BY <2>1
  <2>2. CASE x # m
    <3>1. <<x, m>> \in R
      BY <1>2, <2>2
    <3>2. x > m
      BY <1>1, <3>1
    <3>3. QED
      BY <3>2
  <2>3. QED
    BY <2>1, <2>2
<1>4. QED
  BY <1>3 DEF Min

\* The time at which a decision can change is a number.
LEMMA GateUntil ==
  ASSUME NEW e, EvidenceOK(e), NEW mode, NEW n \in Int
  PROVE  Gate(e, mode, n).until \in Int
<1>1. CurrentStatus(e).at \in Int /\ CurrentStatus(e).wait.retryAt \in Int /\ UnknownWait \in Int
  BY CurrentStatusType, BoundsAre
<1>2. QED
  BY <1>1 DEF Gate, Bounded, Verdict, Is, Never

LEMMA DecideUntil ==
  ASSUME NEW e, EvidenceOK(e), NEW n \in Int
  PROVE  Decide(e, n).until \in Int
<1>1. \A mode : Gate(e, mode, n).until \in Int
  BY GateUntil
<1>2. \A state : Is(state).until \in Int
  BY DEF Is, Verdict, Never
<1>3. \A x \in Int : AwaitAutomatic(x).until \in Int
  BY DEF AwaitAutomatic, Verdict
<1>4. \A x \in Int, seconds \in Int : \A pending, blocked, mode :
        Bounded(pending, blocked, x, seconds, mode, n).until \in Int
  BY DEF Bounded, Verdict, Is, Never
<1>5. /\ CurrentStatus(e).at \in Int /\ AutomaticUntil(e) \in Int /\ LatestTrigger(e).at \in Int
      /\ Latest({CurrentStatus(e).at, Start(e)}) \in Int
      /\ Automatic \in Int /\ TriggerAnswer \in Int /\ InProgress \in Int
  <2>1. Automatic \in Int /\ TriggerAnswer \in Int /\ InProgress \in Int
    BY BoundsAre
  <2>2. QED
    BY <2>1, CurrentStatusType, AutomaticUntilIs, LatestTriggerType, PendingSince
<1>6. PendingAnswer(e, n).until \in Int /\ TriggeredAnswer(e, n).until \in Int
  BY <1>4, <1>5 DEF PendingAnswer, TriggeredAnswer
<1>7. AfterLockLoss(e, n).until \in Int
  BY <1>1, <1>2 DEF AfterLockLoss
<1>8. AfterCompleted(e, n).until \in Int
  BY <1>1, <1>2, <1>3, <1>5 DEF AfterCompleted
<1>9. ByStatus(e, n).until \in Int
  BY <1>1, <1>2, <1>7, <1>8 DEF ByStatus
<1>10. QED
  BY <1>2, <1>3, <1>5, <1>6, <1>9, DecideIs

\* A run sleeps no longer than its last decision holds.
LEMMA WakeTimeIs ==
  ASSUME AdapterInv, NEW r \in Run, NEW d, d.until \in Int
  PROVE  /\ WakeTime(r, d) \in Int
         /\ d.until # Never => WakeTime(r, d) <= d.until
<1> DEFINE A == {now + Interval, Deadline[r]}
           B == IF d.until = Never THEN {} ELSE {d.until}
<1>1. A \subseteq Int /\ B \subseteq Int /\ A # {}
  BY RunAssumption DEF AdapterInv, AdapterTypeOK
<1>2. IsFiniteSet(A)
  BY PairFinite
<1>3. IsFiniteSet(B)
  BY FS_EmptySet, FS_Singleton
<1>4. IsFiniteSet(A \cup B)
  BY <1>2, <1>3, FS_Union
<1>5. WakeTime(r, d) = Min(A \cup B)
  BY DEF WakeTime
<1>6. d.until # Never => d.until \in A \cup B
  OBVIOUS
<1> HIDE DEF A, B
<1>7. Min(A \cup B) \in A \cup B /\ \A x \in A \cup B : Min(A \cup B) <= x
  BY <1>1, <1>4, MinIs
<1>8. QED
  BY <1>1, <1>5, <1>6, <1>7

\* No run sleeps past a time at which it would decide something else.
THEOREM AdapterWakesInTime == ReviewSpec => []WakesInTime
<1>1. AdapterInv => WakesInTime
  <2> SUFFICES ASSUME AdapterInv, NEW r \in Run, NEW e \in Judged(r),
                      NEW t \in (now + 1)..(WakeTime(r, Decide(e, now)) - 1)
               PROVE  Decide(e, t).state = Decide(e, now).state
    BY DEF WakesInTime
  <2> DEFINE d == Decide(e, now)
  <2>1. EvidenceOK(e) /\ now \in Nat
    BY JudgedIs DEF AdapterInv, AdapterTypeOK
  <2>2. d.until \in Int
    BY <2>1, DecideUntil
  <2> HIDE DEF d
  <2>3. /\ WakeTime(r, d) \in Int
        /\ d.until # Never => WakeTime(r, d) <= d.until
    BY <2>2, WakeTimeIs
  <2>4. t \in Int /\ now < t /\ t < WakeTime(r, d)
    BY <2>1, <2>3 DEF d
  <2>5. Kept(d, now, t)
    BY <2>2, <2>3, <2>4 DEF Kept
  <2>6. QED
    BY <2>1, <2>4, <2>5, DecisionStays DEF d
<1>2. QED
  BY <1>1, AdapterKeepsInv, PTL
-----------------------------------------------------------------------------
(* "Complete": the evidence names a review, and none that began after it.    *)

LEMMA TimesAre ==
  ASSUME NEW seq \in Seq(StatusRecords), NEW ids, ids \subseteq DOMAIN seq
  PROVE  IsFiniteSet({seq[k].at : k \in ids}) /\ {seq[k].at : k \in ids} \subseteq Int
<1> DEFINE T == {seq[k].at : k \in ids}
           f == [k \in ids |-> seq[k].at]
<1>1. DOMAIN seq = 1..Len(seq) /\ Len(seq) \in Nat
  OBVIOUS
<1>2. IsFiniteSet(1..Len(seq))
  BY <1>1, FS_Interval
<1>3. IsFiniteSet(ids)
  BY <1>1, <1>2, FS_Subset
<1>4. f \in Surjection(ids, T)
  BY DEF Surjection
<1>5. IsFiniteSet(T)
  BY <1>3, <1>4, FS_Surjection
<1>6. \A s \in StatusRecords : s.at \in Int
  BY DEF StatusRecords
<1>7. \A k \in ids : seq[k] \in StatusRecords
  OBVIOUS
<1>8. T \subseteq Int
  BY <1>6, <1>7
<1>9. QED
  BY <1>5, <1>8

\* What completes a head comes after every unfinished review.
LEMMA ReviewedSinceIs ==
  ASSUME NEW e, EvidenceOK(e)
  PROVE  /\ ReviewedSince(e) \in Int /\ ReviewedSince(e) >= Never
         /\ \A x \in Unfinished(e) : ReviewedSince(e) >= x
<1> DEFINE A == {e.arrival}
           B == {t.at : t \in Asked(e)}
           C == Unfinished(e)
           I == {k \in DOMAIN e.statuses :
                   /\ e.statuses[k].kind = "in-progress"
                   /\ \A n \in DOMAIN e.statuses : n > k =>
                         e.statuses[n].kind \notin Ending(e) \cup {"in-progress"}}
<1>1. IsFiniteSet(A) /\ A \subseteq Int
  BY FS_Singleton DEF EvidenceOK
<1>2. IsFiniteSet(B) /\ B \subseteq Int
  <2>1. IsFiniteSet(e.triggers) /\ e.triggers \subseteq Entries
    BY DEF EvidenceOK, TriggersOK
  <2>2. IsFiniteSet(Asked(e)) /\ Asked(e) \subseteq Entries
    BY <2>1, FS_Subset DEF Asked
  <2>3. IsFiniteSet(B)
    <3> DEFINE f == [t \in Asked(e) |-> t.at]
    <3>1. f \in Surjection(Asked(e), B)
      BY DEF Surjection
    <3>2. QED
      BY <2>2, <3>1, FS_Surjection
  <2>4. QED
    BY <2>2, <2>3 DEF Entries
<1>3. IsFiniteSet(C) /\ C \subseteq Int
  <2>1. e.statuses \in Seq(StatusRecords) /\ I \subseteq DOMAIN e.statuses
    BY DEF EvidenceOK
  <2>2. C = {e.statuses[k].at : k \in I}
    BY DEF Unfinished
  <2> HIDE DEF C, I
  <2>3. QED
    BY <2>1, <2>2, TimesAre
<1>4. ReviewedSince(e) = Latest(A \cup B \cup C)
  BY DEF ReviewedSince
<1> HIDE DEF A, B, C
<1>5. IsFiniteSet(A \cup B \cup C) /\ A \cup B \cup C \subseteq Int
  <2>1. IsFiniteSet(A \cup B)
    BY <1>1, <1>2, FS_Union
  <2>2. IsFiniteSet((A \cup B) \cup C)
    BY <1>3, <2>1, FS_Union
  <2>3. QED
    BY <1>1, <1>2, <1>3, <2>2
<1>6. QED
  BY <1>4, <1>5, LatestIs DEF C

Completes == Decide(Gathered, now).state \in Completed

\* A head that is called complete was reviewed: CodeRabbit stated findings or
\* marked the head covered, and no silent review of it ran while the run looked.
THEOREM AdapterReportsReviews == ReviewSpec => []CompleteIsReviewed
<1>1. AdapterInv => CompleteIsReviewed
  <2> SUFFICES ASSUME AdapterInv, NEW r \in Run, stage[r] = "read-more", Completes
               PROVE  /\ pull.findings # Never \/ pull.clean
                      /\ ~unseen \/ misled
    BY DEF CompleteIsReviewed, Completes
  <2> DEFINE since == ReviewedSince(Gathered)
             last == Latest(TimesOf(Gathered.statuses, {"completed"}))
  <2>1. /\ EvidenceOK(Gathered) /\ Gathered.statuses = evidence.statuses
        /\ Gathered.findings = pull.findings
        /\ Gathered.clean = pull.clean /\ Gathered.shared = evidence.shared
    BY GatheredIs
  <2>2. \A x \in Unfinished(Gathered) : since >= x
    BY <2>1, ReviewedSinceIs
  <2>3. since \in Int /\ since >= -1
    BY <2>1, ReviewedSinceIs DEF Never
  <2>4. pull.findings > since \/ (pull.clean /\ last > since)
    BY <2>1, CompletedMeans DEF Completes, Reviewed, Passed
  <2>5. pull.findings \in Int
    BY PullTypes DEF AdapterInv, AdapterTypeOK
  <2>6. pull.findings # Never \/ pull.clean
    <3> HIDE DEF since, last
    <3>1. pull.findings > since => pull.findings # Never
      BY <2>5, <2>3 DEF Never
    <3>2. QED
      BY <2>4, <3>1
  <2>7. ASSUME unseen, ~misled PROVE FALSE
    <3>1. ShowsUnfinished(evidence, pull.findings)
      BY <2>7 DEF AdapterInv, SilenceWasRead
    <3>2. PICK k \in DOMAIN evidence.statuses :
            /\ evidence.statuses[k].kind = "in-progress"
            /\ pull.findings <= evidence.statuses[k].at
            /\ \A n \in DOMAIN evidence.statuses : n > k =>
                  evidence.statuses[n].kind \notin Ending(evidence) \cup {"in-progress"}
            /\ \A n \in DOMAIN evidence.statuses :
                  evidence.statuses[n].kind = "completed" =>
                      evidence.statuses[n].at <= evidence.statuses[k].at
      BY <3>1 DEF ShowsUnfinished
    <3>3. Ending(Gathered) = Ending(evidence)
      BY <2>1 DEF Ending
    <3>4. evidence.statuses[k].at \in Unfinished(Gathered)
      BY <2>1, <3>2, <3>3 DEF Unfinished
    <3>5. /\ evidence.statuses \in Seq(StatusRecords)
          /\ evidence.statuses[k].at \in Int
      <4>1. evidence.statuses \in Seq(StatusRecords)
        BY DEF AdapterInv, AdapterTypeOK, EvidenceRecords
      <4>2. evidence.statuses[k] \in StatusRecords
        BY <3>2, <4>1
      <4>3. QED
        BY <4>1, <4>2 DEF StatusRecords
    <3>6. last \in TimesOf(evidence.statuses, {"completed"}) \cup {Never} /\ last \in Int
      <4> DEFINE I == {n \in DOMAIN evidence.statuses : evidence.statuses[n].kind \in {"completed"}}
                 T == {evidence.statuses[n].at : n \in I}
      <4>1. I \subseteq DOMAIN evidence.statuses
        OBVIOUS
      <4>2. T = TimesOf(evidence.statuses, {"completed"})
        BY DEF TimesOf
      <4> HIDE DEF I
      <4>3. IsFiniteSet(T) /\ T \subseteq Int
        BY <3>5, <4>1, TimesAre
      <4> HIDE DEF T
      <4>4. Latest(T) \in T \cup {Never} /\ Latest(T) \in Int
        BY <4>3, LatestIs
      <4>5. last = Latest(T)
        BY <2>1, <4>2
      <4>6. QED
        BY <4>2, <4>4, <4>5
    <3>7. last = Never \/ last <= evidence.statuses[k].at
      BY <3>2, <3>6 DEF TimesOf
    <3> HIDE DEF since, last
    <3>8. since >= evidence.statuses[k].at
      BY <2>2, <3>4
    <3>9. pull.findings <= evidence.statuses[k].at
      BY <3>2
    <3>10. last \in Int
      BY <3>6
    <3>11. ~(pull.findings > since)
      BY <2>5, <2>3, <3>5, <3>8, <3>9
    <3>12. ~(last > since)
      BY <2>3, <3>5, <3>7, <3>8, <3>10 DEF Never
    <3>13. QED
      BY <2>4, <3>11, <3>12
  <2>8. QED
    BY <2>6, <2>7
<1>2. QED
  BY <1>1, AdapterKeepsInv, PTL
=============================================================================
