-------------------------- MODULE SharedCacheProofs --------------------------
(***************************************************************************)
(* Proofs about the shared cache, for every number of processes, threads   *)
(* and clients: the producer lease, the clients of SharedProduction that   *)
(* use it, and the build results that SharedCache keeps under guards which *)
(* are such leases.                                                        *)
(***************************************************************************)
EXTENDS MCSharedProduction, SharedCache, FiniteSetTheorems, TLAPS

USE ResultAssumption, ClientAssumption, BudgetAssumption

-----------------------------------------------------------------------------
(***************************************************************************)
(* The state of one job.                                                   *)
(***************************************************************************)

Both(r) == {r, ArtifactOf[r]}

\* A store that was not published discards what it inserted.
Ending(j) ==
  \/ j.at \in {"giveup", "discard", "discarding"}
  \/ j.at = "account" /\ j.purpose = "discard"

\* A store that has both its objects makes room for its reference.
Referencing(j) ==
  \/ j.at \in {"reference", "write"}
  \/ j.at \in {"account", "room", "evict", "unlink", "settle"}
     /\ j.purpose = "reference"

Making == {"room", "evict", "unlink", "settle"}
Finding == {"object", "verify", "quarantine", "touch"}

MaterializeShape(j) ==
  /\ j.result \in Result
  /\ j.object \in Both(j.result)
  /\ j.at \in Finding \cup Making \cup {"index", "account", "copy",
                                        "invalidate"}
  /\ j.purpose = "touch" /\ j.inserted = {}

StoreShape(j) ==
  /\ j.result \in Result
  /\ j.object \in Both(j.result)
  /\ j.inserted \subseteq Both(j.result)
  /\ j.at \in Finding \cup Making \cup
       {"index", "stage", "publish", "record", "rollback", "account",
        "discard", "discarding", "giveup", "reference", "write"}
  /\ j.purpose # "repair"
  /\ j.at = "index" => j.purpose = "touch"
  /\ j.at \in {"record", "rollback"} => j.purpose = "admit"
  /\ j.at \in Making => j.purpose # "discard"
  /\ j.at = "write" => j.purpose = "reference"
  /\ Referencing(j) => j.object = j.result
  /\ ~ Ending(j) /\ ~ Referencing(j) =>
       j.inserted \subseteq IF j.object = j.result
                            THEN {ArtifactOf[j.result]} ELSE {}

RepairShape(j) ==
  /\ j.result = None /\ j.object = None /\ j.inserted = {}
  /\ j.at \in Making \cup {"repair", "verifying"}
  /\ j.purpose \in {"touch", "repair"}
  /\ j.at \in {"repair", "verifying"} => j.purpose = "touch"
  /\ j.at \in {"room", "evict", "settle"} => j.purpose = "repair"

Shape(j) ==
  CASE j.op = "none" -> j = Idle
    [] j.op = "materialize" -> MaterializeShape(j)
    [] j.op = "store" -> StoreShape(j)
    [] OTHER -> RepairShape(j)

\* The objects a job has guarded, the victim of its batch aside.
Must(j) ==
  CASE j.op = "materialize" -> IF j.at = "object" THEN {} ELSE {j.object}
    [] j.op = "store" ->
         CASE j.at = "giveup" -> j.inserted
           [] Ending(j) /\ j.at # "giveup" -> {j.object} \cup j.inserted
           [] OTHER -> (IF j.at = "object" THEN {} ELSE {j.object})
                       \cup (IF j.object = j.result
                             THEN {ArtifactOf[j.result]} ELSE {})
    [] OTHER -> {}
May(j) == IF j.op = "store" /\ Ending(j) THEN Both(j.result) ELSE Must(j)

\* The objects a store has found or put into the store.
HasObject == Making \cup {"touch", "index", "record", "rollback", "account",
                         "reference", "write"}
Secured(j) ==
  IF j.op # "store" \/ Ending(j) THEN {}
  ELSE (IF j.at \in HasObject THEN {j.object} ELSE {})
       \cup (IF j.object = j.result THEN {ArtifactOf[j.result]} ELSE {})

\* Where a client is while it holds the mutation guard, and where it is
\* while it goes through a batch.
UnderMutation == Making \cup {"index", "account", "record", "discard",
                              "discarding", "write", "verifying"}
InBatch == {"evict", "unlink", "settle", "verifying"}

\* What the locks rest on: each job has guarded what its place in its
\* operation says (Must), and nothing it has no use for (May); the mutation
\* guard is held at exactly the places UnderMutation; and the victim of a batch
\* is guarded for as long as it is being removed.
JobShapes == \A c \in Client : Shape(job[c])
MutationIsHeld ==
  \A c \in Client : mutation = c <=> job[c].at \in UnderMutation
VictimOf(c) == IF job[c].at = "unlink" THEN {batch.victim} ELSE {}
GuardsAreNeeded ==
  \A d \in Object : \A c \in Client :
    guard[d] = c => d \in May(job[c]) \cup VictimOf(c)
GuardsAreHeld ==
  \A c \in Client : \A d \in Must(job[c]) : guard[d] = c
VictimIsGuarded ==
  \A c \in Client : job[c].at = "unlink" =>
    /\ batch.victim \in Object
    /\ guard[batch.victim] = c
    /\ batch.victim \notin Must(job[c])

LockInv == /\ JobShapes /\ MutationIsHeld /\ GuardsAreNeeded
           /\ GuardsAreHeld /\ VictimIsGuarded

-----------------------------------------------------------------------------
Gone(d) == object[d] = "absent" /\ d \notin corrupted
Reaches(f, d) == reference[f] # None /\ d \in Both(reference[f])

\* What a guard keeps in the store: a store that has found or published an
\* object goes on finding it, until it gives up itself; and a materialization
\* that is about to invalidate a reference still misses what it missed.
BadIsCorrupted == \A d \in Object : object[d] = "bad" => d \in corrupted
QuarantinedIsCorrupted ==
  \A c \in Client : job[c].at = "quarantine" => job[c].object \in corrupted
InvalidIsBroken ==
  \A c \in Client : job[c].at = "invalidate" =>
    object[job[c].object] # "good"
SecuredIsThere == \A c \in Client : \A d \in Secured(job[c]) : ~ Gone(d)

ObjectInv == /\ BadIsCorrupted /\ QuarantinedIsCorrupted /\ InvalidIsBroken
             /\ SecuredIsThere

\* Nothing refers to an object that is about to be removed: a discard has
\* dropped the references that reach it, and a batch those of its victim, by
\* edges that, once collected, cover every reference there still is.
ReferencesAreThere ==
  \A f \in Fingerprint : \A d \in Object : Reaches(f, d) => ~ Gone(d)
NobodyReachesRemoved ==
  \A c \in Client : \A f \in Fingerprint :
    /\ job[c].at = "discarding" => ~ Reaches(f, job[c].object)
    /\ job[c].at = "unlink" => ~ Reaches(f, batch.victim)
BatchIsCollected ==
  /\ batch.collected => \E c \in Client : job[c].at \in InBatch
  /\ batch.collected => \A f \in Fingerprint : \A d \in Object :
       Reaches(f, d) => <<f, d>> \in batch.edges

ReferenceInv == /\ ReferencesAreThere /\ NobodyReachesRemoved
                /\ BatchIsCollected

-----------------------------------------------------------------------------
Uncounted == cutShort \cup Admitting
Admitted == Present \ Uncounted

\* What the mutation holder has entered into the ledger and not yet made
\* room for, and what it is about to add.
Entered(c) ==
  IF job[c].at \in Making /\ job[c].purpose = "admit"
  THEN {job[c].object} ELSE {}
Pending(c) == IF job[c].at = "write" THEN Additional(c) ELSE 0
Promised(c) ==
  IF job[c].at = "write" \/ job[c].at = "account"
  THEN Additional(c) ELSE 0

\* The ledger covers what was admitted, and beside it what its holder has
\* entered for an admission, or for a reference it is about to write; and the
\* budget has room for a reference from the moment it was promised.
LedgerCounts ==
  ledger.index # "unknown" =>
    /\ Cardinality(Admitted) + Cardinality(Referring) <= ledger.bytes
    /\ \A c \in Client :
         /\ Cardinality(Admitted \cup Entered(c)) + Cardinality(Referring)
              <= ledger.bytes
         /\ Cardinality(Admitted) + Cardinality(Referring) + Pending(c)
              <= ledger.bytes
BudgetHasRoom ==
  /\ Cardinality(Admitted) + Cardinality(Referring) <= Budget
  /\ \A c \in Client :
       Cardinality(Admitted) + Cardinality(Referring) + Promised(c) <= Budget

CountInv == LedgerCounts /\ BudgetHasRoom
-----------------------------------------------------------------------------
(***************************************************************************)
(* Types.                                                                  *)
(***************************************************************************)

LEMMA CacheTypeInit == CacheInit => StoreTypeOK /\ JobTypeOK
<1> SUFFICES ASSUME CacheInit PROVE StoreTypeOK /\ JobTypeOK
  OBVIOUS
<1>1. Idle \in JobType
  BY DEF Idle, JobType, Op, At, Purpose
<1>2. NoBatch \in BatchType
  BY DEF NoBatch, BatchType
<1>3. JobTypeOK
  BY <1>1, <1>2 DEF CacheInit, JobTypeOK
<1>4. StoreTypeOK
  BY DEF CacheInit, StoreTypeOK
<1> QED
  BY <1>3, <1>4

\* Every job but an idle one has a result and an object, or repairs.
LEMMA JobObject ==
  ASSUME JobTypeOK, JobShapes, NEW c \in Client
  PROVE  /\ job[c] \in JobType
         /\ job[c].op \in {"store", "materialize"} =>
              /\ job[c].result \in Result /\ job[c].object \in Object
              /\ ArtifactOf[job[c].result] \in Object
              /\ ArtifactOf[job[c].result] # job[c].result
              /\ FingerprintOf[job[c].result] \in Fingerprint
              /\ job[c].object \in Both(job[c].result)
         /\ job[c].op = "none" => job[c] = Idle
         /\ job[c].op \in Op
<1>1. job[c] \in JobType /\ job[c].op \in Op
  BY DEF JobTypeOK, JobType
<1>2. Shape(job[c])
  BY DEF JobShapes
<1>3. job[c].op = "none" => job[c] = Idle
  BY <1>2 DEF Shape
<1>4. job[c].op \in {"store", "materialize"} =>
        job[c].result \in Result /\ job[c].object \in Both(job[c].result)
  BY <1>2 DEF Shape, StoreShape, MaterializeShape
<1> QED
  BY <1>1, <1>3, <1>4 DEF Object, Both

\* Only a store admits, references and discards.
LEMMA StorePurpose ==
  ASSUME JobTypeOK, JobShapes, NEW c \in Client,
         job[c].purpose \in {"admit", "reference", "discard"}
  PROVE  job[c].op = "store"
<1>1. Shape(job[c]) /\ job[c].op \in Op
  BY JobObject DEF JobShapes
<1>2. Idle.purpose = "touch"
  BY DEF Idle
<1> QED
  BY <1>1, <1>2 DEF Shape, MaterializeShape, RepairShape, Op

LEMMA AdvanceType == ASSUME NEW j \in JobType PROVE Advance(j) \in JobType
  BY DEF Advance, JobType, At, Object

LEMMA IdleType == Idle \in JobType
  BY DEF Idle, JobType, Op, At, Purpose

LEMMA RoomFoundType ==
  ASSUME JobTypeOK, JobShapes, NEW c \in Client, NEW found \in BOOLEAN
  PROVE  RoomFound(c, found) \in JobType
<1>1. job[c] \in JobType
  BY JobObject
<1>2. CASE job[c].purpose = "admit"
  <2>1. job[c].object \in Object
    BY <1>2, JobObject, StorePurpose
  <2>2. [job[c] EXCEPT !.inserted = @ \cup {job[c].object}] \in JobType
    BY <1>1, <2>1 DEF JobType
  <2>3. [job[c] EXCEPT !.at = "discard"] \in JobType
    BY <1>1 DEF JobType, At
  <2> QED
    BY <1>2, <2>2, <2>3, AdvanceType DEF RoomFound
<1>3. CASE job[c].purpose # "admit"
  BY <1>1, <1>3, IdleType, AdvanceType DEF RoomFound, JobType, At
<1> QED
  BY <1>2, <1>3

\* The job of a client changes, and nobody else's.
Becoming(c, k) == job' = [job EXCEPT ![c] = k]

LEMMA BecomingType ==
  ASSUME JobTypeOK, NEW c \in Client, NEW k \in JobType, Becoming(c, k)
  PROVE  /\ job' \in [Client -> JobType]
         /\ job'[c] = k
         /\ \A e \in Client \ {c} : job'[e] = job[e]
  BY DEF JobTypeOK, Becoming

LEMMA TurnsType ==
  ASSUME JobTypeOK, NEW c \in Client, NEW there \in At, Turns(c, there)
  PROVE  /\ Becoming(c, [job[c] EXCEPT !.at = there])
         /\ [job[c] EXCEPT !.at = there] \in JobType
  BY DEF JobTypeOK, JobType, Becoming, Turns

LEMMA FreeGuardsType ==
  ASSUME JobTypeOK, NEW c \in Client, FreeGuards(c)
  PROVE  guard' \in [Object -> Client \cup {NoClient}]
  BY DEF JobTypeOK, FreeGuards

-----------------------------------------------------------------------------
(***************************************************************************)
(* What a step of one client does to the locks.                            *)
(***************************************************************************)

JobInv == JobTypeOK /\ LockInv

MutationMoves(c) ==
  /\ mutation' = c <=> job'[c].at \in UnderMutation
  /\ mutation' = mutation \/ {mutation, mutation'} \subseteq {c, NoClient}

GuardsMove(c) ==
  /\ guard' \in [Object -> Client \cup {NoClient}]
  /\ \A d \in Object :
       /\ guard'[d] = guard[d] \/ {guard[d], guard'[d]} \subseteq {c, NoClient}
       /\ guard'[d] = c => d \in May(job'[c]) \cup VictimOf(c)'
  /\ \A d \in Must(job'[c]) : guard'[d] = c

BatchMoves(c) ==
  /\ batch' \in BatchType
  /\ batch' = batch \/ mutation = c \/ mutation' = c
  /\ job'[c].at = "unlink" =>
       /\ batch'.victim \in Object
       /\ guard'[batch'.victim] = c
       /\ batch'.victim \notin Must(job'[c])

Moves(c) ==
  /\ Becoming(c, job'[c]) /\ job'[c] \in JobType /\ Shape(job'[c])
  /\ MutationMoves(c) /\ GuardsMove(c) /\ BatchMoves(c)

LEMMA MustObjects ==
  ASSUME JobInv, NEW c \in Client PROVE Must(job[c]) \subseteq Object
<1>1. /\ job[c] \in JobType
      /\ job[c].op \in {"store", "materialize"} =>
           {job[c].object, ArtifactOf[job[c].result]} \subseteq Object
  BY JobObject DEF JobInv, LockInv
<1> QED
  BY <1>1 DEF Must, JobType

LEMMA MovesKeepsLocks ==
  ASSUME JobInv, NEW c \in Client, Moves(c) PROVE JobInv'
<1> USE DEF JobInv, LockInv
<1>1. /\ job' \in [Client -> JobType]
      /\ \A e \in Client \ {c} : job'[e] = job[e]
  BY BecomingType DEF Moves
<1>2. mutation' \in Client \cup {NoClient}
  BY DEF Moves, MutationMoves, JobTypeOK
<1>3. JobTypeOK'
  BY <1>1, <1>2 DEF JobTypeOK, JobType, Moves, GuardsMove, BatchMoves
<1>4. JobShapes'
  BY <1>1 DEF JobShapes, Moves
<1>5. MutationIsHeld'
  <2> SUFFICES ASSUME NEW e \in Client
               PROVE  mutation' = e <=> job'[e].at \in UnderMutation
    BY DEF MutationIsHeld
  <2>1. CASE e = c
    BY <2>1 DEF Moves, MutationMoves
  <2>2. CASE e # c
    <3>1. mutation' = e <=> mutation = e
      BY <2>2 DEF Moves, MutationMoves
    <3> QED
      BY <3>1, <2>2, <1>1 DEF MutationIsHeld
  <2> QED
    BY <2>1, <2>2
<1>6. \A e \in Client \ {c} : job[e].at = "unlink" => batch' = batch
  <2> SUFFICES ASSUME NEW e \in Client \ {c}, job[e].at = "unlink",
                      batch' # batch
               PROVE  FALSE
    OBVIOUS
  <2>1. mutation = e
    BY DEF MutationIsHeld, UnderMutation, Making
  <2>2. mutation' = e
    BY <2>1 DEF Moves, MutationMoves
  <2> QED
    BY <2>1, <2>2 DEF Moves, BatchMoves
<1>7. \A e \in Client \ {c} : \A d \in Object :
        guard'[d] = e <=> guard[d] = e
  BY DEF Moves, GuardsMove
<1>8. GuardsAreNeeded'
  <2> SUFFICES ASSUME NEW d \in Object, NEW e \in Client, guard'[d] = e
               PROVE  d \in May(job'[e]) \cup VictimOf(e)'
    BY DEF GuardsAreNeeded
  <2>1. CASE e = c
    BY <2>1 DEF Moves, GuardsMove
  <2>2. CASE e # c
    BY <2>2, <1>1, <1>6, <1>7 DEF GuardsAreNeeded, VictimOf
  <2> QED
    BY <2>1, <2>2
<1>9. GuardsAreHeld'
  <2> SUFFICES ASSUME NEW e \in Client, NEW d \in Must(job'[e])
               PROVE  guard'[d] = e
    BY DEF GuardsAreHeld
  <2>1. CASE e = c
    BY <2>1 DEF Moves, GuardsMove
  <2>2. CASE e # c
    <3>1. guard[d] = e
      BY <2>2, <1>1 DEF GuardsAreHeld
    <3>2. d \in Object
      BY <2>2, <1>1, MustObjects
    <3> QED
      BY <3>1, <3>2, <2>2, <1>7
  <2> QED
    BY <2>1, <2>2
<1>10. VictimIsGuarded'
  <2> SUFFICES ASSUME NEW e \in Client, job'[e].at = "unlink"
               PROVE  /\ batch'.victim \in Object
                      /\ guard'[batch'.victim] = e
                      /\ batch'.victim \notin Must(job'[e])
    BY DEF VictimIsGuarded
  <2>1. CASE e = c
    BY <2>1 DEF Moves, BatchMoves
  <2>2. CASE e # c
    BY <2>2, <1>1, <1>6, <1>7 DEF VictimIsGuarded
  <2> QED
    BY <2>1, <2>2
<1> QED
  BY <1>3, <1>4, <1>5, <1>8, <1>9, <1>10

LEMMA Mine ==
  ASSUME JobInv, NEW c \in Client
  PROVE  /\ job[c] \in JobType /\ Shape(job[c])
         /\ mutation = c <=> job[c].at \in UnderMutation
         /\ guard \in [Object -> Client \cup {NoClient}]
         /\ \A d \in Object : guard[d] = c => d \in May(job[c]) \cup VictimOf(c)
         /\ \A d \in Must(job[c]) : guard[d] = c
         /\ NoClient # c
  BY JobObject DEF JobInv, LockInv, JobTypeOK, JobShapes, MutationIsHeld,
     GuardsAreNeeded, GuardsAreHeld, VictimIsGuarded

LEMMA BeginMoves ==
  ASSUME StoreTypeOK, JobInv, NEW c \in Client, Begin(c) PROVE Moves(c)
<1> USE DEF JobInv, LockInv
<1>0. /\ mutation' = mutation /\ guard' = guard /\ batch' = batch
      /\ job[c] = Idle
  BY Zenon DEF Begin, Store, Materialize, RepairSharedCache, Begins, locks
<1>1. /\ mutation # c
      /\ \A d \in Object : guard[d] # c
  BY <1>0, Mine DEF Idle, UnderMutation, Making, May, Must, VictimOf
<1>2. ASSUME NEW k \in JobType, Becoming(c, k), Shape(k), Must(k) = {},
             k.at \notin UnderMutation
      PROVE  Moves(c)
  BY <1>0, <1>1, <1>2, BecomingType DEF Moves, MutationMoves, GuardsMove,
     BatchMoves, JobTypeOK, UnderMutation, Making
<1>3. CASE \E r \in Result : Store(c, r)
  <2>1. PICK r \in Result : Store(c, r)
    BY <1>3
  <2> DEFINE k == [Idle EXCEPT !.op = "store", !.result = r,
                               !.object = ArtifactOf[r], !.at = "object"]
  <2>2. Becoming(c, k)
    BY <2>1 DEF Store, Becoming
  <2>3. k \in JobType
    BY DEF Idle, JobType, Op, At, Purpose, Object
  <2>4. k.object # k.result
    BY DEF Idle
  <2>5. Shape(k) /\ Must(k) = {} /\ k.at \notin UnderMutation
    BY <2>4 DEF Idle, Shape, StoreShape, Both, Finding, Making, Ending,
       Referencing, Must, UnderMutation
  <2> QED
    BY <2>2, <2>3, <2>5, <1>2
<1>4. CASE \E f \in Fingerprint : Materialize(c, f)
  <2>1. PICK f \in Fingerprint : Materialize(c, f)
    BY <1>4
  <2> DEFINE k == [Idle EXCEPT !.op = "materialize", !.result = reference[f],
                         !.object = reference[f], !.at = "object"]
  <2>2. Becoming(c, k) /\ reference[f] \in Result
    BY <2>1 DEF Materialize, Becoming, StoreTypeOK
  <2>3. k \in JobType
    BY <2>2 DEF Idle, JobType, Op, At, Purpose, Object
  <2>4. Shape(k) /\ Must(k) = {} /\ k.at \notin UnderMutation
    BY <2>2 DEF Idle, Shape, MaterializeShape, Both, Finding, Making,
       Must, UnderMutation
  <2> QED
    BY <2>2, <2>3, <2>4, <1>2
<1>5. CASE RepairSharedCache(c)
  <2> DEFINE k == [Idle EXCEPT !.op = "repair", !.at = "repair"]
  <2>2. Becoming(c, k)
    BY <1>5 DEF RepairSharedCache, Becoming
  <2>3. k \in JobType
    BY DEF Idle, JobType, Op, At, Purpose
  <2>4. Shape(k) /\ Must(k) = {} /\ k.at \notin UnderMutation
    BY DEF Idle, Shape, RepairShape, Making, Must, UnderMutation
  <2> QED
    BY <2>2, <2>3, <2>4, <1>2
<1> QED
  BY <1>3, <1>4, <1>5 DEF Begin

\* A step that changes no guard.
LEMMA QuietMoves ==
  ASSUME JobInv, NEW c \in Client, NEW k \in JobType, Becoming(c, k),
         Shape(k), guard' = guard, batch' \in BatchType,
         batch' = batch \/ mutation = c \/ mutation' = c,
         job[c].at # "unlink", k.at # "unlink",
         May(job[c]) \subseteq May(k), Must(k) \subseteq Must(job[c]),
         mutation' = c <=> k.at \in UnderMutation,
         mutation' = mutation \/ {mutation, mutation'} \subseteq {c, NoClient}
  PROVE  Moves(c)
<1>1. JobTypeOK /\ job'[c] = k
  BY BecomingType DEF JobInv
<1>2. MutationMoves(c)
  BY <1>1 DEF MutationMoves
<1>3. GuardsMove(c)
  BY <1>1, Mine DEF GuardsMove, VictimOf
<1>4. BatchMoves(c)
  BY <1>1 DEF BatchMoves, JobTypeOK
<1> QED
  BY <1>1, <1>2, <1>3, <1>4 DEF Moves

\* A step that leaves the client with the same objects.
LEMMA TurnMoves ==
  ASSUME JobInv, NEW c \in Client, NEW k \in JobType, Becoming(c, k),
         Shape(k), k.op = job[c].op, k.result = job[c].result,
         k.object = job[c].object, k.inserted = job[c].inserted,
         job[c].at \notin {"object", "unlink"}, ~ Ending(job[c]),
         k.at \notin {"object", "unlink"}, ~ Ending(k),
         guard' = guard, batch' \in BatchType,
         batch' = batch \/ mutation = c \/ mutation' = c,
         mutation' = c <=> k.at \in UnderMutation,
         mutation' = mutation \/ {mutation, mutation'} \subseteq {c, NoClient}
  PROVE  Moves(c)
<1>1. Must(k) = Must(job[c])
  BY DEF Must, Ending
<1>2. May(k) = May(job[c])
  BY <1>1 DEF May
<1> QED
  BY <1>1, <1>2, QuietMoves

\* A step that gives a guard back that the client has, and no other.
LEMMA ReleasingMoves ==
  ASSUME JobInv, NEW c \in Client, NEW k \in JobType, Becoming(c, k),
         NEW d \in Object,
         Shape(k), guard' = [guard EXCEPT ![d] = NoClient], batch' = batch,
         d \in Must(job[c]),
         job[c].at # "unlink", k.at # "unlink",
         May(job[c]) \subseteq May(k) \cup {d},
         Must(k) \subseteq Must(job[c]) \ {d},
         mutation' = c <=> k.at \in UnderMutation,
         mutation' = mutation \/ {mutation, mutation'} \subseteq {c, NoClient}
  PROVE  Moves(c)
<1>1. JobTypeOK /\ job'[c] = k
  BY BecomingType DEF JobInv
<1>2. MutationMoves(c)
  BY <1>1 DEF MutationMoves
<1>3. GuardsMove(c)
  <2>1. guard[d] = c /\ guard \in [Object -> Client \cup {NoClient}]
    BY Mine
  <2>2. guard' \in [Object -> Client \cup {NoClient}]
    BY <2>1
  <2>3. guard'[d] = NoClient /\ \A e \in Object \ {d} : guard'[e] = guard[e]
    BY <2>1
  <2> QED
    BY <1>1, <2>1, <2>2, <2>3, Mine DEF GuardsMove, VictimOf
<1>4. BatchMoves(c)
  BY <1>1 DEF BatchMoves, JobTypeOK
<1> QED
  BY <1>1, <1>2, <1>3, <1>4 DEF Moves

\* A step that gives back all guards of a client, and ends its job.
LEMMA EndingMoves ==
  ASSUME JobInv, NEW c \in Client, Becoming(c, Idle),
         FreeGuards(c), mutation' # c,
         mutation' = mutation \/ {mutation, mutation'} \subseteq {c, NoClient},
         batch' = batch \/ (mutation = c /\ batch' = NoBatch)
  PROVE  Moves(c)
<1>1. JobTypeOK /\ job'[c] = Idle /\ Idle \in JobType
  BY BecomingType, IdleType DEF JobInv
<1>2. MutationMoves(c)
  BY <1>1 DEF MutationMoves, Idle, UnderMutation, Making
<1>3. GuardsMove(c)
  BY <1>1, Mine DEF GuardsMove, FreeGuards, Idle, Must
<1>4. BatchMoves(c)
  <2>1. NoBatch \in BatchType
    BY DEF NoBatch, BatchType
  <2> QED
    BY <1>1, <2>1 DEF BatchMoves, JobTypeOK, Idle
<1>5. Shape(Idle)
  BY DEF Shape, Idle
<1> QED
  BY <1>1, <1>2, <1>3, <1>4, <1>5 DEF Moves

LEMMA LookupMoves ==
  ASSUME JobInv, NEW c \in Client, LookupStep(c) PROVE Moves(c)
<1> DEFINE j == job[c]
<1>0. /\ j \in JobType /\ Shape(j) /\ batch \in BatchType
      /\ mutation = c <=> j.at \in UnderMutation
      /\ NoClient # c /\ JobTypeOK
      /\ j.at # "idle" =>
           j.op \in {"store", "materialize"} \/ RepairShape(j)
  BY Mine, JobObject DEF JobInv, JobTypeOK, Shape, Idle, Op
<1>1. CASE AcquireObject(c)
  <2> DEFINE k == [j EXCEPT !.at = "verify"] d == j.object
  <2>1. Becoming(c, k) /\ k \in JobType
    BY <1>1, <1>0, TurnsType DEF AcquireObject, At
  <2>2. /\ j.at = "object" /\ guard[d] = NoClient /\ mutation' = mutation
        /\ guard' = [guard EXCEPT ![d] = c] /\ batch' = batch
    BY <1>1 DEF AcquireObject
  <2>3. j.op \in {"store", "materialize"} /\ d \in Object
    BY <2>2, <1>0, JobObject DEF RepairShape, Making, JobInv, LockInv
  <2>4. Shape(k)
    BY <2>2, <2>3, <1>0 DEF Shape, MaterializeShape, StoreShape, Finding,
       Making, Ending, Referencing, JobType
  <2>5. May(k) = May(j) \cup {d} /\ Must(k) = Must(j) \cup {d}
    BY <2>2, <2>3, <1>0 DEF May, Must, Ending, JobType
  <2>6. guard \in [Object -> Client \cup {NoClient}] /\ job'[c] = k
    BY <2>1, <1>0, BecomingType DEF JobTypeOK
  <2>7. GuardsMove(c)
    BY <2>2, <2>3, <2>5, <2>6, Mine DEF GuardsMove, VictimOf
  <2>8. MutationMoves(c) /\ BatchMoves(c)
    BY <2>2, <2>6, <1>0 DEF MutationMoves, BatchMoves, UnderMutation, Making,
       JobType
  <2> QED
    BY <2>1, <2>4, <2>6, <2>7, <2>8 DEF Moves
<1>2. CASE VerifyObject(c)
  <2> DEFINE k == job'[c]
  <2>1. PICK there \in {"touch", "quarantine", "stage", "invalidate"} :
          /\ Turns(c, there)
          /\ there = "stage" => j.op = "store"
          /\ there = "invalidate" => j.op # "store"
    BY <1>2 DEF VerifyObject, NotFound
  <2>2. j.at = "verify" /\ guard' = guard /\ batch' = batch
        /\ mutation' = mutation
    BY <1>2 DEF VerifyObject, locks
  <2>3. Becoming(c, [j EXCEPT !.at = there])
        /\ [j EXCEPT !.at = there] \in JobType
    BY <2>1, <1>0, TurnsType DEF At
  <2>4. j.op \in {"store", "materialize"}
    BY <2>2, <1>0 DEF RepairShape, Making
  <2>5. Shape([j EXCEPT !.at = there])
    BY <2>1, <2>2, <2>4, <1>0 DEF Shape, MaterializeShape, StoreShape,
       Finding, Making, Ending, Referencing, JobType
  <2> HIDE DEF k
  <2> QED
    BY <2>1, <2>2, <2>3, <2>5, <1>0, TurnMoves
       DEF UnderMutation, Making, JobType, Ending
<1>3. CASE RepairCorruptObject(c)
  <2> DEFINE k == [j EXCEPT !.at = NotFound(c)]
  <2>1. j.at = "quarantine" /\ mutation = NoClient /\ mutation' = mutation
        /\ guard' = guard /\ batch' = batch
    BY <1>3 DEF RepairCorruptObject, locks
  <2>2. j.op \in {"store", "materialize"}
    BY <2>1, <1>0 DEF RepairShape, Making
  <2>3. Becoming(c, k) /\ k \in JobType
    BY <1>3, <1>0, TurnsType DEF RepairCorruptObject, At, NotFound
  <2>4. Shape(k)
    BY <2>1, <2>2, <1>0 DEF Shape, MaterializeShape, StoreShape, NotFound,
       Finding, Making, Ending, Referencing, JobType
  <2>5. k.at \in {"stage", "invalidate"}
    BY <1>0 DEF NotFound, JobType
  <2> QED
    BY <2>1, <2>2, <2>3, <2>4, <2>5, <1>0, TurnMoves
       DEF UnderMutation, Making, JobType, Ending
<1>4. CASE Touch(c)
  <2>1. PICK there \in {"room", "index"} :
          job' = [job EXCEPT ![c].at = there, ![c].purpose = "touch"]
    BY <1>4 DEF Touch
  <2> DEFINE k == [j EXCEPT !.at = there, !.purpose = "touch"]
  <2>2. j.at = "touch" /\ mutation = NoClient /\ mutation' = c
        /\ guard' = guard /\ batch' = batch
    BY <1>4 DEF Touch
  <2>3. j.op \in {"store", "materialize"}
    BY <2>2, <1>0 DEF RepairShape, Making
  <2>4. Becoming(c, k) /\ k \in JobType
    BY <2>1, <1>0 DEF Becoming, JobType, JobTypeOK, At, Purpose
  <2>5. Shape(k)
    BY <2>2, <2>3, <1>0 DEF Shape, MaterializeShape, StoreShape,
       Finding, Making, Ending, Referencing, JobType
  <2> QED
    BY <2>2, <2>4, <2>5, <1>0, TurnMoves
       DEF UnderMutation, Making, JobType, Ending
<1>5. CASE TouchIndex(c)
  <2> DEFINE k == [j EXCEPT !.at = "account"]
  <2>1. j.at = "index" /\ mutation' = mutation /\ guard' = guard
        /\ batch' = batch
    BY <1>5 DEF TouchIndex, locks
  <2>2. Becoming(c, k) /\ k \in JobType
    BY <1>5, <1>0, TurnsType DEF TouchIndex, At
  <2>3. j.op \in {"store", "materialize"} /\ j.purpose = "touch"
    BY <2>1, <1>0 DEF Shape, StoreShape, MaterializeShape, RepairShape, Making
  <2>4. Shape(k)
    BY <2>1, <2>3, <1>0 DEF Shape, MaterializeShape, StoreShape,
       Finding, Making, Ending, Referencing, JobType
  <2> QED
    BY <2>1, <2>2, <2>3, <2>4, <1>0, TurnMoves
       DEF UnderMutation, Making, JobType, Ending
<1>6. ASSUME j.at = "copy"
      PROVE  j.op = "materialize" /\ j.object \in Object /\ mutation # c
             /\ Must(j) = {j.object} /\ May(j) = {j.object}
  <2>1. j.op = "materialize"
    BY <1>6, <1>0 DEF RepairShape, Making, Shape, StoreShape, Finding
  <2> QED
    BY <1>6, <2>1, <1>0, JobObject DEF Must, May, UnderMutation, Making,
       JobInv, LockInv
<1>7. ASSUME j.at = "copy", Becoming(c, Idle), batch' = batch,
             guard' = [guard EXCEPT ![j.object] = NoClient],
             mutation' = mutation
      PROVE  Moves(c)
  <2>1. Shape(Idle) /\ Must(Idle) = {} /\ May(Idle) = {}
        /\ Idle.at \notin UnderMutation \cup {"unlink"}
    BY DEF Idle, Shape, Must, May, UnderMutation, Making
  <2> QED
    BY <1>6, <1>7, <2>1, <1>0, IdleType, ReleasingMoves
<1>8. CASE Copy(c)
  <2> DEFINE k == [j EXCEPT !.object = ArtifactOf[j.object], !.at = "object"]
  <2>1. /\ j.at = "copy" /\ batch' = batch /\ mutation' = mutation
        /\ guard' = [guard EXCEPT ![j.object] = NoClient]
        /\ Becoming(c, Idle) \/ (Becoming(c, k) /\ j.object = j.result)
    BY <1>8 DEF Copy, Becoming
  <2>2. CASE Becoming(c, k) /\ j.object = j.result
    <3>1. j.op = "materialize" /\ j.result \in Result
          /\ ArtifactOf[j.result] \in Object
      BY <1>6, <2>1, JobObject DEF JobInv, LockInv
    <3>2. k \in JobType
      BY <2>2, <3>1, <1>0 DEF JobType, At
    <3>3. Shape(k)
      BY <2>2, <3>1, <1>0 DEF Shape, MaterializeShape, Finding, JobType, Both
    <3>4. Must(k) = {} /\ May(k) = {}
      BY <3>1, <1>0 DEF Must, May, JobType
    <3>5. k.at = "object"
      BY <1>0 DEF JobType
    <3> QED
      BY <2>1, <2>2, <3>2, <3>3, <3>4, <3>5, <1>6, <1>0, ReleasingMoves
         DEF UnderMutation, Making
  <2> QED
    BY <2>1, <2>2, <1>7
<1>9. CASE CopyFails(c)
  BY <1>9, <1>7 DEF CopyFails, Becoming
<1>10. CASE Invalidate(c)
  BY <1>10, <1>0, EndingMoves
     DEF Invalidate, Becoming, UnderMutation, Making
<1> QED
  BY <1>1, <1>2, <1>3, <1>4, <1>5, <1>8, <1>9, <1>10 DEF LookupStep

\* A job that has its object goes on to the next with the same guards.
LEMMA AdvanceKeeps ==
  ASSUME NEW j \in JobType, Shape(j), j.op \in {"store", "materialize"},
         ~ Ending(j), ~ Referencing(j), j.at \notin {"object", "unlink"},
         NEW i \in SUBSET Object,
         i = j.inserted \/ (j.op = "store" /\ i = j.inserted \cup {j.object})
  PROVE  LET k == Advance([j EXCEPT !.inserted = i]) IN
           /\ k \in JobType /\ Shape(k)
           /\ Must(k) = Must(j) /\ May(k) = May(j)
           /\ k.at \in {"copy", "reference", "object"}
           /\ k.op = j.op /\ k.result = j.result
<1> DEFINE l == [j EXCEPT !.inserted = i]
<1>0. /\ l \in JobType /\ l.op = j.op /\ l.result = j.result
      /\ l.object = j.object /\ l.at = j.at /\ l.purpose = j.purpose
      /\ l.inserted = i
  BY DEF JobType
<1>1. Advance(l) \in JobType
  BY <1>0, AdvanceType
<1>2. CASE j.op = "materialize"
  <2> DEFINE k == [l EXCEPT !.at = "copy"]
  <2>1. Advance(l) = k /\ i = {}
    BY <1>0, <1>2 DEF Advance, Shape, MaterializeShape
  <2>2. /\ k.op = j.op /\ k.result = j.result /\ k.at = "copy"
        /\ k.object = j.object /\ k.purpose = j.purpose /\ k.inserted = i
    BY <1>0 DEF JobType
  <2> HIDE DEF k, l
  <2>3. Shape(k) /\ Must(k) = Must(j) /\ May(k) = May(j)
    BY <1>2, <2>1, <2>2 DEF Shape, MaterializeShape, Must, May, Finding
  <2> QED
    BY <1>1, <2>1, <2>2, <2>3 DEF l
<1>3. CASE j.op = "store" /\ j.object = j.result
  <2> DEFINE k == [l EXCEPT !.at = "reference"]
  <2>1. Advance(l) = k
    BY <1>0, <1>3 DEF Advance
  <2>2. /\ k.op = j.op /\ k.result = j.result /\ k.at = "reference"
        /\ k.object = j.object /\ k.purpose = j.purpose /\ k.inserted = i
    BY <1>0 DEF JobType
  <2> HIDE DEF k, l
  <2>3. Shape(k)
    BY <1>3, <2>2 DEF Shape, StoreShape, Both, Ending, Referencing, Making
  <2>4. Must(k) = Must(j) /\ May(k) = May(j)
    BY <1>3, <2>2 DEF Must, May, Ending
  <2> QED
    BY <1>1, <2>1, <2>2, <2>3, <2>4 DEF l
<1>4. CASE j.op = "store" /\ j.object # j.result
  <2> DEFINE k == [l EXCEPT !.object = j.result, !.at = "object"]
  <2>1. Advance(l) = k
    BY <1>0, <1>4 DEF Advance
  <2>2. /\ k.op = j.op /\ k.result = j.result /\ k.at = "object"
        /\ k.object = j.result /\ k.purpose = j.purpose /\ k.inserted = i
    BY <1>0 DEF JobType
  <2>3. j.object = ArtifactOf[j.result] /\ j.inserted = {}
    BY <1>4 DEF Shape, StoreShape, Both
  <2> HIDE DEF k, l
  <2>4. Shape(k)
    BY <1>4, <2>2, <2>3 DEF Shape, StoreShape, Both, Ending, Referencing,
       Making, Finding
  <2>5. Must(k) = Must(j) /\ May(k) = May(j)
    BY <1>4, <2>2, <2>3 DEF Must, May, Ending
  <2> QED
    BY <1>1, <2>1, <2>2, <2>4, <2>5 DEF l
<1> QED
  BY <1>2, <1>3, <1>4

LEMMA AdmitOp ==
  ASSUME JobInv, NEW c \in Client,
         \/ job[c].at \in {"stage", "publish", "record", "rollback",
              "discard", "discarding", "giveup", "reference", "write"}
         \/ job[c].at = "account" /\ job[c].purpose # "touch"
  PROVE  job[c].op = "store"
<1>1. Shape(job[c]) /\ job[c].op \in Op
  BY JobObject DEF JobInv, LockInv, JobShapes
<1> QED
  BY <1>1 DEF Shape, MaterializeShape, RepairShape, Finding, Making, Op, Idle

LEMMA AccountMoves ==
  ASSUME JobInv, NEW c \in Client, AccountLedger(c) PROVE Moves(c)
<1> DEFINE j == job[c]
<1>0. /\ j \in JobType /\ Shape(j) /\ batch \in BatchType
      /\ mutation = c /\ j.at = "account" /\ batch' = batch
      /\ NoClient # c /\ JobTypeOK
  BY Mine, JobObject DEF JobInv, JobTypeOK, AccountLedger, UnderMutation
<1>1. CASE j.purpose = "touch"
  <2> DEFINE l == [j EXCEPT !.inserted = j.inserted]
  <2>1. /\ Becoming(c, Advance(j)) /\ guard' = guard /\ mutation' = NoClient
    BY <1>1 DEF AccountLedger, AfterAccount, Becoming
  <2>2. j.op \in {"store", "materialize"} /\ ~ Ending(j) /\ ~ Referencing(j)
    BY <1>0, <1>1 DEF Shape, RepairShape, Idle, Making, JobType, Op, Ending,
       Referencing
  <2>3. l = j /\ j.inserted \in SUBSET Object
    BY <1>0 DEF JobType
  <2> DEFINE k == Advance(j)
  <2>4. /\ k \in JobType /\ Shape(k)
        /\ Must(k) = Must(j) /\ May(k) = May(j)
        /\ k.at \in {"copy", "reference", "object"}
    BY <1>0, <2>2, <2>3, AdvanceKeeps
  <2> QED
    BY <1>0, <2>1, <2>4, QuietMoves DEF UnderMutation, Making
<1>2. CASE j.purpose \in {"admit", "reference"}
  <2> DEFINE there == IF j.purpose = "admit" THEN "room" ELSE "write"
             k == [j EXCEPT !.at = there]
  <2>1. /\ Becoming(c, k) /\ guard' = guard /\ mutation' = mutation
    BY <1>2 DEF AccountLedger, AfterAccount, Becoming
  <2>2. k \in JobType /\ k.at = there
    BY <1>0 DEF JobType, At
  <2>3. j.op = "store"
    BY <1>0, <1>2, AdmitOp
  <2>4. Shape(k)
    BY <1>0, <1>2, <2>3 DEF Shape, StoreShape, Ending, Referencing, Making,
       JobType
  <2> QED
    BY <1>0, <1>2, <2>1, <2>2, <2>3, <2>4, TurnMoves
       DEF UnderMutation, Making, JobType, Ending
<1>3. CASE j.purpose = "discard"
  <2> DEFINE d == j.object
             k == [j EXCEPT !.at = "giveup", !.inserted = j.inserted \ {d}]
  <2>9. Becoming(c, k)
    BY <1>3 DEF AccountLedger, AfterAccount, Becoming
  <2>1. /\ mutation' = NoClient
        /\ guard' = IF d \notin j.inserted
                    THEN [guard EXCEPT ![d] = NoClient] ELSE guard
    BY <1>3 DEF AccountLedger
  <2>2. k \in JobType /\ k.at = "giveup" /\ k.inserted = j.inserted \ {d}
        /\ k.op = j.op /\ k.result = j.result
    BY <1>0 DEF JobType, At
  <2>3. j.op = "store" /\ d \in Object
    BY <1>0, <1>3, AdmitOp, JobObject DEF JobInv, LockInv
  <2>4. Shape(k)
    BY <1>0, <1>3, <2>3 DEF Shape, StoreShape, Ending, Referencing, Making,
       JobType
  <2>5. /\ May(j) = Both(j.result) /\ May(k) = Both(j.result)
        /\ Must(j) = {d} \cup j.inserted /\ Must(k) = j.inserted \ {d}
    BY <1>0, <1>3, <2>2, <2>3 DEF Must, May, Ending
  <2> HIDE DEF k
  <2>6. CASE d \in j.inserted
    BY <1>0, <2>1, <2>9, <2>2, <2>4, <2>5, <2>6, QuietMoves
       DEF UnderMutation, Making
  <2>7. CASE d \notin j.inserted
    BY <1>0, <2>1, <2>9, <2>2, <2>3, <2>4, <2>5, <2>7, ReleasingMoves
       DEF UnderMutation, Making
  <2> QED
    BY <2>6, <2>7
<1> QED
  BY <1>0, <1>1, <1>2, <1>3 DEF JobType, Purpose, Shape, StoreShape,
     MaterializeShape, RepairShape, Idle, Making

LEMMA AdmitMoves ==
  ASSUME JobInv, NEW c \in Client, AdmitStep(c) PROVE Moves(c)
<1> DEFINE j == job[c]
<1>0. /\ j \in JobType /\ Shape(j) /\ batch \in BatchType
      /\ mutation = c <=> j.at \in UnderMutation
      /\ NoClient # c /\ JobTypeOK
      /\ j.op = "store" => j.object \in Object
  BY Mine, JobObject DEF JobInv, LockInv, JobTypeOK
<1>1. CASE StageObject(c)
  <2> DEFINE k == [j EXCEPT !.at = "publish"]
  <2>1. Becoming(c, k) /\ k \in JobType
    BY <1>1, <1>0, TurnsType DEF StageObject, At
  <2>2. /\ j.at = "stage" /\ guard' = guard /\ batch' = batch
        /\ mutation' = mutation
    BY <1>1 DEF StageObject, locks
  <2>3. j.op = "store"
    BY <2>2, AdmitOp
  <2>4. Shape(k)
    BY <2>2, <2>3, <1>0 DEF Shape, StoreShape, Finding, Making, Ending,
       Referencing, JobType
  <2> QED
    BY <2>1, <2>2, <2>4, <1>0, TurnMoves
       DEF UnderMutation, Making, JobType, Ending
<1>2. CASE AdmissionFails(c)
  <2> DEFINE k == [j EXCEPT !.at = "giveup"] d == j.object
  <2>1. Becoming(c, k) /\ k \in JobType
    BY <1>2, <1>0, TurnsType DEF AdmissionFails, At
  <2>2. /\ j.at = "publish" /\ guard' = [guard EXCEPT ![d] = NoClient]
        /\ batch' = batch /\ mutation' = mutation
    BY <1>2 DEF AdmissionFails
  <2>3. j.op = "store"
    BY <2>2, AdmitOp
  <2>4. Shape(k)
    BY <2>2, <2>3, <1>0 DEF Shape, StoreShape, Finding, Making, Ending,
       Referencing, JobType
  <2>5. /\ k.at = "giveup" /\ k.op = "store" /\ k.result = j.result
        /\ k.inserted = j.inserted
    BY <2>3, <1>0 DEF JobType
  <2>6. /\ j.inserted \subseteq IF d = j.result
                                THEN {ArtifactOf[j.result]} ELSE {}
        /\ d \in Both(j.result) /\ j.result \in Result
    BY <2>2, <2>3, <1>0 DEF Shape, StoreShape, Ending, Referencing
  <2>7. /\ May(k) = Both(j.result) /\ Must(k) = j.inserted
        /\ Must(j) = {d} \cup IF d = j.result
                              THEN {ArtifactOf[j.result]} ELSE {}
        /\ May(j) = Must(j)
    BY <2>2, <2>3, <2>5 DEF May, Must, Ending
  <2>8. ArtifactOf[j.result] # j.result
    BY <2>6
  <2>9. /\ May(j) \subseteq May(k) \cup {d}
        /\ Must(k) \subseteq Must(j) \ {d} /\ d \in Must(j)
    BY <2>6, <2>7, <2>8 DEF Both
  <2> HIDE DEF k
  <2> QED
    BY <2>1, <2>2, <2>3, <2>4, <2>5, <2>9, <1>0, ReleasingMoves
       DEF UnderMutation, Making
<1>3. CASE PublishObject(c)
  <2> DEFINE k == [j EXCEPT !.at = "record", !.purpose = "admit"]
  <2>1. Becoming(c, k) /\ k \in JobType
    BY <1>3, <1>0 DEF PublishObject, Becoming, JobTypeOK, JobType, At, Purpose
  <2>2. /\ j.at = "publish" /\ guard' = guard /\ batch' = batch
        /\ mutation = NoClient /\ mutation' = c
    BY <1>3 DEF PublishObject
  <2>3. j.op = "store"
    BY <2>2, AdmitOp
  <2>4. Shape(k)
    BY <2>2, <2>3, <1>0 DEF Shape, StoreShape, Finding, Making, Ending,
       Referencing, JobType
  <2> QED
    BY <2>1, <2>2, <2>4, <1>0, TurnMoves
       DEF UnderMutation, Making, JobType, Ending
<1>4. CASE RecordObject(c)
  <2> DEFINE k == [j EXCEPT !.at = "account"]
  <2>1. Becoming(c, k) /\ k \in JobType
    BY <1>4, <1>0, TurnsType DEF RecordObject, At
  <2>2. /\ j.at = "record" /\ guard' = guard /\ batch' = batch
        /\ mutation' = mutation
    BY <1>4 DEF RecordObject, locks
  <2>3. j.op = "store" /\ j.purpose = "admit"
    BY <2>2, <1>0, AdmitOp DEF Shape, StoreShape
  <2>4. Shape(k)
    BY <2>2, <2>3, <1>0 DEF Shape, StoreShape, Finding, Making, Ending,
       Referencing, JobType
  <2> QED
    BY <2>1, <2>2, <2>3, <2>4, <1>0, TurnMoves
       DEF UnderMutation, Making, JobType, Ending
<1>5. CASE RecordFails(c)
  <2> DEFINE k == [j EXCEPT !.at = "rollback"]
  <2>1. Becoming(c, k) /\ k \in JobType
    BY <1>5, <1>0, TurnsType DEF RecordFails, At
  <2>2. /\ j.at = "record" /\ guard' = guard /\ batch' = batch
        /\ mutation' = NoClient
    BY <1>5 DEF RecordFails, FreeMutation
  <2>3. j.op = "store" /\ j.purpose = "admit"
    BY <2>2, <1>0, AdmitOp DEF Shape, StoreShape
  <2>4. Shape(k)
    BY <2>2, <2>3, <1>0 DEF Shape, StoreShape, Finding, Making, Ending,
       Referencing, JobType
  <2> QED
    BY <2>1, <2>2, <2>3, <2>4, <1>0, TurnMoves
       DEF UnderMutation, Making, JobType, Ending
<1>6. CASE Rollback(c)
  <2> DEFINE k == [j EXCEPT !.at = "discard"] d == j.object
  <2>1. Becoming(c, k) /\ k \in JobType
    BY <1>6, <1>0, TurnsType DEF Rollback, At
  <2>2. /\ j.at = "rollback" /\ guard' = guard /\ batch' = batch
        /\ mutation = NoClient /\ mutation' = c
    BY <1>6 DEF Rollback
  <2>3. j.op = "store" /\ j.purpose = "admit"
    BY <2>2, <1>0, AdmitOp DEF Shape, StoreShape
  <2>4. Shape(k)
    BY <2>2, <2>3, <1>0 DEF Shape, StoreShape, Finding, Making, Ending,
       Referencing, JobType
  <2>5. /\ k.at = "discard" /\ k.op = "store" /\ k.result = j.result
        /\ k.inserted = j.inserted /\ k.object = d
    BY <2>3, <1>0 DEF JobType
  <2>6. /\ j.inserted \subseteq IF d = j.result
                                THEN {ArtifactOf[j.result]} ELSE {}
        /\ d \in Both(j.result)
    BY <2>2, <2>3, <1>0 DEF Shape, StoreShape, Ending, Referencing
  <2>7. /\ May(k) = Both(j.result) /\ Must(k) = {d} \cup j.inserted
        /\ Must(j) = {d} \cup IF d = j.result
                              THEN {ArtifactOf[j.result]} ELSE {}
        /\ May(j) = Must(j)
    BY <2>2, <2>3, <2>5 DEF May, Must, Ending
  <2>9. May(j) \subseteq May(k) /\ Must(k) \subseteq Must(j)
    BY <2>6, <2>7 DEF Both
  <2> HIDE DEF k
  <2> QED
    BY <2>1, <2>2, <2>4, <2>5, <2>9, <1>0, QuietMoves
       DEF UnderMutation, Making
<1>7. CASE BeginReference(c)
  <2> DEFINE k == [j EXCEPT !.at = "room", !.purpose = "reference"]
  <2>1. Becoming(c, k) /\ k \in JobType
    BY <1>7, <1>0 DEF BeginReference, Becoming, JobTypeOK, JobType, At, Purpose
  <2>2. /\ j.at = "reference" /\ guard' = guard /\ batch' = batch
        /\ mutation = NoClient /\ mutation' = c
    BY <1>7 DEF BeginReference
  <2>3. j.op = "store"
    BY <2>2, AdmitOp
  <2>4. Shape(k)
    BY <2>2, <2>3, <1>0 DEF Shape, StoreShape, Finding, Making, Ending,
       Referencing, JobType
  <2> QED
    BY <2>1, <2>2, <2>4, <1>0, TurnMoves
       DEF UnderMutation, Making, JobType, Ending
<1>8. CASE WriteReference(c)
  BY <1>8, <1>0, EndingMoves
     DEF WriteReference, Becoming, UnderMutation, Making, FreeMutation
<1>9. CASE DiscardReferences(c)
  <2> DEFINE k == [j EXCEPT !.at = "discarding"]
  <2>1. Becoming(c, k) /\ k \in JobType
    BY <1>9, <1>0, TurnsType DEF DiscardReferences, At
  <2>2. /\ j.at = "discard" /\ guard' = guard /\ batch' = batch
        /\ mutation' = mutation
    BY <1>9 DEF DiscardReferences, locks
  <2>3. j.op = "store"
    BY <2>2, AdmitOp
  <2>4. Shape(k)
    BY <2>2, <2>3, <1>0 DEF Shape, StoreShape, Finding, Making, Ending,
       Referencing, JobType
  <2>5. May(k) = May(j) /\ Must(k) = Must(j)
    BY <2>2, <2>3, <1>0 DEF May, Must, Ending, JobType
  <2> QED
    BY <2>1, <2>2, <2>4, <2>5, <1>0, QuietMoves
       DEF UnderMutation, Making, JobType
<1>10. CASE DiscardPayload(c)
  <2> DEFINE k == [j EXCEPT !.at = "account", !.purpose = "discard"]
  <2>1. Becoming(c, k) /\ k \in JobType
    BY <1>10, <1>0 DEF DiscardPayload, Becoming, JobTypeOK, JobType, At,
       Purpose
  <2>2. /\ j.at = "discarding" /\ guard' = guard /\ batch' = batch
        /\ mutation' = mutation
    BY <1>10 DEF DiscardPayload, locks
  <2>3. j.op = "store"
    BY <2>2, AdmitOp
  <2>4. Shape(k)
    BY <2>2, <2>3, <1>0 DEF Shape, StoreShape, Finding, Making, Ending,
       Referencing, JobType
  <2>5. May(k) = May(j) /\ Must(k) = Must(j)
    BY <2>2, <2>3, <1>0 DEF May, Must, Ending, JobType
  <2> QED
    BY <2>1, <2>2, <2>4, <2>5, <1>0, QuietMoves
       DEF UnderMutation, Making, JobType
<1>11. CASE DiscardRetained(c)
  <2> DEFINE d == IF j.result \in j.inserted THEN j.result
                  ELSE ArtifactOf[j.result]
             k == [j EXCEPT !.at = "discard", !.object = d]
  <2>1. /\ j.at = "giveup" /\ guard' = guard /\ batch' = batch
        /\ mutation = NoClient /\ mutation' = c /\ j.inserted # {}
    BY <1>11 DEF DiscardRetained
  <2>2. j.op = "store"
    BY <2>1, AdmitOp
  <2>3. /\ j.result \in Result /\ ArtifactOf[j.result] \in Object
        /\ d \in Object
    BY <2>2, JobObject DEF JobInv, LockInv, Object
  <2>4. Becoming(c, k) /\ k \in JobType
    BY <1>11, <1>0, <2>3 DEF DiscardRetained, Becoming, JobTypeOK, JobType, At
  <2>5. j.inserted \subseteq Both(j.result) /\ d \in j.inserted
    BY <2>1, <2>2, <1>0 DEF Shape, StoreShape, Both
  <2>6. /\ k.at = "discard" /\ k.op = "store" /\ k.result = j.result
        /\ k.inserted = j.inserted /\ k.object = d /\ k.purpose = j.purpose
    BY <2>2, <1>0 DEF JobType
  <2> HIDE DEF k
  <2>7. Shape(k)
    BY <2>1, <2>2, <2>5, <2>6, <1>0 DEF Shape, StoreShape, Finding, Making,
       Ending, Referencing
  <2>8. /\ May(k) = Both(j.result) /\ Must(k) = j.inserted
        /\ May(j) = Both(j.result) /\ Must(j) = j.inserted
    BY <2>1, <2>2, <2>5, <2>6 DEF May, Must, Ending
  <2> QED
    BY <2>1, <2>4, <2>6, <2>7, <2>8, <1>0, QuietMoves
       DEF UnderMutation, Making
<1>12. CASE GiveUp(c)
  BY <1>12, <1>0, EndingMoves
     DEF GiveUp, Becoming, UnderMutation, Making, FreeMutation
<1> QED
  BY <1>1, <1>2, <1>3, <1>4, <1>5, <1>6, <1>7, <1>8, <1>9, <1>10, <1>11,
     <1>12, AccountMoves DEF AdmitStep

LEMMA AnswerMoves ==
  ASSUME JobInv, NEW c \in Client, NEW found \in BOOLEAN, Answer(c, found),
         job[c].at \in {"room", "settle"}, guard' = guard
  PROVE  Moves(c)
<1> DEFINE j == job[c] k == RoomFound(c, found)
<1>0. /\ j \in JobType /\ Shape(j) /\ NoClient # c /\ JobTypeOK
      /\ mutation = c
      /\ j.op = "store" => j.object \in Object
  BY Mine, JobObject DEF JobInv, LockInv, JobTypeOK, UnderMutation, Making
<1>1. Becoming(c, k) /\ k \in JobType
  BY RoomFoundType DEF Answer, Becoming, JobInv, LockInv
<1>2. batch' \in BatchType
  BY DEF Answer, NoBatch, BatchType
<1>3. /\ mutation' = c <=>
           k.at \in {"index", "account", "write", "discard"}
      /\ mutation' \in {c, NoClient}
  BY <1>0 DEF Answer, HoldsMutation
<1>4. CASE j.purpose = "touch"
  <2>1. j.op \in {"store", "materialize"} /\ ~ Ending(j) /\ ~ Referencing(j)
    BY <1>0, <1>4 DEF Shape, RepairShape, Idle, JobType, Op, Ending,
       Referencing
  <2>2. CASE found
    <3>1. k = [j EXCEPT !.at = "index"]
      BY <1>4, <2>2 DEF RoomFound
    <3>2. Shape(k)
      BY <1>0, <1>4, <2>1, <3>1 DEF Shape, MaterializeShape, StoreShape,
         Finding, Making, Ending, Referencing, JobType
    <3>3. /\ k.at = "index" /\ k.op = j.op /\ k.result = j.result
          /\ k.object = j.object /\ k.inserted = j.inserted
      BY <1>0, <3>1 DEF JobType
    <3> HIDE DEF k
    <3> QED
      BY <1>0, <1>1, <1>2, <1>3, <2>1, <3>2, <3>3, TurnMoves
         DEF UnderMutation, Making, Ending
  <2>3. CASE ~ found
    <3> DEFINE l == [j EXCEPT !.inserted = j.inserted]
    <3>1. l = j /\ j.inserted \in SUBSET Object
      BY <1>0 DEF JobType
    <3>2. k = Advance(j)
      BY <1>4, <2>3 DEF RoomFound
    <3>3. /\ Shape(Advance(j))
          /\ Must(Advance(j)) = Must(j) /\ May(Advance(j)) = May(j)
          /\ Advance(j).at \in {"copy", "reference", "object"}
      BY <1>0, <2>1, <3>1, AdvanceKeeps
    <3> HIDE DEF k
    <3> QED
      BY <1>0, <1>1, <1>2, <1>3, <3>2, <3>3, QuietMoves
         DEF UnderMutation, Making
  <2> QED
    BY <2>2, <2>3
<1>5. CASE j.purpose = "admit"
  <2>1. j.op = "store" /\ ~ Ending(j) /\ ~ Referencing(j)
    BY <1>0, <1>5, StorePurpose DEF Ending, Referencing, JobInv, LockInv
  <2>2. CASE found
    <3> DEFINE i == j.inserted \cup {j.object}
               l == [j EXCEPT !.inserted = i]
    <3>1. i \in SUBSET Object
      BY <1>0, <2>1 DEF JobType
    <3>2. k = Advance(l)
      BY <1>5, <2>2 DEF RoomFound
    <3>3. /\ Shape(Advance(l))
          /\ Must(Advance(l)) = Must(j) /\ May(Advance(l)) = May(j)
          /\ Advance(l).at \in {"copy", "reference", "object"}
      BY <1>0, <2>1, <3>1, AdvanceKeeps
    <3> HIDE DEF k, l
    <3> QED
      BY <1>0, <1>1, <1>2, <1>3, <3>2, <3>3, QuietMoves
         DEF UnderMutation, Making
  <2>3. CASE ~ found
    <3>1. k = [j EXCEPT !.at = "discard"]
      BY <1>5, <2>3 DEF RoomFound
    <3>2. /\ k.at = "discard" /\ k.op = j.op /\ k.result = j.result
          /\ k.object = j.object /\ k.inserted = j.inserted
          /\ k.purpose = j.purpose
      BY <1>0, <3>1 DEF JobType
    <3> HIDE DEF k
    <3>3. Shape(k)
      BY <1>0, <1>5, <2>1, <3>2 DEF Shape, StoreShape,
         Finding, Making, Ending, Referencing
    <3>4. /\ j.inserted \subseteq IF j.object = j.result
                                  THEN {ArtifactOf[j.result]} ELSE {}
          /\ j.object \in Both(j.result)
      BY <1>0, <2>1 DEF Shape, StoreShape
    <3>5. /\ May(k) = Both(j.result)
          /\ Must(k) = {j.object} \cup j.inserted
          /\ Must(j) = {j.object} \cup IF j.object = j.result
                              THEN {ArtifactOf[j.result]} ELSE {}
          /\ May(j) = Must(j)
      BY <1>0, <2>1, <3>2 DEF May, Must, Ending
    <3>6. May(j) \subseteq May(k) /\ Must(k) \subseteq Must(j)
      BY <3>4, <3>5 DEF Both
    <3> QED
      BY <1>0, <1>1, <1>2, <1>3, <3>2, <3>3, <3>6, QuietMoves
         DEF UnderMutation, Making
  <2> QED
    BY <2>2, <2>3
<1>6. CASE j.purpose = "reference"
  <2>1. /\ j.op = "store" /\ ~ Ending(j) /\ j.object = j.result
        /\ j.inserted \subseteq Both(j.result)
    BY <1>0, <1>6, StorePurpose
       DEF Ending, Referencing, JobInv, LockInv, Shape, StoreShape
  <2>2. PICK there \in {"giveup", "write", "account"} :
          k = [j EXCEPT !.at = there]
    BY <1>6 DEF RoomFound
  <2>3. /\ k.at = there /\ k.op = j.op /\ k.result = j.result
        /\ k.object = j.object /\ k.inserted = j.inserted
        /\ k.purpose = j.purpose
    BY <1>0, <2>2 DEF JobType
  <2> HIDE DEF k
  <2>4. Shape(k)
    BY <1>0, <1>6, <2>1, <2>3 DEF Shape, StoreShape,
       Finding, Making, Ending, Referencing
  <2>5. Must(j) = Both(j.result) /\ May(j) = Both(j.result)
    BY <1>0, <2>1 DEF Must, May, Ending, Both
  <2>6. /\ May(k) = Both(j.result)
        /\ Must(k) \subseteq Both(j.result)
    BY <1>6, <2>1, <2>3 DEF Must, May, Ending, Both
  <2> QED
    BY <1>0, <1>1, <1>2, <1>3, <2>3, <2>4, <2>5, <2>6, QuietMoves
       DEF UnderMutation, Making
<1>7. CASE j.purpose \in {"repair", "discard"}
  <2>1. k = Idle
    BY <1>7 DEF RoomFound
  <2>2. j.op = "repair"
    BY <1>0, <1>7 DEF Shape, StoreShape, MaterializeShape, RepairShape, Idle,
       JobType, Op, Making
  <2>3. Must(j) = {} /\ May(j) = {} /\ Must(Idle) = {} /\ Shape(Idle)
        /\ Idle.at = "idle"
    BY <2>2 DEF Must, May, Idle, Shape
  <2> HIDE DEF k
  <2> QED
    BY <1>0, <1>1, <1>2, <1>3, <2>1, <2>3, QuietMoves
       DEF UnderMutation, Making
<1> QED
  BY <1>0, <1>4, <1>5, <1>6, <1>7 DEF JobType, Purpose

\* A batch flags an object: its references go first.
LEMMA FlagMoves ==
  ASSUME StoreTypeOK, JobInv, NEW c \in Client, NEW d \in Object,
         NEW edges \in SUBSET (Fingerprint \X Object),
         NEW malformed \in SUBSET Fingerprint,
         RemoveReferencesFor(c, d, edges, malformed),
         job[c].at \in {"evict", "verifying"}, guard[d] = NoClient
  PROVE  Moves(c)
<1> DEFINE j == job[c] k == [j EXCEPT !.at = "unlink"]
           gone == Reaching(d, edges) \cup malformed
<1>0. /\ j \in JobType /\ Shape(j) /\ NoClient # c /\ JobTypeOK
      /\ mutation = c /\ guard \in [Object -> Client \cup {NoClient}]
      /\ batch \in BatchType
  BY Mine DEF JobInv, LockInv, JobTypeOK, UnderMutation, Making
<1>1. Becoming(c, k) /\ k \in JobType
  BY <1>0, TurnsType DEF RemoveReferencesFor, At
<1>2. /\ guard' = [guard EXCEPT ![d] = c] /\ mutation' = c
      /\ batch' = [batch EXCEPT !.collected = TRUE, !.edges = edges,
                   !.victim = d, !.bytes = batch.bytes - Cardinality(gone)]
  BY <1>0 DEF RemoveReferencesFor
<1>3. /\ k.at = "unlink" /\ k.op = j.op /\ k.result = j.result
      /\ k.object = j.object /\ k.inserted = j.inserted
      /\ k.purpose = j.purpose
  BY <1>0 DEF JobType
<1>4. job'[c] = k
  BY <1>0, <1>1, BecomingType
<1> HIDE DEF k
<1>5. Shape(k)
  BY <1>0, <1>3 DEF Shape, MaterializeShape, StoreShape, RepairShape,
     Finding, Making, Ending, Referencing, Idle
<1>6. Must(k) = Must(j) /\ May(k) = May(j)
  BY <1>3 DEF Must, May, Ending
<1>7. d \notin Must(j)
  BY <1>0, Mine
<1>8. batch' \in BatchType /\ batch'.victim = d
  <2>1. gone \in SUBSET Fingerprint
    BY DEF Reaching, Referring
  <2>2. Cardinality(gone) \in Nat
    BY <2>1, FiniteAssumption, FS_Subset, FS_CardinalityType
  <2>3. batch.bytes - Cardinality(gone) \in Int
    BY <1>0, <2>2 DEF BatchType
  <2> HIDE DEF gone
  <2> QED
    BY <1>0, <1>2, <2>3, Zenon DEF BatchType
<1>9. MutationMoves(c)
  BY <1>0, <1>2, <1>3, <1>4 DEF MutationMoves, UnderMutation, Making
<1>10. GuardsMove(c)
  <2>1. guard' \in [Object -> Client \cup {NoClient}] /\ guard'[d] = c
        /\ \A e \in Object \ {d} : guard'[e] = guard[e]
    BY <1>0, <1>2
  <2>2. d \in VictimOf(c)'
    BY <1>3, <1>4, <1>8 DEF VictimOf
  <2>3. VictimOf(c) = {}
    BY DEF VictimOf
  <2> QED
    BY <1>4, <1>6, <1>7, <2>1, <2>2, <2>3, Mine, MustObjects DEF GuardsMove
<1>11. BatchMoves(c)
  BY <1>0, <1>2, <1>4, <1>6, <1>7, <1>8 DEF BatchMoves
<1> QED
  BY <1>1, <1>4, <1>5, <1>9, <1>10, <1>11 DEF Moves

LEMMA UnflagMoves ==
  ASSUME JobInv, NEW c \in Client, RemovePayload(c) PROVE Moves(c)
<1> DEFINE j == job[c] d == batch.victim
           k == [j EXCEPT !.at = IF j.op = "repair" /\ j.purpose # "repair"
                                 THEN "verifying" ELSE "evict"]
<1>0. /\ j \in JobType /\ Shape(j) /\ NoClient # c /\ JobTypeOK
      /\ j.at = "unlink" /\ mutation = c /\ mutation' = c
      /\ guard \in [Object -> Client \cup {NoClient}]
      /\ batch \in BatchType
      /\ d \in Object /\ guard[d] = c /\ d \notin Must(j)
      /\ guard' = [guard EXCEPT ![d] = NoClient]
  BY Mine DEF JobInv, LockInv, JobTypeOK, UnderMutation, Making,
     RemovePayload, VictimIsGuarded
<1>1. Becoming(c, k) /\ k \in JobType
  BY <1>0 DEF RemovePayload, At, Turns, JobType, Becoming, JobTypeOK
<1>2. /\ k.at \in {"verifying", "evict"} /\ k.op = j.op
      /\ k.at = "verifying" => j.op = "repair" /\ j.purpose # "repair"
      /\ k.at = "evict" => j.op # "repair" \/ j.purpose = "repair"
      /\ k.result = j.result
      /\ k.object = j.object /\ k.inserted = j.inserted
      /\ k.purpose = j.purpose
  BY <1>0 DEF JobType
<1>3. job'[c] = k
  BY <1>0, <1>1, BecomingType
<1> HIDE DEF k
<1>4. Shape(k)
  <2>1. CASE j.op = "store"
    <3>1. StoreShape(j) /\ k.at = "evict"
      BY <1>0, <1>2, <2>1 DEF Shape
    <3> QED
      BY <1>0, <1>2, <2>1, <3>1 DEF Shape, StoreShape, Making, Ending,
         Referencing
  <2>2. CASE j.op = "materialize"
    <3>1. MaterializeShape(j) /\ k.at = "evict"
      BY <1>0, <1>2, <2>2 DEF Shape
    <3> QED
      BY <1>0, <1>2, <2>2, <3>1 DEF Shape, MaterializeShape, Making
  <2>3. CASE j.op = "repair"
    <3>1. RepairShape(j)
      BY <1>0, <2>3 DEF Shape
    <3> QED
      BY <1>0, <1>2, <2>3, <3>1 DEF Shape, RepairShape, Making
  <2> QED
    BY <1>0, <2>1, <2>2, <2>3 DEF Shape, Idle, JobType, Op
<1>5. Must(k) = Must(j) /\ May(k) = May(j)
  BY <1>0, <1>2 DEF Must, May, Ending
<1>6. batch' \in BatchType
  <2>1. batch' = [batch EXCEPT !.left = @ \ {d}, !.removed = @ \cup {d},
                  !.bytes = @ - 1, !.victim = None]
    BY DEF RemovePayload
  <2>2. /\ batch.left \ {d} \in SUBSET Object
        /\ batch.removed \cup {d} \in SUBSET Object
        /\ batch.bytes - 1 \in Int
    BY <1>0 DEF BatchType
  <2> QED
    BY <2>1, <2>2, <1>0, Zenon DEF BatchType
<1>7. MutationMoves(c)
  BY <1>0, <1>2, <1>3 DEF MutationMoves, UnderMutation, Making
<1>8. GuardsMove(c)
  <2>1. guard' \in [Object -> Client \cup {NoClient}] /\ guard'[d] = NoClient
        /\ \A e \in Object \ {d} : guard'[e] = guard[e]
    BY <1>0
  <2>2. VictimOf(c) = {d}
    BY <1>0 DEF VictimOf
  <2> QED
    BY <1>0, <1>3, <1>5, <2>1, <2>2, Mine, MustObjects DEF GuardsMove
<1>9. BatchMoves(c)
  BY <1>0, <1>2, <1>3, <1>6 DEF BatchMoves
<1> QED
  BY <1>1, <1>3, <1>4, <1>7, <1>8, <1>9 DEF Moves

\* The objects and the bytes of the tree.
LEMMA TreeIsNat ==
  ASSUME StoreTypeOK
  PROVE  /\ Tree \in Nat /\ IsFiniteSet(Present) /\ IsFiniteSet(Referring)
         /\ Cardinality(Present) \in Nat /\ Cardinality(Referring) \in Nat
         /\ Cardinality(Present) + Cardinality(Referring) <= Tree
<1>1. /\ Present \subseteq Object /\ Referring \subseteq Fingerprint
      /\ staging \subseteq Object /\ quarantine \in Nat
  BY DEF Present, Referring, StoreTypeOK
<1>2. IsFiniteSet(Present) /\ IsFiniteSet(Referring) /\ IsFiniteSet(staging)
  BY <1>1, FiniteAssumption, FS_Subset
<1>3. /\ Cardinality(Present) \in Nat /\ Cardinality(Referring) \in Nat
      /\ Cardinality(staging) \in Nat
  BY <1>2, FS_CardinalityType
<1> QED
  BY <1>1, <1>2, <1>3 DEF Tree

LEMMA RoomMoves ==
  ASSUME StoreTypeOK, JobInv, NEW c \in Client, RoomStep(c) PROVE Moves(c)
<1> DEFINE j == job[c]
<1>0. /\ j \in JobType /\ Shape(j) /\ batch \in BatchType
      /\ mutation = c <=> j.at \in UnderMutation
      /\ NoClient # c /\ JobTypeOK
  BY Mine DEF JobInv, LockInv, JobTypeOK
<1>1. CASE TrustLedger(c)
  BY <1>1, AnswerMoves DEF TrustLedger
<1>2. CASE Measure(c)
  BY <1>2, AnswerMoves DEF Measure
<1>3. ASSUME NEW there \in {"evict", "settle"}, NEW b \in BatchType,
             Turns(c, there),
             j.at \in {"room", "evict", "settle"}, mutation' = mutation,
             guard' = guard, batch' = b
      PROVE  Moves(c)
  <2> DEFINE k == [j EXCEPT !.at = there]
  <2>1. Becoming(c, k) /\ k \in JobType
    BY <1>3, <1>0, TurnsType DEF At
  <2>2. Shape(k)
    BY <1>3, <1>0 DEF Shape, MaterializeShape, StoreShape, RepairShape,
       Finding, Making, Ending, Referencing, Idle, JobType
  <2> QED
    BY <2>1, <2>2, <1>0, <1>3, TurnMoves
       DEF UnderMutation, Making, JobType, Ending
<1>4. CASE BeginEviction(c)
  <2>1. [NoBatch EXCEPT !.left = Present, !.bytes = Tree] \in BatchType
    <3>1. NoBatch \in BatchType
      BY DEF NoBatch, BatchType
    <3>2. Present \in SUBSET Object /\ Tree \in Int
      BY TreeIsNat DEF Present
    <3> QED
      BY <3>1, <3>2, Zenon DEF BatchType
  <2> QED
    BY <1>4, <2>1, <1>3 DEF BeginEviction, locks
<1>5. CASE \E d \in Object : PreserveLive(c, d)
  <2>1. PICK d \in Object : PreserveLive(c, d)
    BY <1>5
  <2>2. [batch EXCEPT !.left = @ \ {d}] \in BatchType
    BY <1>0 DEF BatchType
  <2>3. Turns(c, "evict") /\ j.at = "evict"
    BY <2>1, <1>0 DEF PreserveLive, Turns, JobTypeOK, JobType
  <2> QED
    BY <2>1, <2>2, <2>3, <1>3 DEF PreserveLive, locks
<1>6. CASE \E d \in Object : EvictReferences(c, d)
  <2>1. PICK d \in Object : EvictReferences(c, d)
    BY <1>6
  <2>2. /\ Edges \in SUBSET (Fingerprint \X Object)
        /\ batch.edges \in SUBSET (Fingerprint \X Object)
        /\ Malformed \in SUBSET Fingerprint
    BY <1>0 DEF Edges, DirectEdges, Malformed, Referring, StoreTypeOK, Object,
       BatchType
  <2> QED
    BY <2>1, <2>2, FlagMoves DEF EvictReferences
<1>7. CASE RemovePayload(c)
  BY <1>7, UnflagMoves
<1>8. CASE WriteIndexWithoutFlagged(c)
  BY <1>8, <1>0, <1>3 DEF WriteIndexWithoutFlagged, locks
<1>9. CASE Settle(c)
  <2>1. [batch EXCEPT !.bytes = Tree] \in BatchType
    BY <1>0, TreeIsNat DEF BatchType
  <2>2. CASE batch' = [batch EXCEPT !.bytes = Tree] /\ Turns(c, "evict")
             /\ mutation' = mutation
    BY <1>9, <2>1, <2>2, <1>3 DEF Settle
  <2>3. CASE Answer(c, Tree + Additional(c) <= Budget)
    <3>1. (Tree + Additional(c) <= Budget) \in BOOLEAN
      OBVIOUS
    <3>2. j.at = "settle" /\ guard' = guard
      BY <1>9 DEF Settle
    <3> QED
      BY <2>3, <3>1, <3>2, AnswerMoves
  <2> QED
    BY <1>9, <2>2, <2>3 DEF Settle
<1> QED
  BY <1>1, <1>2, <1>4, <1>5, <1>6, <1>7, <1>8, <1>9 DEF RoomStep

LEMMA RepairMoves ==
  ASSUME StoreTypeOK, JobInv, NEW c \in Client, RepairStep(c) PROVE Moves(c)
<1> DEFINE j == job[c]
<1>0. /\ j \in JobType /\ Shape(j) /\ batch \in BatchType
      /\ mutation = c <=> j.at \in UnderMutation
      /\ NoClient # c /\ JobTypeOK
  BY Mine DEF JobInv, LockInv, JobTypeOK
<1>1. ASSUME j.at \in {"repair", "verifying"}
      PROVE  j.op = "repair" /\ RepairShape(j)
  BY <1>0, <1>1 DEF Shape, MaterializeShape, StoreShape, Idle, Finding,
     Making, JobType, Op
<1>2. ASSUME NEW k \in JobType, Becoming(c, k), RepairShape(k),
             k.op = "repair", k.at \in {"verifying", "room"},
             j.at \in {"repair", "verifying"},
             guard' = guard, mutation' = c, mutation \in {c, NoClient},
             batch' \in BatchType
      PROVE  Moves(c)
  <2>1. Shape(k) /\ j.op = "repair"
    BY <1>1, <1>2 DEF Shape
  <2>2. Must(j) = {} /\ May(j) = {} /\ Must(k) = {}
    BY <1>2, <2>1 DEF May, Must
  <2> QED
    BY <1>0, <1>2, <2>1, <2>2, QuietMoves DEF UnderMutation, Making
<1>3. CASE RepairResidue(c)
  <2> DEFINE k == [j EXCEPT !.at = "verifying"]
  <2>1. Becoming(c, k) /\ k \in JobType
    BY <1>3, <1>0, TurnsType DEF RepairResidue, At
  <2>2. j.at = "repair" /\ guard' = guard /\ mutation' = c
        /\ mutation = NoClient
        /\ batch' = [NoBatch EXCEPT !.left = Present, !.bytes = Tree]
    BY <1>3 DEF RepairResidue
  <2>3. batch' \in BatchType
    <3>1. NoBatch \in BatchType
      BY DEF NoBatch, BatchType
    <3>2. Present \in SUBSET Object /\ Tree \in Int
      BY TreeIsNat DEF Present
    <3> QED
      BY <2>2, <3>1, <3>2, Zenon DEF BatchType
  <2>4. RepairShape(k) /\ k.op = "repair" /\ k.at = "verifying"
    BY <2>2, <1>0, <1>1 DEF RepairShape, Making, JobType
  <2> QED
    BY <1>2, <2>1, <2>2, <2>3, <2>4
<1>4. CASE \E d \in Object : KeepObject(c, d)
  <2>1. PICK d \in Object : KeepObject(c, d)
    BY <1>4
  <2>2. /\ j.at = "verifying" /\ guard' = guard /\ mutation' = mutation
        /\ job' = job /\ batch' = [batch EXCEPT !.left = @ \ {d}]
    BY <2>1 DEF KeepObject, locks
  <2>3. mutation = c
    BY <2>2, <1>0 DEF UnderMutation
  <2>4. batch' \in BatchType
    BY <2>2, <1>0 DEF BatchType
  <2>5. Becoming(c, j)
    BY <2>2, <1>0 DEF Becoming, JobTypeOK
  <2> QED
    BY <1>0, <1>1, <1>2, <2>2, <2>3, <2>4, <2>5
<1>5. CASE \E d \in Object : RemoveCorruptObject(c, d)
  <2>1. PICK d \in Object : RemoveCorruptObject(c, d)
    BY <1>5
  <2>2. /\ Edges \in SUBSET (Fingerprint \X Object)
        /\ Malformed \in SUBSET Fingerprint
    BY DEF Edges, DirectEdges, Malformed, Referring, StoreTypeOK, Object
  <2> QED
    BY <2>1, <2>2, FlagMoves DEF RemoveCorruptObject
<1>6. CASE RepairReferences(c)
  <2> DEFINE k == [j EXCEPT !.at = "room", !.purpose = "repair"]
  <2>1. Becoming(c, k) /\ k \in JobType
    BY <1>6, <1>0 DEF RepairReferences, Becoming, JobTypeOK, JobType, At,
       Purpose
  <2>2. j.at = "verifying" /\ guard' = guard /\ mutation' = mutation
        /\ batch' = NoBatch
    BY <1>6 DEF RepairReferences, locks
  <2>3. batch' \in BatchType
    BY <2>2 DEF NoBatch, BatchType
  <2>4. RepairShape(k) /\ k.op = "repair" /\ k.at = "room"
    BY <2>2, <1>0, <1>1 DEF RepairShape, Making, JobType
  <2>5. mutation = c
    BY <2>2, <1>0 DEF UnderMutation
  <2> QED
    BY <1>2, <2>1, <2>2, <2>3, <2>4, <2>5
<1> QED
  BY <1>3, <1>4, <1>5, <1>6 DEF RepairStep

LEMMA DeathMoves ==
  ASSUME JobInv, NEW c \in Client, ClientDies(c) PROVE Moves(c)
<1>0. JobTypeOK /\ NoClient # c
  BY DEF JobInv
<1> QED
  BY <1>0, EndingMoves DEF ClientDies, Becoming, FreeMutation

LEMMA ClientMoves ==
  ASSUME StoreTypeOK, JobInv, NEW c \in Client,
         \/ Begin(c) \/ LookupStep(c) \/ AdmitStep(c) \/ RoomStep(c)
         \/ RepairStep(c) \/ ClientDies(c)
  PROVE  Moves(c)
  BY BeginMoves, LookupMoves, AdmitMoves, RoomMoves, RepairMoves, DeathMoves

LEMMA JobStep ==
  ASSUME StoreTypeOK, JobInv, [CacheNext]_cacheVars PROVE JobInv'
<1>1. CASE UNCHANGED <<mutation, guard, job, batch>>
  BY <1>1 DEF JobInv, JobTypeOK, LockInv, JobShapes, MutationIsHeld,
     GuardsAreNeeded, GuardsAreHeld, VictimIsGuarded, VictimOf
<1>2. CASE \E d \in Object : Corrupt(d)
  BY <1>1, <1>2 DEF Corrupt, locks
<1>3. CASE UNCHANGED cacheVars
  BY <1>1, <1>3 DEF cacheVars, locks
<1> QED
  BY <1>2, <1>3, ClientMoves, MovesKeepsLocks DEF CacheNext

LEMMA UnsettledObjects ==
  ASSUME JobInv, NEW c \in Client PROVE Unsettled(c) \subseteq Object
<1>1. job[c].at \in {"record", "rollback"} \/ job[c].purpose = "admit"
        => job[c].op = "store"
  BY AdmitOp, StorePurpose DEF JobInv, LockInv
<1> QED
  BY <1>1, JobObject DEF Unsettled, JobInv, LockInv

LEMMA LedgerTypes ==
  ASSUME StoreTypeOK, JobInv
  PROVE  /\ LedgerOfOldIndex \in [bytes : Nat, growth : Nat,
                  index : {"current", "rewritten", "unknown"}]
         /\ UntrustedLedger \in [bytes : Nat, growth : Nat,
                  index : {"current", "rewritten", "unknown"}]
         /\ LedgerOf(Tree) \in [bytes : Nat, growth : Nat,
                  index : {"current", "rewritten", "unknown"}]
         /\ \A n \in {0, 1} : Accounted(n) \in [bytes : Nat, growth : Nat,
                  index : {"current", "rewritten", "unknown"}]
         /\ \A c \in Client : Additional(c) \in {0, 1}
  BY TreeIsNat DEF LedgerOfOldIndex, UntrustedLedger, LedgerOf, Accounted,
     StoreTypeOK, Additional

LEMMA StoreStep ==
  ASSUME StoreTypeOK, JobInv, [CacheNext]_cacheVars PROVE StoreTypeOK'
<1> USE DEF StoreTypeOK
<1>0. /\ \A gone : Dropped(gone) \in [Fingerprint -> Result \cup {None}]
      /\ \A d : [object EXCEPT ![d] = "absent"] \in
                  [Object -> {"absent", "good", "bad"}]
  BY Zenon DEF Dropped
<1>1. ASSUME NEW c \in Client,
             Begin(c) \/ AcquireObject(c) \/ VerifyObject(c) \/ Touch(c)
               \/ Copy(c) \/ CopyFails(c) \/ Rollback(c) \/ BeginReference(c)
               \/ DiscardRetained(c) \/ GiveUp(c) \/ TrustLedger(c)
               \/ BeginEviction(c) \/ (\E d \in Object : PreserveLive(c, d))
               \/ (\E d \in Object : KeepObject(c, d))
      PROVE  StoreTypeOK'
  BY <1>1, Zenon DEF Begin, Store, Materialize, RepairSharedCache, Begins,
     AcquireObject, VerifyObject, Touch, Copy, CopyFails, Rollback,
     BeginReference, DiscardRetained, GiveUp, TrustLedger, BeginEviction,
     PreserveLive, KeepObject, store, bounds
<1>2. ASSUME NEW c \in Client, RepairCorruptObject(c) PROVE StoreTypeOK'
  BY <1>0, <1>2 DEF RepairCorruptObject, bounds
<1>3. ASSUME NEW c \in Client, TouchIndex(c) \/ RecordObject(c)
               \/ RecordFails(c) \/ WriteIndexWithoutFlagged(c)
      PROVE  StoreTypeOK'
  BY <1>3, LedgerTypes DEF TouchIndex, RecordObject, RecordFails,
     WriteIndexWithoutFlagged, bounds
<1>4. ASSUME NEW c \in Client, Invalidate(c) \/ DiscardReferences(c)
      PROVE  StoreTypeOK'
  BY <1>0, <1>4 DEF Invalidate, DiscardReferences, bounds
<1>5. ASSUME NEW c \in Client, StageObject(c) PROVE StoreTypeOK'
  <2>1. job[c].object \in Object
    BY <1>5, AdmitOp, JobObject DEF StageObject, JobInv, LockInv
  <2> QED
    BY <1>5, <2>1 DEF StageObject, bounds
<1>6. ASSUME NEW c \in Client, AdmissionFails(c) PROVE StoreTypeOK'
  BY <1>6 DEF AdmissionFails, bounds
<1>7. ASSUME NEW c \in Client, PublishObject(c) PROVE StoreTypeOK'
  BY <1>7 DEF PublishObject, bounds
<1>8. ASSUME NEW c \in Client, AccountLedger(c) PROVE StoreTypeOK'
  <2>1. PICK n \in {0, 1} : ledger' = Accounted(n)
    BY <1>8, LedgerTypes DEF AccountLedger
  <2> QED
    BY <1>8, <2>1, LedgerTypes DEF AccountLedger, bounds
<1>9. ASSUME NEW c \in Client, WriteReference(c) PROVE StoreTypeOK'
  <2>1. job[c].result \in Result
    BY <1>9, AdmitOp, JobObject DEF WriteReference, JobInv, LockInv
  <2> QED
    BY <1>9, <2>1 DEF WriteReference, bounds
<1>10. ASSUME NEW c \in Client, DiscardPayload(c) PROVE StoreTypeOK'
  BY <1>0, <1>10, LedgerTypes DEF DiscardPayload, bounds
<1>11. ASSUME NEW c \in Client, Measure(c) PROVE StoreTypeOK'
  BY <1>11, LedgerTypes DEF Measure, bounds
<1>12. ASSUME NEW c \in Client, NEW d \in Object,
              EvictReferences(c, d) \/ RemoveCorruptObject(c, d)
       PROVE  StoreTypeOK'
  BY <1>0, <1>12 DEF EvictReferences, RemoveCorruptObject,
     RemoveReferencesFor, bounds
<1>13. ASSUME NEW c \in Client, RemovePayload(c) PROVE StoreTypeOK'
  BY <1>0, <1>13 DEF RemovePayload, bounds
<1>14. ASSUME NEW c \in Client, Settle(c) PROVE StoreTypeOK'
  BY <1>14, LedgerTypes DEF Settle, bounds
<1>15. ASSUME NEW c \in Client, RepairResidue(c) PROVE StoreTypeOK'
  BY <1>15, LedgerTypes DEF RepairResidue, bounds
<1>16. ASSUME NEW c \in Client, RepairReferences(c) PROVE StoreTypeOK'
  BY <1>0, <1>16, LedgerTypes DEF RepairReferences, bounds
<1>17. ASSUME NEW c \in Client, ClientDies(c) PROVE StoreTypeOK'
  BY <1>17, UnsettledObjects, LedgerTypes DEF ClientDies
<1>18. ASSUME NEW d \in Object, Corrupt(d) PROVE StoreTypeOK'
  BY <1>18 DEF Corrupt
<1>19. CASE UNCHANGED cacheVars
  BY <1>19 DEF cacheVars, store, bounds
<1> QED
  BY <1>1, <1>2, <1>3, <1>4, <1>5, <1>6, <1>7, <1>8, <1>9, <1>10, <1>11,
     <1>12, <1>13, <1>14, <1>15, <1>16, <1>17, <1>18, <1>19
     DEF CacheNext, LookupStep, AdmitStep, RoomStep, RepairStep

LEMMA JobInit == CacheInit => StoreTypeOK /\ JobInv
<1> SUFFICES ASSUME CacheInit PROVE JobInv
  BY CacheTypeInit
<1>1. /\ \A c \in Client : job[c] = Idle
      /\ mutation = NoClient /\ \A d \in Object : guard[d] = NoClient
  BY DEF CacheInit
<1>2. /\ Shape(Idle) /\ Must(Idle) = {} /\ Idle.at = "idle"
  BY DEF Shape, Must, Idle
<1>3. JobShapes /\ MutationIsHeld
  BY <1>1, <1>2 DEF JobShapes, MutationIsHeld, UnderMutation, Making
<1>4. GuardsAreNeeded /\ GuardsAreHeld /\ VictimIsGuarded
  BY <1>1, <1>2 DEF GuardsAreNeeded, GuardsAreHeld, VictimIsGuarded
<1> QED
  BY <1>3, <1>4, CacheTypeInit DEF JobInv, LockInv

-----------------------------------------------------------------------------
(***************************************************************************)
(* Waiting.                                                                *)
(***************************************************************************)

\* An artifact is guarded before its manifest, and both before the mutation
\* guard, whose holder waits for nothing: no circle is longer than that.
LEMMA NoCircle ==
  ASSUME JobInv PROVE NoCircularWait
<1> SUFFICES ASSUME NEW waiting \in (SUBSET Client) \ {{}},
                    \A c \in waiting : WaitsFor(c) \cap waiting # {}
             PROVE  FALSE
  BY DEF NoCircularWait
<1>1. \A c \in waiting : mutation # c
  <2> SUFFICES ASSUME NEW c \in waiting, mutation = c PROVE FALSE
    OBVIOUS
  <2>1. job[c].at \in UnderMutation
    BY DEF JobInv, LockInv, MutationIsHeld
  <2> QED
    BY <2>1 DEF WaitsFor, UnderMutation, Making
<1>2. \A c \in waiting :
        /\ job[c].at = "object"
        /\ guard[job[c].object] \in waiting
  <2> SUFFICES ASSUME NEW c \in waiting
               PROVE  /\ job[c].at = "object"
                      /\ guard[job[c].object] \in waiting
    OBVIOUS
  <2>1. mutation \notin waiting
    BY <1>1
  <2>2. WaitsFor(c) \cap waiting # {}
    OBVIOUS
  <2>3. CASE job[c].at = "object"
    BY <2>2, <2>3 DEF WaitsFor
  <2>4. CASE job[c].at # "object"
    BY <2>1, <2>2, <2>4 DEF WaitsFor
  <2> QED
    BY <2>3, <2>4
\* Who waits for an object has at most the artifact, and waits for a manifest.
<1>3. \A c \in waiting :
        /\ job[c].object \in Object
        /\ \A d \in Object : guard[d] = c =>
             d \in Artifact /\ job[c].object \in Result
  <2> SUFFICES ASSUME NEW c \in waiting
               PROVE  /\ job[c].object \in Object
                      /\ \A d \in Object : guard[d] = c =>
                           d \in Artifact /\ job[c].object \in Result
    OBVIOUS
  <2>1. job[c].at = "object" /\ Shape(job[c]) /\ job[c].op \in Op
    BY <1>2, JobObject DEF JobInv, LockInv, JobShapes
  <2>2. job[c].op \in {"store", "materialize"}
    BY <2>1 DEF Shape, RepairShape, Idle, Making, Op
  <2>3. /\ job[c].result \in Result /\ job[c].object \in Object
        /\ ArtifactOf[job[c].result] \in Artifact
    BY <2>2, JobObject DEF JobInv, LockInv
  <2>4. \A d \in Object : guard[d] = c => d \in May(job[c])
    BY <2>1, Mine DEF VictimOf
  <2>5. May(job[c]) \subseteq IF job[c].object = job[c].result
                              THEN {ArtifactOf[job[c].result]} ELSE {}
    BY <2>1, <2>2 DEF May, Must, Ending
  <2> QED
    BY <2>3, <2>4, <2>5
\* So nobody who waits for a manifest's guard finds another one waiting.
<1>4. PICK c \in waiting : TRUE
  OBVIOUS
<1>5. guard[job[c].object] \in waiting /\ job[c].object \in Artifact
  BY <1>2, <1>3
<1>6. PICK e \in waiting : e = guard[job[c].object]
  BY <1>5
<1>7. job[e].object \in Result
  BY <1>3, <1>6
<1>8. guard[job[e].object] \in waiting /\ job[e].object \in Artifact
  BY <1>2, <1>3
<1> QED
  BY <1>7, <1>8

-----------------------------------------------------------------------------
(***************************************************************************)
(* What is in the store.                                                   *)
(***************************************************************************)

LEMMA SecuredIsHeld ==
  ASSUME JobInv, NEW c \in Client
  PROVE  /\ Secured(job[c]) \subseteq Must(job[c])
         /\ \A d \in Secured(job[c]) : d \in Object /\ guard[d] = c
<1>1. Secured(job[c]) \subseteq Must(job[c])
  BY DEF Secured, Must, HasObject, Making, Ending
<1> QED
  BY <1>1, MustObjects, Mine

\* Only the client that has guarded an object changes it.
LEMMA OwnObjects ==
  ASSUME StoreTypeOK, JobInv, NEW c \in Client, NEW d \in Object,
         \/ Begin(c) \/ LookupStep(c) \/ AdmitStep(c) \/ RoomStep(c)
         \/ RepairStep(c) \/ ClientDies(c)
  PROVE  object'[d] = object[d] \/ guard[d] = c
<1>1. CASE RepairCorruptObject(c)
  <2>1. job[c].at = "quarantine" /\ job[c].op \in {"store", "materialize"}
    BY <1>1, Mine, JobObject DEF RepairCorruptObject, Shape, RepairShape,
       Making, Idle, Op, JobInv, LockInv
  <2>2. guard[job[c].object] = c
    BY <2>1, Mine DEF Must, Ending
  <2> QED
    BY <1>1, <2>2 DEF RepairCorruptObject, StoreTypeOK
<1>2. CASE PublishObject(c)
  <2>1. job[c].at = "publish" /\ job[c].op = "store"
    BY <1>2, AdmitOp DEF PublishObject
  <2>2. guard[job[c].object] = c
    BY <2>1, Mine DEF Must, Ending
  <2> QED
    BY <1>2, <2>2 DEF PublishObject, StoreTypeOK
<1>3. CASE DiscardPayload(c)
  <2>1. job[c].at = "discarding" /\ job[c].op = "store"
    BY <1>3, AdmitOp DEF DiscardPayload
  <2>2. guard[job[c].object] = c
    BY <2>1, Mine DEF Must, Ending
  <2> QED
    BY <1>3, <2>2 DEF DiscardPayload, StoreTypeOK
<1>4. CASE RemovePayload(c)
  BY <1>4 DEF RemovePayload, StoreTypeOK, JobInv, LockInv, VictimIsGuarded
<1>5. CASE Begin(c)
  BY <1>5, Zenon DEF Begin, Store, Materialize, RepairSharedCache, Begins,
     store
<1>6. CASE LookupStep(c)
  BY <1>1, <1>6 DEF LookupStep, AcquireObject, VerifyObject, Touch, TouchIndex,
     Copy, CopyFails, Invalidate, store
<1>7. CASE AdmitStep(c)
  BY <1>2, <1>3, <1>7 DEF AdmitStep, StageObject, AdmissionFails,
     RecordObject, RecordFails, Rollback, AccountLedger, BeginReference,
     WriteReference, DiscardReferences, DiscardRetained, GiveUp, store
<1>8. CASE RoomStep(c)
  BY <1>4, <1>8, Zenon DEF RoomStep, TrustLedger, Measure, BeginEviction,
     PreserveLive, EvictReferences, RemoveReferencesFor,
     WriteIndexWithoutFlagged, Settle, store
<1>9. CASE RepairStep(c)
  BY <1>9, Zenon DEF RepairStep, RepairResidue, RepairReferences, KeepObject,
     RemoveCorruptObject, RemoveReferencesFor, store
<1>10. CASE ClientDies(c)
  BY <1>10 DEF ClientDies
<1> QED
  BY <1>5, <1>6, <1>7, <1>8, <1>9, <1>10

LEMMA SecuredTurn ==
  ASSUME NEW j \in JobType, NEW k \in JobType,
         k.op = j.op, k.result = j.result, k.object = j.object,
         Ending(j) => Ending(k),
         k.at \in HasObject => j.at \in HasObject
  PROVE  Secured(k) \subseteq Secured(j)
  BY DEF Secured

LEMMA SecuredAdvance ==
  ASSUME NEW j \in JobType, Shape(j), j.at \in HasObject, ~ Ending(j),
         ~ Referencing(j), j.op \in {"store", "materialize"},
         NEW i \in SUBSET Object
  PROVE  Secured(Advance([j EXCEPT !.inserted = i])) \subseteq Secured(j)
<1> DEFINE l == [j EXCEPT !.inserted = i]
<1>0. /\ l \in JobType /\ l.op = j.op /\ l.result = j.result
      /\ l.object = j.object /\ l.at = j.at /\ l.purpose = j.purpose
  BY DEF JobType
<1>1. CASE j.op = "materialize"
  <2>1. Advance(l).op = "materialize"
    BY <1>0, <1>1 DEF Advance, JobType
  <2> QED
    BY <2>1 DEF Secured
<1>2. CASE j.op = "store" /\ j.object = j.result
  <2>1. /\ Advance(l).op = j.op /\ Advance(l).result = j.result
        /\ Advance(l).object = j.object /\ Advance(l) \in JobType
    BY <1>0, <1>2, AdvanceType, Zenon DEF Advance, JobType
  <2> QED
    BY <2>1, SecuredTurn
<1>3. CASE j.op = "store" /\ j.object # j.result
  <2>1. /\ Advance(l).result = j.result /\ Advance(l).at = "object"
        /\ Advance(l).object = j.result
    BY <1>0, <1>3 DEF Advance, JobType
  <2>2. j.object = ArtifactOf[j.result]
    BY <1>3 DEF Shape, StoreShape, Both
  <2>3. Secured(j) = {ArtifactOf[j.result]}
    BY <1>3, <2>2 DEF Secured
  <2>4. Secured(Advance(l)) \subseteq {ArtifactOf[j.result]}
    BY <2>1 DEF Secured, HasObject, Making
  <2> QED
    BY <2>3, <2>4
<1> QED
  BY <1>1, <1>2, <1>3

LEMMA SecuredAnswer ==
  ASSUME JobInv, NEW c \in Client, NEW found \in BOOLEAN,
         job[c].at \in {"room", "settle"}
  PROVE  Secured(RoomFound(c, found)) \subseteq Secured(job[c])
<1> DEFINE j == job[c] k == RoomFound(c, found)
<1>0. /\ j \in JobType /\ Shape(j) /\ j.at \in HasObject
      /\ j.op = "store" => j.object \in Object
      /\ k \in JobType
  BY Mine, JobObject, RoomFoundType DEF JobInv, LockInv, HasObject, Making
<1>1. CASE j.purpose = "touch"
  <2>1. j.op \in {"store", "materialize"} /\ ~ Ending(j) /\ ~ Referencing(j)
    BY <1>0, <1>1 DEF Shape, RepairShape, Idle, JobType, Op, Ending,
       Referencing
  <2>2. CASE found
    <3>1. /\ k.op = j.op /\ k.result = j.result /\ k.object = j.object
      BY <1>0, <1>1, <2>2 DEF RoomFound, JobType
    <3> QED
      BY <1>0, <2>1, <3>1 DEF Secured
  <2>3. CASE ~ found
    <3>1. [j EXCEPT !.inserted = j.inserted] = j /\ j.inserted \in SUBSET Object
      BY <1>0 DEF JobType
    <3>2. k = Advance(j)
      BY <1>1, <2>3 DEF RoomFound
    <3> QED
      BY <1>0, <2>1, <3>1, <3>2, SecuredAdvance
  <2> QED
    BY <2>2, <2>3
<1>2. CASE j.purpose = "admit"
  <2>1. j.op = "store" /\ ~ Ending(j) /\ ~ Referencing(j)
    BY <1>0, <1>2, StorePurpose DEF Ending, Referencing, JobInv, LockInv
  <2>2. CASE found
    <3> DEFINE i == j.inserted \cup {j.object}
    <3>1. i \in SUBSET Object
      BY <1>0, <2>1 DEF JobType
    <3>2. k = Advance([j EXCEPT !.inserted = i])
      BY <1>2, <2>2 DEF RoomFound
    <3>3. Secured(Advance([j EXCEPT !.inserted = i])) \subseteq Secured(j)
      BY <1>0, <2>1, <3>1, SecuredAdvance
    <3> QED
      BY <3>2, <3>3
  <2>3. CASE ~ found
    <3>1. k.at = "discard"
      BY <1>0, <1>2, <2>3 DEF RoomFound, JobType
    <3> QED
      BY <3>1 DEF Secured, Ending
  <2> QED
    BY <2>2, <2>3
<1>3. CASE j.purpose = "reference"
  <2>1. /\ k.op = j.op /\ k.result = j.result /\ k.object = j.object
    BY <1>0, <1>3 DEF RoomFound, JobType
  <2>2. ~ Ending(j)
    BY <1>0, <1>3 DEF Ending
  <2> QED
    BY <1>0, <2>1, <2>2 DEF Secured
<1>4. CASE j.purpose \in {"repair", "discard"}
  BY <1>4 DEF RoomFound, Secured, Idle
<1> QED
  BY <1>0, <1>1, <1>2, <1>3, <1>4 DEF JobType, Purpose

\* A store only ever counts on what it counted on before, or has verified or
\* published itself.
Keeps(c) ==
  \A d \in Secured(job'[c]) :
    (d \in Secured(job[c]) /\ object'[d] = object[d]) \/ object'[d] = "good"

LEMMA KeepsTurn ==
  ASSUME NEW c \in Client, object' = object,
         job[c] \in JobType, job'[c] \in JobType,
         job'[c].op = job[c].op, job'[c].result = job[c].result,
         job'[c].object = job[c].object, Ending(job[c]) => Ending(job'[c]),
         job'[c].at \in HasObject => job[c].at \in HasObject
  PROVE  Keeps(c)
  BY SecuredTurn DEF Keeps

LEMMA OwnSecured ==
  ASSUME StoreTypeOK, JobInv, NEW c \in Client,
         \/ Begin(c) \/ LookupStep(c) \/ AdmitStep(c) \/ RoomStep(c)
         \/ RepairStep(c) \/ ClientDies(c)
  PROVE  Keeps(c)
<1> DEFINE j == job[c] k == job'[c]
<1>0. /\ j \in JobType /\ Shape(j) /\ JobTypeOK /\ k \in JobType
      /\ j.op = "store" => j.object \in Object
      /\ j.op \in {"store", "materialize"} =>
           ArtifactOf[j.result] # j.result /\ j.object \in Both(j.result)
  BY Mine, JobObject, ClientMoves DEF JobInv, LockInv, Moves
<1>1. ASSUME k.op # "store" \/ Ending(k) PROVE Keeps(c)
  BY <1>1 DEF Keeps, Secured
<1>2. CASE k = Idle
  BY <1>1, <1>2 DEF Idle
<1>3. CASE Begin(c)
  <2>1. CASE \E r \in Result : Store(c, r)
    <3>1. PICK r \in Result : Store(c, r)
      BY <2>1
    <3>2. k.at = "object" /\ k.object = ArtifactOf[r] /\ k.result = r
      BY <1>0, <3>1 DEF Store, Idle, JobTypeOK
    <3>3. ArtifactOf[r] # r
      OBVIOUS
    <3> QED
      BY <3>2, <3>3 DEF Keeps, Secured, HasObject, Making
  <2>2. CASE \E f \in Fingerprint : Materialize(c, f)
    BY <1>0, <1>1, <2>2 DEF Materialize, Idle, JobTypeOK
  <2>3. CASE RepairSharedCache(c)
    BY <1>0, <1>1, <2>3 DEF RepairSharedCache, Idle, JobTypeOK
  <2> QED
    BY <1>3, <2>1, <2>2, <2>3 DEF Begin
\* What it counts on stays the same.
<1>4. CASE AcquireObject(c) \/ Touch(c) \/ TouchIndex(c)
  BY <1>0, <1>4, KeepsTurn
     DEF AcquireObject, Touch, TouchIndex, Turns, JobTypeOK, JobType, store,
     Ending, HasObject, Making
<1>5. CASE StageObject(c) \/ RecordObject(c) \/ RecordFails(c)
             \/ BeginReference(c)
  <2>1. j.at = "record" => j.purpose = "admit"
    BY <1>0, AdmitOp DEF Shape, StoreShape
  <2> QED
    BY <1>0, <1>5, <2>1, KeepsTurn
       DEF StageObject, RecordObject, RecordFails, BeginReference, Turns,
       JobTypeOK, JobType, store, Ending, HasObject, Making
<1>6. CASE BeginEviction(c) \/ WriteIndexWithoutFlagged(c)
             \/ \E d \in Object : PreserveLive(c, d) \/ EvictReferences(c, d)
  <2>1. /\ object' = object /\ j.at \in {"room", "evict"}
        /\ job' = job \/ \E there \in Making : Turns(c, there)
    BY <1>6, Zenon DEF BeginEviction, PreserveLive, EvictReferences,
       RemoveReferencesFor, WriteIndexWithoutFlagged, store, Making
  <2>2. /\ k.op = j.op /\ k.result = j.result /\ k.object = j.object
        /\ k.purpose = j.purpose /\ k.at \in Making
    BY <1>0, <2>1 DEF Turns, JobTypeOK, JobType, Making
  <2> QED
    BY <1>0, <2>1, <2>2, KeepsTurn DEF Ending, HasObject, Making
\* It gives up, or does not store.
<1>7. CASE AdmissionFails(c) \/ Rollback(c) \/ DiscardReferences(c)
             \/ DiscardPayload(c) \/ DiscardRetained(c)
  BY <1>0, <1>1, <1>7
     DEF AdmissionFails, Rollback, DiscardReferences, DiscardPayload,
     DiscardRetained, Turns, JobTypeOK, JobType, Ending
<1>8. CASE RepairStep(c)
  <2>1. j.at \in {"repair", "verifying"} /\ k.op = j.op
    <3>1. CASE RepairResidue(c) \/ \E d \in Object : RemoveCorruptObject(c, d)
      <4>1. j.at \in {"repair", "verifying"}
            /\ \E there \in At : Turns(c, there)
        BY <3>1, Zenon DEF RepairResidue, RemoveCorruptObject,
           RemoveReferencesFor, At
      <4> QED
        BY <1>0, <4>1 DEF Turns, JobTypeOK, JobType
    <3>2. CASE RepairReferences(c)
      BY <1>0, <3>2 DEF RepairReferences, JobTypeOK, JobType
    <3>3. CASE \E d \in Object : KeepObject(c, d)
      BY <3>3 DEF KeepObject
    <3> QED
      BY <1>8, <3>1, <3>2, <3>3 DEF RepairStep
  <2>2. j.op # "store"
    BY <1>0, <2>1 DEF Shape, StoreShape, Finding, Making
  <2> QED
    BY <1>1, <2>1, <2>2
<1>9. CASE CopyFails(c) \/ Invalidate(c) \/ WriteReference(c) \/ GiveUp(c)
             \/ ClientDies(c)
  BY <1>0, <1>2, <1>9 DEF CopyFails, Invalidate, WriteReference, GiveUp,
     ClientDies, JobTypeOK
<1>10. CASE Copy(c)
  <2>1. j.op # "store"
    BY <1>0, <1>10 DEF Copy, Shape, StoreShape, Finding, Making
  <2>2. k.op # "store"
    BY <1>0, <1>10, <2>1 DEF Copy, JobTypeOK, JobType, Idle
  <2> QED
    BY <1>1, <2>2
\* It looks at its object, or changes it.
<1>11. CASE VerifyObject(c)
  <2>1. CASE object[j.object] = "good"
    <3>1. /\ k.op = j.op /\ k.result = j.result /\ k.object = j.object
          /\ object' = object
      BY <1>0, <1>11 DEF VerifyObject, Turns, JobTypeOK, JobType, store
    <3>2. ~ Ending(j)
      BY <1>11 DEF VerifyObject, Ending
    <3> QED
      BY <2>1, <3>1, <3>2 DEF Keeps, Secured
  <2>2. CASE object[j.object] # "good"
    <3>1. /\ k.op = j.op /\ k.result = j.result /\ k.object = j.object
          /\ object' = object
          /\ k.at \in {"quarantine", "stage", "invalidate"}
      BY <1>0, <1>11, <2>2
         DEF VerifyObject, NotFound, Turns, JobTypeOK, JobType, store
    <3>2. ~ Ending(j)
      BY <1>11 DEF VerifyObject, Ending
    <3> QED
      BY <1>0, <3>1, <3>2, KeepsTurn DEF HasObject, Making
  <2> QED
    BY <2>1, <2>2
<1>12. CASE RepairCorruptObject(c)
  <2>1. CASE j.op = "store"
    <3>1. /\ k.op = j.op /\ k.result = j.result /\ k.object = j.object
          /\ object' = [object EXCEPT ![j.object] = "absent"]
          /\ k.at \notin HasObject /\ ~ Ending(j)
      BY <1>0, <1>12 DEF RepairCorruptObject, NotFound, Turns, JobTypeOK,
         JobType, HasObject, Making, Ending
    <3>2. Secured(k) \subseteq Secured(j) \ {j.object}
      BY <1>0, <2>1, <3>1 DEF Secured, Both
    <3> QED
      BY <3>1, <3>2, SecuredIsHeld DEF Keeps, StoreTypeOK
  <2>2. CASE j.op # "store"
    <3>1. k.op = j.op
      BY <1>0, <1>12 DEF RepairCorruptObject, Turns, JobTypeOK, JobType
    <3> QED
      BY <1>1, <2>2, <3>1
  <2> QED
    BY <2>1, <2>2
<1>13. CASE PublishObject(c)
  <2>1. /\ k.op = j.op /\ k.result = j.result /\ k.object = j.object
        /\ object' = [object EXCEPT ![j.object] = "good"] /\ ~ Ending(j)
    BY <1>0, <1>13 DEF PublishObject, JobTypeOK, JobType, Ending
  <2>2. j.object \in Object
    BY <1>0, <1>13, AdmitOp DEF PublishObject
  <2>3. Secured(k) \subseteq Secured(j) \cup {j.object}
    BY <2>1 DEF Secured
  <2> QED
    BY <2>1, <2>2, <2>3, SecuredIsHeld DEF Keeps, StoreTypeOK
<1>14. CASE RemovePayload(c)
  <2>1. /\ k.op = j.op /\ k.result = j.result /\ k.object = j.object
        /\ object' = [object EXCEPT ![batch.victim] = "absent"]
        /\ j.at = "unlink" /\ ~ Ending(j)
    BY <1>0, <1>14 DEF RemovePayload, Turns, JobTypeOK, JobType, Ending
  <2>2. batch.victim \notin Must(j)
    BY <2>1 DEF JobInv, LockInv, VictimIsGuarded
  <2>3. Secured(k) \subseteq Secured(j)
    BY <2>1 DEF Secured, HasObject, Making
  <2> QED
    BY <2>1, <2>2, <2>3, SecuredIsHeld DEF Keeps, StoreTypeOK
\* It has room, or not.
<1>15. CASE AccountLedger(c)
  <2>1. /\ j.at = "account" /\ object' = object /\ k = AfterAccount(j)
    BY <1>0, <1>15 DEF AccountLedger, JobTypeOK
  <2>2. CASE j.purpose = "touch"
    <3>1. j.op \in {"store", "materialize"} /\ ~ Ending(j) /\ ~ Referencing(j)
      BY <1>0, <2>1, <2>2 DEF Shape, RepairShape, Idle, JobType, Op, Ending,
         Referencing, Making
    <3>2. [j EXCEPT !.inserted = j.inserted] = j /\ j.inserted \in SUBSET Object
      BY <1>0 DEF JobType
    <3>3. k = Advance(j)
      BY <2>1, <2>2 DEF AfterAccount
    <3>4. Secured(Advance(j)) \subseteq Secured(j)
      BY <1>0, <2>1, <3>1, <3>2, SecuredAdvance DEF HasObject
    <3> QED
      BY <2>1, <3>3, <3>4 DEF Keeps
  <2>3. CASE j.purpose \in {"admit", "reference"}
    BY <1>0, <2>1, <2>3, KeepsTurn
       DEF AfterAccount, JobType, Ending, HasObject
  <2>4. CASE j.purpose \notin {"touch", "admit", "reference"}
    <3>1. k.at = "giveup"
      BY <1>0, <2>1, <2>4 DEF AfterAccount, JobType
    <3> QED
      BY <1>1, <3>1 DEF Ending
  <2> QED
    BY <2>2, <2>3, <2>4
<1>16. ASSUME NEW found \in BOOLEAN, Answer(c, found), object' = object,
              j.at \in {"room", "settle"}
       PROVE  Keeps(c)
  <2>1. k = RoomFound(c, found)
    BY <1>0, <1>16 DEF Answer, JobTypeOK
  <2> QED
    BY <1>16, <2>1, SecuredAnswer DEF Keeps
<1>17. CASE TrustLedger(c) \/ Measure(c)
  BY <1>16, <1>17 DEF TrustLedger, Measure, store
<1>18. CASE Settle(c)
  <2>1. j.at = "settle" /\ object' = object
    BY <1>18 DEF Settle
  <2>2. CASE Turns(c, "evict")
    BY <1>0, <2>1, <2>2, KeepsTurn
       DEF Turns, JobTypeOK, JobType, Ending, HasObject, Making
  <2>3. CASE Answer(c, Tree + Additional(c) <= Budget)
    <3>1. (Tree + Additional(c) <= Budget) \in BOOLEAN
      OBVIOUS
    <3> QED
      BY <1>16, <2>1, <2>3, <3>1
  <2> QED
    BY <1>18, <2>2, <2>3 DEF Settle
<1> QED
  BY <1>3, <1>4, <1>5, <1>6, <1>7, <1>8, <1>9, <1>10, <1>11, <1>12, <1>13,
     <1>14, <1>15, <1>17, <1>18 DEF LookupStep, AdmitStep, RoomStep

LEMMA WhoArrives ==
  ASSUME JobInv, NEW c \in Client,
         \/ Begin(c) \/ LookupStep(c) \/ AdmitStep(c) \/ RoomStep(c)
         \/ RepairStep(c) \/ ClientDies(c)
  PROVE  /\ \/ VerifyObject(c) \/ RepairCorruptObject(c)
            \/ job'[c].at \notin {"quarantine", "invalidate"}
         /\ DiscardReferences(c) \/ job'[c].at # "discarding"
         /\ \/ \E d \in Object :
                 EvictReferences(c, d) \/ RemoveCorruptObject(c, d)
            \/ job'[c].at # "unlink"
<1> DEFINE k == job'[c]
<1>0. job \in [Client -> JobType] /\ job[c] \in JobType
  BY DEF JobInv, JobTypeOK
<1>1. CASE k = Idle
  BY <1>1 DEF Idle
<1>2. ASSUME NEW there \in {"verify", "account", "publish", "giveup", "record",
                            "rollback", "discard", "discarding", "evict",
                            "unlink", "verifying", "settle"},
             Turns(c, there)
      PROVE  k.at = there
  BY <1>0, <1>2 DEF Turns, JobType
<1>3. CASE Begin(c)
  <2>1. \/ \E r \in Result : k = [Idle EXCEPT !.op = "store", !.result = r,
                        !.object = ArtifactOf[r], !.at = "object"]
        \/ \E f \in Fingerprint : k =
             [Idle EXCEPT !.op = "materialize", !.result = reference[f],
              !.object = reference[f], !.at = "object"]
        \/ k = [Idle EXCEPT !.op = "repair", !.at = "repair"]
    BY <1>0, <1>3 DEF Begin, Store, Materialize, RepairSharedCache
  <2>2. k.at \in {"object", "repair"}
    BY <2>1 DEF Idle
  <2> QED
    BY <2>2
<1>4. CASE AcquireObject(c) \/ TouchIndex(c) \/ StageObject(c)
             \/ AdmissionFails(c) \/ RecordObject(c) \/ RecordFails(c)
             \/ Rollback(c) \/ DiscardReferences(c) \/ BeginEviction(c)
             \/ WriteIndexWithoutFlagged(c) \/ RepairResidue(c)
  BY <1>2, <1>4 DEF AcquireObject, TouchIndex, StageObject, AdmissionFails,
     RecordObject, RecordFails, Rollback, DiscardReferences, BeginEviction,
     WriteIndexWithoutFlagged, RepairResidue
<1>5. CASE RemovePayload(c)
  BY <1>2, <1>5 DEF RemovePayload
<1>6. CASE \E d \in Object : EvictReferences(c, d) \/ RemoveCorruptObject(c, d)
  BY <1>2, <1>6, Zenon DEF EvictReferences, RemoveCorruptObject,
     RemoveReferencesFor
<1>7. CASE \E d \in Object : PreserveLive(c, d) \/ KeepObject(c, d)
  BY <1>7 DEF PreserveLive, KeepObject
<1>16. CASE VerifyObject(c) \/ RepairCorruptObject(c)
  <2>1. k.at \in {"touch", "quarantine", "stage", "invalidate"}
    BY <1>0, <1>16 DEF VerifyObject, RepairCorruptObject, NotFound, Turns,
       JobType
  <2> QED
    BY <1>16, <2>1
<1>8. CASE Touch(c) \/ PublishObject(c) \/ BeginReference(c)
             \/ DiscardPayload(c) \/ DiscardRetained(c) \/ RepairReferences(c)
  BY <1>0, <1>8 DEF Touch, PublishObject, BeginReference, DiscardPayload,
     DiscardRetained, RepairReferences, JobType
<1>9. CASE CopyFails(c) \/ Invalidate(c) \/ WriteReference(c) \/ GiveUp(c)
             \/ ClientDies(c)
  BY <1>0, <1>1, <1>9 DEF CopyFails, Invalidate, WriteReference, GiveUp,
     ClientDies
<1>10. CASE Copy(c)
  BY <1>0, <1>1, <1>10 DEF Copy, JobType
<1>11. \A j \in JobType : Advance(j).at \in {"copy", "reference", "object"}
  BY DEF Advance, JobType
<1>12. CASE AccountLedger(c)
  <2>1. k = AfterAccount(job[c])
    BY <1>0, <1>12 DEF AccountLedger
  <2> QED
    BY <1>0, <1>11, <2>1 DEF AfterAccount, JobType
<1>13. ASSUME NEW found \in BOOLEAN, Answer(c, found)
       PROVE  k.at \notin {"quarantine", "invalidate", "discarding",
                            "unlink"}
  <2>1. k = RoomFound(c, found)
    BY <1>0, <1>13 DEF Answer
  <2>2. CASE job[c].purpose = "admit" /\ found
    <3>1. job[c].object \in Object
      BY <2>2, StorePurpose, JobObject DEF JobInv, LockInv
    <3>2. [job[c] EXCEPT !.inserted = @ \cup {job[c].object}] \in JobType
      BY <1>0, <3>1 DEF JobType
    <3> QED
      BY <1>11, <2>1, <2>2, <3>2 DEF RoomFound
  <2>3. CASE ~ (job[c].purpose = "admit" /\ found)
    BY <1>0, <1>11, <2>1, <2>3 DEF RoomFound, JobType, Idle
  <2> QED
    BY <2>2, <2>3
<1>14. CASE TrustLedger(c) \/ Measure(c)
  BY <1>13, <1>14 DEF TrustLedger, Measure
<1>15. CASE Settle(c)
  <2>1. (Tree + Additional(c) <= Budget) \in BOOLEAN
    OBVIOUS
  <2> QED
    BY <1>2, <1>13, <1>15, <2>1 DEF Settle
<1> QED
  BY <1>3, <1>4, <1>5, <1>6, <1>7, <1>8, <1>9, <1>10, <1>12, <1>14, <1>15,
     <1>16
     DEF LookupStep, AdmitStep, RoomStep, RepairStep

LEMMA ObjectValues ==
  ASSUME StoreTypeOK, JobInv, NEW c \in Client,
         \/ Begin(c) \/ LookupStep(c) \/ AdmitStep(c) \/ RoomStep(c)
         \/ RepairStep(c) \/ ClientDies(c)
  PROVE  /\ \A d \in Object : object'[d] \in {object[d], "absent", "good"}
         /\ corrupted' = corrupted
<1> USE DEF StoreTypeOK
<1>1. CASE Begin(c)
  BY <1>1, Zenon DEF Begin, Store, Materialize, RepairSharedCache, Begins,
     store
<1>2. CASE LookupStep(c)
  BY <1>2, SMTT(30) DEF LookupStep, AcquireObject, VerifyObject,
     RepairCorruptObject,
     Touch, TouchIndex, Copy, CopyFails, Invalidate, store, bounds
<1>3. CASE AdmitStep(c)
  BY <1>3 DEF AdmitStep, StageObject, AdmissionFails, PublishObject,
     RecordObject, RecordFails, Rollback, AccountLedger, BeginReference,
     WriteReference, DiscardReferences, DiscardPayload, DiscardRetained,
     GiveUp, store, bounds
<1>4. CASE RoomStep(c)
  BY <1>4, Zenon DEF RoomStep, TrustLedger, Measure, BeginEviction,
     PreserveLive, EvictReferences, RemoveReferencesFor, RemovePayload,
     WriteIndexWithoutFlagged, Settle, store, bounds
<1>5. CASE RepairStep(c)
  BY <1>5, Zenon DEF RepairStep, RepairResidue, RepairReferences, KeepObject,
     RemoveCorruptObject, RemoveReferencesFor, store, bounds
<1>6. CASE ClientDies(c)
  BY <1>6 DEF ClientDies
<1> QED
  BY <1>1, <1>2, <1>3, <1>4, <1>5, <1>6

LEMMA ObjectStep ==
  ASSUME StoreTypeOK, JobInv, ObjectInv, [CacheNext]_cacheVars
  PROVE  ObjectInv'
<1> USE DEF ObjectInv
<1>1. ASSUME NEW c \in Client,
             \/ Begin(c) \/ LookupStep(c) \/ AdmitStep(c) \/ RoomStep(c)
             \/ RepairStep(c) \/ ClientDies(c)
      PROVE  ObjectInv'
  <2>0. /\ \A e \in Client \ {c} : job'[e] = job[e]
        /\ \A e \in Client \ {c} : \A d \in Object :
             guard[d] = e => object'[d] = object[d]
        /\ \A e \in Client : Must(job[e]) \subseteq Object
        /\ \A e \in Client : \A d \in Must(job[e]) : guard[d] = e
        /\ JobTypeOK
    <3>1. Moves(c) /\ JobTypeOK
      BY <1>1, ClientMoves DEF JobInv
    <3> QED
      BY <1>1, <3>1, BecomingType, OwnObjects, MustObjects
         DEF Moves, JobInv, LockInv, GuardsAreHeld
  <2>1. BadIsCorrupted'
    BY <1>1, ObjectValues DEF BadIsCorrupted
  <2>2. SecuredIsThere'
    <3> SUFFICES ASSUME NEW e \in Client, NEW d \in Secured(job'[e])
                 PROVE  ~ Gone(d)'
      BY DEF SecuredIsThere
    <3>1. CASE e = c
      <4>1. (d \in Secured(job[c]) /\ object'[d] = object[d])
            \/ object'[d] = "good"
        BY <1>1, <3>1, OwnSecured DEF Keeps
      <4>2. CASE object'[d] = "good"
        BY <4>2 DEF Gone
      <4>3. CASE d \in Secured(job[c]) /\ object'[d] = object[d]
        <5>1. d \in Object /\ ~ Gone(d)
          BY <4>3, SecuredIsHeld DEF SecuredIsThere
        <5> QED
          BY <1>1, <4>3, <5>1, ObjectValues DEF Gone
      <4> QED
        BY <4>1, <4>2, <4>3
    <3>2. CASE e # c
      <4>1. d \in Secured(job[e]) /\ d \in Object /\ guard[d] = e
        BY <2>0, <3>2, SecuredIsHeld
      <4>2. ~ Gone(d) /\ object'[d] = object[d]
        BY <2>0, <3>2, <4>1 DEF SecuredIsThere
      <4> QED
        BY <1>1, <4>1, <4>2, ObjectValues DEF Gone
    <3> QED
      BY <3>1, <3>2
  <2>3. /\ job'[c].at = "quarantine" => job'[c].object \in corrupted
        /\ job'[c].at = "invalidate" => object'[job'[c].object] # "good"
    <3>1. CASE VerifyObject(c)
      <4>1. /\ job'[c].object = job[c].object /\ object' = object
            /\ job'[c].at = "quarantine" => object[job[c].object] = "bad"
            /\ job'[c].at = "invalidate" => object[job[c].object] # "good"
        BY <2>0, <3>1 DEF VerifyObject, NotFound, Turns, JobTypeOK, JobType,
           store
      <4>2. job[c].at = "verify"
        BY <3>1 DEF VerifyObject
      <4>3. job[c].op \in {"store", "materialize"}
        BY <4>2, Mine, JobObject DEF Shape, RepairShape, Making, Idle, Op,
           JobInv, LockInv
      <4>4. job[c].object \in Object
        BY <4>3, JobObject DEF JobInv, LockInv
      <4> QED
        BY <4>1, <4>4 DEF BadIsCorrupted
    <3>2. CASE RepairCorruptObject(c)
      <4>1. /\ job'[c].object = job[c].object
            /\ object' = [object EXCEPT ![job[c].object] = "absent"]
            /\ job'[c].at # "quarantine"
        BY <2>0, <3>2 DEF RepairCorruptObject, NotFound, Turns, JobTypeOK,
           JobType
      <4>2. job[c].at = "quarantine"
        BY <3>2 DEF RepairCorruptObject
      <4>3. job[c].op \in {"store", "materialize"}
        BY <4>2, Mine, JobObject DEF Shape, RepairShape, Making, Idle, Op,
           JobInv, LockInv
      <4>4. job[c].object \in Object
        BY <4>3, JobObject DEF JobInv, LockInv
      <4> QED
        BY <4>1, <4>4 DEF StoreTypeOK
    <3> QED
      BY <1>1, <3>1, <3>2, WhoArrives
  <2>4. QuarantinedIsCorrupted'
    BY <1>1, <2>0, <2>3, ObjectValues, JobObject
       DEF QuarantinedIsCorrupted, JobInv, LockInv
  <2>5. InvalidIsBroken'
    <3> SUFFICES ASSUME NEW e \in Client, job'[e].at = "invalidate"
                 PROVE  object'[job'[e].object] # "good"
      BY DEF InvalidIsBroken
    <3>1. CASE e # c
      <4>1. job'[e] = job[e] /\ object[job[e].object] # "good"
        BY <2>0, <3>1 DEF InvalidIsBroken
      <4>2. job[e].op = "materialize"
        BY <4>1, Mine, JobObject DEF Shape, RepairShape, StoreShape, Finding,
           Making, Idle, Op, JobInv, LockInv
      <4>3. job[e].object \in Must(job[e])
        BY <4>1, <4>2 DEF Must
      <4> QED
        BY <2>0, <3>1, <4>1, <4>3
    <3> QED
      BY <2>3, <3>1
  <2> QED
    BY <2>1, <2>2, <2>4, <2>5
<1>2. ASSUME NEW d \in Object, Corrupt(d) PROVE ObjectInv'
  BY <1>2 DEF Corrupt, BadIsCorrupted, QuarantinedIsCorrupted,
     InvalidIsBroken, SecuredIsThere, Gone, StoreTypeOK
<1>3. CASE UNCHANGED cacheVars
  BY <1>3 DEF cacheVars, store, bounds, BadIsCorrupted,
     QuarantinedIsCorrupted, InvalidIsBroken, SecuredIsThere, Gone
<1> QED
  BY <1>1, <1>2, <1>3 DEF CacheNext

-----------------------------------------------------------------------------
(***************************************************************************)
(* References.                                                             *)
(***************************************************************************)

LEMMA EdgesReach ==
  ASSUME StoreTypeOK, NEW f \in Fingerprint, f \notin Malformed,
         NEW d \in Object, Reaches(f, d)
  PROVE  <<f, d>> \in Edges
  BY DEF Reaches, Edges, DirectEdges, Malformed, Referring, Both

LEMMA DroppedReach ==
  ASSUME StoreTypeOK, NEW gone, reference' = Dropped(gone),
         NEW f \in Fingerprint
  PROVE  /\ reference'[f] \in {reference[f], None}
         /\ f \in gone => reference'[f] = None
         /\ \A d : Reaches(f, d)' => Reaches(f, d) /\ f \notin gone
  BY DEF Dropped, Reaches

\* Once the references of an object are removed, none reaches it, and those
\* that are left were all collected.
LEMMA FlagReferences ==
  ASSUME StoreTypeOK, JobInv, ReferenceInv, NEW c \in Client, NEW d \in Object,
         EvictReferences(c, d) \/ RemoveCorruptObject(c, d)
  PROVE  /\ \A f \in Fingerprint :
              /\ reference'[f] \in {reference[f], None}
              /\ ~ Reaches(f, d)'
              /\ \A e \in Object : Reaches(f, e)' =>
                   Reaches(f, e) /\ <<f, e>> \in batch'.edges
         /\ object' = object /\ corrupted' = corrupted
         /\ batch'.victim = d /\ job'[c].at = "unlink"
<1>0. batch \in BatchType /\ JobTypeOK
  BY DEF JobInv, JobTypeOK
<1>1. ASSUME NEW edges, NEW malformed,
             RemoveReferencesFor(c, d, edges, malformed)
      PROVE  /\ reference' = Dropped(Reaching(d, edges) \cup malformed)
             /\ object' = object /\ corrupted' = corrupted
             /\ batch'.victim = d /\ batch'.edges = edges
             /\ job'[c].at = "unlink"
  BY <1>0, <1>1 DEF RemoveReferencesFor, Turns, JobTypeOK, JobType, BatchType,
     bounds
<1>2. ASSUME RemoveReferencesFor(c, d, Edges, Malformed)
      PROVE  /\ \A f \in Fingerprint :
                  /\ reference'[f] \in {reference[f], None}
                  /\ ~ Reaches(f, d)'
                  /\ \A e \in Object : Reaches(f, e)' =>
                       Reaches(f, e) /\ <<f, e>> \in Edges
  <2>1. reference' = Dropped(Reaching(d, Edges) \cup Malformed)
    BY <1>1, <1>2
  <2> SUFFICES ASSUME NEW f \in Fingerprint
               PROVE  /\ reference'[f] \in {reference[f], None}
                      /\ ~ Reaches(f, d)'
                      /\ \A e \in Object : Reaches(f, e)' =>
                           Reaches(f, e) /\ <<f, e>> \in Edges
    OBVIOUS
  <2>2. /\ reference'[f] \in {reference[f], None}
        /\ \A e : Reaches(f, e)' => Reaches(f, e)
                   /\ f \notin Reaching(d, Edges) \cup Malformed
    BY <2>1, DroppedReach
  <2>3. \A e \in Object : Reaches(f, e)' =>
          Reaches(f, e) /\ <<f, e>> \in Edges
    BY <2>2, EdgesReach
  <2>4. ~ Reaches(f, d)'
    BY <2>2, <2>3 DEF Reaching, Reaches, Referring
  <2> QED
    BY <2>2, <2>3, <2>4
<1>3. ASSUME RemoveReferencesFor(c, d, batch.edges, {}), batch.collected
      PROVE  /\ \A f \in Fingerprint :
                  /\ reference'[f] \in {reference[f], None}
                  /\ ~ Reaches(f, d)'
                  /\ \A e \in Object : Reaches(f, e)' =>
                       Reaches(f, e) /\ <<f, e>> \in batch.edges
  <2>1. reference' = Dropped(Reaching(d, batch.edges) \cup {})
    BY <1>1, <1>3
  <2> SUFFICES ASSUME NEW f \in Fingerprint
               PROVE  /\ reference'[f] \in {reference[f], None}
                      /\ ~ Reaches(f, d)'
                      /\ \A e \in Object : Reaches(f, e)' =>
                           Reaches(f, e) /\ <<f, e>> \in batch.edges
    OBVIOUS
  <2>2. /\ reference'[f] \in {reference[f], None}
        /\ \A e : Reaches(f, e)' => Reaches(f, e)
                   /\ f \notin Reaching(d, batch.edges) \cup {}
    BY <2>1, DroppedReach
  <2>3. \A e \in Object : Reaches(f, e)' =>
          Reaches(f, e) /\ <<f, e>> \in batch.edges
    BY <1>3, <2>2 DEF ReferenceInv, BatchIsCollected
  <2>4. ~ Reaches(f, d)'
    BY <2>2, <2>3 DEF Reaching, Reaches, Referring
  <2> QED
    BY <2>2, <2>3, <2>4
<1>4. CASE RemoveReferencesFor(c, d, Edges, Malformed)
  <2>1. /\ object' = object /\ corrupted' = corrupted
        /\ batch'.victim = d /\ batch'.edges = Edges
        /\ job'[c].at = "unlink"
    BY <1>1, <1>4
  <2> QED
    BY <1>2, <1>4, <2>1, Zenon
<1>5. CASE RemoveReferencesFor(c, d, batch.edges, {}) /\ batch.collected
  BY <1>1, <1>3, <1>5
<1> QED
  BY <1>4, <1>5 DEF EvictReferences, RemoveCorruptObject

\* A reference is written by a store that has both its objects.
LEMMA WriteReach ==
  ASSUME StoreTypeOK, JobInv, ObjectInv, ReferenceInv, NEW c \in Client,
         WriteReference(c)
  PROVE  /\ ReferencesAreThere'
         /\ object' = object /\ corrupted' = corrupted /\ batch' = batch
         /\ job'[c] = Idle
<1>1. /\ job[c].at = "write" /\ job[c].op = "store"
      /\ object' = object /\ corrupted' = corrupted /\ batch' = batch
      /\ job'[c] = Idle
      /\ reference' = [reference EXCEPT ![FingerprintOf[job[c].result]]
                                          = job[c].result]
  BY AdmitOp DEF WriteReference, bounds, JobInv, JobTypeOK
<1>2. job[c].object = job[c].result /\ ~ Ending(job[c])
  BY <1>1, Mine DEF Shape, StoreShape, Referencing, Ending
<1>3. Secured(job[c]) = Both(job[c].result)
  BY <1>1, <1>2 DEF Secured, Both, HasObject
<1>4. ASSUME NEW f \in Fingerprint, NEW d \in Object, Reaches(f, d)'
      PROVE  ~ Gone(d)'
  <2>1. d \in Both(job[c].result) \/ Reaches(f, d)
    BY <1>1, <1>4 DEF Reaches, StoreTypeOK, Both
  <2>2. ~ Gone(d)
    BY <1>3, <2>1 DEF ObjectInv, SecuredIsThere, ReferenceInv,
       ReferencesAreThere
  <2> QED
    BY <1>1, <2>2 DEF Gone
<1> QED
  BY <1>1, <1>4 DEF ReferencesAreThere

\* References change only under the mutation guard, and otherwise only go.
LEMMA ReferenceChanges ==
  ASSUME StoreTypeOK, JobInv, NEW c \in Client,
         \/ Begin(c) \/ LookupStep(c) \/ AdmitStep(c) \/ RoomStep(c)
         \/ RepairStep(c) \/ ClientDies(c)
  PROVE  /\ reference' = reference \/ mutation \in {c, NoClient}
         /\ WriteReference(c)
            \/ \A f \in Fingerprint : reference'[f] \in {reference[f], None}
<1>0. \A gone : \A f \in Fingerprint : Dropped(gone)[f] \in {reference[f], None}
  BY DEF Dropped
<1>1. job[c].at \in {"write", "discard", "evict", "verifying"}
        => mutation = c
  BY Mine DEF UnderMutation, Making
<1>2. CASE WriteReference(c)
  BY <1>1, <1>2 DEF WriteReference
<1>3. CASE Invalidate(c)
  BY <1>0, <1>3 DEF Invalidate
<1>4. CASE DiscardReferences(c) \/ RepairReferences(c)
  BY <1>0, <1>1, <1>4 DEF DiscardReferences, RepairReferences
<1>5. CASE \E d \in Object : EvictReferences(c, d) \/ RemoveCorruptObject(c, d)
  BY <1>0, <1>1, <1>5 DEF EvictReferences, RemoveCorruptObject,
     RemoveReferencesFor
<1>6. CASE Begin(c)
  BY <1>6, Zenon DEF Begin, Store, Materialize, RepairSharedCache, Begins,
     store
<1>7. CASE LookupStep(c)
  BY <1>3, <1>7 DEF LookupStep, AcquireObject, VerifyObject,
     RepairCorruptObject, Touch, TouchIndex, Copy, CopyFails, store
<1>8. CASE AdmitStep(c)
  BY <1>2, <1>4, <1>8 DEF AdmitStep, StageObject, AdmissionFails,
     PublishObject, RecordObject, RecordFails, Rollback, AccountLedger,
     BeginReference, DiscardPayload, DiscardRetained, GiveUp, store
<1>9. CASE RoomStep(c)
  BY <1>5, <1>9 DEF RoomStep, TrustLedger, Measure, BeginEviction,
     PreserveLive, RemovePayload, WriteIndexWithoutFlagged, Settle, store
<1>10. CASE RepairStep(c)
  BY <1>4, <1>5, <1>10 DEF RepairStep, RepairResidue, KeepObject, store
<1>11. CASE ClientDies(c)
  BY <1>11 DEF ClientDies
<1> QED
  BY <1>6, <1>7, <1>8, <1>9, <1>10, <1>11

\* What is removed is corrupt, or no reference reaches it.
LEMMA RemovalsAreUnreached ==
  ASSUME StoreTypeOK, JobInv, ObjectInv, ReferenceInv, NEW c \in Client,
         \/ Begin(c) \/ LookupStep(c) \/ AdmitStep(c) \/ RoomStep(c)
         \/ RepairStep(c) \/ ClientDies(c),
         NEW f \in Fingerprint, NEW d \in Object, Reaches(f, d)
  PROVE  object'[d] # "absent" \/ d \in corrupted
<1> USE DEF StoreTypeOK
<1>0. ~ Gone(d)
  BY DEF ReferenceInv, ReferencesAreThere
<1>1. CASE object'[d] = object[d]
  BY <1>0, <1>1 DEF Gone
<1>2. CASE RepairCorruptObject(c)
  <2>1. object' = [object EXCEPT ![job[c].object] = "absent"]
        /\ job[c].object \in corrupted
    BY <1>2 DEF RepairCorruptObject, ObjectInv, QuarantinedIsCorrupted
  <2> QED
    BY <1>0, <2>1 DEF Gone
<1>3. CASE DiscardPayload(c)
  <2>1. object' = [object EXCEPT ![job[c].object] = "absent"]
        /\ job[c].at = "discarding"
    BY <1>3 DEF DiscardPayload
  <2>2. d # job[c].object
    BY <2>1 DEF ReferenceInv, NobodyReachesRemoved
  <2> QED
    BY <1>0, <2>1, <2>2 DEF Gone
<1>4. CASE RemovePayload(c)
  <2>1. object' = [object EXCEPT ![batch.victim] = "absent"]
        /\ job[c].at = "unlink"
    BY <1>4 DEF RemovePayload
  <2>2. d # batch.victim
    BY <2>1 DEF ReferenceInv, NobodyReachesRemoved
  <2> QED
    BY <1>0, <2>1, <2>2 DEF Gone
<1>5. CASE PublishObject(c)
  BY <1>0, <1>5 DEF PublishObject, Gone
<1>6. CASE Begin(c)
  BY <1>1, <1>6, Zenon DEF Begin, Store, Materialize, RepairSharedCache,
     Begins, store
<1>7. CASE LookupStep(c)
  BY <1>1, <1>2, <1>7 DEF LookupStep, AcquireObject, VerifyObject,
     Touch, TouchIndex, Copy, CopyFails, Invalidate, store
<1>8. CASE AdmitStep(c)
  BY <1>1, <1>3, <1>5, <1>8 DEF AdmitStep, StageObject, AdmissionFails,
     RecordObject, RecordFails, Rollback, AccountLedger, BeginReference,
     WriteReference, DiscardReferences, DiscardRetained, GiveUp, store
<1>9. CASE RoomStep(c)
  BY <1>1, <1>4, <1>9, Zenon DEF RoomStep, TrustLedger, Measure, BeginEviction,
     PreserveLive, EvictReferences, RemoveReferencesFor,
     WriteIndexWithoutFlagged, Settle, store
<1>10. CASE RepairStep(c)
  BY <1>1, <1>10, Zenon DEF RepairStep, RepairResidue, RepairReferences,
     KeepObject,
     RemoveCorruptObject, RemoveReferencesFor, store
<1>11. CASE ClientDies(c)
  BY <1>1, <1>11 DEF ClientDies
<1> QED
  BY <1>6, <1>7, <1>8, <1>9, <1>10, <1>11

LEMMA ReferenceClientStep ==
  ASSUME StoreTypeOK, JobInv, ObjectInv, ReferenceInv, NEW c \in Client,
         \/ Begin(c) \/ LookupStep(c) \/ AdmitStep(c) \/ RoomStep(c)
         \/ RepairStep(c) \/ ClientDies(c)
  PROVE  ReferenceInv'
<1>0. /\ Moves(c) /\ JobTypeOK /\ JobInv'
      /\ \A e \in Client \ {c} : job'[e] = job[e]
      /\ batch \in BatchType
      /\ \A e \in Client : mutation = e <=> job[e].at \in UnderMutation
  BY ClientMoves, BecomingType, MovesKeepsLocks
     DEF JobInv, JobTypeOK, Moves, LockInv, MutationIsHeld
<1>1. ReferencesAreThere'
  <2>1. CASE WriteReference(c)
    BY <2>1, WriteReach
  <2>2. CASE ~ WriteReference(c)
    <3> SUFFICES ASSUME NEW f \in Fingerprint, NEW d \in Object, Reaches(f, d)'
                 PROVE  ~ Gone(d)'
      BY DEF ReferencesAreThere
    <3>1. Reaches(f, d)
      BY <2>2, ReferenceChanges DEF Reaches
    <3> QED
      BY <3>1, RemovalsAreUnreached, ObjectValues DEF Gone
  <2> QED
    BY <2>1, <2>2
<1>2. NobodyReachesRemoved'
  <2> SUFFICES ASSUME NEW e \in Client, NEW f \in Fingerprint
               PROVE  /\ job'[e].at = "discarding" =>
                           ~ Reaches(f, job[e].object)'
                      /\ job'[e].at = "unlink" => ~ Reaches(f, batch.victim)'
    BY DEF NobodyReachesRemoved
  <2>1. CASE e = c
    <3>1. ASSUME job'[c].at = "discarding"
          PROVE  ~ Reaches(f, job[c].object)'
      <4>1. DiscardReferences(c)
        BY <3>1, WhoArrives
      <4>2. /\ reference' = Dropped(Reaching(job[c].object, Edges)
                                    \cup Malformed)
            /\ job'[c].object = job[c].object
            /\ job[c].at = "discard"
        BY <1>0, <4>1 DEF DiscardReferences, Turns, JobTypeOK, JobType
      <4>3. PICK d \in Object : d = job[c].object
        BY <4>2, AdmitOp, JobObject DEF JobInv, LockInv
      <4>4. Reaches(f, d)' => Reaches(f, d)
                   /\ f \notin Reaching(d, Edges) \cup Malformed
        BY <4>2, <4>3, DroppedReach
      <4>5. Reaches(f, d) /\ f \notin Malformed => f \in Reaching(d, Edges)
        BY EdgesReach DEF Reaching, Reaches, Referring
      <4>6. ~ Reaches(f, d)'
        BY <4>4, <4>5
      <4>7. job'[c].object = d
        BY <4>2, <4>3
      <4> QED
        BY <4>6, <4>7 DEF Reaches
    <3>2. ASSUME job'[c].at = "unlink"
          PROVE  ~ Reaches(f, batch.victim)'
      <4>1. PICK d \in Object : EvictReferences(c,
      d) \/ RemoveCorruptObject(c, d)
        BY <3>2, WhoArrives
      <4>2. batch'.victim = d /\ ~ Reaches(f, d)'
        BY <4>1, FlagReferences
      <4> QED
        BY <4>2 DEF Reaches
    <3> QED
      BY <2>1, <3>1, <3>2
  <2>2. CASE e # c
    <3> SUFFICES ASSUME job'[e].at \in {"discarding", "unlink"}
                 PROVE  /\ job'[e].at = "discarding" =>
                             ~ Reaches(f, job[e].object)'
                        /\ job'[e].at = "unlink" =>
                             ~ Reaches(f, batch.victim)'
      OBVIOUS
    <3>1. job'[e] = job[e] /\ mutation = e
      BY <1>0, <2>2 DEF UnderMutation, Making
    <3>2. mutation' = e
      BY <1>0, <2>2, <3>1 DEF Moves, MutationMoves
    <3>3. batch' = batch
      BY <1>0, <2>2, <3>1, <3>2 DEF Moves, BatchMoves
    <3>4. reference' = reference
      BY <2>2, <3>1, ReferenceChanges
    <3> QED
      BY <3>1, <3>3, <3>4 DEF ReferenceInv, NobodyReachesRemoved, Reaches
  <2> QED
    BY <2>1, <2>2
<1>3. BatchIsCollected'
  <2>1. CASE batch' = batch /\ ~ WriteReference(c) /\ job[c].at \notin InBatch
    <3>1. batch.collected => \E e \in Client : job'[e].at \in InBatch
      BY <1>0, <2>1 DEF ReferenceInv, BatchIsCollected
    <3>2. \A f \in Fingerprint : \A d \in Object :
            Reaches(f, d)' => Reaches(f, d)
      BY <2>1, ReferenceChanges DEF Reaches
    <3> QED
      BY <2>1, <3>1, <3>2 DEF ReferenceInv, BatchIsCollected
  <2>2. CASE ~ batch'.collected
    BY <2>2 DEF BatchIsCollected
  <2>3. CASE WriteReference(c)
    <3>1. mutation = c /\ job[c].at = "write" /\ batch' = batch
      BY <1>0, <2>3 DEF WriteReference, UnderMutation
    <3>2. ~ batch.collected
      <4> SUFFICES ASSUME batch.collected PROVE FALSE
        OBVIOUS
      <4>1. PICK e \in Client : job[e].at \in InBatch
        BY DEF ReferenceInv, BatchIsCollected
      <4>2. e = c
        BY <1>0, <3>1, <4>1 DEF InBatch, UnderMutation, Making
      <4> QED
        BY <3>1, <4>1, <4>2 DEF InBatch
    <3> QED
      BY <2>2, <3>1, <3>2
  <2>4. ASSUME NEW d \in Object,
               EvictReferences(c, d) \/ RemoveCorruptObject(c, d)
        PROVE  BatchIsCollected'
    <3>1. /\ job'[c].at = "unlink"
          /\ \A f \in Fingerprint : \A e \in Object :
               Reaches(f, e)' => <<f, e>> \in batch'.edges
      BY <2>4, FlagReferences
    <3> QED
      BY <3>1 DEF BatchIsCollected, InBatch
  <2>5. ASSUME reference' = reference, job'[c].at \in InBatch,
               batch'.collected = batch.collected, batch'.edges = batch.edges
        PROVE  BatchIsCollected'
    BY <2>5 DEF ReferenceInv, BatchIsCollected, Reaches
  <2>6. CASE RemovePayload(c) \/ \E d \in Object : PreserveLive(c, d)
                                  \/ KeepObject(c, d)
    <3>1. /\ reference' = reference
          /\ batch'.collected = batch.collected /\ batch'.edges = batch.edges
      BY <1>0, <2>6, Zenon DEF RemovePayload, PreserveLive, KeepObject, store,
         BatchType
    <3>2. job'[c].at \in InBatch
      BY <1>0, <2>6 DEF RemovePayload, PreserveLive, KeepObject, Turns,
         JobTypeOK, JobType, InBatch
    <3> QED
      BY <2>5, <3>1, <3>2
  <2>7. CASE WriteIndexWithoutFlagged(c)
    <3>1. reference' = reference /\ batch' = batch /\ job'[c].at \in InBatch
      BY <1>0, <2>7 DEF WriteIndexWithoutFlagged, Turns, JobTypeOK, JobType,
         InBatch
    <3> QED
      BY <2>5, <3>1
  <2>8. ASSUME NEW found, Answer(c, found) PROVE ~ batch'.collected
    BY <2>8 DEF Answer, NoBatch
  <2>9. CASE TrustLedger(c) \/ Measure(c)
    BY <2>2, <2>8, <2>9 DEF TrustLedger, Measure
  <2>10. CASE BeginEviction(c) \/ RepairResidue(c) \/ RepairReferences(c)
    <3>1. ~ batch'.collected
      <4>1. ~ NoBatch.collected
        BY DEF NoBatch
      <4>2. ~ [NoBatch EXCEPT !.left = Present, !.bytes = Tree].collected
        BY <4>1, Zenon DEF NoBatch
      <4> QED
        BY <2>10, <4>1, <4>2 DEF BeginEviction, RepairResidue,
           RepairReferences
    <3> QED
      BY <2>2, <3>1
  <2>11. CASE Settle(c)
    <3>1. CASE Answer(c, Tree + Additional(c) <= Budget)
      BY <2>2, <2>8, <3>1
    <3>2. CASE batch' = [batch EXCEPT !.bytes = Tree] /\ Turns(c, "evict")
      <4>1. reference' = reference /\ job'[c].at \in InBatch
        BY <1>0, <2>11, <3>2 DEF Settle, Turns, JobTypeOK, JobType, InBatch
      <4>2. batch'.collected = batch.collected /\ batch'.edges = batch.edges
        BY <1>0, <3>2, Zenon DEF BatchType
      <4> QED
        BY <2>5, <4>1, <4>2
    <3> QED
      BY <2>11, <3>1, <3>2 DEF Settle
  <2>12. CASE ClientDies(c)
    <3>1. CASE mutation = c
      <4>1. batch' = NoBatch
        BY <2>12, <3>1 DEF ClientDies
      <4> QED
        BY <2>2, <4>1 DEF NoBatch
    <3>2. CASE mutation # c
      <4>1. batch' = batch /\ ~ WriteReference(c) /\ job[c].at \notin InBatch
        BY <1>0, <2>12, <3>2 DEF ClientDies, InBatch, UnderMutation, Making,
           WriteReference
      <4> QED
        BY <2>1, <4>1
    <3> QED
      BY <3>1, <3>2
  <2>13. CASE Begin(c) \/ LookupStep(c)
    <3>1. batch' = batch
      BY <2>13, Zenon DEF Begin, Store, Materialize, RepairSharedCache, Begins,
         LookupStep, AcquireObject, VerifyObject, RepairCorruptObject, Touch,
         TouchIndex, Copy, CopyFails, Invalidate
    <3>2. job[c].at \notin InBatch \cup {"write"}
      <4>1. CASE Begin(c)
        <5>1. job[c] = Idle
          BY <4>1, Zenon DEF Begin, Store, Materialize, RepairSharedCache,
             Begins
        <5> QED
          BY <5>1 DEF Idle, InBatch
      <4>2. CASE LookupStep(c)
        BY <4>2 DEF LookupStep, AcquireObject, VerifyObject,
           RepairCorruptObject, Touch, TouchIndex, Copy, CopyFails,
           Invalidate, InBatch
      <4> QED
        BY <2>13, <4>1, <4>2
    <3> QED
      BY <2>1, <3>1, <3>2 DEF WriteReference
  <2>14. CASE AdmitStep(c) /\ ~ WriteReference(c)
    <3>1. batch' = batch
      BY <2>14, SMTT(30) DEF AdmitStep, StageObject, AdmissionFails,
         PublishObject,
         RecordObject, RecordFails, Rollback, AccountLedger, BeginReference,
         DiscardReferences, DiscardPayload, DiscardRetained, GiveUp
    <3>2. job[c].at \notin InBatch
      BY <2>14 DEF AdmitStep, StageObject, AdmissionFails, PublishObject,
         RecordObject, RecordFails, Rollback, AccountLedger, BeginReference,
         DiscardReferences, DiscardPayload, DiscardRetained, GiveUp, InBatch
    <3> QED
      BY <2>1, <2>14, <3>1, <3>2, SMTT(30)
  <2> QED
    BY <2>3, <2>4, <2>6, <2>7, <2>9, <2>10, <2>11, <2>12, <2>13, <2>14
       DEF RoomStep, RepairStep
<1> QED
  BY <1>1, <1>2, <1>3 DEF ReferenceInv

LEMMA ReferenceStep ==
  ASSUME StoreTypeOK, JobInv, ObjectInv, ReferenceInv, [CacheNext]_cacheVars
  PROVE  ReferenceInv'
<1>1. ASSUME NEW d \in Object, Corrupt(d) PROVE ReferenceInv'
  BY <1>1 DEF Corrupt, ReferenceInv, ReferencesAreThere,
     NobodyReachesRemoved, BatchIsCollected, Reaches, Gone, StoreTypeOK
<1>2. CASE UNCHANGED cacheVars
  BY <1>2 DEF cacheVars, store, bounds, ReferenceInv, ReferencesAreThere,
     NobodyReachesRemoved, BatchIsCollected, Reaches, Gone
<1> QED
  BY <1>1, <1>2, ReferenceClientStep DEF CacheNext

CacheInv == StoreTypeOK /\ JobInv /\ ObjectInv /\ ReferenceInv

LEMMA CacheInvInit == CacheInit => CacheInv
<1> SUFFICES ASSUME CacheInit PROVE ObjectInv /\ ReferenceInv
  BY JobInit DEF CacheInv
<1>1. /\ \A c \in Client : job[c] = Idle
      /\ \A d \in Object : object[d] = "absent"
      /\ \A f \in Fingerprint : reference[f] = None
      /\ ~ batch.collected
  BY DEF CacheInit, NoBatch
<1>2. ObjectInv
  BY <1>1 DEF ObjectInv, BadIsCorrupted, QuarantinedIsCorrupted,
     InvalidIsBroken, SecuredIsThere, Idle, Secured
<1>3. ReferenceInv
  BY <1>1 DEF ReferenceInv, ReferencesAreThere, NobodyReachesRemoved,
     BatchIsCollected, Reaches
<1> QED
  BY <1>2, <1>3

LEMMA CacheInvStep == CacheInv /\ [CacheNext]_cacheVars => CacheInv'
  BY StoreStep, JobStep, ObjectStep, ReferenceStep DEF CacheInv

LEMMA CacheInvariant == CacheSpec => []CacheInv
  BY CacheInvInit, CacheInvStep, PTL DEF CacheSpec

LEMMA Resolving == CacheInv => ReferencesResolve
  BY DEF CacheInv, StoreTypeOK, ReferenceInv, ReferencesAreThere, Reaches,
     Gone, Both, ReferencesResolve, Referring, Object

LEMMA WholeStays ==
  ASSUME CacheInv, NEW c \in Client, Invalidate(c)
  PROVE  \/ object[job[c].result] # "good"
         \/ object[ArtifactOf[job[c].result]] # "good"
<1>1. job[c].at = "invalidate" /\ object[job[c].object] # "good"
  BY DEF Invalidate, CacheInv, ObjectInv, InvalidIsBroken
<1>2. job[c].op \in {"store", "materialize"}
  BY <1>1, Mine, JobObject DEF CacheInv, JobInv, LockInv, Shape, RepairShape,
     Making, Idle, Op
<1> QED
  BY <1>1, <1>2, JobObject DEF CacheInv, JobInv, LockInv, Both

-----------------------------------------------------------------------------
(***************************************************************************)
(* The ledger and the budget.                                              *)
(***************************************************************************)

LEMMA CountsAreFinite ==
  ASSUME StoreTypeOK
  PROVE  /\ IsFiniteSet(Admitted) /\ IsFiniteSet(Referring)
         /\ Cardinality(Admitted) \in Nat /\ Cardinality(Referring) \in Nat
         /\ Cardinality(Admitted) + Cardinality(Referring) <= Tree
         /\ Admitted \subseteq Object
<1>1. Admitted \subseteq Present
  BY DEF Admitted
<1>2. /\ IsFiniteSet(Admitted)
      /\ Cardinality(Admitted) <= Cardinality(Present)
  BY <1>1, TreeIsNat, FS_Subset
<1>3. Cardinality(Admitted) \in Nat
  BY <1>2, FS_CardinalityType
<1> QED
  BY <1>1, <1>2, <1>3, TreeIsNat DEF Present

\* The steps that settle what was published.
Answers(c) == TrustLedger(c) \/ Measure(c) \/ Settle(c)

\* Whatever a client published and did not make room for stays its own until
\* it is gone, or its client is.
LEMMA UnsettledStays ==
  ASSUME StoreTypeOK, JobInv, NEW c \in Client, ~ Answers(c),
         \/ Begin(c) \/ LookupStep(c) \/ AdmitStep(c) \/ RoomStep(c)
         \/ RepairStep(c) \/ ClientDies(c)
  PROVE  \A d \in Unsettled(c) :
           d \in Unsettled(c)' \/ d \in cutShort' \/ object'[d] = "absent"
<1> DEFINE j == job[c] k == job'[c]
<1>0. /\ j \in JobType /\ Shape(j) /\ JobTypeOK /\ k \in JobType
      /\ \A d \in Unsettled(c) : d \in Object /\ d = j.object
  BY Mine, ClientMoves, UnsettledObjects DEF JobInv, Moves, Unsettled
<1>1. CASE Unsettled(c) = {}
  BY <1>1
<1>2. CASE Unsettled(c) # {} /\ k.object = j.object /\ Unsettled(c)' # {}
  BY <1>0, <1>2 DEF Unsettled
<1>3. CASE Begin(c)
  <2>1. j = Idle
    BY <1>3, Zenon DEF Begin, Store, Materialize, RepairSharedCache, Begins
  <2> QED
    BY <1>1, <2>1 DEF Unsettled, Idle
<1>4. CASE LookupStep(c)
  <2>1. CASE j.at = "index"
    BY <1>0, <1>1, <2>1, SMTT(30) DEF Unsettled
  <2>2. CASE j.at # "index"
    BY <1>1, <1>4, <2>2 DEF LookupStep, AcquireObject, VerifyObject,
       RepairCorruptObject, Touch, TouchIndex, Copy, CopyFails, Invalidate,
       Unsettled
  <2> QED
    BY <2>1, <2>2
<1>5. CASE RecordObject(c) \/ RecordFails(c) \/ Rollback(c)
  <2>1. j.purpose = "admit"
    BY <1>0, <1>5, AdmitOp DEF RecordObject, RecordFails, Rollback, Shape,
       StoreShape
  <2>2. /\ k.object = j.object /\ k.purpose = "admit"
        /\ k.at \in {"account", "rollback", "discard"}
    BY <1>0, <1>5, <2>1 DEF RecordObject, RecordFails, Rollback, Turns,
       JobTypeOK, JobType
  <2>3. Unsettled(c)' # {}
    BY <2>2 DEF Unsettled
  <2> QED
    BY <1>1, <1>2, <2>2, <2>3
<1>6. CASE AccountLedger(c)
  <2>1. CASE j.purpose = "admit"
    <3>1. k.at = "room" /\ k.object = j.object /\ k.purpose = "admit"
      BY <1>0, <1>6, <2>1 DEF AccountLedger, AfterAccount, JobTypeOK, JobType
    <3>2. Unsettled(c)' # {}
      BY <3>1 DEF Unsettled
    <3> QED
      BY <1>1, <1>2, <3>1, <3>2
  <2>2. CASE j.purpose # "admit"
    BY <1>1, <1>6, <2>2 DEF AccountLedger, Unsettled
  <2> QED
    BY <2>1, <2>2
<1>7. CASE DiscardReferences(c)
  <2>1. /\ k.at = "discarding" /\ k.object = j.object /\ k.purpose = j.purpose
        /\ j.at = "discard"
    BY <1>0, <1>7 DEF DiscardReferences, Turns, JobTypeOK, JobType
  <2>2. Unsettled(c) # {} => Unsettled(c)' # {}
    BY <2>1 DEF Unsettled
  <2> QED
    BY <1>1, <1>2, <2>1, <2>2
<1>8. CASE DiscardPayload(c)
  BY <1>0, <1>8 DEF DiscardPayload, StoreTypeOK
<1>9. CASE StageObject(c) \/ AdmissionFails(c) \/ PublishObject(c)
             \/ BeginReference(c) \/ WriteReference(c) \/ DiscardRetained(c)
             \/ GiveUp(c)
  BY <1>1, <1>9 DEF StageObject, AdmissionFails, PublishObject, BeginReference,
     WriteReference, DiscardRetained, GiveUp, Unsettled
<1>10. CASE RoomStep(c)
  <2>1. /\ j.at \in Making
        /\ job' = job \/ \E there \in Making \cup {"verifying"} :
             /\ Turns(c, there)
             /\ there = "verifying" => j.op = "repair"
    <3>1. CASE RemovePayload(c)
      <4>1. j.op = "repair" \/ Turns(c, "evict")
        BY <3>1 DEF RemovePayload
      <4>2. Turns(c, "evict") \/ Turns(c, "verifying")
        BY <3>1 DEF RemovePayload
      <4> QED
        BY <3>1, <4>1, <4>2 DEF RemovePayload, Making
    <3>2. CASE \E d \in Object : PreserveLive(c, d) \/ EvictReferences(c, d)
      BY <3>2 DEF PreserveLive, EvictReferences, RemoveReferencesFor, Making
    <3>3. CASE BeginEviction(c) \/ WriteIndexWithoutFlagged(c)
      BY <3>3 DEF BeginEviction, WriteIndexWithoutFlagged, Making
    <3> QED
      BY <1>10, <3>1, <3>2, <3>3 DEF RoomStep, Answers
  <2>2. /\ k.object = j.object /\ k.purpose = j.purpose
        /\ k.at \in Making \/ (k.at = "verifying" /\ j.op = "repair")
    BY <1>0, <2>1 DEF Turns, JobTypeOK, JobType
  <2>3. Unsettled(c) # {} => j.op # "repair"
    BY <1>0, <2>1 DEF Unsettled, Shape, RepairShape, Making
  <2>4. Unsettled(c) # {} => Unsettled(c)' # {}
    BY <2>1, <2>2, <2>3 DEF Unsettled, Making
  <2> QED
    BY <1>1, <1>2, <2>2, <2>4
<1>11. CASE RepairStep(c)
  BY <1>1, <1>11 DEF RepairStep, RepairResidue, RepairReferences, KeepObject,
     RemoveCorruptObject, Unsettled
<1>12. CASE ClientDies(c)
  BY <1>12 DEF ClientDies
<1> QED
  BY <1>3, <1>4, <1>5, <1>6, <1>7, <1>8, <1>9, <1>10, <1>11, <1>12
     DEF AdmitStep

\* An object that was cut short stays so until it is gone.
LEMMA CutShortStays ==
  ASSUME StoreTypeOK, JobInv, NEW c \in Client, ~ Answers(c),
         \/ Begin(c) \/ LookupStep(c) \/ AdmitStep(c) \/ RoomStep(c)
         \/ RepairStep(c) \/ ClientDies(c)
  PROVE  \A d \in cutShort : d \in cutShort' \/ object'[d] = "absent"
<1> USE DEF StoreTypeOK
<1>1. CASE Begin(c)
  BY <1>1, Zenon DEF Begin, Store, Materialize, RepairSharedCache, Begins
<1>2. CASE LookupStep(c)
  BY <1>2, SMTT(30) DEF LookupStep, AcquireObject, VerifyObject,
     RepairCorruptObject,
     Touch, TouchIndex, Copy, CopyFails, Invalidate
<1>3. CASE AdmitStep(c)
  BY <1>3 DEF AdmitStep, StageObject, AdmissionFails, PublishObject,
     RecordObject, RecordFails, Rollback, AccountLedger, BeginReference,
     WriteReference, DiscardReferences, DiscardPayload, DiscardRetained,
     GiveUp
<1>4. CASE RoomStep(c)
  BY <1>4, Zenon DEF RoomStep, Answers, BeginEviction,
     PreserveLive, EvictReferences, RemoveReferencesFor, RemovePayload,
     WriteIndexWithoutFlagged
<1>5. CASE RepairStep(c)
  BY <1>5, Zenon DEF RepairStep, RepairResidue, RepairReferences, KeepObject,
     RemoveCorruptObject, RemoveReferencesFor
<1>6. CASE ClientDies(c)
  BY <1>6 DEF ClientDies
<1> QED
  BY <1>1, <1>2, <1>3, <1>4, <1>5, <1>6

\* An object that appears is one that its client has not settled.
LEMMA NewIsUnsettled ==
  ASSUME StoreTypeOK, JobInv, NEW c \in Client,
         \/ Begin(c) \/ LookupStep(c) \/ AdmitStep(c) \/ RoomStep(c)
         \/ RepairStep(c) \/ ClientDies(c)
  PROVE  \A d \in Object :
           object[d] = "absent" => object'[d] = "absent" \/ d \in Unsettled(c)'
<1> USE DEF StoreTypeOK
<1>1. CASE PublishObject(c)
  BY <1>1 DEF PublishObject, JobInv, JobTypeOK, JobType, Unsettled
<1>2. CASE Begin(c)
  BY <1>2, Zenon DEF Begin, Store, Materialize, RepairSharedCache, Begins,
     store
<1>3. CASE LookupStep(c)
  BY <1>3, SMTT(30) DEF LookupStep, AcquireObject, VerifyObject,
     RepairCorruptObject,
     Touch, TouchIndex, Copy, CopyFails, Invalidate, store
<1>4. CASE AdmitStep(c)
  BY <1>1, <1>4 DEF AdmitStep, StageObject, AdmissionFails,
     RecordObject, RecordFails, Rollback, AccountLedger, BeginReference,
     WriteReference, DiscardReferences, DiscardPayload, DiscardRetained,
     GiveUp, store
<1>5. CASE RoomStep(c)
  BY <1>5, Zenon DEF RoomStep, TrustLedger, Measure, BeginEviction,
     PreserveLive, EvictReferences, RemoveReferencesFor, RemovePayload,
     WriteIndexWithoutFlagged, Settle, store
<1>6. CASE RepairStep(c)
  BY <1>6, Zenon DEF RepairStep, RepairResidue, RepairReferences, KeepObject,
     RemoveCorruptObject, RemoveReferencesFor, store
<1>7. CASE ClientDies(c)
  BY <1>7 DEF ClientDies
<1> QED
  BY <1>2, <1>3, <1>4, <1>5, <1>6, <1>7

LEMMA AdmittedShrinks ==
  ASSUME StoreTypeOK, JobInv, NEW c \in Client,
         \/ Begin(c) \/ LookupStep(c) \/ AdmitStep(c) \/ RoomStep(c)
         \/ RepairStep(c) \/ ClientDies(c)
  PROVE  /\ ~ Answers(c) => Admitted' \subseteq Admitted
         /\ cutShort' = cutShort => Admitted' \subseteq Admitted \cup Unsettled(c)
<1>1. \A e \in Client \ {c} : Unsettled(e)' = Unsettled(e)
  <2>1. Moves(c) /\ JobTypeOK
    BY ClientMoves DEF JobInv
  <2>2. \A e \in Client \ {c} : job'[e] = job[e]
    BY <2>1, BecomingType DEF Moves
  <2> QED
    BY <2>2 DEF Unsettled
<1>2. ASSUME NEW d \in Admitted'
      PROVE  /\ d \in Object /\ object'[d] # "absent" /\ d \notin cutShort'
             /\ \A e \in Client : d \notin Unsettled(e)'
  BY <1>2 DEF Admitted, Uncounted, Admitting, Present
<1>3. ASSUME NEW d \in Object, object[d] # "absent", d \notin cutShort,
             \A e \in Client : d \notin Unsettled(e)
      PROVE  d \in Admitted
  BY <1>3 DEF Admitted, Uncounted, Admitting, Present
<1>4. ASSUME ~ Answers(c), NEW d \in Admitted' PROVE d \in Admitted
  <2>1. object[d] # "absent"
    BY <1>2, <1>4, NewIsUnsettled
  <2>2. d \notin cutShort
    BY <1>2, <1>4, CutShortStays
  <2>3. d \notin Unsettled(c)
    BY <1>2, <1>4, UnsettledStays
  <2>4. \A e \in Client : d \notin Unsettled(e)
    BY <1>1, <1>2, <1>4, <2>3
  <2> QED
    BY <1>2, <1>3, <1>4, <2>1, <2>2, <2>4
<1>5. ASSUME cutShort' = cutShort, NEW d \in Admitted', d \notin Unsettled(c)
      PROVE  d \in Admitted
  <2>1. object[d] # "absent"
    BY <1>2, <1>5, NewIsUnsettled
  <2>2. \A e \in Client : d \notin Unsettled(e)
    BY <1>1, <1>2, <1>5
  <2> QED
    BY <1>2, <1>3, <1>5, <2>1, <2>2
<1> QED
  BY <1>4, <1>5

-----------------------------------------------------------------------------
(***************************************************************************)
(* The counts, step by step.                                               *)
(***************************************************************************)

ClientTurn(c) ==
  \/ Begin(c) \/ LookupStep(c) \/ AdmitStep(c) \/ RoomStep(c)
  \/ RepairStep(c) \/ ClientDies(c)

\* What LedgerCounts and BudgetHasRoom say of one client.
OwnLedger(c) ==
  ledger.index # "unknown" =>
    /\ Cardinality(Admitted \cup Entered(c)) + Cardinality(Referring)
         <= ledger.bytes
    /\ Cardinality(Admitted) + Cardinality(Referring) + Pending(c)
         <= ledger.bytes
OwnBudget(c) ==
  Cardinality(Admitted) + Cardinality(Referring) + Promised(c) <= Budget

LEMMA OwnTypes ==
  ASSUME StoreTypeOK, JobInv, NEW c \in Client
  PROVE  /\ Pending(c) \in {0, 1} /\ Promised(c) \in {0, 1}
         /\ Additional(c) \in {0, 1}
         /\ Entered(c) \subseteq Object
         /\ IsFiniteSet(Admitted \cup Entered(c))
         /\ Cardinality(Admitted \cup Entered(c)) \in Nat
         /\ ledger.bytes \in Nat
<1>1. Additional(c) \in {0, 1} /\ ledger.bytes \in Nat
  BY DEF Additional, StoreTypeOK
<1>2. Entered(c) \subseteq Object
  BY JobObject, StorePurpose DEF Entered, JobInv, LockInv
<1>3. IsFiniteSet(Admitted \cup Entered(c))
  BY <1>2, CountsAreFinite, FiniteAssumption, FS_Subset
<1>4. Cardinality(Admitted \cup Entered(c)) \in Nat
  BY <1>3, FS_CardinalityType
<1> QED
  BY <1>1, <1>2, <1>3, <1>4 DEF Pending, Promised

\* Whoever does not hold the mutation guard has entered and promised nothing.
LEMMA HolderEnters ==
  ASSUME JobInv, NEW c \in Client, mutation # c
  PROVE  Entered(c) = {} /\ Pending(c) = 0 /\ Promised(c) = 0
  BY Mine DEF Entered, Pending, Promised, UnderMutation

\* The same facts, of the state before a step and of the one after it.
CountsFinite ==
  /\ IsFiniteSet(Admitted) /\ IsFiniteSet(Referring)
  /\ Cardinality(Admitted) \in Nat /\ Cardinality(Referring) \in Nat
  /\ Cardinality(Admitted) + Cardinality(Referring) <= Tree
  /\ ledger.bytes \in Nat
OwnFinite(c) ==
  /\ Pending(c) \in {0, 1} /\ Promised(c) \in {0, 1}
  /\ Additional(c) \in {0, 1}
  /\ IsFiniteSet(Admitted \cup Entered(c))
  /\ Cardinality(Admitted \cup Entered(c)) \in Nat
  /\ mutation # c => Entered(c) = {} /\ Pending(c) = 0 /\ Promised(c) = 0

LEMMA CountsNow == StoreTypeOK /\ JobInv => CountsFinite
  BY CountsAreFinite DEF CountsFinite, StoreTypeOK

LEMMA CountsNext == StoreTypeOK' /\ JobInv' => CountsFinite'
  BY CountsNow, PTL

LEMMA OwnNow ==
  ASSUME NEW c \in Client PROVE StoreTypeOK /\ JobInv => OwnFinite(c)
  BY OwnTypes, HolderEnters DEF OwnFinite

LEMMA OwnNext ==
  ASSUME NEW c \in Client PROVE StoreTypeOK' /\ JobInv' => OwnFinite(c)'
<1>1. StoreTypeOK /\ JobInv => OwnFinite(c)
  BY OwnNow
<1> QED
  BY <1>1, PTL

LEMMA BystanderStep ==
  ASSUME StoreTypeOK, JobInv, NEW c \in Client, ClientTurn(c),
         mutation \notin {c, NoClient}
  PROVE  ledger' = ledger /\ reference' = reference /\ ~ Answers(c)
<1>1. job[c].at \notin UnderMutation
  BY Mine
<1>2. reference' = reference
  BY <1>1, ReferenceChanges DEF ClientTurn
<1>3. ~ Answers(c)
  BY <1>1 DEF Answers, TrustLedger, Measure, Settle, UnderMutation, Making
<1>4. CASE Begin(c)
  BY <1>2, <1>3, <1>4, Zenon DEF Begin, Store, Materialize, RepairSharedCache,
     Begins, store
<1>5. CASE LookupStep(c)
  BY <1>1, <1>2, <1>3, <1>5 DEF LookupStep, AcquireObject, VerifyObject,
     RepairCorruptObject, Touch, TouchIndex, Copy, CopyFails, Invalidate,
     store, UnderMutation
<1>6. CASE AdmitStep(c)
  BY <1>1, <1>2, <1>3, <1>6 DEF AdmitStep, StageObject, AdmissionFails,
     PublishObject,
     RecordObject, RecordFails, Rollback, AccountLedger, BeginReference,
     WriteReference, DiscardReferences, DiscardPayload, DiscardRetained,
     GiveUp, store, UnderMutation
<1>7. CASE RoomStep(c)
  BY <1>1, <1>2, <1>3, <1>7, Zenon DEF RoomStep, Answers, BeginEviction,
     PreserveLive,
     EvictReferences, RemoveReferencesFor, RemovePayload,
     WriteIndexWithoutFlagged, store, UnderMutation, Making
<1>8. CASE RepairStep(c)
  BY <1>1, <1>2, <1>3, <1>8, Zenon DEF RepairStep, RepairResidue,
     RepairReferences, KeepObject,
     RemoveCorruptObject, RemoveReferencesFor, store, UnderMutation
<1>9. CASE ClientDies(c)
  BY <1>2, <1>3, <1>9 DEF ClientDies
<1> QED
  BY <1>2, <1>3, <1>4, <1>5, <1>6, <1>7, <1>8, <1>9 DEF ClientTurn

\* The steps after which the ledger covers no more than it did.
Counts(c) == AccountLedger(c) \/ WriteReference(c) \/ Answers(c)

LEMMA PlainLedger ==
  ASSUME StoreTypeOK, JobInv, NEW c \in Client, ClientTurn(c), ~ Counts(c)
  PROVE  /\ ledger'.bytes = ledger.bytes
         /\ ledger'.index # "unknown" => ledger.index # "unknown"
<1> USE DEF StoreTypeOK, LedgerOfOldIndex, UntrustedLedger
<1>1. CASE Begin(c)
  BY <1>1, Zenon DEF Begin, Store, Materialize, RepairSharedCache, Begins,
     store
<1>2. CASE LookupStep(c)
  BY <1>2 DEF LookupStep, AcquireObject, VerifyObject,
     RepairCorruptObject, Touch, TouchIndex, Copy, CopyFails, Invalidate,
     store
<1>3. CASE AdmitStep(c)
  BY <1>3 DEF AdmitStep, StageObject, AdmissionFails, PublishObject,
     RecordObject, RecordFails, Rollback, Counts, BeginReference,
     DiscardReferences, DiscardPayload, DiscardRetained, GiveUp, store
<1>4. CASE RoomStep(c)
  BY <1>4, Zenon DEF RoomStep, Counts, Answers, BeginEviction, PreserveLive,
     EvictReferences, RemoveReferencesFor, RemovePayload,
     WriteIndexWithoutFlagged, store
<1>5. CASE RepairStep(c)
  BY <1>5, Zenon DEF RepairStep, RepairResidue, RepairReferences, KeepObject,
     RemoveCorruptObject, RemoveReferencesFor, store
<1>6. CASE ClientDies(c)
  BY <1>6 DEF ClientDies
<1> QED
  BY <1>1, <1>2, <1>3, <1>4, <1>5, <1>6 DEF ClientTurn

LEMMA PlainReferring ==
  ASSUME StoreTypeOK, JobInv, NEW c \in Client, ClientTurn(c),
         ~ WriteReference(c)
  PROVE  Referring' \subseteq Referring
  BY ReferenceChanges DEF ClientTurn, Referring

\* A step from one place to another with the job otherwise as it was.
LEMMA TurnsTo ==
  ASSUME JobTypeOK, NEW c \in Client, NEW there \in At, Turns(c, there)
  PROVE  job'[c] = [job[c] EXCEPT !.at = there] /\ job'[c].at = there
         /\ job'[c].purpose = job[c].purpose /\ job'[c].object = job[c].object
  BY DEF JobTypeOK, JobType, Turns

LEMMA PlainOwn ==
  ASSUME StoreTypeOK, JobInv, NEW c \in Client, ClientTurn(c), ~ Counts(c)
  PROVE  /\ Entered(c)' \subseteq Entered(c)
         /\ Pending(c)' = 0 /\ Promised(c)' = 0
<1> DEFINE j == job[c] k == job'[c]
<1>0. /\ j \in JobType /\ Shape(j) /\ JobTypeOK
  BY Mine DEF JobInv
<1>1. \/ k.at \notin {"write", "account"} \cup Making
      \/ k.at \in Making /\ k.purpose # "admit"
      \/ k.at = "account" /\ k.purpose # "reference"
      \/ /\ k.at \in Making /\ j.at \in Making
         /\ k.purpose = j.purpose /\ k.object = j.object
  <2> USE DEF Making
  <2>1. CASE Begin(c)
    <3>1. \/ \E r \in Result : k = [Idle EXCEPT !.op = "store", !.result = r,
                          !.object = ArtifactOf[r], !.at = "object"]
          \/ \E r \in Result \cup {None} : k =
               [Idle EXCEPT !.op = "materialize", !.result = r, !.object = r,
                !.at = "object"]
          \/ k = [Idle EXCEPT !.op = "repair", !.at = "repair"]
      BY <1>0, <2>1, Zenon DEF Begin, Store, Materialize, RepairSharedCache,
         JobTypeOK, StoreTypeOK
    <3> QED
      BY <3>1, Zenon DEF Idle
  <2>2. CASE TouchIndex(c) \/ RecordObject(c)
    <3>1. k.at = "account" /\ k.purpose = j.purpose
      BY <1>0, <2>2, TurnsTo DEF TouchIndex, RecordObject, At
    <3>2. j.purpose # "reference"
      <4>1. j.at \in {"index", "record"}
        BY <2>2, SMTT(30) DEF TouchIndex, RecordObject
      <4> QED
        BY <1>0, <4>1 DEF Shape, MaterializeShape, StoreShape, RepairShape,
           Idle, Finding
    <3> QED
      BY <3>1, <3>2
  <2>3. CASE AcquireObject(c) \/ VerifyObject(c) \/ RepairCorruptObject(c)
    BY <1>0, <2>3, TurnsTo DEF AcquireObject, VerifyObject,
       RepairCorruptObject, NotFound, At
  <2>4. CASE Touch(c)
    BY <1>0, <2>4 DEF Touch, JobTypeOK, JobType
  <2>5. CASE Copy(c) \/ CopyFails(c) \/ Invalidate(c)
    <3>1. k = Idle \/ k = [j EXCEPT !.object = ArtifactOf[j.object],
                           !.at = "object"]
      BY <1>0, <2>5 DEF Copy, CopyFails, Invalidate, JobTypeOK
    <3>2. Idle.at = "idle"
      BY DEF Idle
    <3>3. [j EXCEPT !.object = ArtifactOf[j.object], !.at = "object"].at
            = "object"
      BY <1>0 DEF JobType
    <3>4. k.at \in {"idle", "object"}
      BY <3>1, <3>2, <3>3
    <3> QED
      BY <3>4
  <2>6. CASE StageObject(c) \/ AdmissionFails(c) \/ RecordFails(c)
             \/ Rollback(c) \/ DiscardReferences(c)
    BY <1>0, <2>6, TurnsTo DEF StageObject, AdmissionFails, RecordFails,
       Rollback, DiscardReferences, At
  <2>7. CASE PublishObject(c) \/ BeginReference(c) \/ DiscardPayload(c)
             \/ DiscardRetained(c) \/ GiveUp(c)
    BY <1>0, <2>7 DEF PublishObject, BeginReference, DiscardPayload,
       DiscardRetained, GiveUp, JobTypeOK, JobType, Idle
  <2>8. CASE RoomStep(c)
    BY <1>0, <2>8, TurnsTo, Zenon DEF RoomStep, Counts, Answers, BeginEviction,
       PreserveLive, EvictReferences, RemoveReferencesFor, RemovePayload,
       WriteIndexWithoutFlagged, At
  <2>9. CASE RepairStep(c)
    <3>1. CASE \E d \in Object : RemoveCorruptObject(c, d)
      <4>1. k.at = "unlink" /\ k.purpose = j.purpose /\ j.at = "verifying"
        BY <1>0, <3>1, TurnsTo DEF RemoveCorruptObject, RemoveReferencesFor,
           At
      <4>2. j.purpose # "admit"
        BY <1>0, <4>1 DEF Shape, MaterializeShape, StoreShape, RepairShape,
           Idle, Finding
      <4> QED
        BY <4>1, <4>2
    <3>2. CASE RepairReferences(c)
      BY <1>0, <3>2 DEF RepairReferences, JobTypeOK, JobType
    <3>3. CASE RepairResidue(c)
      BY <1>0, <3>3, TurnsTo DEF RepairResidue, At
    <3>4. CASE \E d \in Object : KeepObject(c, d)
      BY <3>4 DEF KeepObject
    <3> QED
      BY <2>9, <3>1, <3>2, <3>3, <3>4 DEF RepairStep
  <2>10. CASE ClientDies(c)
    BY <1>0, <2>10 DEF ClientDies, JobTypeOK, Idle
  <2> QED
    BY <2>1, <2>2, <2>3, <2>4, <2>5, <2>6, <2>7, <2>8, <2>9, <2>10
       DEF ClientTurn, LookupStep, AdmitStep, Counts
<1>2. /\ Entered(c)' = IF k.at \in Making /\ k.purpose = "admit"
                       THEN {k.object} ELSE {}
      /\ Pending(c)' = IF k.at = "write" THEN Additional(c)' ELSE 0
      /\ Promised(c)' = IF k.at = "write" \/ k.at = "account"
                        THEN Additional(c)' ELSE 0
  BY DEF Entered, Pending, Promised
<1>3. Additional(c)' = 0 \/ k.purpose = "reference"
  BY DEF Additional
<1> QED
  BY <1>1, <1>2, <1>3 DEF Entered, Making

\* What a client entered and promised stands while others move.
LEMMA OthersCount ==
  ASSUME StoreTypeOK, StoreTypeOK', JobInv, JobInv', NEW c \in Client,
         ClientTurn(c), NEW e \in Client \ {c}, OwnLedger(e), OwnBudget(e),
         OwnLedger(c)', OwnBudget(c)'
  PROVE  OwnLedger(e)' /\ OwnBudget(e)'
<1>0. /\ job'[e] = job[e]
      /\ mutation' = e => mutation = e
  <2>1. Moves(c) /\ JobTypeOK
    BY ClientMoves DEF JobInv, ClientTurn
  <2>2. NoClient # e
    BY ClientAssumption
  <2> QED
    BY <2>1, <2>2, BecomingType DEF Moves, MutationMoves
<1>1. CASE mutation = e
  <2>1. ledger' = ledger /\ reference' = reference /\ ~ Answers(c)
    BY <1>1, BystanderStep, ClientAssumption
  <2>2. Admitted' \subseteq Admitted
    BY <2>1, AdmittedShrinks DEF ClientTurn
  <2>3. /\ Entered(e)' = Entered(e) /\ Pending(e)' = Pending(e)
        /\ Promised(e)' = Promised(e) /\ Referring' = Referring
    BY <1>0, <2>1 DEF Entered, Pending, Promised, Additional, Referring
  <2>4. /\ IsFiniteSet(Admitted) /\ IsFiniteSet(Admitted \cup Entered(e))
        /\ Admitted' \cup Entered(e)' \subseteq Admitted \cup Entered(e)
        /\ Cardinality(Admitted) \in Nat /\ Cardinality(Referring) \in Nat
        /\ Cardinality(Admitted \cup Entered(e)) \in Nat
        /\ Cardinality(Admitted') \in Nat
        /\ Cardinality(Admitted' \cup Entered(e)') \in Nat
        /\ ledger.bytes \in Nat /\ Pending(e) \in {0, 1}
        /\ Promised(e) \in {0, 1}
    BY <2>2, <2>3, CountsNow, CountsNext, OwnNow, OwnNext
     DEF CountsFinite, OwnFinite
  <2>5. /\ Cardinality(Admitted') <= Cardinality(Admitted)
        /\ Cardinality(Admitted' \cup Entered(e)')
             <= Cardinality(Admitted \cup Entered(e))
    BY <2>2, <2>4, FS_Subset
  <2>6. OwnLedger(e)'
    BY <2>1, <2>3, <2>4, <2>5 DEF OwnLedger
  <2>7. OwnBudget(e)'
    BY <2>3, <2>4, <2>5 DEF OwnBudget
  <2> QED
    BY <2>6, <2>7
<1>2. CASE mutation # e
  <2>1. Entered(e)' = {} /\ Pending(e)' = 0 /\ Promised(e)' = 0
    BY <1>0, <1>2, OwnNext DEF OwnFinite
  <2>2. Admitted' \cup {} = Admitted'
    OBVIOUS
  <2>3. /\ Cardinality(Admitted)' \in Nat /\ Cardinality(Referring)' \in Nat
        /\ Pending(c)' \in {0, 1} /\ Promised(c)' \in {0, 1}
        /\ ledger'.bytes \in Nat
    BY CountsNext, OwnNext DEF CountsFinite, OwnFinite
  <2> QED
    BY <2>1, <2>2, <2>3 DEF OwnLedger, OwnBudget
<1> QED
  BY <1>1, <1>2

LEMMA PlainCount ==
  ASSUME StoreTypeOK, StoreTypeOK', JobInv, JobInv', NEW c \in Client,
         ClientTurn(c), ~ Counts(c), OwnLedger(c), OwnBudget(c)
  PROVE  OwnLedger(c)' /\ OwnBudget(c)'
<1>1. /\ Admitted' \subseteq Admitted /\ Referring' \subseteq Referring
      /\ Entered(c)' \subseteq Entered(c)
      /\ Pending(c)' = 0 /\ Promised(c)' = 0
      /\ ledger'.bytes = ledger.bytes
      /\ ledger'.index # "unknown" => ledger.index # "unknown"
  BY AdmittedShrinks, PlainReferring, PlainOwn, PlainLedger
     DEF Counts, ClientTurn
<1>2. /\ Cardinality(Admitted') <= Cardinality(Admitted)
      /\ Cardinality(Referring') <= Cardinality(Referring)
      /\ Cardinality(Admitted' \cup Entered(c)')
           <= Cardinality(Admitted \cup Entered(c))
  BY <1>1, CountsAreFinite, OwnTypes, FS_Subset
<1>3. /\ Cardinality(Admitted) \in Nat /\ Cardinality(Referring) \in Nat
      /\ Cardinality(Admitted') \in Nat /\ Cardinality(Referring') \in Nat
      /\ Cardinality(Admitted \cup Entered(c)) \in Nat
      /\ Cardinality(Admitted' \cup Entered(c)') \in Nat
      /\ Pending(c) \in {0, 1} /\ Promised(c) \in {0, 1}
      /\ ledger.bytes \in Nat /\ Budget \in Nat
  BY CountsNow, CountsNext, OwnNow, OwnNext
     DEF CountsFinite, OwnFinite
<1>4. OwnLedger(c)'
  BY <1>1, <1>2, <1>3 DEF OwnLedger
<1>5. OwnBudget(c)'
  BY <1>1, <1>2, <1>3 DEF OwnBudget
<1> QED
  BY <1>4, <1>5

\* The reference that is written is the one that was promised.
LEMMA WriteCount ==
  ASSUME StoreTypeOK, StoreTypeOK', JobInv, JobInv', NEW c \in Client,
         WriteReference(c), OwnLedger(c), OwnBudget(c)
  PROVE  OwnLedger(c)' /\ OwnBudget(c)'
<1> DEFINE r == job[c].result f == FingerprintOf[r]
<1>1. /\ job[c].at = "write" /\ job[c].op = "store" /\ r \in Result
      /\ f \in Fingerprint /\ job[c].purpose = "reference"
  <2>1. job[c].at = "write" /\ job[c].op = "store"
    BY AdmitOp DEF WriteReference
  <2>2. Shape(job[c]) /\ r \in Result /\ f \in Fingerprint
    BY <2>1, Mine, JobObject DEF JobInv, LockInv
  <2> QED
    BY <2>1, <2>2 DEF Shape, StoreShape
<1>2. /\ Pending(c) = Additional(c) /\ Promised(c) = Additional(c)
      /\ Additional(c) = IF f \in Referring THEN 0 ELSE 1
  BY <1>1 DEF Pending, Promised, Additional, Referring
<1>3. Admitted' \subseteq Admitted
  <2>1. ~ Answers(c)
    BY <1>1 DEF Answers, TrustLedger, Measure, Settle
  <2> QED
    BY <2>1, AdmittedShrinks DEF AdmitStep
<1>4. Referring' \subseteq Referring \cup {f}
  BY <1>1 DEF WriteReference, Referring, StoreTypeOK
<1>5. /\ IsFiniteSet(Referring \cup {f})
      /\ Cardinality(Referring \cup {f}) = Cardinality(Referring) + Additional(c)
  <2>1. /\ IsFiniteSet(Referring \cup {f})
        /\ Cardinality(Referring \cup {f}) =
             IF f \in Referring THEN Cardinality(Referring)
             ELSE Cardinality(Referring) + 1
    BY CountsAreFinite, FS_AddElement
  <2>2. Cardinality(Referring) \in Nat
    BY CountsAreFinite
  <2> QED
    BY <1>2, <2>1, <2>2
<1>6. /\ Cardinality(Admitted') <= Cardinality(Admitted)
      /\ Cardinality(Referring') <= Cardinality(Referring) + Additional(c)
  BY <1>3, <1>4, <1>5, CountsAreFinite, FS_Subset
<1>7. Entered(c)' = {} /\ Pending(c)' = 0 /\ Promised(c)' = 0
  <2>1. job'[c] = Idle
    BY DEF WriteReference, JobInv, JobTypeOK
  <2> QED
    BY <2>1 DEF Entered, Pending, Promised, Idle, Making
<1>8. ledger' = ledger
  BY DEF WriteReference
<1>9. Admitted' \cup {} = Admitted'
  OBVIOUS
<1>10. /\ Cardinality(Admitted) \in Nat /\ Cardinality(Referring) \in Nat
       /\ Cardinality(Admitted') \in Nat /\ Cardinality(Referring') \in Nat
       /\ Additional(c) \in {0, 1} /\ ledger.bytes \in Nat /\ Budget \in Nat
  BY CountsNow, CountsNext, OwnNow DEF CountsFinite, OwnFinite
<1>11. OwnLedger(c)'
  BY <1>2, <1>6, <1>7, <1>8, <1>9, <1>10 DEF OwnLedger
<1>12. OwnBudget(c)'
  BY <1>2, <1>6, <1>7, <1>10 DEF OwnBudget
<1> QED
  BY <1>11, <1>12

\* AccountLedger enters what was published, or what is to be written.
LEMMA AccountCount ==
  ASSUME StoreTypeOK, StoreTypeOK', JobInv, JobInv', NEW c \in Client,
         AccountLedger(c), OwnLedger(c), OwnBudget(c)
  PROVE  OwnLedger(c)' /\ OwnBudget(c)'
<1> DEFINE j == job[c] k == job'[c]
<1>0. /\ j \in JobType /\ JobTypeOK /\ j.at = "account"
      /\ k = AfterAccount(j)
  BY Mine DEF JobInv, JobTypeOK, AccountLedger
<1>1. Admitted' \subseteq Admitted /\ Referring' = Referring
  <2>1. ~ Answers(c)
    BY <1>0 DEF Answers, TrustLedger, Measure, Settle
  <2>2. reference' = reference
    BY DEF AccountLedger
  <2> QED
    BY <2>1, <2>2, AdmittedShrinks DEF AdmitStep, Referring
<1>2. Additional(c)' = IF k.purpose = "reference"
                          /\ reference[FingerprintOf[k.result]] = None
                       THEN 1 ELSE 0
  BY DEF Additional, AccountLedger
<1>3. /\ Cardinality(Admitted') <= Cardinality(Admitted)
      /\ Cardinality(Admitted) \in Nat /\ Cardinality(Referring) \in Nat
      /\ Cardinality(Admitted') \in Nat /\ IsFiniteSet(Admitted')
      /\ Additional(c) \in {0, 1} /\ ledger.bytes \in Nat /\ Budget \in Nat
      /\ Promised(c) = Additional(c)
  BY <1>0, <1>1, CountsNow, CountsNext, OwnNow, FS_Subset
     DEF Promised, CountsFinite, OwnFinite
<1>4. ledger.index # "unknown" =>
        Cardinality(Admitted') + Cardinality(Referring) <= ledger.bytes
  <2>1. Pending(c) = 0
    BY <1>0 DEF Pending
  <2> QED
    BY <1>3, <2>1 DEF OwnLedger
<1>5. Cardinality(Admitted') + Cardinality(Referring) + Additional(c) <= Budget
  BY <1>3 DEF OwnBudget
<1>6. \A n \in {0, 1} : ledger' = Accounted(n) =>
        /\ ledger.index = "unknown" => ledger'.index = "unknown"
        /\ ledger.index # "unknown" => ledger'.bytes = ledger.bytes + n
  BY DEF Accounted, StoreTypeOK
<1>7. Admitted' \cup {} = Admitted'
  OBVIOUS
<1>8. CASE j.purpose = "admit"
  <2>1. k.at = "room" /\ ledger' = Accounted(1)
    BY <1>0, <1>8 DEF AfterAccount, AccountLedger, JobType
  <2>2. Pending(c)' = 0 /\ Promised(c)' = 0
    BY <2>1 DEF Pending, Promised
  <2>3. Cardinality(Admitted' \cup Entered(c)') <= Cardinality(Admitted') + 1
    <3>1. Entered(c)' \in {{}, {k.object}}
      BY DEF Entered
    <3>2. Cardinality(Admitted' \cup {k.object}) \in
            {Cardinality(Admitted'), Cardinality(Admitted') + 1}
      BY <1>3, FS_AddElement
    <3>3. CASE Entered(c)' = {}
      BY <1>3, <1>7, <3>3
    <3>4. CASE Entered(c)' = {k.object}
      BY <1>3, <3>2, <3>4
    <3> QED
      BY <3>1, <3>3, <3>4
  <2>4. Cardinality(Admitted' \cup Entered(c)') \in Nat
    BY OwnNext DEF OwnFinite
  <2>5. OwnLedger(c)'
    BY <1>1, <1>3, <1>4, <1>6, <2>1, <2>2, <2>3, <2>4 DEF OwnLedger
  <2>6. OwnBudget(c)'
    BY <1>1, <1>3, <1>5, <2>2 DEF OwnBudget
  <2> QED
    BY <2>5, <2>6
<1>9. CASE j.purpose = "reference"
  <2>1. /\ k.at = "write" /\ k.purpose = "reference" /\ k.result = j.result
        /\ ledger' = Accounted(Additional(c))
    BY <1>0, <1>9 DEF AfterAccount, AccountLedger, JobType
  <2>2. Pending(c)' = Additional(c) /\ Promised(c)' = Additional(c)
    BY <1>2, <1>9, <2>1 DEF Pending, Promised, Additional
  <2>3. Entered(c)' = {}
    BY <2>1 DEF Entered, Making
  <2>4. OwnLedger(c)'
    BY <1>1, <1>3, <1>4, <1>6, <1>7, <2>1, <2>2, <2>3 DEF OwnLedger
  <2>5. OwnBudget(c)'
    BY <1>1, <1>3, <1>5, <2>2 DEF OwnBudget
  <2> QED
    BY <2>4, <2>5
<1>10. CASE j.purpose \in {"touch", "discard", "repair"}
  <2>1. Additional(c) = 0 /\ ledger' = Accounted(0)
    BY <1>10 DEF Additional, AccountLedger
  <2>2. k.at \in {"copy", "reference", "object", "giveup", "idle"}
    <3>1. Shape(j)
      BY Mine
    <3>2. j.purpose \in {"touch", "discard"}
      BY <1>0, <1>10, <3>1 DEF Shape, MaterializeShape, StoreShape,
         RepairShape, Idle, Making
    <3> QED
      BY <1>0, <3>2 DEF AfterAccount, Advance, JobType
  <2>3. Entered(c)' = {} /\ Pending(c)' = 0 /\ Promised(c)' = 0
    BY <2>2 DEF Entered, Pending, Promised, Making
  <2>4. OwnLedger(c)'
    BY <1>1, <1>3, <1>4, <1>6, <1>7, <2>1, <2>3 DEF OwnLedger
  <2>5. OwnBudget(c)'
    BY <1>1, <1>3, <1>5, <2>3 DEF OwnBudget
  <2> QED
    BY <2>4, <2>5
<1> QED
  BY <1>0, <1>8, <1>9, <1>10 DEF JobType, Purpose

\* Where a client goes with the answer it gets, and what it still promises.
LEMMA AnswerOwn ==
  ASSUME StoreTypeOK, JobInv, NEW c \in Client, NEW found \in BOOLEAN,
         Answer(c, found), job[c].at \in {"room", "settle"},
         reference' = reference
  PROVE  /\ Entered(c)' = {}
         /\ Pending(c)' = 0
         /\ Promised(c)' = IF found THEN Additional(c) ELSE 0
         /\ ~ found => Unsettled(c) \subseteq Unsettled(c)'
         /\ Unsettled(c) = Entered(c)
<1> DEFINE j == job[c] k == job'[c]
<1>0. /\ j \in JobType /\ Shape(j) /\ JobTypeOK /\ k = RoomFound(c, found)
  BY Mine DEF JobInv, JobTypeOK, Answer
<1>1. Unsettled(c) = Entered(c)
  BY DEF Unsettled, Entered, Making
<1>2. Additional(c)' = IF k.purpose = "reference"
                          /\ reference[FingerprintOf[k.result]] = None
                       THEN 1 ELSE 0
  BY DEF Additional
<1>3. CASE j.purpose = "reference"
  <2>1. /\ k.at = IF ~ found THEN "giveup"
                  ELSE IF Additional(c) = 0 THEN "write" ELSE "account"
        /\ k.purpose = "reference" /\ k.result = j.result
    BY <1>0, <1>3 DEF RoomFound, JobType
  <2>2. Additional(c)' = Additional(c) /\ Additional(c) \in {0, 1}
    BY <1>2, <1>3, <2>1 DEF Additional
  <2>3. Entered(c)' = {} /\ Unsettled(c) = {}
    BY <1>3, <2>1 DEF Entered, Making, Unsettled
  <2>4. Pending(c)' = 0
    BY <2>1, <2>2 DEF Pending
  <2>5. Promised(c)' = IF found THEN Additional(c) ELSE 0
    BY <2>1, <2>2 DEF Promised
  <2> QED
    BY <1>1, <2>3, <2>4, <2>5
<1>4. CASE j.purpose # "reference"
  <2>1. Additional(c) = 0
    BY <1>4 DEF Additional
  <2>2. /\ k.at \in {"index", "copy", "reference", "object", "discard", "idle"}
        /\ ~ found /\ j.purpose = "admit" =>
             k.at = "discard" /\ k.purpose = "admit" /\ k.object = j.object
    <3>1. CASE j.purpose = "touch"
      BY <1>0, <3>1 DEF RoomFound, Advance, JobType
    <3>2. CASE j.purpose = "admit"
      <4> DEFINE l == [j EXCEPT !.inserted = @ \cup {j.object}]
      <4>1. l \in JobType
        BY <1>0, <3>2, JobObject, StorePurpose DEF JobInv, LockInv, JobType
      <4>2. Advance(l).at \in {"copy", "reference", "object"}
        <5> HIDE DEF l
        <5> QED
          BY <4>1 DEF Advance, JobType
      <4>3. found => k = Advance(l)
        BY <1>0, <3>2 DEF RoomFound
      <4>4. ~ found => k = [j EXCEPT !.at = "discard"]
        BY <1>0, <3>2 DEF RoomFound
      <4>5. CASE found
        <5> HIDE DEF l
        <5> QED
          BY <4>2, <4>3, <4>5
      <4>6. CASE ~ found
        BY <1>0, <3>2, <4>4, <4>6 DEF JobType
      <4> QED
        BY <4>5, <4>6
    <3>3. CASE j.purpose \notin {"touch", "admit"}
      BY <1>0, <1>4, <3>3 DEF RoomFound, Idle
    <3> QED
      BY <3>1, <3>2, <3>3
  <2>3. Entered(c)' = {} /\ Pending(c)' = 0 /\ Promised(c)' = 0
    BY <2>2 DEF Entered, Pending, Promised, Making
  <2>4. ~ found => Unsettled(c) \subseteq Unsettled(c)'
    <3>1. CASE j.purpose = "admit" /\ ~ found
      BY <2>2, <3>1 DEF Unsettled
    <3>2. CASE j.purpose # "admit"
      BY <1>1, <3>2 DEF Entered
    <3> QED
      BY <3>1, <3>2
  <2> QED
    BY <1>1, <2>1, <2>3, <2>4
<1> QED
  BY <1>3, <1>4

\* A ledger that covered what was entered covers it once it is admitted.
LEMMA SettledCount ==
  ASSUME StoreTypeOK, StoreTypeOK', JobInv, JobInv', NEW c \in Client,
         OwnLedger(c), OwnBudget(c),
         Admitted' \subseteq Admitted \cup Entered(c),
         Referring' = Referring, ledger' = ledger,
         Entered(c)' = {}, Pending(c)' = 0
  PROVE  /\ OwnLedger(c)'
         /\ ledger.index # "unknown" =>
              Cardinality(Admitted') + Cardinality(Referring') <= ledger.bytes
<1>1. Cardinality(Admitted') <= Cardinality(Admitted \cup Entered(c))
  BY OwnNow, FS_Subset DEF OwnFinite
<1>2. Admitted' \cup {} = Admitted'
  OBVIOUS
<1>3. /\ Cardinality(Admitted') \in Nat /\ Cardinality(Referring) \in Nat
      /\ Cardinality(Admitted \cup Entered(c)) \in Nat
      /\ ledger.bytes \in Nat
  BY CountsNext, CountsNow, OwnNow DEF CountsFinite, OwnFinite
<1> QED
  BY <1>1, <1>2, <1>3 DEF OwnLedger

\* A walk covers whatever is there.
LEMMA WalkedCount ==
  ASSUME StoreTypeOK, StoreTypeOK', JobInv, JobInv', NEW c \in Client,
         UNCHANGED <<object, reference, staging, quarantine>>,
         ledger' = LedgerOf(Tree), Entered(c)' = {}, Pending(c)' = 0,
         Tree + Promised(c)' <= Budget
  PROVE  OwnLedger(c)' /\ OwnBudget(c)'
<1>1. Tree' = Tree
  BY DEF Tree, Present, Referring
<1>2. Cardinality(Admitted') + Cardinality(Referring') <= Tree
  BY <1>1, CountsNext DEF CountsFinite
<1>3. /\ Cardinality(Admitted') \in Nat /\ Cardinality(Referring') \in Nat
      /\ Tree \in Nat /\ Promised(c)' \in {0, 1}
  BY CountsNext, OwnNext, TreeIsNat DEF CountsFinite, OwnFinite
<1>4. Admitted' \cup {} = Admitted'
  OBVIOUS
<1>5. OwnLedger(c)'
  BY <1>2, <1>3, <1>4 DEF OwnLedger, LedgerOf
<1>6. OwnBudget(c)'
  BY <1>2, <1>3 DEF OwnBudget
<1> QED
  BY <1>5, <1>6

LEMMA TrustCount ==
  ASSUME StoreTypeOK, StoreTypeOK', JobInv, JobInv', NEW c \in Client,
         TrustLedger(c), OwnLedger(c), OwnBudget(c)
  PROVE  OwnLedger(c)' /\ OwnBudget(c)'
<1>1. /\ job[c].at = "room" /\ Answer(c, TRUE) /\ ledger.index = "current"
      /\ ledger.bytes + Additional(c) <= Budget
      /\ ledger' = ledger /\ reference' = reference /\ cutShort' = cutShort
  BY DEF TrustLedger, Trusted, store
<1>2. /\ Entered(c)' = {} /\ Pending(c)' = 0 /\ Unsettled(c) = Entered(c)
      /\ Promised(c)' = Additional(c)
  BY <1>1, AnswerOwn
<1>3. Admitted' \subseteq Admitted \cup Entered(c) /\ Referring' = Referring
  BY <1>1, <1>2, AdmittedShrinks DEF RoomStep, Referring
<1>4. /\ OwnLedger(c)'
      /\ Cardinality(Admitted') + Cardinality(Referring') <= ledger.bytes
  BY <1>1, <1>2, <1>3, SettledCount
<1>5. /\ Cardinality(Admitted') \in Nat /\ Cardinality(Referring') \in Nat
      /\ Additional(c) \in {0, 1} /\ ledger.bytes \in Nat /\ Budget \in Nat
  BY CountsNext, CountsNow, OwnNow DEF CountsFinite, OwnFinite
<1> QED
  BY <1>1, <1>2, <1>4, <1>5 DEF OwnBudget

\* Nothing is admitted by an answer that finds no room and walks no tree.
LEMMA RefusedCount ==
  ASSUME StoreTypeOK, StoreTypeOK', JobInv, JobInv', NEW c \in Client,
         RoomStep(c), Answer(c, FALSE), job[c].at \in {"room", "settle"},
         reference' = reference, ledger' = ledger, cutShort' = cutShort,
         OwnLedger(c), OwnBudget(c)
  PROVE  OwnLedger(c)' /\ OwnBudget(c)'
<1>1. /\ Entered(c)' = {} /\ Pending(c)' = 0 /\ Promised(c)' = 0
      /\ Unsettled(c) \subseteq Unsettled(c)' /\ Unsettled(c) = Entered(c)
  BY AnswerOwn
<1>2. Admitted' \subseteq Admitted
  <2>1. Admitted' \subseteq Admitted \cup Unsettled(c)
    BY AdmittedShrinks
  <2>2. \A d \in Unsettled(c)' : d \notin Admitted'
    BY DEF Admitted, Uncounted, Admitting
  <2> QED
    BY <1>1, <2>1, <2>2
<1>3. Referring' = Referring
  BY DEF Referring
<1>4. OwnLedger(c)'
  BY <1>1, <1>2, <1>3, SettledCount
<1>5. /\ Cardinality(Admitted') <= Cardinality(Admitted)
      /\ Cardinality(Admitted') \in Nat /\ Cardinality(Admitted) \in Nat
      /\ Cardinality(Referring) \in Nat
      /\ Promised(c) \in {0, 1} /\ Budget \in Nat
  BY <1>2, CountsNext, CountsNow, OwnNow, FS_Subset
     DEF CountsFinite, OwnFinite
<1> QED
  BY <1>1, <1>3, <1>4, <1>5 DEF OwnBudget

LEMMA MeasureCount ==
  ASSUME StoreTypeOK, StoreTypeOK', JobInv, JobInv', NEW c \in Client,
         Measure(c), OwnLedger(c), OwnBudget(c)
  PROVE  OwnLedger(c)' /\ OwnBudget(c)'
<1>1. /\ job[c].at = "room"
      /\ UNCHANGED <<object, reference, staging, quarantine>>
  BY DEF Measure
<1>2. CASE Additional(c) > Budget
  <2>1. Answer(c, FALSE) /\ ledger' = ledger /\ cutShort' = cutShort
    BY <1>2 DEF Measure
  <2> QED
    BY <1>1, <2>1, RefusedCount DEF RoomStep
<1>3. CASE ~ (Additional(c) > Budget)
  <2>1. /\ Answer(c, TRUE) /\ ledger' = LedgerOf(Tree)
        /\ Tree + Additional(c) <= Budget
    BY <1>3 DEF Measure
  <2>2. /\ Entered(c)' = {} /\ Pending(c)' = 0
        /\ Promised(c)' = Additional(c)
    BY <1>1, <2>1, AnswerOwn
  <2> QED
    BY <1>1, <2>1, <2>2, WalkedCount
<1> QED
  BY <1>2, <1>3

LEMMA SettleCount ==
  ASSUME StoreTypeOK, StoreTypeOK', JobInv, JobInv', NEW c \in Client,
         Settle(c), OwnLedger(c), OwnBudget(c)
  PROVE  OwnLedger(c)' /\ OwnBudget(c)'
<1> DEFINE j == job[c] k == job'[c]
<1>1. /\ job[c].at = "settle"
      /\ UNCHANGED <<object, reference, staging, quarantine>>
      /\ Tree \in Nat /\ Additional(c) \in {0, 1} /\ Budget \in Nat
  BY TreeIsNat, OwnNow DEF Settle, OwnFinite
<1>2. CASE Tree + Additional(c) > LowWater /\ batch.left # {}
  <2>1. Turns(c, "evict") /\ ledger' = ledger /\ cutShort' = cutShort
    BY <1>2 DEF Settle
  <2>2. k.at = "evict" /\ k.purpose = j.purpose /\ k.object = j.object
    BY <2>1, TurnsTo DEF JobInv, At
  <2>3. /\ Entered(c)' = Entered(c) /\ Pending(c)' = 0 /\ Promised(c)' = 0
        /\ Unsettled(c)' = Unsettled(c)
    BY <1>1, <2>2 DEF Entered, Pending, Promised, Making, Unsettled
  <2>4. Admitted' \subseteq Admitted /\ Referring' = Referring
    <3>1. Admitted' \subseteq Admitted \cup Unsettled(c)
      BY <2>1, AdmittedShrinks DEF RoomStep
    <3>2. \A d \in Unsettled(c)' : d \notin Admitted'
      BY DEF Admitted, Uncounted, Admitting
    <3> QED
      BY <1>1, <2>3, <3>1, <3>2 DEF Referring
  <2>5. /\ Cardinality(Admitted') <= Cardinality(Admitted)
        /\ Cardinality(Admitted' \cup Entered(c))
             <= Cardinality(Admitted \cup Entered(c))
        /\ Cardinality(Admitted') \in Nat /\ Cardinality(Admitted) \in Nat
        /\ Cardinality(Referring) \in Nat
        /\ Cardinality(Admitted \cup Entered(c)) \in Nat
        /\ Promised(c) \in {0, 1} /\ Pending(c) \in {0, 1}
        /\ ledger.bytes \in Nat
    BY <2>4, CountsNext, CountsNow, OwnNow, FS_Subset
       DEF CountsFinite, OwnFinite
  <2>6. Cardinality(Admitted' \cup Entered(c)) \in Nat
    BY <2>3, OwnNext DEF OwnFinite
  <2>7. OwnLedger(c)'
    BY <2>1, <2>3, <2>4, <2>5, <2>6 DEF OwnLedger
  <2>8. OwnBudget(c)'
    BY <1>1, <2>3, <2>4, <2>5 DEF OwnBudget
  <2> QED
    BY <2>7, <2>8
<1>3. CASE ~ (Tree + Additional(c) > LowWater /\ batch.left # {})
  <2> DEFINE found == Tree + Additional(c) <= Budget
  <2>1. /\ Answer(c, found)
        /\ ledger' = IF Tree <= Budget THEN LedgerOf(Tree) ELSE ledger
        /\ cutShort' = IF Tree <= Budget THEN {} ELSE cutShort
    BY <1>3 DEF Settle
  <2>2. found \in BOOLEAN
    OBVIOUS
  <2>3. /\ Entered(c)' = {} /\ Pending(c)' = 0
        /\ Promised(c)' = IF found THEN Additional(c) ELSE 0
    <3> HIDE DEF found
    <3> QED
      BY <1>1, <2>1, <2>2, AnswerOwn
  <2>4. CASE Tree <= Budget
    <3>1. Tree + Promised(c)' <= Budget
      BY <1>1, <2>3, <2>4
    <3> QED
      BY <1>1, <2>1, <2>3, <2>4, <3>1, WalkedCount
  <2>5. CASE ~ (Tree <= Budget)
    <3>1. ~ found
      BY <1>1, <2>5
    <3>2. Answer(c, FALSE)
      <4> HIDE DEF found
      <4>1. found = FALSE
        BY <2>2, <3>1
      <4> QED
        BY <2>1, <4>1
    <3> QED
      BY <1>1, <2>1, <2>5, <3>2, RefusedCount DEF RoomStep
  <2> QED
    BY <2>4, <2>5
<1> QED
  BY <1>2, <1>3

LEMMA OwnCount ==
  ASSUME StoreTypeOK, StoreTypeOK', JobInv, JobInv', NEW c \in Client,
         ClientTurn(c), OwnLedger(c), OwnBudget(c)
  PROVE  OwnLedger(c)' /\ OwnBudget(c)'
  BY PlainCount, WriteCount, AccountCount, TrustCount, MeasureCount,
     SettleCount DEF Counts, Answers

LEMMA CountStep ==
  ASSUME StoreTypeOK, StoreTypeOK', JobInv, JobInv', CountInv,
         [CacheNext]_cacheVars
  PROVE  CountInv'
<1>0. \A c \in Client : OwnLedger(c) /\ OwnBudget(c)
  BY DEF CountInv, LedgerCounts, BudgetHasRoom, OwnLedger, OwnBudget
<1>1. ASSUME NEW c \in Client, ClientTurn(c) PROVE CountInv'
  <2>1. OwnLedger(c)' /\ OwnBudget(c)'
    BY <1>0, <1>1, OwnCount
  <2>2. \A e \in Client \ {c} : OwnLedger(e)' /\ OwnBudget(e)'
    BY <1>0, <1>1, <2>1, OthersCount
  <2>3. \A e \in Client : OwnLedger(e)' /\ OwnBudget(e)'
    BY <2>1, <2>2
  <2>4. /\ Cardinality(Admitted') \in Nat /\ Cardinality(Referring') \in Nat
        /\ Pending(c)' \in {0, 1} /\ Promised(c)' \in {0, 1}
        /\ ledger'.bytes \in Nat /\ Budget \in Nat
    BY CountsNext, OwnNext DEF CountsFinite, OwnFinite
  <2>5. LedgerCounts'
    BY <2>1, <2>3, <2>4 DEF LedgerCounts, OwnLedger
  <2>6. BudgetHasRoom'
    BY <2>1, <2>3, <2>4 DEF BudgetHasRoom, OwnBudget
  <2> QED
    BY <2>5, <2>6 DEF CountInv
<1>2. ASSUME NEW d \in Object, Corrupt(d) PROVE CountInv'
  <2>1. /\ UNCHANGED <<reference, ledger, job, cutShort>>
        /\ Present' = Present
    BY <1>2 DEF Corrupt, Present, StoreTypeOK
  <2>2. /\ Admitted' = Admitted /\ Referring' = Referring
        /\ \A c \in Client : /\ Entered(c)' = Entered(c)
                             /\ Pending(c)' = Pending(c)
                             /\ Promised(c)' = Promised(c)
    BY <2>1 DEF Admitted, Uncounted, Admitting, Unsettled, Referring,
       Entered, Pending, Promised, Additional
  <2> QED
    BY <2>1, <2>2 DEF CountInv, LedgerCounts, BudgetHasRoom
<1>3. CASE UNCHANGED cacheVars
  <2>1. UNCHANGED <<reference, ledger, job, cutShort, object>>
    BY <1>3 DEF cacheVars, store, bounds
  <2>2. /\ Admitted' = Admitted /\ Referring' = Referring
        /\ \A c \in Client : /\ Entered(c)' = Entered(c)
                             /\ Pending(c)' = Pending(c)
                             /\ Promised(c)' = Promised(c)
    BY <2>1 DEF Admitted, Uncounted, Admitting, Unsettled, Referring,
       Entered, Pending, Promised, Additional, Present
  <2> QED
    BY <2>1, <2>2 DEF CountInv, LedgerCounts, BudgetHasRoom
<1> QED
  BY <1>1, <1>2, <1>3 DEF CacheNext, ClientTurn

LEMMA CountInit == CacheInit => CountInv
<1> SUFFICES ASSUME CacheInit PROVE CountInv
  OBVIOUS
<1>1. /\ Present = {} /\ Referring = {} /\ ledger.index = "unknown"
      /\ \A c \in Client : job[c] = Idle
  BY DEF CacheInit, Present, Referring
<1>2. Admitted = {} /\ Cardinality(Referring) = 0
  BY <1>1, FS_EmptySet DEF Admitted
<1>3. Cardinality(Admitted) = 0
  BY <1>2, FS_EmptySet
<1>4. \A c \in Client : Promised(c) = 0
  BY <1>1 DEF Promised, Idle
<1> QED
  BY <1>1, <1>2, <1>3, <1>4 DEF CountInv, LedgerCounts, BudgetHasRoom

CountedInv == CacheInv /\ CountInv

LEMMA CountedInvariant == CacheSpec => []CountedInv
<1>1. CacheInit => CountedInv
  BY CacheInvInit, CountInit DEF CountedInv
<1>2. CountedInv /\ [CacheNext]_cacheVars => CountedInv'
  <2> SUFFICES ASSUME CountedInv, [CacheNext]_cacheVars PROVE CountedInv'
    OBVIOUS
  <2>1. StoreTypeOK /\ JobInv /\ CountInv
    BY DEF CountedInv, CacheInv
  <2>2. CacheInv' /\ StoreTypeOK' /\ JobInv'
    BY CacheInvStep DEF CountedInv, CacheInv
  <2> QED
    BY <2>1, <2>2, CountStep DEF CountedInv
<1> QED
  BY <1>1, <1>2, PTL DEF CacheSpec

\* The store, the locks and the jobs keep their types.
THEOREM CacheTypeCorrect == CacheSpec => [](StoreTypeOK /\ JobTypeOK)
<1>1. CacheInv => StoreTypeOK /\ JobTypeOK
  BY DEF CacheInv, JobInv
<1> QED
  BY <1>1, CacheInvariant, PTL

\* For any number of clients, kills and corrupted objects: no reference ever
\* resolves a part of a result unless its bytes went bad on disk, the ledger
\* never falls below the tree between two walks, and what was admitted fits
\* into the budget (RemoveObjectFiles, AccountLedger, EnsureRoomLocked).
THEOREM CacheStaysConsistent == CacheSpec => []CacheIsConsistent
<1>1. CountedInv => CacheIsConsistent
  <2> SUFFICES ASSUME CountedInv PROVE CacheIsConsistent
    OBVIOUS
  <2>1. ReferencesResolve
    BY Resolving DEF CountedInv
  <2>2. Counted = Cardinality(Admitted) + Cardinality(Referring)
    BY DEF Counted, Admitted, Uncounted
  <2>3. LedgerCoversTree
    BY <2>2 DEF LedgerCoversTree, CountedInv, CountInv, LedgerCounts
  <2>4. WithinBudget
    BY <2>2 DEF WithinBudget, CountedInv, CountInv, BudgetHasRoom
  <2> QED
    BY <2>1, <2>3, <2>4 DEF CacheIsConsistent
<1> QED
  BY <1>1, CountedInvariant, PTL

\* No set of clients ever waits for guards of each other only: an artifact is
\* guarded before its manifest, and both before the mutation guard, whose
\* holder waits for nothing (Store, Materialize, EvictCandidate).
THEOREM ClientsNeverWaitInACircle == CacheSpec => []NoCircularWait
<1>1. CacheInv => NoCircularWait
  BY NoCircle DEF CacheInv
<1> QED
  BY <1>1, CacheInvariant, PTL

\* A reference is invalidated only if its result is not whole: the guard of
\* the object that was missing is held until the reference is gone
\* (InvalidateReferenceIfCurrent).
THEOREM WholeReferencesStay == CacheSpec => WholeResultsStay
<1>1. CacheInv /\ [CacheNext]_cacheVars =>
        [\A c \in Client : Invalidate(c) /\ reference' # reference =>
           \/ object[job[c].result] # "good"
           \/ object[ArtifactOf[job[c].result]] # "good"]_cacheVars
  BY WholeStays
<1> QED
  BY <1>1, CacheInvariant, PTL DEF CacheSpec, WholeResultsStay

-----------------------------------------------------------------------------
(***************************************************************************)
(* The producer lease, and the clients that share a production.            *)
(***************************************************************************)

USE ProcessAssumption, NobodyAssumption, RetiringAssumption,
    CrashesAssumption

HasLock == {"locked", "holding", "closing"}

(* What keeps two holders apart: an open guard is registered in its        *)
(* process, one thread at a time; whoever passed LockGuard has the record  *)
(* lock; and without retirement the path only ever names one file.         *)
OpenIsRegistered ==
  \A t \in Thread :
    /\ file[t] # NoInode <=> step[t] \in HasLock \cup {"locking"}
    /\ file[t] # NoInode => ProcessOf[t] \in registered
OnePerProcess ==
  \A t, u \in Thread :
    file[t] # NoInode /\ file[u] # NoInode /\ ProcessOf[t] = ProcessOf[u]
      => t = u
HolderHasLock ==
  \A t \in Thread : step[t] \in HasLock => lock[file[t]] = ProcessOf[t]
OneFile ==
  ~ Retiring => \A t \in Thread : file[t] # NoInode => file[t] = path
RetireIsAllowed ==
  \A t \in Thread : role[t] = "retire" => Retiring

LeaseInv ==
  OpenIsRegistered /\ OnePerProcess /\ HolderHasLock /\ OneFile
    /\ RetireIsAllowed /\ FreeKeyIsUnlocked

LEMMA LeaseTypeInit == Init => TypeOK
  BY DEF Init, TypeOK, Step, Role

LEMMA LeaseTypeStep == TypeOK /\ [Next]_leaseVars => TypeOK'
<1> SUFFICES ASSUME TypeOK, [Next]_leaseVars PROVE TypeOK'
  OBVIOUS
<1> USE DEF TypeOK
<1>1. ASSUME NEW t \in Thread,
             BeginRetire(t) \/ GuardRefused(t) \/ DirectoryFails(t)
               \/ OpenFails(t) \/ WriteState(t) \/ WriteStateFails(t)
               \/ TouchHeartbeat(t) \/ DeleteState(t) \/ DetachKey(t)
      PROVE  TypeOK'
  BY <1>1 DEF BeginRetire, GuardRefused, DirectoryFails, OpenFails,
     WriteState, WriteStateFails, TouchHeartbeat, DeleteState, DetachKey,
     Goes, Step, Role
<1>7. ASSUME NEW t \in Thread, EnsureLeaseDirectory(t) PROVE TypeOK'
  <2>1. role' \in [Thread -> Role]
    BY <1>7 DEF EnsureLeaseDirectory, Role
  <2> QED
    BY <1>7, <2>1 DEF EnsureLeaseDirectory, Goes, Step
<1>2. ASSUME NEW t \in Thread, OpenGuard(t) PROVE TypeOK'
  BY <1>2 DEF OpenGuard, Goes, Step, Unused
<1>3. ASSUME NEW t \in Thread, LockGuard(t) PROVE TypeOK'
  BY <1>3 DEF LockGuard, Goes, Step
<1>4. ASSUME NEW t \in Thread, LockRefused(t) \/ LockFails(t) \/ FreeGuard(t)
      PROVE  TypeOK'
  BY <1>4 DEF LockRefused, LockFails, FreeGuard, CloseGuard, Unlocked, Goes,
     Step
<1>5. ASSUME NEW p \in Process, Crash(p) PROVE TypeOK'
  BY <1>5 DEF Crash, Step
<1>6. CASE UNCHANGED leaseVars
  BY <1>6 DEF leaseVars
<1> QED
  BY <1>1, <1>2, <1>3, <1>4, <1>5, <1>6, <1>7
  DEF Next, Acquiring, AcquiringFails, Releasing

\* Every reachable state is well typed.
THEOREM LeaseTypeCorrect == Spec => []TypeOK
BY LeaseTypeInit, LeaseTypeStep, PTL DEF Spec

-----------------------------------------------------------------------------
LEMMA LeaseInit == Init => LeaseInv
  BY DEF Init, LeaseInv, OpenIsRegistered, OnePerProcess, HolderHasLock,
     OneFile, RetireIsAllowed, FreeKeyIsUnlocked, HasLock

\* A step that opens, closes and locks no file.
LEMMA FilesAlone ==
  ASSUME TypeOK, LeaseInv, UNCHANGED <<lock, registered, file>>,
         path' = path \/ Retiring,
         \A t \in Thread : /\ step[t] \in HasLock <=> step'[t] \in HasLock
                           /\ step[t] = "locking" <=> step'[t] = "locking"
                           /\ role'[t] = "retire" => Retiring
  PROVE  LeaseInv'
<1> USE DEF LeaseInv
<1>1. OpenIsRegistered' /\ OnePerProcess' /\ HolderHasLock'
  BY DEF OpenIsRegistered, OnePerProcess, HolderHasLock
<1>2. OneFile'
  BY DEF OneFile
<1>3. FreeKeyIsUnlocked'
  BY DEF FreeKeyIsUnlocked, HasLock
<1>4. RetireIsAllowed'
  BY DEF RetireIsAllowed
<1> QED
  BY <1>1, <1>2, <1>3, <1>4

\* A thread that closes its guard frees the lock of nobody else.
LEMMA CloseKeeps ==
  ASSUME TypeOK, LeaseInv, NEW t \in Thread, file[t] # NoInode,
         CloseGuard(t), Goes(t, "idle"), path' = path, role' = role
  PROVE  LeaseInv'
<1> USE DEF TypeOK, LeaseInv, CloseGuard, Goes
<1>1. \A u \in Thread : u # t => file'[u] = file[u] /\ step'[u] = step[u]
  OBVIOUS
<1>2. file'[t] = NoInode /\ step'[t] = "idle"
  OBVIOUS
<1>3. OpenIsRegistered'
  <2>1. \A u \in Thread : u # t /\ file[u] # NoInode =>
          ProcessOf[u] \in registered'
    BY DEF OpenIsRegistered, OnePerProcess
  <2> QED
    BY <1>1, <1>2, <2>1 DEF OpenIsRegistered, HasLock
<1>4. OnePerProcess'
  BY <1>1, <1>2 DEF OnePerProcess
<1>5. HolderHasLock'
  <2> SUFFICES ASSUME NEW u \in Thread, step'[u] \in HasLock
               PROVE  lock'[file'[u]] = ProcessOf[u]
    BY DEF HolderHasLock
  <2>1. u # t /\ step[u] \in HasLock /\ file[u] # NoInode
    BY <1>1, <1>2 DEF HasLock, OpenIsRegistered
  <2>2. lock[file[u]] = ProcessOf[u] /\ ProcessOf[u] # ProcessOf[t]
    BY <2>1 DEF HolderHasLock, OnePerProcess
  <2> QED
    BY <1>1, <2>1, <2>2 DEF Unlocked
<1>6. OneFile'
  BY <1>1, <1>2 DEF OneFile
<1>7. FreeKeyIsUnlocked'
  <2> SUFFICES ASSUME NEW i \in Inode, lock'[i] # Nobody
               PROVE  \E u \in Thread : /\ step'[u] \in HasLock
                                        /\ file'[u] = i
                                        /\ ProcessOf[u] = lock'[i]
    BY DEF FreeKeyIsUnlocked, HasLock
  <2>1. lock'[i] = lock[i] /\ ~ (i = file[t] /\ lock[i] = ProcessOf[t])
    BY DEF Unlocked
  <2>2. PICK u \in Thread : /\ step[u] \in HasLock
                            /\ file[u] = i
                            /\ ProcessOf[u] = lock[i]
    BY <2>1 DEF FreeKeyIsUnlocked, HasLock
  <2> QED
    BY <1>1, <2>1, <2>2
<1>8. RetireIsAllowed'
  BY DEF RetireIsAllowed
<1> QED
  BY <1>3, <1>4, <1>5, <1>6, <1>7, <1>8

LEMMA LeaseStep == TypeOK /\ LeaseInv /\ [Next]_leaseVars => LeaseInv'
<1> SUFFICES ASSUME TypeOK, LeaseInv, [Next]_leaseVars PROVE LeaseInv'
  OBVIOUS
<1> USE DEF TypeOK
<1>1. ASSUME NEW t \in Thread,
             EnsureLeaseDirectory(t) \/ BeginRetire(t) \/ GuardRefused(t)
               \/ DirectoryFails(t) \/ OpenFails(t) \/ WriteState(t)
               \/ WriteStateFails(t) \/ TouchHeartbeat(t) \/ DeleteState(t)
      PROVE  LeaseInv'
  <2>1. /\ UNCHANGED <<lock, registered, file, path>>
        /\ \A u \in Thread : /\ step[u] \in HasLock <=> step'[u] \in HasLock
                             /\ step[u] = "locking" <=> step'[u] = "locking"
    BY <1>1 DEF EnsureLeaseDirectory, BeginRetire, GuardRefused,
       DirectoryFails, OpenFails, WriteState, WriteStateFails, TouchHeartbeat,
       DeleteState, Goes, HasLock
  <2>2. \A u \in Thread : role'[u] = "retire" => Retiring
    <3>1. CASE EnsureLeaseDirectory(t) \/ BeginRetire(t)
      BY <3>1 DEF EnsureLeaseDirectory, BeginRetire, LeaseInv, RetireIsAllowed
    <3>2. CASE ~ (EnsureLeaseDirectory(t) \/ BeginRetire(t))
      <4>1. role' = role
        BY <1>1, <3>2 DEF GuardRefused, DirectoryFails, OpenFails, WriteState,
           WriteStateFails, TouchHeartbeat, DeleteState
      <4> QED
        BY <4>1 DEF LeaseInv, RetireIsAllowed
    <3> QED
      BY <3>1, <3>2
  <2> QED
    BY <2>1, <2>2, FilesAlone
<1>2. ASSUME NEW t \in Thread, DetachKey(t) PROVE LeaseInv'
  <2>1. /\ UNCHANGED <<lock, registered, file>>
        /\ \A u \in Thread : /\ step[u] \in HasLock <=> step'[u] \in HasLock
                             /\ step[u] = "locking" <=> step'[u] = "locking"
    BY <1>2 DEF DetachKey, Goes, HasLock
  <2>2. Retiring /\ \A u \in Thread : role'[u] = "retire" => Retiring
    BY <1>2 DEF DetachKey, LeaseInv, RetireIsAllowed
  <2> QED
    BY <2>1, <2>2, FilesAlone
<1>3. ASSUME NEW t \in Thread, OpenGuard(t) PROVE LeaseInv'
  <2>1. /\ \A u \in Thread : u # t => file'[u] = file[u] /\ step'[u] = step[u]
        /\ file'[t] = path' /\ path' \in Inode /\ step'[t] = "locking"
        /\ UNCHANGED lock /\ registered' = registered \cup {ProcessOf[t]}
        /\ ProcessOf[t] \notin registered
        /\ step[t] = "opening"
    BY <1>3 DEF OpenGuard, Goes, Unused, RegisterLocalGuard
  <2>2. OpenIsRegistered'
    BY <2>1 DEF LeaseInv, OpenIsRegistered, HasLock
  <2>3. OnePerProcess'
    BY <2>1 DEF LeaseInv, OpenIsRegistered, OnePerProcess
  <2>4. HolderHasLock'
    BY <2>1 DEF LeaseInv, HolderHasLock, HasLock
  <2>5. OneFile'
    <3>1. ASSUME ~ Retiring, NEW u \in Thread, file[u] # NoInode
          PROVE  path' = file[u]
      BY <1>3, <3>1 DEF LeaseInv, OneFile, OpenGuard
    <3> QED
      BY <2>1, <3>1 DEF OneFile
  <2>6. FreeKeyIsUnlocked'
    BY <2>1 DEF LeaseInv, FreeKeyIsUnlocked
  <2>7. RetireIsAllowed'
    BY <1>3 DEF OpenGuard, LeaseInv, RetireIsAllowed
  <2> QED
    BY <2>2, <2>3, <2>4, <2>5, <2>6, <2>7 DEF LeaseInv
<1>4. ASSUME NEW t \in Thread, LockGuard(t) PROVE LeaseInv'
  <2>1. /\ \A u \in Thread : u # t => step'[u] = step[u]
        /\ UNCHANGED <<file, path, registered>>
        /\ step[t] = "locking" /\ step'[t] = "locked"
        /\ file[t] \in Inode
        /\ lock' = [lock EXCEPT ![file[t]] = ProcessOf[t]]
        /\ lock[file[t]] \in {Nobody, ProcessOf[t]}
    BY <1>4 DEF LockGuard, Goes, LeaseInv, OpenIsRegistered
  <2>2. OpenIsRegistered' /\ OnePerProcess' /\ OneFile'
    BY <2>1 DEF LeaseInv, OpenIsRegistered, OnePerProcess, OneFile, HasLock
  <2>3. HolderHasLock'
    BY <2>1 DEF LeaseInv, OpenIsRegistered, HolderHasLock, HasLock
  <2>4. FreeKeyIsUnlocked'
    BY <2>1 DEF LeaseInv, FreeKeyIsUnlocked
  <2>5. RetireIsAllowed'
    BY <1>4 DEF LockGuard, LeaseInv, RetireIsAllowed
  <2> QED
    BY <2>2, <2>3, <2>4, <2>5 DEF LeaseInv
<1>5. ASSUME NEW t \in Thread, LockRefused(t) \/ LockFails(t) \/ FreeGuard(t)
      PROVE  LeaseInv'
  <2>1. /\ file[t] # NoInode /\ CloseGuard(t) /\ Goes(t, "idle")
        /\ path' = path /\ role' = role
    BY <1>5 DEF LockRefused, LockFails, FreeGuard, LeaseInv,
       OpenIsRegistered, HasLock
  <2> QED
    BY <2>1, CloseKeeps
<1>6. ASSUME NEW p \in Process, Crash(p) PROVE LeaseInv'
  <2>1. /\ \A u \in Thread :
             IF ProcessOf[u] = p THEN step'[u] = "idle" /\ file'[u] = NoInode
             ELSE step'[u] = step[u] /\ file'[u] = file[u]
        /\ \A i \in Inode : lock'[i] = IF lock[i] = p THEN Nobody ELSE lock[i]
        /\ registered' = registered \ {p} /\ path' = path
    BY <1>6 DEF Crash
  <2>2. OpenIsRegistered' /\ OnePerProcess' /\ OneFile'
    BY <2>1 DEF LeaseInv, OpenIsRegistered, OnePerProcess, OneFile, HasLock
  <2>3. HolderHasLock'
    BY <2>1 DEF LeaseInv, HolderHasLock, OpenIsRegistered, HasLock
  <2>4. FreeKeyIsUnlocked'
    BY <2>1 DEF LeaseInv, FreeKeyIsUnlocked
  <2>5. RetireIsAllowed'
    BY <1>6 DEF Crash, LeaseInv, RetireIsAllowed
  <2> QED
    BY <2>2, <2>3, <2>4, <2>5 DEF LeaseInv
<1>7. CASE UNCHANGED leaseVars
  BY <1>7, FilesAlone DEF leaseVars, LeaseInv, RetireIsAllowed
<1> QED
  BY <1>1, <1>2, <1>3, <1>4, <1>5, <1>6, <1>7
  DEF Next, Acquiring, AcquiringFails, Releasing

LEMMA LeaseInvariant == Spec => [](TypeOK /\ LeaseInv)
<1>1. Init => TypeOK /\ LeaseInv
  BY LeaseTypeInit, LeaseInit
<1>2. TypeOK /\ LeaseInv /\ [Next]_leaseVars => (TypeOK /\ LeaseInv)'
  BY LeaseTypeStep, LeaseStep
<1> QED
  BY <1>1, <1>2, PTL DEF Spec

\* Two threads never hold the same guard file, and no file stays locked
\* without a holder, whatever dies and whatever is retired.
THEOREM GuardFilesAreExclusive ==
  Spec => [](OneHolderPerFile /\ FreeKeyIsUnlocked)
<1>1. TypeOK /\ LeaseInv => OneHolderPerFile
  <2> SUFFICES ASSUME TypeOK, LeaseInv, NEW t \in Thread, NEW u \in Thread,
                      step[t] \in HasLock, step[u] \in HasLock,
                      file[t] = file[u]
               PROVE  t = u
    BY DEF OneHolderPerFile, HasLock
  <2>1. ProcessOf[t] = ProcessOf[u] /\ file[t] # NoInode /\ file[u] # NoInode
    BY DEF LeaseInv, HolderHasLock, OpenIsRegistered
  <2> QED
    BY <2>1 DEF LeaseInv, OnePerProcess
<1>2. LeaseInv => FreeKeyIsUnlocked
  BY DEF LeaseInv
<1> QED
  BY <1>1, <1>2, LeaseInvariant, PTL

-----------------------------------------------------------------------------
(* Without retirement a held key has one holder, so that its state file is  *)
(* only written and deleted by that one.                                    *)
LEMMA HolderIsAlone ==
  ASSUME ~ Retiring, TypeOK, LeaseInv PROVE OneProducer
<1> SUFFICES ASSUME NEW t \in Thread, NEW u \in Thread, Holds(t), Holds(u)
             PROVE  t = u
  BY DEF OneProducer
<1>1. file[t] # NoInode /\ file[u] # NoInode
  BY DEF Holds, LeaseInv, OpenIsRegistered, HasLock
<1>2. file[t] = path /\ file[u] = path
  BY <1>1 DEF LeaseInv, OneFile
<1>3. ProcessOf[t] = ProcessOf[u]
  BY <1>2 DEF Holds, LeaseInv, HolderHasLock, HasLock
<1> QED
  BY <1>1, <1>3 DEF LeaseInv, OnePerProcess

\* While no key is retired, an object key has one producer at a time.
THEOREM OneProducerPerKey == ASSUME ~ Retiring PROVE Spec => []OneProducer
BY HolderIsAlone, LeaseInvariant, PTL

LEMMA StateStep ==
  ASSUME ~ Retiring, TypeOK, LeaseInv, StateIsHolders, [Next]_leaseVars
  PROVE  StateIsHolders'
<1> USE DEF TypeOK, StateIsHolders
<1>1. \A t, u \in Thread :
        step[t] \in HasLock /\ step[u] \in HasLock => t = u
  BY HolderIsAlone DEF OneProducer, Holds, HasLock, LeaseInv, RetireIsAllowed
<1>2. ASSUME NEW t \in Thread,
             EnsureLeaseDirectory(t) \/ GuardRefused(t) \/ DirectoryFails(t)
               \/ OpenFails(t) \/ OpenGuard(t) \/ LockGuard(t) \/ LockRefused(t)
               \/ LockFails(t) \/ FreeGuard(t)
      PROVE  StateIsHolders'
  BY <1>2 DEF EnsureLeaseDirectory, GuardRefused, DirectoryFails, OpenFails,
     OpenGuard, LockGuard, LockRefused, LockFails, FreeGuard, Goes
<1>3. ASSUME NEW t \in Thread,
             WriteState(t) \/ WriteStateFails(t) \/ TouchHeartbeat(t)
               \/ DeleteState(t)
      PROVE  StateIsHolders'
  BY <1>1, <1>3 DEF WriteState, WriteStateFails, TouchHeartbeat, DeleteState,
     Goes, HasLock
<1>4. ASSUME NEW t \in Thread, DetachKey(t) \/ BeginRetire(t) PROVE FALSE
  BY <1>4 DEF DetachKey, BeginRetire, LeaseInv, RetireIsAllowed
<1>5. ASSUME NEW p \in Process, Crash(p) PROVE StateIsHolders'
  BY <1>5 DEF Crash
<1>6. CASE UNCHANGED leaseVars
  BY <1>6 DEF leaseVars
<1> QED
  BY <1>2, <1>3, <1>4, <1>5, <1>6
  DEF Next, Acquiring, AcquiringFails, Releasing

LEMMA LeaseInvStep ==
  ASSUME ~ Retiring, TypeOK, LeaseInv, StateIsHolders, [Next]_leaseVars
  PROVE  (TypeOK /\ LeaseInv /\ StateIsHolders)'
  BY LeaseTypeStep, LeaseStep, StateStep

-----------------------------------------------------------------------------
(* The clients of SharedProduction.  A client that looks again or releases  *)
(* has the lease; one that produces has it, or has none and is alone.  What *)
(* a holder of the lease published, no other holder produces again: it      *)
(* looked after taking the lease over.                                      *)
ClientStepsAgree ==
  \A t \in Thread :
    /\ task[t] = "recheck" => step[t] = "holding"
    /\ task[t] = "produce" => step[t] \in {"holding", "idle"}
    /\ task[t] \in {"release", "retreat"} => step[t] \in {"holding", "closing"}
    /\ task[t] \notin {"acquire", "recheck", "produce", "release", "retreat"}
         => step[t] = "idle"
    /\ step[t] # "idle" => role[t] = "lease"
ProducerLookedAgain ==
  \A t \in Thread : Leased(t) => stored # "leased"

ProductionInv ==
  /\ ProductionTypeOK
  /\ LeaseInv
  /\ StateIsHolders
  /\ ClientStepsAgree
  /\ ProducerLookedAgain

LEMMA ProductionInvInit == ProductionInit => ProductionInv
<1> SUFFICES ASSUME ProductionInit PROVE ProductionInv
  OBVIOUS
<1>1. TypeOK /\ LeaseInv
  BY LeaseTypeInit, LeaseInit DEF ProductionInit
<1>2. \A t \in Thread : step[t] = "idle" /\ task[t] = "lookup"
  BY DEF ProductionInit, Init
<1>3. ProductionTypeOK
  <2>1. task \in [Thread -> Task] /\ crashes \in 0..MaxCrashes
    BY DEF ProductionInit, Task
  <2>2. stored = "absent"
    BY DEF ProductionInit
  <2> QED
    BY <1>1, <2>1, <2>2 DEF ProductionTypeOK
<1> QED
  BY <1>1, <1>2, <1>3
  DEF ProductionInv, StateIsHolders, ClientStepsAgree, ProducerLookedAgain,
      Leased

\* Every step of a client is a step of the lease or leaves it alone.
LEMMA ClientsTakeLeaseSteps ==
  [ProductionNext]_vars => [Next]_leaseVars
<1> SUFFICES ASSUME [ProductionNext]_vars PROVE [Next]_leaseVars
  OBVIOUS
<1>1. ASSUME NEW t \in Thread, ClientStep(t) \/ Heartbeat(t)
      PROVE  [Next]_leaseVars
  BY <1>1 DEF ClientStep, Heartbeat, Lookup, BeginAcquire, Acquire, Recheck,
     Retreat, Produce, Release, Next
<1>3. ASSUME NEW t \in Thread, ClientFails(t) PROVE [Next]_leaseVars
  BY <1>3 DEF ClientFails, LookupFails, AcquireFails, RecheckFails, Next
<1>2. ASSUME NEW p \in Process, Die(p) PROVE Next
  BY <1>2 DEF Die, Next
<1> QED
  BY <1>1, <1>2, <1>3 DEF ProductionNext, vars

LEMMA ProductionTypeStep ==
  ASSUME ProductionTypeOK, TypeOK', [ProductionNext]_vars
  PROVE  ProductionTypeOK'
<1> USE DEF ProductionTypeOK
<1>1. ASSUME NEW t \in Thread, ClientStep(t) \/ Heartbeat(t)
      PROVE  ProductionTypeOK'
  <2>1. task' \in [Thread -> Task]
    BY <1>1 DEF ClientStep, Heartbeat, Lookup, BeginAcquire, Acquire,
       AfterAcquire, Recheck, Retreat, Produce, Release, Becomes, Task
  <2> QED
    BY <1>1, <2>1 DEF ClientStep, Heartbeat, Lookup, BeginAcquire, Acquire,
       Recheck, Retreat, Produce, Published, Release
<1>3. ASSUME NEW t \in Thread, ClientFails(t) PROVE ProductionTypeOK'
  <2>1. task' \in [Thread -> Task]
    BY <1>3 DEF ClientFails, LookupFails, AcquireFails, RecheckFails,
       Becomes, Task
  <2> QED
    BY <1>3, <2>1 DEF ClientFails, LookupFails, AcquireFails, RecheckFails
<1>2. ASSUME NEW p \in Process, Die(p) PROVE ProductionTypeOK'
  BY <1>2 DEF Die, Task
<1> QED
  BY <1>1, <1>2, <1>3 DEF ProductionNext, vars

\* With the lease a producer is alone.
LEMMA ProducerIsAlone ==
  ASSUME ~ Retiring, ProductionInv, NEW t \in Thread, NEW u \in Thread,
         step[t] = "holding", step[u] = "holding"
  PROVE  t = u
  BY HolderIsAlone
  DEF ProductionInv, ProductionTypeOK, OneProducer, Holds, ClientStepsAgree

LEMMA ProducerStep ==
  ASSUME ~ Retiring, ProductionInv, [ProductionNext]_vars
  PROVE  ClientStepsAgree' /\ ProducerLookedAgain'
<1> USE DEF ProductionInv, ProductionTypeOK, TypeOK, ClientStepsAgree,
            ProducerLookedAgain, Leased
<1>1. ASSUME NEW t \in Thread,
             Lookup(t) \/ LookupFails(t) \/ Recheck(t) \/ RecheckFails(t)
      PROVE  ClientStepsAgree' /\ ProducerLookedAgain'
  BY <1>1 DEF Lookup, LookupFails, Recheck, RecheckFails, Stored, Becomes,
     leaseVars
<1>2. ASSUME NEW t \in Thread, BeginAcquire(t)
      PROVE  ClientStepsAgree' /\ ProducerLookedAgain'
  BY <1>2 DEF BeginAcquire, EnsureLeaseDirectory, Goes
<1>3. ASSUME NEW t \in Thread, Acquire(t)
      PROVE  ClientStepsAgree' /\ ProducerLookedAgain'
  <2>1. /\ \A u \in Thread : u # t => step'[u] = step[u] /\ task'[u] = task[u]
        /\ role' = role /\ stored' = stored
        /\ step[t] # "idle"
        /\ step'[t] \in Step /\ task'[t] = AfterAcquire(t)
    BY <1>3 DEF Acquire, Becomes, Acquiring, GuardRefused, OpenGuard,
       LockGuard, LockRefused, WriteState, Goes, Step
  <2>2. CASE step'[t] = "holding"
    BY <2>1, <2>2 DEF AfterAcquire
  <2>3. CASE step'[t] = "idle"
    BY <2>1, <2>3 DEF AfterAcquire
  <2>4. CASE step'[t] \notin {"holding", "idle"}
    BY <2>1, <2>4 DEF AfterAcquire
  <2> QED
    BY <2>1, <2>2, <2>3, <2>4
<1>4. ASSUME NEW t \in Thread, AcquireFails(t)
      PROVE  ClientStepsAgree' /\ ProducerLookedAgain'
  <2>1. /\ \A u \in Thread : u # t => step'[u] = step[u] /\ task'[u] = task[u]
        /\ role' = role /\ stored' = stored
        /\ \/ step'[t] = "idle" /\ task'[t] = "produce"
           \/ step'[t] = "closing" /\ task'[t] = "retreat" /\ step[t] # "idle"
    BY <1>4 DEF AcquireFails, Becomes, AcquiringFails, DirectoryFails,
       OpenFails, LockFails, WriteStateFails, Goes
  <2> QED
    BY <2>1
<1>5. ASSUME NEW t \in Thread, Produce(t)
      PROVE  ClientStepsAgree' /\ ProducerLookedAgain'
  <2>1. /\ task[t] = "produce"
        /\ \A u \in Thread : u # t => task'[u] = task[u]
        /\ UNCHANGED leaseVars
    BY <1>5 DEF Produce, Becomes
  <2>2. CASE step[t] = "holding"
    <3>1. task'[t] = "release"
      BY <1>5, <2>2 DEF Produce, Becomes
    <3>2. \A u \in Thread : u # t => step[u] # "holding"
      BY <2>2, ProducerIsAlone
    <3> QED
      BY <2>1, <2>2, <3>1, <3>2 DEF leaseVars
  <2>3. CASE step[t] = "idle"
    <3>1. task'[t] \in {"served", "failed"}
      BY <1>5, <2>3 DEF Produce, Becomes
    <3>2. stored' = stored \/ stored' # "leased"
      BY <1>5, <2>3 DEF Produce, Published, Stored
    <3> QED
      BY <2>1, <2>3, <3>1, <3>2 DEF leaseVars
  <2> QED
    BY <2>1, <2>2, <2>3
<1>6. ASSUME NEW t \in Thread, Release(t) \/ Retreat(t)
      PROVE  ClientStepsAgree' /\ ProducerLookedAgain'
  <2>1. /\ \A u \in Thread : u # t => step'[u] = step[u] /\ task'[u] = task[u]
        /\ role' = role /\ stored' = stored /\ step[t] # "idle"
        /\ \/ step'[t] = "closing" /\ task'[t] \in {"release", "retreat"}
           \/ step'[t] = "idle" /\ task'[t] \in {"served", "failed", "produce"}
    BY <1>6 DEF Release, Retreat, Releasing, DeleteState, FreeGuard, Goes,
       Becomes
  <2> QED
    BY <2>1
<1>7. ASSUME NEW t \in Thread, Heartbeat(t)
      PROVE  ClientStepsAgree' /\ ProducerLookedAgain'
  BY <1>7 DEF Heartbeat, TouchHeartbeat
<1>8. ASSUME NEW p \in Process, Die(p)
      PROVE  ClientStepsAgree' /\ ProducerLookedAgain'
  BY <1>8 DEF Die, Crash
<1>9. CASE UNCHANGED vars
  BY <1>9 DEF vars, leaseVars
<1> QED
  BY <1>1, <1>2, <1>3, <1>4, <1>5, <1>6, <1>7, <1>8, <1>9
  DEF ProductionNext, ClientStep, ClientFails

LEMMA ProductionInvStep ==
  ASSUME ~ Retiring, ProductionInv, [ProductionNext]_vars
  PROVE  ProductionInv'
<1>1. (TypeOK /\ LeaseInv /\ StateIsHolders)'
  BY ClientsTakeLeaseSteps, LeaseInvStep DEF ProductionInv, ProductionTypeOK
<1>2. ProductionTypeOK'
  BY <1>1, ProductionTypeStep DEF ProductionInv
<1> QED
  BY <1>1, <1>2, ProducerStep DEF ProductionInv

LEMMA InvProducesOnce ==
  ASSUME ~ Retiring, ProductionInv PROVE ProducedOnce /\ OneProducer
<1>1. OneProducer
  BY HolderIsAlone DEF ProductionInv, ProductionTypeOK
<1>2. ProducedOnce
  BY ProducerIsAlone
  DEF ProductionInv, ProducedOnce, Leased, ProducerLookedAgain
<1> QED
  BY <1>1, <1>2

\* Of the clients whose lookup and lease did not fail, one at a time produces
\* the object, and none what another of them has published, for any number of
\* clients, of failures at any call, and of processes that die: by the lease,
\* and by the second look (WaitForSharedArchive, FetchToCache).
THEOREM ConcurrentMissesProduceOnce ==
  ASSUME ~ Retiring
  PROVE  ProductionSpec => []ProducedOnce
<1>1. ProductionInit => ProductionInv
  BY ProductionInvInit
<1>2. ProductionInv /\ [ProductionNext]_vars => ProductionInv'
  BY ProductionInvStep
<1>3. ProductionInv => ProducedOnce
  BY InvProducesOnce
<1> QED
  BY <1>1, <1>2, <1>3, PTL DEF ProductionSpec

(* The two kinds of behaviour of MCSharedProduction: when keys are retired, *)
(* nobody produces; when none is, the clients keep ProductionInv.           *)
EitherInv ==
  IF retiring THEN \A t \in Thread : task[t] = "lookup" ELSE ProductionInv

\* The producer of a key is alone while no key is retired, and the state file
\* others read about it is its own: a predecessor's late heartbeat or release
\* cannot replace or delete it (TouchHeartbeat, Destroy).
THEOREM StateFileIsTheProducers ==
  ASSUME ~ Retiring
  PROVE  Either => [](KeptKeyHasOneProducer /\ ProducedOnce)
<1>1. EitherInit => EitherInv
  BY ProductionInvInit DEF EitherInit, EitherInv, ProductionInit
<1>2. EitherInv /\ [EitherNext]_<<vars, retiring>> => EitherInv'
  <2> SUFFICES ASSUME EitherInv, [EitherNext]_<<vars, retiring>>
               PROVE  EitherInv'
    OBVIOUS
  <2>1. retiring' = retiring
    BY DEF EitherNext
  <2>2. CASE retiring
    BY <2>1, <2>2 DEF EitherInv, EitherNext, vars
  <2>3. CASE ~ retiring
    <3>1. [ProductionNext]_vars
      BY <2>3 DEF EitherNext
    <3> QED
      BY <2>1, <2>3, <3>1, ProductionInvStep DEF EitherInv
  <2> QED
    BY <2>2, <2>3
<1>3. EitherInv => KeptKeyHasOneProducer /\ ProducedOnce
  BY InvProducesOnce DEF EitherInv, KeptKeyHasOneProducer, ProductionInv,
     ProducedOnce, Leased
<1> QED
  BY <1>1, <1>2, <1>3, PTL DEF Either
=============================================================================
