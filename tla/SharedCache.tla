----------------------------- MODULE SharedCache -----------------------------
(***************************************************************************)
(* The build results of the shared cache: admission and lookup of objects  *)
(* (src/source/LWPT.ObjectStore.pas), references from fingerprints to      *)
(* results (src/source/LWPT.BuildCache.pas), and the byte budget, eviction *)
(* and repair they share (src/source/LWPT.CacheLifecycle.pas).             *)
(*                                                                         *)
(* A result is a manifest object that names an artifact object; a          *)
(* reference names the manifest.  One guard per object is held while the   *)
(* object is used; one mutation guard serialises every change of index,    *)
(* ledger, references and eviction.  Whoever holds the mutation guard only *)
(* tries object guards, and polls for nothing.  A guard is a lock here:    *)
(* that it is one is what ProducerLease is about.                          *)
(*                                                                         *)
(* Every object and every reference is one unit of bytes; index, control   *)
(* manifests and ledger are none.                                          *)
(***************************************************************************)
EXTENDS Integers, FiniteSets, SequencesExt

CONSTANTS
  Client, NoClient,
  Fingerprint,
  Result, None,             \* results of compilations; None is no result
  FingerprintOf,            \* the fingerprint of each result
  Artifact, ArtifactOf,     \* and the artifact its manifest names
  Budget, Band,             \* ResolveCacheMaxBytes, and a tenth of it
  MaxOperations,            \* bound: operations that begin
  MaxFaults                 \* bound: clients killed and objects corrupted

\* A result stands for its manifest object.
Object == Result \cup Artifact

ASSUME ResultAssumption ==
  /\ FingerprintOf \in [Result -> Fingerprint]
  /\ ArtifactOf \in [Result -> Artifact]
  /\ Result \cap Artifact = {}
  /\ None \notin Object
ASSUME ClientAssumption == NoClient \notin Client
ASSUME FiniteAssumption == IsFiniteSet(Object) /\ IsFiniteSet(Fingerprint)
ASSUME BudgetAssumption ==
  /\ Budget \in Nat
  /\ Band \in 0..Budget

VARIABLES
  object,       \* what the path of each object holds
  reference,    \* the result each fingerprint refers to
  index,        \* entries never used since a rebuild, and the used ones, LRU
  staging,      \* objects with bytes in their staging directory
  quarantine,   \* units in quarantine
  ledger,       \* the usage ledger, and whether the index is the one it knew
  mutation,     \* who holds the mutation guard
  guard,        \* and the guard of each object
  job,          \* what each client is doing
  batch,        \* the eviction or verification the mutation holder runs
  corrupted,    \* objects whose bytes ever changed on disk
  cutShort,     \* published objects whose admission never got to its end
  operations, deaths

store == <<object, reference, index, staging, quarantine, ledger>>
locks == <<mutation, guard>>
bounds == <<corrupted, operations, deaths>>
cacheVars == <<store, locks, job, batch, cutShort, bounds>>

Op == {"none", "store", "materialize", "repair"}
Purpose == {"touch", "admit", "reference", "discard", "repair"}
At == {"idle", "object", "verify", "quarantine", "touch", "index", "stage",
       "publish", "record", "account", "room", "evict", "unlink", "settle",
       "rollback", "discard", "discarding", "giveup", "reference", "write",
       "copy", "invalidate", "repair", "verifying"}

Idle == [op |-> "none", result |-> None, object |-> None, at |-> "idle",
         purpose |-> "touch", inserted |-> {}]
NoBatch == [left |-> {}, removed |-> {}, collected |-> FALSE, edges |-> {},
            bytes |-> 0, victim |-> None]

JobType == [op : Op, result : Result \cup {None}, object : Object \cup {None},
            at : At, purpose : Purpose, inserted : SUBSET Object]
BatchType == [left : SUBSET Object, removed : SUBSET Object,
              collected : BOOLEAN, edges : SUBSET (Fingerprint \X Object),
              bytes : Int, victim : Object \cup {None}]

IndexTypeOK ==
  /\ index.unused \subseteq Object
  /\ ToSet(index.used) \subseteq Object \ index.unused

StoreTypeOK ==
  /\ object \in [Object -> {"absent", "good", "bad"}]
  /\ reference \in [Fingerprint -> Result \cup {None}]
  /\ staging \subseteq Object
  /\ quarantine \in Nat
  /\ ledger \in [bytes : Nat, growth : Nat,
                 index : {"current", "rewritten", "unknown"}]
  /\ corrupted \subseteq Object
  /\ cutShort \subseteq Object

JobTypeOK ==
  /\ mutation \in Client \cup {NoClient}
  /\ guard \in [Object -> Client \cup {NoClient}]
  /\ job \in [Client -> JobType]
  /\ batch \in BatchType

CacheTypeOK == IndexTypeOK /\ StoreTypeOK /\ JobTypeOK

CacheInit ==
  /\ object = [d \in Object |-> "absent"]
  /\ reference = [f \in Fingerprint |-> None]
  /\ index = [unused |-> {}, used |-> <<>>]
  /\ staging = {} /\ quarantine = 0
  /\ ledger = [bytes |-> 0, growth |-> 0, index |-> "unknown"]
  /\ mutation = NoClient /\ guard = [d \in Object |-> NoClient]
  /\ job = [c \in Client |-> Idle] /\ batch = NoBatch
  /\ corrupted = {} /\ cutShort = {} /\ operations = 0 /\ deaths = 0

-----------------------------------------------------------------------------
(***************************************************************************)
(* What a step looks at and what it writes.                                *)
(***************************************************************************)

Present == {d \in Object : object[d] # "absent"}
Referring == {f \in Fingerprint : reference[f] # None}

\* MeasureCacheBytes walks the whole tree, residue included.
Tree == Cardinality(Present) + Cardinality(Referring)
        + Cardinality(staging) + quarantine

LowWater == Budget - Band

Turns(c, there) == job' = [job EXCEPT ![c].at = there]
FreeMutation == mutation' = NoClient
FreeGuards(c) ==
  guard' = [d \in Object |-> IF guard[d] = c THEN NoClient ELSE guard[d]]

\* An index with d as the object used last, or without the objects in gone.
Without(gone) == [unused |-> index.unused \ gone,
                  used |-> SelectSeq(index.used, LAMBDA d : d \notin gone)]
UsedNow(d) == [unused |-> index.unused \ {d},
               used |-> Append(Without({d}).used, d)]

\* WriteIndex leaves the ledger with an index it does not know; the writer
\* that trusted it before can bring it up to date (LoadLedger).
LedgerOfOldIndex ==
  [ledger EXCEPT !.index = IF @ = "current" THEN "rewritten" ELSE "unknown"]
UntrustedLedger == [ledger EXCEPT !.index = "unknown"]
LedgerOf(bytes) == [bytes |-> bytes, growth |-> 0, index |-> "current"]

\* AccountLedger: between walks the ledger only grows; one that was not
\* trusted is dropped.
Accounted(added) ==
  IF ledger.index = "unknown" THEN ledger
  ELSE [bytes |-> ledger.bytes + added, growth |-> ledger.growth + added,
        index |-> "current"]

\* Seeded fault: a reference is an edge to its manifest only.
DirectEdges == {<<f, reference[f]>> : f \in Referring}

\* Collect: what each reference reaches, through a manifest that verifies.
Edges ==
  DirectEdges \cup
  {<<f, ArtifactOf[reference[f]]>> :
     f \in {g \in Referring : object[reference[g]] = "good"}}

Malformed == {f \in Referring : object[reference[f]] # "good"}

\* The references that RemoveObjectFiles removes before the payload.
Reaching(d, edges) == {f \in Referring : <<f, d>> \in edges}
Dropped(gone) ==
  [f \in Fingerprint |-> IF f \in gone THEN None ELSE reference[f]]

-----------------------------------------------------------------------------
(***************************************************************************)
(* Operations begin.                                                       *)
(***************************************************************************)

Begins(c) ==
  /\ job[c] = Idle
  /\ operations < MaxOperations /\ operations' = operations + 1
  /\ UNCHANGED <<store, locks, batch, cutShort, corrupted, deaths>>

\* Store is given an artifact and its fingerprint.
Store(c, r) ==
  /\ Begins(c)
  /\ job' = [job EXCEPT ![c] = [Idle EXCEPT !.op = "store", !.result = r,
                                !.object = ArtifactOf[r], !.at = "object"]]

\* Materialize reads the reference under no guard at all.
Materialize(c, f) ==
  /\ Begins(c)
  /\ reference[f] # None
  /\ job' = [job EXCEPT ![c] =
       [Idle EXCEPT !.op = "materialize", !.result = reference[f],
        !.object = reference[f], !.at = "object"]]

RepairSharedCache(c) ==
  /\ Begins(c)
  /\ job' = [job EXCEPT ![c] = [Idle EXCEPT !.op = "repair", !.at = "repair"]]

-----------------------------------------------------------------------------
(***************************************************************************)
(* Looking an object up: LookupWithObjectGuard.                            *)
(***************************************************************************)

AcquireObject(c) ==
  LET d == job[c].object IN
    /\ job[c].at = "object"
    /\ guard[d] = NoClient
    /\ guard' = [guard EXCEPT ![d] = c]
    /\ Turns(c, "verify")
    /\ UNCHANGED <<store, mutation, batch, cutShort, bounds>>

\* An object that is not there is staged by Store; Materialize invalidates
\* the reference that led to it.
NotFound(c) == IF job[c].op = "store" THEN "stage" ELSE "invalidate"

VerifyObject(c) ==
  /\ job[c].at = "verify"
  /\ Turns(c, CASE object[job[c].object] = "good" -> "touch"
               [] object[job[c].object] = "bad" -> "quarantine"
               [] OTHER -> NotFound(c))
  /\ UNCHANGED <<store, locks, batch, cutShort, bounds>>

\* Seeded fault: the guard of a corrupt object is freed once the object is in
\* quarantine, before the reference is invalidated.
RepairCorruptObjectAndFree(c) ==
  LET d == job[c].object IN
    /\ job[c].at = "quarantine"
    /\ mutation = NoClient
    /\ object' = [object EXCEPT ![d] = "absent"]
    /\ quarantine' = quarantine + 1
    /\ cutShort' = cutShort \ {d}
    /\ Turns(c, NotFound(c))
    /\ guard' = IF job[c].op = "materialize"
                THEN [guard EXCEPT ![d] = NoClient] ELSE guard
    /\ UNCHANGED <<reference, index, staging, ledger, mutation, batch, bounds>>

\* RepairCorruptObjectLocked, under the mutation guard from start to end.
RepairCorruptObject(c) ==
  /\ job[c].at = "quarantine"
  /\ mutation = NoClient
  /\ object' = [object EXCEPT ![job[c].object] = "absent"]
  /\ quarantine' = quarantine + 1
  /\ cutShort' = cutShort \ {job[c].object}
  /\ Turns(c, NotFound(c))
  /\ UNCHANGED <<reference, index, staging, ledger, locks, batch, bounds>>

\* TouchObjectLocked: when the index grows, room is made for it first.
Touch(c) ==
  /\ job[c].at = "touch"
  /\ mutation = NoClient
  /\ mutation' = c
  /\ \E there \in {"room", "index"} :
       job' = [job EXCEPT ![c].at = there, ![c].purpose = "touch"]
  /\ UNCHANGED <<store, guard, batch, cutShort, bounds>>

TouchIndex(c) ==
  /\ job[c].at = "index"
  /\ index' = UsedNow(job[c].object)
  /\ ledger' = LedgerOfOldIndex
  /\ Turns(c, "account")
  /\ UNCHANGED <<object, reference, staging, quarantine, locks, batch,
                 cutShort, bounds>>

\* What a job does once its object is in the store.  Store keeps the guard.
Advance(j) ==
  IF j.op = "materialize" THEN [j EXCEPT !.at = "copy"]
  ELSE IF j.object = j.result THEN [j EXCEPT !.at = "reference"]
  ELSE [j EXCEPT !.object = j.result, !.at = "object"]

\* The verified copy: the manifest leads to the artifact, and that is a hit.
Copy(c) ==
  LET d == job[c].object IN
    /\ job[c].at = "copy"
    /\ guard' = [guard EXCEPT ![d] = NoClient]
    /\ job' = [job EXCEPT ![c] =
         IF object[d] = "good" /\ d = job[c].result
         THEN [@ EXCEPT !.object = ArtifactOf[d], !.at = "object"] ELSE Idle]
    /\ UNCHANGED <<store, mutation, batch, cutShort, bounds>>

CopyFails(c) ==
  /\ job[c].at = "copy"
  /\ guard' = [guard EXCEPT ![job[c].object] = NoClient]
  /\ job' = [job EXCEPT ![c] = Idle]
  /\ UNCHANGED <<store, mutation, batch, cutShort, bounds>>

\* InvalidateReferenceIfCurrent: only the text that was read is deleted.
Invalidate(c) ==
  LET f == FingerprintOf[job[c].result] IN
    /\ job[c].at = "invalidate"
    /\ mutation = NoClient
    /\ reference' = IF reference[f] = job[c].result THEN Dropped({f})
                    ELSE reference
    /\ FreeGuards(c)
    /\ job' = [job EXCEPT ![c] = Idle]
    /\ UNCHANGED <<object, index, staging, quarantine, ledger, mutation,
                   batch, cutShort, bounds>>

-----------------------------------------------------------------------------
(***************************************************************************)
(* Admission: AdmitRetained and Store.                                     *)
(***************************************************************************)

StageObject(c) ==
  /\ job[c].at = "stage"
  /\ staging' = staging \cup {job[c].object}
  /\ Turns(c, "publish")
  /\ UNCHANGED <<object, reference, index, quarantine, ledger, locks, batch,
                 cutShort, bounds>>

\* The copy or its publication fails: nothing of the object stays.
AdmissionFails(c) ==
  LET d == job[c].object IN
    /\ job[c].at = "publish"
    /\ staging' = staging \ {d}
    /\ guard' = [guard EXCEPT ![d] = NoClient]
    /\ Turns(c, "giveup")
    /\ UNCHANGED <<object, reference, index, quarantine, ledger, mutation,
                   batch, cutShort, bounds>>

PublishObject(c) ==
  LET d == job[c].object IN
    /\ job[c].at = "publish"
    /\ mutation = NoClient
    /\ mutation' = c
    /\ object' = [object EXCEPT ![d] = "good"]
    /\ staging' = staging \ {d}
    /\ job' = [job EXCEPT ![c].at = "record", ![c].purpose = "admit"]
    /\ UNCHANGED <<reference, index, quarantine, ledger, guard, batch,
                   cutShort, bounds>>

RecordObject(c) ==
  /\ job[c].at = "record"
  /\ index' = UsedNow(job[c].object)
  /\ ledger' = LedgerOfOldIndex
  /\ Turns(c, "account")
  /\ UNCHANGED <<object, reference, staging, quarantine, locks, batch,
                 cutShort, bounds>>

\* A control file cannot be written: the ledger is dropped, the mutation
\* guard freed, and the object discarded under a new one.
RecordFails(c) ==
  /\ job[c].at = "record"
  /\ ledger' = UntrustedLedger
  /\ FreeMutation
  /\ Turns(c, "rollback")
  /\ UNCHANGED <<object, reference, index, staging, quarantine, guard, batch,
                 cutShort, bounds>>

Rollback(c) ==
  /\ job[c].at = "rollback"
  /\ mutation = NoClient
  /\ mutation' = c
  /\ Turns(c, "discard")
  /\ UNCHANGED <<store, guard, batch, cutShort, bounds>>

\* The bytes a job asks room for: those of a new reference.
Additional(c) ==
  IF job[c].purpose = "reference"
     /\ reference[FingerprintOf[job[c].result]] = None THEN 1 ELSE 0

AfterAccount(j) ==
  CASE j.purpose = "touch" -> Advance(j)
    [] j.purpose = "admit" -> [j EXCEPT !.at = "room"]
    [] j.purpose = "reference" -> [j EXCEPT !.at = "write"]
    [] OTHER -> [j EXCEPT !.at = "giveup", !.inserted = @ \ {j.object}]

AccountLedger(c) ==
  LET purpose == job[c].purpose
      d == job[c].object IN
    /\ job[c].at = "account"
    /\ ledger' = Accounted(IF purpose = "admit" THEN 1 ELSE Additional(c))
    /\ mutation' = IF purpose \in {"touch", "discard"} THEN NoClient
                   ELSE mutation
    /\ guard' = IF purpose = "discard" /\ d \notin job[c].inserted
                THEN [guard EXCEPT ![d] = NoClient] ELSE guard
    /\ job' = [job EXCEPT ![c] = AfterAccount(@)]
    /\ UNCHANGED <<object, reference, index, staging, quarantine, batch,
                   cutShort, bounds>>

\* Both objects are in the store and guarded: make room for the reference.
BeginReference(c) ==
  /\ job[c].at = "reference"
  /\ mutation = NoClient
  /\ mutation' = c
  /\ job' = [job EXCEPT ![c].at = "room", ![c].purpose = "reference"]
  /\ UNCHANGED <<store, guard, batch, cutShort, bounds>>

WriteReference(c) ==
  LET r == job[c].result IN
    /\ job[c].at = "write"
    /\ reference' = [reference EXCEPT ![FingerprintOf[r]] = r]
    /\ FreeMutation
    /\ FreeGuards(c)
    /\ job' = [job EXCEPT ![c] = Idle]
    /\ UNCHANGED <<object, index, staging, quarantine, ledger, batch,
                   cutShort, bounds>>

\* DiscardObjectLocked: references, payload, index, ledger, in this order.
DiscardReferences(c) ==
  /\ job[c].at = "discard"
  /\ reference' = Dropped(Reaching(job[c].object, Edges) \cup Malformed)
  /\ Turns(c, "discarding")
  /\ UNCHANGED <<object, index, staging, quarantine, ledger, locks, batch,
                 cutShort, bounds>>

DiscardPayload(c) ==
  LET d == job[c].object IN
    /\ job[c].at = "discarding"
    /\ object' = [object EXCEPT ![d] = "absent"]
    /\ index' = Without({d})
    /\ ledger' = LedgerOfOldIndex
    /\ cutShort' = cutShort \ {d}
    /\ job' = [job EXCEPT ![c].at = "account", ![c].purpose = "discard"]
    /\ UNCHANGED <<reference, staging, quarantine, locks, batch, bounds>>

\* Store was not published: it discards what it inserted, the manifest first.
DiscardRetained(c) ==
  LET j == job[c] IN
    /\ j.at = "giveup" /\ j.inserted # {}
    /\ mutation = NoClient
    /\ mutation' = c
    /\ job' = [job EXCEPT ![c].at = "discard", ![c].object =
         IF j.result \in j.inserted THEN j.result ELSE ArtifactOf[j.result]]
    /\ UNCHANGED <<store, guard, batch, cutShort, bounds>>

GiveUp(c) ==
  /\ job[c].at = "giveup" /\ job[c].inserted = {}
  /\ FreeGuards(c)
  /\ job' = [job EXCEPT ![c] = Idle]
  /\ UNCHANGED <<store, mutation, batch, cutShort, bounds>>

-----------------------------------------------------------------------------
(***************************************************************************)
(* The budget: EnsureRoomLocked and EnforceBudgetLocked.                   *)
(***************************************************************************)

\* What the caller of EnsureRoomLocked does with its answer.
RoomFound(c, found) ==
  LET j == job[c] IN
    CASE j.purpose = "touch" -> IF found THEN [j EXCEPT !.at = "index"]
                                ELSE Advance(j)
      [] j.purpose = "admit" ->
           IF found THEN Advance([j EXCEPT !.inserted = @ \cup {j.object}])
           ELSE [j EXCEPT !.at = "discard"]
      [] j.purpose = "reference" ->
           [j EXCEPT !.at = IF ~ found THEN "giveup"
                            ELSE IF Additional(c) = 0 THEN "write"
                            ELSE "account"]
      [] OTHER -> Idle

\* Seeded fault: a client keeps the mutation guard once it has admitted.
HoldsMutationThroughout(c, found) ==
  RoomFound(c, found).at \in {"index", "account", "write", "discard", "object"}

HoldsMutation(c, found) ==
  RoomFound(c, found).at \in {"index", "account", "write", "discard"}

\* The answer ends the batch, and with it the mutation guard unless the
\* caller goes on under it.
Answer(c, found) ==
  /\ job' = [job EXCEPT ![c] = RoomFound(c, found)]
  /\ mutation' = IF HoldsMutation(c, found) THEN c ELSE NoClient
  /\ batch' = NoBatch

Trusted(c) ==
  /\ ledger.index = "current"
  /\ ledger.bytes + Additional(c) <= Budget
  /\ ledger.growth <= Band

\* A trusted ledger with room in it needs no walk.
TrustLedger(c) ==
  /\ job[c].at = "room"
  /\ Trusted(c)
  /\ Answer(c, TRUE)
  /\ UNCHANGED <<store, guard, cutShort, bounds>>

\* A walk finds room, or that the request alone is over the budget.
Measure(c) ==
  /\ job[c].at = "room"
  /\ ~ Trusted(c)
  /\ IF Additional(c) > Budget
     THEN Answer(c, FALSE) /\ UNCHANGED <<ledger, cutShort>>
     ELSE /\ Tree + Additional(c) <= Budget
          /\ Answer(c, TRUE)
          /\ ledger' = LedgerOf(Tree)
          /\ cutShort' = {}
  /\ UNCHANGED <<object, reference, index, staging, quarantine, guard, bounds>>

BeginEviction(c) ==
  /\ job[c].at = "room"
  /\ ~ Trusted(c)
  /\ Additional(c) <= Budget
  /\ Tree + Additional(c) > Budget
  /\ batch' = [NoBatch EXCEPT !.left = Present, !.bytes = Tree]
  /\ Turns(c, "evict")
  /\ UNCHANGED <<store, locks, cutShort, bounds>>

OverLowWater(c) == batch.bytes + Additional(c) > LowWater

\* Least recently used first; the order among unused ones is any.
Rank(d) == IF d \in ToSet(index.used)
           THEN CHOOSE i \in DOMAIN index.used : index.used[i] = d ELSE 0
IsNextCandidate(d) ==
  d \in batch.left /\ \A e \in batch.left : Rank(d) <= Rank(e)

\* Eviction never waits for an object guard, also not for one of its own.
PreserveLive(c, d) ==
  /\ job[c].at = "evict"
  /\ OverLowWater(c)
  /\ IsNextCandidate(d)
  /\ guard[d] # NoClient
  /\ batch' = [batch EXCEPT !.left = @ \ {d}]
  /\ UNCHANGED <<store, locks, job, cutShort, bounds>>

\* RemoveObjectFiles, first half.  A batch collects its edges once and then
\* removes malformed references too.
RemoveReferencesFor(c, d, edges, malformed) ==
  LET gone == Reaching(d, edges) \cup malformed IN
    /\ guard' = [guard EXCEPT ![d] = c]
    /\ reference' = Dropped(gone)
    /\ batch' = [batch EXCEPT !.collected = TRUE, !.edges = edges,
                 !.victim = d, !.bytes = @ - Cardinality(gone)]
    /\ Turns(c, "unlink")
    /\ UNCHANGED <<object, index, staging, quarantine, ledger, mutation,
                   cutShort, bounds>>

EvictReferences(c, d) ==
  /\ job[c].at = "evict"
  /\ OverLowWater(c)
  /\ IsNextCandidate(d)
  /\ guard[d] = NoClient
  /\ IF batch.collected THEN RemoveReferencesFor(c, d, batch.edges, {})
     ELSE RemoveReferencesFor(c, d, Edges, Malformed)

\* Second half: the payload goes, and its guard is freed.
RemovePayload(c) ==
  LET d == batch.victim IN
    /\ job[c].at = "unlink"
    /\ object' = [object EXCEPT ![d] = "absent"]
    /\ guard' = [guard EXCEPT ![d] = NoClient]
    /\ cutShort' = cutShort \ {d}
    /\ batch' = [batch EXCEPT !.left = @ \ {d}, !.removed = @ \cup {d},
                 !.bytes = @ - 1, !.victim = None]
    /\ Turns(c, IF job[c].op = "repair" /\ job[c].purpose # "repair"
               THEN "verifying" ELSE "evict")
    /\ UNCHANGED <<reference, index, staging, quarantine, ledger, mutation,
                   bounds>>

WriteIndexWithoutFlagged(c) ==
  /\ job[c].at = "evict"
  /\ batch.left = {} \/ ~ OverLowWater(c)
  /\ index' = Without(batch.removed)
  /\ ledger' = UntrustedLedger
  /\ Turns(c, "settle")
  /\ UNCHANGED <<object, reference, staging, quarantine, locks, batch,
                 cutShort, bounds>>

\* Other clients stage while this one evicts: only a walk ends the batch.
Settle(c) ==
  /\ job[c].at = "settle"
  /\ IF Tree + Additional(c) > LowWater /\ batch.left # {}
     THEN /\ batch' = [batch EXCEPT !.bytes = Tree]
          /\ Turns(c, "evict")
          /\ UNCHANGED <<ledger, mutation, cutShort>>
     ELSE /\ Answer(c, Tree + Additional(c) <= Budget)
          /\ ledger' = IF Tree <= Budget THEN LedgerOf(Tree) ELSE ledger
          /\ cutShort' = IF Tree <= Budget THEN {} ELSE cutShort
  /\ UNCHANGED <<object, reference, index, staging, quarantine, guard, bounds>>

-----------------------------------------------------------------------------
(***************************************************************************)
(* Repair: RepairSharedCache, under the mutation guard from start to end.  *)
(***************************************************************************)

\* Staging nobody is using and everything in quarantine go first.
RepairResidue(c) ==
  /\ job[c].at = "repair"
  /\ mutation = NoClient
  /\ mutation' = c
  /\ staging' = {d \in staging : guard[d] # NoClient}
  /\ quarantine' = 0
  /\ ledger' = UntrustedLedger
  /\ batch' = [NoBatch EXCEPT !.left = Present, !.bytes = Tree]
  /\ Turns(c, "verifying")
  /\ UNCHANGED <<object, reference, index, guard, cutShort, bounds>>

\* An object in use is preserved, one that verifies is kept.
KeepObject(c, d) ==
  /\ job[c].at = "verifying"
  /\ d \in batch.left
  /\ guard[d] # NoClient \/ object[d] = "good"
  /\ batch' = [batch EXCEPT !.left = @ \ {d}]
  /\ UNCHANGED <<store, locks, job, cutShort, bounds>>

RemoveCorruptObject(c, d) ==
  /\ job[c].at = "verifying"
  /\ d \in batch.left
  /\ guard[d] = NoClient /\ object[d] = "bad"
  /\ RemoveReferencesFor(c, d, Edges, Malformed)

\* RepairBuildReferences, the index, and then EnforceBudgetLocked.
RepairReferences(c) ==
  /\ job[c].at = "verifying"
  /\ batch.left = {}
  /\ reference' = Dropped(Malformed \cup
       {f \in Referring : object[ArtifactOf[reference[f]]] = "absent"})
  /\ LET entries == Without(batch.removed) IN
       index' = IF entries.unused \cup ToSet(entries.used) = Present
                THEN entries ELSE [unused |-> Present, used |-> <<>>]
  /\ ledger' = UntrustedLedger
  /\ batch' = NoBatch
  /\ job' = [job EXCEPT ![c].at = "room", ![c].purpose = "repair"]
  /\ UNCHANGED <<object, staging, quarantine, locks, cutShort, bounds>>

-----------------------------------------------------------------------------
(***************************************************************************)
(* The environment.                                                        *)
(***************************************************************************)

\* The bytes of an object change on disk.
Corrupt(d) ==
  /\ object[d] = "good"
  /\ deaths + Cardinality(corrupted) < MaxFaults
  /\ object' = [object EXCEPT ![d] = "bad"]
  /\ corrupted' = corrupted \cup {d}
  /\ UNCHANGED <<reference, index, staging, quarantine, ledger, locks, job,
                 batch, cutShort, operations, deaths>>

\* The object a client has published and not yet made room for.
Unsettled(c) ==
  IF \/ job[c].at \in {"record", "rollback"}
     \/ job[c].purpose = "admit" /\ job[c].at \in {"account", "room", "evict",
          "unlink", "settle", "discard", "discarding"}
  THEN {job[c].object} ELSE {}

\* A client dies; the system frees its guards.  An index it had rewritten
\* is not the one the ledger knows.
ClientDies(c) ==
  /\ job[c].op # "none"
  /\ deaths + Cardinality(corrupted) < MaxFaults
  /\ deaths' = deaths + 1
  /\ FreeGuards(c)
  /\ job' = [job EXCEPT ![c] = Idle]
  /\ cutShort' = cutShort \cup Unsettled(c)
  /\ IF mutation = c
     THEN /\ FreeMutation
          /\ batch' = NoBatch
          /\ ledger' = IF ledger.index = "rewritten" THEN UntrustedLedger
                       ELSE ledger
     ELSE UNCHANGED <<mutation, batch, ledger>>
  /\ UNCHANGED <<object, reference, index, staging, quarantine, corrupted,
                 operations>>

Begin(c) ==
  \/ \E r \in Result : Store(c, r)
  \/ \E f \in Fingerprint : Materialize(c, f)
  \/ RepairSharedCache(c)

LookupStep(c) ==
  \/ AcquireObject(c) \/ VerifyObject(c) \/ RepairCorruptObject(c)
  \/ Touch(c) \/ TouchIndex(c) \/ Copy(c) \/ CopyFails(c) \/ Invalidate(c)

AdmitStep(c) ==
  \/ StageObject(c) \/ AdmissionFails(c) \/ PublishObject(c)
  \/ RecordObject(c) \/ RecordFails(c) \/ Rollback(c) \/ AccountLedger(c)
  \/ BeginReference(c) \/ WriteReference(c)
  \/ DiscardReferences(c) \/ DiscardPayload(c) \/ DiscardRetained(c)
  \/ GiveUp(c)

RoomStep(c) ==
  \/ TrustLedger(c) \/ Measure(c) \/ BeginEviction(c)
  \/ \E d \in Object : PreserveLive(c, d) \/ EvictReferences(c, d)
  \/ RemovePayload(c) \/ WriteIndexWithoutFlagged(c) \/ Settle(c)

RepairStep(c) ==
  \/ RepairResidue(c) \/ RepairReferences(c)
  \/ \E d \in Object : KeepObject(c, d) \/ RemoveCorruptObject(c, d)

CacheNext ==
  \/ \E c \in Client :
       \/ Begin(c) \/ LookupStep(c) \/ AdmitStep(c) \/ RoomStep(c)
       \/ RepairStep(c) \/ ClientDies(c)
  \/ \E d \in Object : Corrupt(d)

CacheSpec == CacheInit /\ [][CacheNext]_cacheVars

-----------------------------------------------------------------------------
(***************************************************************************)
(* Properties.                                                             *)
(***************************************************************************)

\* Eviction, discarding, repair and deaths never leave a fingerprint that
\* resolves only part of a build result: unless bytes went bad on disk, both
\* objects of every reference are there (RemoveObjectFiles, Store).
ReferencesResolve ==
  \A f \in Referring :
    \A d \in {reference[f], ArtifactOf[reference[f]]} :
      object[d] = "absent" => d \in corrupted

\* Materialize never takes a reference away whose result is whole: what it
\* found missing cannot have come back meanwhile (Materialize holds the
\* guard of the missing object until the reference is gone).
WholeResultsStay ==
  [][\A c \in Client : Invalidate(c) /\ reference' # reference =>
       \/ object[job[c].result] # "good"
       \/ object[ArtifactOf[job[c].result]] # "good"]_cacheVars

Admitting == UNION {Unsettled(c) : c \in Client}
Counted == Cardinality(Present \ (cutShort \cup Admitting))
           + Cardinality(Referring)

\* Between walks the ledger never falls below the tree it stands for: what
\* is missing in it is what an admission in progress, or one that was cut
\* short, published (AccountLedger, ReadIndexIdentity).
LedgerCoversTree == ledger.index = "current" => Counted <= ledger.bytes

\* What was admitted fits into the budget at any time, also while somebody
\* makes room for more (MakeRoomLocked, EnforceBudgetLocked).
WithinBudget == Counted <= Budget

\* What the cache promises to those who use it.
CacheIsConsistent == ReferencesResolve /\ LedgerCoversTree /\ WithinBudget

\* The clients that c waits for.
WaitsFor(c) ==
  CASE job[c].at = "object" -> {guard[job[c].object]} \ {NoClient}
    [] \/ job[c].at \in {"quarantine", "touch", "publish", "rollback",
                         "reference", "invalidate", "repair"}
       \/ job[c].at = "giveup" /\ job[c].inserted # {} ->
         {mutation} \ {NoClient}
    [] OTHER -> {}

\* No clients wait for each other in a circle: an artifact is guarded before
\* its manifest, and both before the mutation guard (Store, Materialize).
NoCircularWait ==
  \A waiting \in (SUBSET Client) \ {{}} :
    \E c \in waiting : WaitsFor(c) \cap waiting = {}
=============================================================================
