--------------------------- MODULE RegistryOrigin ---------------------------
(***************************************************************************)
(* The commits of a registry origin (src/source/LWPT.Registry.Store.pas):  *)
(* remote publication, yank and restore, key rotation, renewal of the      *)
(* active checkpoint by a reader, and recovery when a store is opened.     *)
(*                                                                         *)
(* A commit holds the publication lease while it writes documents under    *)
(* immutable paths, one after another; replacing state/current.toml is     *)
(* what activates them.  It may die, or fail, between any two writes.      *)
(* Readers take no lease.                                                  *)
(*                                                                         *)
(* Documents named by their hash are their own names.  The hash of a       *)
(* snapshot commits to the snapshots before it: a snapshot is here the     *)
(* sequence of its history, and its sequence number is the length.         *)
(* Indexes are left out: they are written and nothing reads them.          *)
(***************************************************************************)
EXTENDS RegistryUpload, SequencesExt

CONSTANTS
  Package,                  \* names with their versions
  MaxTime, RenewalAge,      \* times, and when a checkpoint is renewed
  MaxSnapshots,             \* the verification limit of snapshots
  MaxKeys                   \* bound: signing keys ever made

ASSUME OriginAssumption ==
  /\ MaxTime \in Nat /\ RenewalAge \in Nat \ {0}
  /\ MaxSnapshots \in Nat \ {0}
  /\ MaxKeys \in Nat \ {0}
  /\ None \notin Package \cup Process

VARIABLES
  records, snapshots,       \* by hash
  checkpoints, checkpointSignatures,     \* checkpoints/<n>.toml, .sig.toml
  renewals, renewalSignatures,           \* checkpoints/renewals/sha256/
  rotations, oldSignatures, newSignatures,  \* rotations/<n>.toml and .sig
  keys,                     \* key documents, with their seeds
  current,                  \* state/current.toml
  commit                    \* what the commit of each process is doing

documents == <<records, snapshots, checkpoints, checkpointSignatures, renewals,
               renewalSignatures, rotations, oldSignatures, newSignatures, keys>>
staged == <<incoming, objects, staging>>
vars == <<leases, staged, operations, documents, current, commit>>

Time == 0..MaxTime
Key == 1..MaxKeys
RootKey == 1
Record == [package : Package, archive : Archive, yanked : BOOLEAN,
           published : Time]
Op == {"none", "publish", "yank", "rotate", "renew", "recover"}
Step == {"idle", "lease", "sweep", "expiring", "read", "prune", "head",
         "adopt", "record", "key", "rotation", "old", "new", "snapshot",
         "checkpoint", "signature", "renewal", "sign", "activate"}

NotCommitting == [op |-> "none", step |-> "idle", request |-> None,
                  state |-> None, next |-> None]

\* No renewal is None, the pointer's field of a head without one.
ASSUME NoneAssumption ==
  None \notin [snapshot : Seq([records : SUBSET Record, time : Time]),
               time : Time, key : Key]

\* Checkpoint and signature documents, and the pointer to a head.
Checkpoint(snapshot, time, key) ==
  [snapshot |-> snapshot, time |-> time, key |-> key]
Signed(document, key) == [payload |-> document, key |-> key]
Pointer(snapshot, renewal) == [snapshot |-> snapshot, renewal |-> renewal]

First == <<[records |-> {}, time |-> 0]>>

OriginInit ==
  /\ UploadInit
  /\ records = {} /\ snapshots = {First}
  /\ checkpoints = <<Checkpoint(First, 0, RootKey)>>
  /\ checkpointSignatures = <<Signed(Checkpoint(First, 0, RootKey), RootKey)>>
  /\ renewals = {} /\ renewalSignatures = {}
  /\ rotations = <<>> /\ oldSignatures = <<>> /\ newSignatures = <<>>
  /\ keys = {RootKey}
  /\ current = Pointer(First, None)
  /\ commit = [p \in Committer |-> NotCommitting]

-----------------------------------------------------------------------------
(***************************************************************************)
(* What a commit reads, and how it writes.                                 *)
(***************************************************************************)

Lookup(f, x) == IF x \in DOMAIN f THEN f[x] ELSE None

Sequence(state) == Len(state.snapshot)
ActiveCheckpoint(state) ==
  IF state.renewal # None THEN state.renewal ELSE checkpoints[Sequence(state)]
ActiveRecords(state) == Last(state.snapshot).records
RecordsOf(state, package) == {r \in ActiveRecords(state) : r.package = package}

\* WriteImmutable: a path that holds the same bytes already is left alone.
Writable(f, n, document) == Lookup(f, n) \in {None, document}
Written(f, n, document) ==
  [m \in DOMAIN f \cup {n} |-> IF m = n THEN document ELSE f[m]]

To(p, step) == commit' = [commit EXCEPT ![p].step = step]

\* The commit ends, well or not, and with it the lease.
End(p) ==
  /\ commit' = [commit EXCEPT ![p] = NotCommitting]
  /\ publication' = Unpublished(p)

-----------------------------------------------------------------------------
(***************************************************************************)
(* From the request to the head that was read under the lease.             *)
(***************************************************************************)

Begin(p, op, request, state) ==
  /\ commit[p].step = "idle"
  /\ operations < MaxOperations /\ operations' = operations + 1
  /\ commit' = [commit EXCEPT ![p] =
       [NotCommitting EXCEPT !.op = op, !.step = "lease", !.request = request,
                             !.state = state]]
  /\ UNCHANGED <<leases, staged, documents, current>>

\* A client made the record, and its time with it.
BeginPublish(p) ==
  \E r \in Record : ~r.yanked /\ Begin(p, "publish", r, None)

BeginYank(p) ==
  \E package \in Package, yanked \in BOOLEAN :
    Begin(p, "yank", [package |-> package, yanked |-> yanked], None)

\* An operator names the key that is to be replaced.
BeginRotate(p) == \E key \in keys : Begin(p, "rotate", key, None)

\* Every request for a resource renews the checkpoint first.
BeginRenew(p) == Begin(p, "renew", None, None)

\* A store is opened: the head is read and verified before there is a lease.
BeginRecover(p) == Begin(p, "recover", None, current)

OwnLease(p) ==
  /\ commit[p].step = "lease"
  /\ publication = Nobody /\ publication' = p
  /\ To(p, "sweep")
  /\ UNCHANGED <<guard, owner, staged, operations, documents, current>>

\* Publication and yank waited their time, the others do not wait at all.
LeaseIsBusy(p) ==
  /\ commit[p].step = "lease" /\ publication # Nobody
  /\ End(p)
  /\ UNCHANGED <<guard, owner, staged, operations, documents, current>>

SweepIncoming(p) ==
  /\ commit[p].step = "sweep"
  /\ guard = Nobody /\ guard' = p
  /\ ReclaimUnderGuard
  /\ To(p, "expiring")
  /\ UNCHANGED <<publication, owner, completed, objects, staging, operations,
                 documents, current>>

ExpireIncoming(p) ==
  /\ commit[p].step = "expiring"
  /\ ExpireUnderGuard
  /\ guard' = Nobody
  /\ To(p, "read")
  /\ UNCHANGED <<publication, owner, part, objects, staging, operations,
                 documents, current>>

\* Only publication and yank require the sweep.
SweepIsBusy(p) ==
  /\ commit[p].step = "sweep" /\ GuardIsBusy(p)
  /\ IF commit[p].op \in {"publish", "yank"} THEN End(p)
     ELSE To(p, "read") /\ UNCHANGED publication
  /\ UNCHANGED <<guard, owner, staged, operations, documents, current>>

\* Publication can advance before the lease is there: what was read without
\* it is not used.
StateUnderLease(p) == current

Refused(p, state) ==
  commit[p].op = "rotate" /\ commit[p].request # ActiveCheckpoint(state).key

ReadCurrentState(p) ==
  /\ commit[p].step = "read" /\ commit[p].op # "renew"
  /\ LET state == StateUnderLease(p) IN
       IF Refused(p, state) THEN End(p)
       ELSE /\ commit' = [commit EXCEPT ![p].step = "prune", ![p].state = state]
            /\ UNCHANGED publication
  /\ UNCHANGED <<guard, owner, staged, operations, documents, current>>

-----------------------------------------------------------------------------
(***************************************************************************)
(* RecoverDerivedState: documents ahead of the pointer are removed, one    *)
(* file at a time.                                                         *)
(***************************************************************************)

\* Seeded fault: off by one.
NotBehind(p, f) == {n \in DOMAIN f : n >= Sequence(commit[p].state)}

Ahead(p, f) == {n \in DOMAIN f : n > Sequence(commit[p].state)}

PruneCheckpoint(p) ==
  /\ commit[p].step = "prune"
  /\ \/ \E n \in Ahead(p, checkpoints) :
          /\ checkpoints' = Without(checkpoints, {n})
          /\ UNCHANGED checkpointSignatures
     \/ \E n \in Ahead(p, checkpointSignatures) :
          /\ checkpointSignatures' = Without(checkpointSignatures, {n})
          /\ UNCHANGED checkpoints
  /\ UNCHANGED <<leases, staged, operations, records, snapshots, renewals,
                 renewalSignatures, rotations, oldSignatures, newSignatures,
                 keys, current, commit>>

\* Seeded fault: the record goes first.
RemoveRotationRecordFirst(n) ==
  \/ /\ rotations' = Without(rotations, {n})
     /\ oldSignatures' = oldSignatures
     /\ newSignatures' = newSignatures

\* The search finds a rotation by its record: that goes last.
RemoveRotationFile(n) ==
  \/ /\ n \in DOMAIN oldSignatures
     /\ oldSignatures' = Without(oldSignatures, {n})
     /\ UNCHANGED <<rotations, newSignatures>>
  \/ /\ n \in DOMAIN newSignatures \ DOMAIN oldSignatures
     /\ newSignatures' = Without(newSignatures, {n})
     /\ UNCHANGED <<rotations, oldSignatures>>
  \/ /\ n \notin DOMAIN oldSignatures \cup DOMAIN newSignatures
     /\ rotations' = Without(rotations, {n})
     /\ UNCHANGED <<oldSignatures, newSignatures>>

NoCheckpointAhead(p) ==
  Ahead(p, checkpoints) \cup Ahead(p, checkpointSignatures) = {}

PruneRotation(p) ==
  /\ commit[p].step = "prune" /\ NoCheckpointAhead(p)
  /\ \E n \in Ahead(p, rotations) : RemoveRotationFile(n)
  /\ UNCHANGED <<leases, staged, operations, records, snapshots, checkpoints,
                 checkpointSignatures, renewals, renewalSignatures, keys,
                 current, commit>>

EndPrune(p) ==
  /\ commit[p].step = "prune"
  /\ NoCheckpointAhead(p) /\ Ahead(p, rotations) = {}
  /\ IF commit[p].op = "recover" THEN End(p)
     ELSE To(p, "head") /\ UNCHANGED publication
  /\ UNCHANGED <<guard, owner, staged, operations, documents, current>>

-----------------------------------------------------------------------------
(***************************************************************************)
(* The decision, and what is to be committed.                              *)
(***************************************************************************)

\* The pending commit: the records it leaves active, and who signs it when.
Pending(active, time, key) == [records |-> active, time |-> time, key |-> key]

Prepare(p, step, next) ==
  commit' = [commit EXCEPT ![p].step = step, ![p].next = next]

\* RequireCommitClock.
ClockIsBehind(p, now) == now < ActiveCheckpoint(commit[p].state).time

\* A new package, its time near the server's, and its archive at hand.
MayPublish(p, now) ==
  LET r == commit[p].request IN
    /\ ~ClockIsBehind(p, now)
    /\ RecordsOf(commit[p].state, r.package) = {}
    /\ r.published = now
    /\ r.archive \in objects \cup DOMAIN completed

DecidePublish(p, now) ==
  /\ commit[p].step = "head" /\ commit[p].op = "publish"
  /\ LET state == commit[p].state
         r == commit[p].request IN
       IF MayPublish(p, now)
       THEN /\ Prepare(p, IF r.archive \in objects THEN "record" ELSE "adopt",
                       Pending(ActiveRecords(state) \cup {r}, now,
                               ActiveCheckpoint(state).key))
            /\ UNCHANGED publication
       ELSE End(p)
  /\ UNCHANGED <<guard, owner, staged, operations, documents, current>>

\* What replaces the active record differs in its time and in yanked only.
Replaced(r, yanked, now) == [r EXCEPT !.yanked = yanked, !.published = now]

DecideYank(p, now) ==
  /\ commit[p].step = "head" /\ commit[p].op = "yank"
  /\ LET state == commit[p].state
         yanked == commit[p].request.yanked
         old == {r \in RecordsOf(state, commit[p].request.package) :
                   r.yanked # yanked} IN
       IF old # {} /\ ~ClockIsBehind(p, now)
       THEN /\ Prepare(p, "record",
                 Pending((ActiveRecords(state) \ old)
                         \cup {Replaced(r, yanked, now) : r \in old},
                         now, ActiveCheckpoint(state).key))
            /\ UNCHANGED publication
       ELSE End(p)
  /\ UNCHANGED <<guard, owner, staged, operations, documents, current>>

\* The operator's clock is not compared with the active checkpoint.
DecideRotate(p, now) ==
  /\ commit[p].step = "head" /\ commit[p].op = "rotate"
  /\ Cardinality(keys) < MaxKeys
  /\ Prepare(p, "key", Pending(ActiveRecords(commit[p].state), now,
                               Cardinality(keys) + 1))
  /\ UNCHANGED <<leases, staged, operations, documents, current>>

\* EnsureFreshCheckpoint: under a day of the seven is left.
RenewalDue(checkpoint, now) == now >= checkpoint.time + RenewalAge

DecideRenew(p, now) ==
  /\ commit[p].step = "read" /\ commit[p].op = "renew"
  /\ LET active == ActiveCheckpoint(current) IN
       IF RenewalDue(active, now)
       THEN /\ commit' = [commit EXCEPT ![p].step = "renewal",
                                        ![p].state = current,
                                        ![p].next = Pending({}, now, active.key)]
            /\ UNCHANGED publication
       ELSE End(p)
  /\ UNCHANGED <<guard, owner, staged, operations, documents, current>>

-----------------------------------------------------------------------------
(***************************************************************************)
(* The writes, in their order.                                             *)
(***************************************************************************)

\* RequireArchiveObject hashed the entry; it moves under the guard.
Adopt(p) ==
  /\ commit[p].step = "adopt" /\ guard = Nobody
  /\ commit[p].request.archive \in DOMAIN completed \cup objects
  /\ objects' = objects \cup {commit[p].request.archive}
  /\ completed' = Without(completed, {commit[p].request.archive})
  /\ To(p, "record")
  /\ UNCHANGED <<leases, part, staging, operations, documents, current>>

AdoptIsBusy(p) ==
  /\ commit[p].step = "adopt" /\ GuardIsBusy(p)
  /\ End(p)
  /\ UNCHANGED <<guard, owner, staged, operations, documents, current>>

WriteRecord(p) ==
  /\ commit[p].step = "record"
  /\ records' = records \cup commit[p].next.records
  /\ To(p, "snapshot")
  /\ UNCHANGED <<leases, staged, operations, snapshots, checkpoints,
                 checkpointSignatures, renewals, renewalSignatures, rotations,
                 oldSignatures, newSignatures, keys, current>>

\* A fresh key: its seed and its document.
WriteKey(p) ==
  /\ commit[p].step = "key"
  /\ keys' = keys \cup {commit[p].next.key}
  /\ To(p, "rotation")
  /\ UNCHANGED <<leases, staged, operations, records, snapshots, checkpoints,
                 checkpointSignatures, renewals, renewalSignatures, rotations,
                 oldSignatures, newSignatures, current>>

NextSequence(p) == Sequence(commit[p].state) + 1
Rotation(p) == [from |-> commit[p].request, to |-> commit[p].next.key,
                sequence |-> NextSequence(p)]
OldSignature(p) == Signed(Rotation(p), commit[p].request)
NewSignature(p) == Signed(Rotation(p), commit[p].next.key)

WriteRotation(p) ==
  /\ commit[p].step = "rotation"
  /\ Writable(rotations, NextSequence(p), Rotation(p))
  /\ rotations' = Written(rotations, NextSequence(p), Rotation(p))
  /\ To(p, "old")
  /\ UNCHANGED <<leases, staged, operations, records, snapshots, checkpoints,
                 checkpointSignatures, renewals, renewalSignatures,
                 oldSignatures, newSignatures, keys, current>>

WriteOldSignature(p) ==
  /\ commit[p].step = "old"
  /\ Writable(oldSignatures, NextSequence(p), OldSignature(p))
  /\ oldSignatures' = Written(oldSignatures, NextSequence(p), OldSignature(p))
  /\ To(p, "new")
  /\ UNCHANGED <<leases, staged, operations, records, snapshots, checkpoints,
                 checkpointSignatures, renewals, renewalSignatures, rotations,
                 newSignatures, keys, current>>

WriteNewSignature(p) ==
  /\ commit[p].step = "new"
  /\ Writable(newSignatures, NextSequence(p), NewSignature(p))
  /\ newSignatures' = Written(newSignatures, NextSequence(p), NewSignature(p))
  /\ To(p, "snapshot")
  /\ UNCHANGED <<leases, staged, operations, records, snapshots, checkpoints,
                 checkpointSignatures, renewals, renewalSignatures, rotations,
                 oldSignatures, keys, current>>

NextSnapshot(p) ==
  Append(commit[p].state.snapshot,
         [records |-> commit[p].next.records, time |-> commit[p].next.time])

\* VerifyRegistrySnapshotHistory.
WithinProofLimits(snapshot) == Len(snapshot) <= MaxSnapshots

WriteSnapshot(p) ==
  /\ commit[p].step = "snapshot"
  /\ snapshots' = snapshots \cup {NextSnapshot(p)}
  /\ IF WithinProofLimits(NextSnapshot(p))
     THEN To(p, "checkpoint") /\ UNCHANGED publication
     ELSE End(p)
  /\ UNCHANGED <<guard, owner, staged, operations, records, checkpoints,
                 checkpointSignatures, renewals, renewalSignatures, rotations,
                 oldSignatures, newSignatures, keys, current>>

NextCheckpoint(p) ==
  Checkpoint(NextSnapshot(p), commit[p].next.time, commit[p].next.key)
NextSignature(p) == Signed(NextCheckpoint(p), commit[p].next.key)

WriteCheckpoint(p) ==
  /\ commit[p].step = "checkpoint"
  /\ Writable(checkpoints, NextSequence(p), NextCheckpoint(p))
  /\ checkpoints' = Written(checkpoints, NextSequence(p), NextCheckpoint(p))
  /\ To(p, "signature")
  /\ UNCHANGED <<leases, staged, operations, records, snapshots,
                 checkpointSignatures, renewals, renewalSignatures, rotations,
                 oldSignatures, newSignatures, keys, current>>

WriteSignature(p) ==
  /\ commit[p].step = "signature"
  /\ Writable(checkpointSignatures, NextSequence(p), NextSignature(p))
  /\ checkpointSignatures' =
       Written(checkpointSignatures, NextSequence(p), NextSignature(p))
  /\ To(p, "activate")
  /\ UNCHANGED <<leases, staged, operations, records, snapshots, checkpoints,
                 renewals, renewalSignatures, rotations, oldSignatures,
                 newSignatures, keys, current>>

Renewal(p) ==
  Checkpoint(commit[p].state.snapshot, commit[p].next.time, commit[p].next.key)

WriteRenewal(p) ==
  /\ commit[p].step = "renewal"
  /\ renewals' = renewals \cup {Renewal(p)}
  /\ To(p, "sign")
  /\ UNCHANGED <<leases, staged, operations, records, snapshots, checkpoints,
                 checkpointSignatures, renewalSignatures, rotations,
                 oldSignatures, newSignatures, keys, current>>

SignRenewal(p) ==
  /\ commit[p].step = "sign"
  /\ renewalSignatures' =
       renewalSignatures \cup {Signed(Renewal(p), commit[p].next.key)}
  /\ To(p, "activate")
  /\ UNCHANGED <<leases, staged, operations, records, snapshots, checkpoints,
                 checkpointSignatures, renewals, rotations, oldSignatures,
                 newSignatures, keys, current>>

\* state/current.toml is replaced: this is the commit.
Activate(p) ==
  /\ commit[p].step = "activate"
  /\ current' = IF commit[p].op = "renew"
                THEN Pointer(commit[p].state.snapshot, Renewal(p))
                ELSE Pointer(NextSnapshot(p), None)
  /\ End(p)
  /\ UNCHANGED <<guard, owner, staged, operations, documents>>

\* A write fails, or the process dies: the leases go, what is written stays.
CommitDies(p) ==
  /\ commit[p].step # "idle"
  /\ End(p)
  /\ guard' = IF guard = p THEN Nobody ELSE guard
  /\ UNCHANGED <<owner, staged, operations, documents, current>>

Arrive(p) ==
  \/ BeginPublish(p) \/ BeginYank(p) \/ BeginRotate(p) \/ BeginRenew(p)
  \/ BeginRecover(p) \/ OwnLease(p) \/ LeaseIsBusy(p)
  \/ SweepIncoming(p) \/ ExpireIncoming(p) \/ SweepIsBusy(p)
  \/ ReadCurrentState(p) \/ PruneCheckpoint(p) \/ PruneRotation(p) \/ EndPrune(p)

Decide(p) ==
  \E now \in Time :
    DecidePublish(p, now) \/ DecideYank(p, now) \/ DecideRotate(p, now)
    \/ DecideRenew(p, now)

Write(p) ==
  \/ Adopt(p) \/ AdoptIsBusy(p) \/ WriteRecord(p)
  \/ WriteKey(p) \/ WriteRotation(p) \/ WriteOldSignature(p)
  \/ WriteNewSignature(p) \/ WriteSnapshot(p) \/ WriteCheckpoint(p)
  \/ WriteSignature(p) \/ WriteRenewal(p) \/ SignRenewal(p) \/ Activate(p)

Init == OriginInit
Next ==
  \/ UploadNext /\ UNCHANGED <<documents, current, commit>>
  \/ \E p \in Committer : Arrive(p) \/ Decide(p) \/ Write(p) \/ CommitDies(p)

Spec == Init /\ [][Next]_vars

-----------------------------------------------------------------------------
(***************************************************************************)
(* Properties.                                                             *)
(***************************************************************************)

TypeOK ==
  /\ UploadTypeOK
  /\ records \subseteq Record
  /\ \A f \in {checkpoints, checkpointSignatures} :
       DOMAIN f \subseteq 1..MaxSnapshots
  /\ \A f \in {rotations, oldSignatures, newSignatures} :
       DOMAIN f \subseteq 1..(MaxSnapshots + 1)
  /\ keys \subseteq Key
  /\ current.snapshot \in snapshots
  /\ current.renewal \in renewals \cup {None}
  /\ \A p \in Committer :
       /\ commit[p].op \in Op /\ commit[p].step \in Step
       /\ commit[p].step \notin {"idle", "lease"} => publication = p

\* The key in force at a sequence, by the rotations up to it.
KeyAt(n) ==
  LET effective == {m \in DOMAIN rotations : m <= n} IN
    IF effective = {} THEN RootKey ELSE rotations[Max(effective)].to

\* The triplet of a rotation, signed by both keys.
RotationIsProved(n) ==
  LET r == rotations[n] IN
    /\ r.from = KeyAt(n - 1) /\ r.sequence = n /\ r.to \in keys
    /\ Lookup(oldSignatures, n) = Signed(r, r.from)
    /\ Lookup(newSignatures, n) = Signed(r, r.to)

\* What the pointer names can be verified from the pinned root key, at every
\* moment and down to the first snapshot: whatever was interrupted, readers
\* without a lease find the old head or the new one and all of its history
\* (VerifyState, VerifyHistory; ADR-0049, "Commit and atomicity").
HistoryIsWhole ==
  /\ \A n \in 1..Sequence(current) :
       /\ SubSeq(current.snapshot, 1, n) \in snapshots
       /\ \A r \in current.snapshot[n].records :
            r \in records /\ r.archive \in objects
       /\ Lookup(checkpoints, n) =
            Checkpoint(SubSeq(current.snapshot, 1, n),
                       current.snapshot[n].time, KeyAt(n))
       /\ Lookup(checkpointSignatures, n) = Signed(checkpoints[n], KeyAt(n))
       /\ n \in DOMAIN rotations => RotationIsProved(n)
  /\ current.renewal # None =>
       /\ current.renewal.snapshot = current.snapshot
       /\ current.renewal.key = KeyAt(Sequence(current))
       /\ Signed(current.renewal, KeyAt(Sequence(current)))
            \in renewalSignatures

\* No step removes or changes a document of a committed sequence, so that a
\* reader with an older head can still resolve it (RecoverDerivedState,
\* WriteImmutable).
Committed(n) ==
  <<Lookup(checkpoints, n), Lookup(checkpointSignatures, n),
    Lookup(rotations, n), Lookup(oldSignatures, n), Lookup(newSignatures, n)>>
CommittedStays ==
  [][\A n \in 1..Sequence(current) : Committed(n)' = Committed(n)]_vars

\* Content of a package never changes, and a changed record is a lifecycle
\* change.
Lifecycle(old, new) ==
  /\ new.package = old.package /\ new.archive = old.archive
  /\ new = old \/ new.yanked # old.yanked

\* A head is followed by a renewal of the same head with a later time, or by
\* one snapshot more, in which no package is lost, doubled or changed: what
\* consumers call equivocation, rollback or identity conflict never happens
\* (Verify, VerifyImmutablePackage).
HeadsFollow ==
  [][current' # current =>
       \/ /\ current'.snapshot = current.snapshot
          /\ ActiveCheckpoint(current)'.key = ActiveCheckpoint(current).key
          /\ ActiveCheckpoint(current)'.time > ActiveCheckpoint(current).time
       \/ /\ Front(current'.snapshot) = current.snapshot
          /\ \A old \in ActiveRecords(current) :
               \E new \in ActiveRecords(current') : Lifecycle(old, new)
          /\ \A r, s \in ActiveRecords(current') :
               r.package = s.package => r = s]_vars

\* No commit meets a path that holds other bytes: what an interrupted commit
\* left ahead of the pointer is gone before the next one writes there
\* (WriteImmutable raises immutable_conflict).
NoImmutableConflict ==
  \A p \in Committer :
    CASE commit[p].step = "rotation" ->
           Writable(rotations, NextSequence(p), Rotation(p))
      [] commit[p].step = "old" ->
           Writable(oldSignatures, NextSequence(p), OldSignature(p))
      [] commit[p].step = "new" ->
           Writable(newSignatures, NextSequence(p), NewSignature(p))
      [] commit[p].step = "checkpoint" ->
           Writable(checkpoints, NextSequence(p), NextCheckpoint(p))
      [] commit[p].step = "signature" ->
           Writable(checkpointSignatures, NextSequence(p), NextSignature(p))
      [] OTHER -> TRUE

\* What the pointer names is whole, and the way ahead of it is free.
HeadsAreWhole == HistoryIsWhole /\ NoImmutableConflict

\* The history of the origin is only ever added to, lawfully.
HistoryOnlyGrows == CommittedStays /\ HeadsFollow

\* The entry a commit hashed is still there when it adopts it (Adopt; only
\* publication-lease holders take completed entries away).
AdoptionFindsArchive ==
  \A p \in Committer :
    commit[p].step = "adopt" =>
      commit[p].request.archive \in DOMAIN completed \cup objects

\* Uploads are counted, kept while they live, and there when a commit wants
\* them.
UploadsAreSound ==
  UploadsWithinBudget /\ LiveUploadKept /\ AdoptionFindsArchive
=============================================================================
