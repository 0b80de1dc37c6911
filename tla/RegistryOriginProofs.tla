------------------------ MODULE RegistryOriginProofs ------------------------
(***************************************************************************)
(* What the pointer of a registry origin names is whole, and its history   *)
(* only grows, for any number of processes and commits, whatever dies.     *)
(*                                                                         *)
(* The publication lease makes commits exclusive (Held), so that what one  *)
(* read stays what the pointer names (ReadIsCurrent), and documents are    *)
(* only ever written or removed at one sequence number past it             *)
(* (OneAhead, Grows).  Pruning leaves nothing there (NothingAhead), and at *)
(* every step of a commit what it has written so far is what its new head  *)
(* will name (WrittenSoFar, Decided).                                      *)
(*                                                                         *)
(* The second part is about the uploads those commits refer to: they stay  *)
(* within their budget, and are there when a commit wants them.            *)
(***************************************************************************)
EXTENDS RegistryOrigin, FiniteSetTheorems, WellFoundedInduction, TLAPS

Entry == [records : SUBSET Record, time : Time]
Length == Len(current.snapshot)

\* The commit of p, by its steps.
NewHead(p) == commit[p].op \in {"publish", "yank", "rotate"}
Sealing(p) ==
  NewHead(p) /\ commit[p].step \in {"snapshot", "checkpoint", "signature", "activate"}
Signing(p) == commit[p].step \in {"key", "rotation", "old", "new"}
HasNext(p) == commit[p].step \in {"adopt", "record"} \/ Signing(p) \/ Sealing(p)
Rotated(p) == Sealing(p) /\ commit[p].op = "rotate"
Renewing(p) ==
  \/ commit[p].step \in {"renewal", "sign"}
  \/ commit[p].step = "activate" /\ commit[p].op = "renew"

Shape ==
  /\ DOMAIN commit = Committer
  /\ \A p \in Committer : DOMAIN commit[p] = DOMAIN NotCommitting

Held ==
  \A p \in Committer : commit[p].step \notin {"idle", "lease"} => publication = p

RequestFits(p) ==
  /\ commit[p].op = "publish" => commit[p].request \in Record
  /\ commit[p].op = "yank" => commit[p].request.yanked \in BOOLEAN
Requested == \A p \in Committer : RequestFits(p)

HeadType ==
  /\ current.snapshot \in Seq(Entry) /\ Length >= 1
  /\ current.renewal # None => current.renewal.time \in Time
  /\ keys \subseteq Key

OneAhead ==
  /\ DOMAIN checkpoints \subseteq 1..(Length + 1)
  /\ DOMAIN checkpointSignatures \subseteq 1..(Length + 1)
  /\ DOMAIN rotations \subseteq 1..(Length + 1)
  /\ DOMAIN oldSignatures \subseteq DOMAIN rotations
  /\ DOMAIN newSignatures \subseteq DOMAIN rotations

Proved(n) ==
  /\ rotations[n].from = KeyAt(n - 1)
  /\ rotations[n].sequence = n /\ rotations[n].to \in keys
  /\ n \in DOMAIN oldSignatures
  /\ oldSignatures[n] = Signed(rotations[n], rotations[n].from)
  /\ n \in DOMAIN newSignatures
  /\ newSignatures[n] = Signed(rotations[n], rotations[n].to)

WholeAt(n) ==
  /\ SubSeq(current.snapshot, 1, n) \in snapshots
  /\ \A r \in current.snapshot[n].records : r \in records /\ r.archive \in objects
  /\ n \in DOMAIN checkpoints
  /\ checkpoints[n] = Checkpoint(SubSeq(current.snapshot, 1, n),
                                 current.snapshot[n].time, KeyAt(n))
  /\ n \in DOMAIN checkpointSignatures
  /\ checkpointSignatures[n] = Signed(checkpoints[n], KeyAt(n))
  /\ n \in DOMAIN rotations => Proved(n)

RenewalIsWhole ==
  current.renewal # None =>
    /\ current.renewal.snapshot = current.snapshot
    /\ current.renewal.key = KeyAt(Length)
    /\ Signed(current.renewal, KeyAt(Length)) \in renewalSignatures

OneEach(rs) == \A r, s \in rs : r.package = s.package => r = s

Whole ==
  /\ \A n \in 1..Length : WholeAt(n)
  /\ RenewalIsWhole
  /\ OneEach(ActiveRecords(current))

\* The state a commit works from is the one it replaces.
ReadIsCurrent(p) ==
  \/ commit[p].step \in {"prune", "head"} \/ HasNext(p) \/ Renewing(p) =>
       commit[p].state = current

BeforeCheckpoint(p) ==
  \/ commit[p].step \in {"head", "adopt", "record"} \/ Signing(p)
  \/ Sealing(p) /\ commit[p].step \in {"snapshot", "checkpoint"}
BeforeSignature(p) ==
  \/ BeforeCheckpoint(p)
  \/ Sealing(p) /\ commit[p].step = "signature"
BeforeRotation(p) ==
  \/ commit[p].step \in {"head", "adopt", "record", "key", "rotation"}
  \/ Sealing(p) /\ commit[p].op # "rotate"

NothingAhead(p) ==
  /\ BeforeCheckpoint(p) => Length + 1 \notin DOMAIN checkpoints
  /\ BeforeSignature(p) => Length + 1 \notin DOMAIN checkpointSignatures
  /\ BeforeRotation(p) => Length + 1 \notin DOMAIN rotations
  /\ commit[p].step = "old" => Length + 1 \notin DOMAIN oldSignatures
  /\ commit[p].step \in {"old", "new"} => Length + 1 \notin DOMAIN newSignatures

WrittenSoFar(p) ==
  /\ commit[p].step \in {"old", "new"} \/ Rotated(p) =>
       /\ Length + 1 \in DOMAIN rotations
       /\ rotations[Length + 1] = Rotation(p)
  /\ commit[p].step = "new" \/ Rotated(p) =>
       /\ Length + 1 \in DOMAIN oldSignatures
       /\ oldSignatures[Length + 1] = OldSignature(p)
  /\ Rotated(p) =>
       /\ Length + 1 \in DOMAIN newSignatures
       /\ newSignatures[Length + 1] = NewSignature(p)
  /\ commit[p].step \in {"rotation", "old", "new"} \/ Rotated(p) =>
       commit[p].next.key \in keys
  /\ Sealing(p) /\ commit[p].step # "snapshot" => NextSnapshot(p) \in snapshots
  /\ Sealing(p) /\ commit[p].step \in {"signature", "activate"} =>
       /\ Length + 1 \in DOMAIN checkpoints
       /\ checkpoints[Length + 1] = NextCheckpoint(p)
  /\ Sealing(p) /\ commit[p].step = "activate" =>
       /\ Length + 1 \in DOMAIN checkpointSignatures
       /\ checkpointSignatures[Length + 1] = NextSignature(p)
  /\ Renewing(p) /\ commit[p].step = "activate" =>
       Signed(Renewal(p), commit[p].next.key) \in renewalSignatures

\* What is to be committed follows the head lawfully.
Follows(p) ==
  /\ commit[p].next.records \subseteq Record /\ commit[p].next.time \in Time
  /\ OneEach(commit[p].next.records)
  /\ \A old \in ActiveRecords(current) :
       \E new \in commit[p].next.records : Lifecycle(old, new)

Decided(p) ==
  /\ commit[p].step = "adopt" => commit[p].op = "publish"
  /\ commit[p].step = "record" => commit[p].op \in {"publish", "yank"}
  /\ Signing(p) => commit[p].op = "rotate"
  /\ commit[p].step \in {"snapshot", "checkpoint", "signature"} => NewHead(p)
  /\ commit[p].step \in {"renewal", "sign"} => commit[p].op = "renew"
  /\ commit[p].step = "activate" => NewHead(p) \/ commit[p].op = "renew"
  /\ HasNext(p) => Follows(p) /\ commit[p].next.key \in Key
  /\ commit[p].op = "rotate" /\ (commit[p].step \in {"prune", "head"} \/ HasNext(p)) =>
       commit[p].request = KeyAt(Length)
  /\ HasNext(p) /\ commit[p].op # "rotate" => commit[p].next.key = KeyAt(Length)
  /\ commit[p].step = "adopt" =>
       \A r \in commit[p].next.records :
         r.archive \in objects \cup {commit[p].request.archive}
  /\ commit[p].step = "record" \/ Signing(p) \/ Sealing(p) =>
       \A r \in commit[p].next.records : r.archive \in objects
  /\ Signing(p) \/ Sealing(p) => commit[p].next.records \subseteq records
  /\ Renewing(p) =>
       /\ commit[p].next.key = KeyAt(Length) /\ commit[p].next.key \in Key
       /\ commit[p].next.time \in Time
       /\ commit[p].next.time > ActiveCheckpoint(current).time

Progress(p) ==
  ReadIsCurrent(p) /\ NothingAhead(p) /\ WrittenSoFar(p) /\ Decided(p)

Inv ==
  /\ Shape /\ Held /\ Requested /\ HeadType /\ OneAhead /\ Whole
  /\ \A p \in Committer : Progress(p)

-----------------------------------------------------------------------------
(***************************************************************************)
(* Lemmas on sets, sequences and the paths of documents.                   *)
(***************************************************************************)

LEMMA LastExists ==
  ASSUME NEW n \in Nat, NEW S, S \subseteq 1..n, S # {}
  PROVE  Max(S) \in S /\ \A x \in S : x <= Max(S)
<1> DEFINE T == {n - x : x \in S}
<1>0. \A x \in S : x \in Int /\ x <= n
  OBVIOUS
<1>1. T \subseteq Nat /\ T # {}
  <2>1. \A x \in S : n - x \in Nat
    BY <1>0
  <2>2. QED
    BY <2>1
<1>2. PICK t \in T : \A y \in T : ~ (<<y, t>> \in OpToRel(<, Nat))
  <2> HIDE DEF T
  <2>1. QED
    BY <1>1, NatLessThanWellFounded, WFMin
<1>3. \A y \in T : t <= y
  <2> HIDE DEF T
  <2> SUFFICES ASSUME NEW y \in T
               PROVE  t <= y
    OBVIOUS
  <2>1. y \in Nat /\ t \in Nat
    BY <1>1, <1>2
  <2>2. ~(y < t)
    BY <1>2, <2>1 DEF OpToRel
  <2>3. QED
    BY <2>1, <2>2
<1>4. PICK m \in S : t = n - m
  OBVIOUS
<1>5. \A x \in S : m >= x
  BY <1>3, <1>4
<1>6. Max(S) \in S /\ \A x \in S : Max(S) >= x
  BY <1>4, <1>5 DEF Max
<1>7. QED
  BY <1>0, <1>6

LEMMA AppendIs ==
  ASSUME NEW S, NEW s \in Seq(S), NEW x \in S
  PROVE  /\ Append(s, x) \in Seq(S) /\ Len(Append(s, x)) = Len(s) + 1
         /\ Front(Append(s, x)) = s /\ Last(Append(s, x)) = x
         /\ SubSeq(Append(s, x), 1, Len(s) + 1) = Append(s, x)
         /\ \A n \in 1..Len(s) :
              /\ Append(s, x)[n] = s[n]
              /\ SubSeq(Append(s, x), 1, n) = SubSeq(s, 1, n)
<1>1. \A n \in 1..Len(s) : SubSeq(Append(s, x), 1, n) = SubSeq(s, 1, n)
  OBVIOUS
<1>2. QED
  BY <1>1 DEF Front, Last

LEMMA WrittenIs ==
  ASSUME NEW f, NEW n, NEW d
  PROVE  /\ DOMAIN Written(f, n, d) = DOMAIN f \cup {n}
         /\ Written(f, n, d)[n] = d
         /\ \A m \in DOMAIN f \ {n} : Written(f, n, d)[m] = f[m]
  BY DEF Written

LEMMA WithoutIs ==
  ASSUME NEW f, NEW n
  PROVE  /\ DOMAIN Without(f, {n}) = DOMAIN f \ {n}
         /\ \A m \in DOMAIN f \ {n} : Without(f, {n})[m] = f[m]
  BY DEF Without, Restrict

\* A path at a committed sequence keeps its document.
SameTo(f, g) ==
  \A n \in 1..Length : /\ n \in DOMAIN f <=> n \in DOMAIN g
                       /\ n \in DOMAIN f => g[n] = f[n]

LEMMA LengthIs ==
  ASSUME HeadType
  PROVE  Length \in Nat /\ Length >= 1 /\ Length + 1 \notin 1..Length
<1>1. Length \in Nat /\ Length >= 1
  BY DEF HeadType, Length
<1>2. QED
  BY <1>1

LEMMA WrittenSame ==
  ASSUME HeadType, NEW f, NEW d
  PROVE  SameTo(f, Written(f, Length + 1, d))
<1> SUFFICES ASSUME NEW n \in 1..Length
             PROVE  /\ n \in DOMAIN f <=> n \in DOMAIN Written(f, Length + 1, d)
                    /\ n \in DOMAIN f => Written(f, Length + 1, d)[n] = f[n]
  BY DEF SameTo
<1>1. n # Length + 1
  BY LengthIs
<1>2. QED
  BY <1>1 DEF Written

LEMMA WithoutSame ==
  ASSUME NEW f, NEW n, n \notin 1..Length
  PROVE  SameTo(f, Without(f, {n}))
  BY WithoutIs DEF SameTo

\* No step takes a committed document away or changes it.
Grows ==
  /\ records \subseteq records' /\ snapshots \subseteq snapshots'
  /\ objects \subseteq objects' /\ keys \subseteq keys'
  /\ renewalSignatures \subseteq renewalSignatures'
  /\ SameTo(checkpoints, checkpoints')
  /\ SameTo(checkpointSignatures, checkpointSignatures')
  /\ SameTo(rotations, rotations')
  /\ SameTo(oldSignatures, oldSignatures')
  /\ SameTo(newSignatures, newSignatures')

LEMMA NothingGrows ==
  ASSUME UNCHANGED <<documents, objects>>
  PROVE  Grows
  BY DEF Grows, SameTo, documents

\* The head's active records are those of its last entry.
LEMMA ActiveIs ==
  ASSUME HeadType
  PROVE  /\ ActiveRecords(current) = current.snapshot[Length].records
         /\ ActiveRecords(current) \subseteq Record
         /\ current.snapshot[Length] \in Entry
<1>1. current.snapshot[Length] \in Entry
  BY LengthIs DEF HeadType, Length
<1>2. QED
  BY <1>1 DEF ActiveRecords, Last, Length, Entry

-----------------------------------------------------------------------------
(***************************************************************************)
(* The head stays whole.                                                   *)
(***************************************************************************)

LEMMA KeyIsOne ==
  ASSUME HeadType, OneAhead, Whole, NEW n \in 1..Length
  PROVE  KeyAt(n) \in Key
<1> DEFINE effective == {m \in DOMAIN rotations : m <= n}
<1>1. CASE effective = {}
  BY <1>1, OriginAssumption DEF KeyAt, RootKey, Key
<1>2. CASE effective # {}
  <2>1. effective \subseteq 1..n /\ n \in Nat
    BY LengthIs DEF OneAhead
  <2>2. Max(effective) \in effective
    BY <1>2, <2>1, LastExists
  <2>3. Max(effective) \in 1..Length /\ Max(effective) \in DOMAIN rotations
    BY <2>1, <2>2, LengthIs
  <2>4. rotations[Max(effective)].to \in keys
    BY <2>3 DEF Whole, WholeAt, Proved
  <2>5. KeyAt(n) = rotations[Max(effective)].to
    BY <1>2 DEF KeyAt
  <2>6. QED
    BY <2>4, <2>5 DEF HeadType
<1>3. QED
  BY <1>1, <1>2

\* The key in force at a committed sequence stays in force.
LEMMA KeysStay ==
  ASSUME HeadType, OneAhead, SameTo(rotations, rotations'),
         DOMAIN rotations' \subseteq 1..(Length + 1), NEW n \in 0..Length
  PROVE  KeyAt(n)' = KeyAt(n)
<1> DEFINE effective == {m \in DOMAIN rotations : m <= n}
           later == {m \in DOMAIN rotations' : m <= n}
<1>1. effective \subseteq 1..n /\ later \subseteq 1..n /\ n \in Nat
  BY LengthIs DEF OneAhead
<1>2. later = effective
  BY <1>1, LengthIs DEF SameTo
<1>3. CASE effective = {}
  BY <1>2, <1>3 DEF KeyAt
<1>4. CASE effective # {}
  <2>1. Max(effective) \in effective
    BY <1>1, <1>4, LastExists
  <2>2. rotations'[Max(effective)] = rotations[Max(effective)]
    BY <1>1, <2>1, LengthIs DEF SameTo
  <2>3. QED
    BY <1>2, <1>4, <2>2 DEF KeyAt
<1>5. QED
  BY <1>3, <1>4

\* The key at a sequence that has a rotation, and at one that has none.
LEMMA KeyAhead ==
  ASSUME HeadType, OneAhead
  PROVE  KeyAt(Length + 1) = IF Length + 1 \in DOMAIN rotations
                             THEN rotations[Length + 1].to ELSE KeyAt(Length)
<1> DEFINE effective == {m \in DOMAIN rotations : m <= Length + 1}
<1>1. effective \subseteq 1..(Length + 1) /\ Length + 1 \in Nat
  BY LengthIs DEF OneAhead
<1>2. CASE Length + 1 \in DOMAIN rotations
  <2>1. Length + 1 \in effective /\ effective # {}
    BY <1>1, <1>2
  <2>2. Max(effective) \in effective /\ Length + 1 <= Max(effective)
    BY <1>1, <2>1, LastExists
  <2>3. Max(effective) = Length + 1
    BY <1>1, <2>2
  <2>4. QED
    BY <1>2, <2>1, <2>3 DEF KeyAt
<1>3. CASE Length + 1 \notin DOMAIN rotations
  <2>1. effective = {m \in DOMAIN rotations : m <= Length}
    BY <1>1, <1>3, LengthIs DEF OneAhead
  <2>2. QED
    BY <1>3, <2>1 DEF KeyAt
<1>4. QED
  BY <1>2, <1>3

LEMMA WholeAtStays ==
  ASSUME HeadType, OneAhead, Whole, Grows, current' = current,
         DOMAIN rotations' \subseteq 1..(Length + 1), NEW n \in 1..Length
  PROVE  WholeAt(n)'
<1>1. WholeAt(n)
  BY DEF Whole
<1>2. KeyAt(n)' = KeyAt(n) /\ KeyAt(n - 1)' = KeyAt(n - 1)
  <2>1. n \in 0..Length /\ n - 1 \in 0..Length
    BY LengthIs
  <2>2. QED
    BY <2>1, KeysStay DEF Grows
<1>3. /\ n \in DOMAIN checkpoints' /\ checkpoints'[n] = checkpoints[n]
      /\ n \in DOMAIN checkpointSignatures'
      /\ checkpointSignatures'[n] = checkpointSignatures[n]
  BY <1>1 DEF WholeAt, Grows, SameTo
<1>4. ASSUME n \in DOMAIN rotations' PROVE Proved(n)'
  <2>1. n \in DOMAIN rotations /\ rotations'[n] = rotations[n]
    BY <1>4 DEF Grows, SameTo
  <2>2. Proved(n)
    BY <1>1, <2>1 DEF WholeAt
  <2>3. /\ n \in DOMAIN oldSignatures' /\ oldSignatures'[n] = oldSignatures[n]
        /\ n \in DOMAIN newSignatures' /\ newSignatures'[n] = newSignatures[n]
        /\ rotations'[n].to \in keys'
    BY <2>1, <2>2 DEF Proved, Grows, SameTo
  <2>4. QED
    BY <1>2, <2>1, <2>2, <2>3 DEF Proved, Signed
<1>5. /\ SubSeq(current.snapshot, 1, n) \in snapshots'
      /\ \A r \in current.snapshot[n].records : r \in records' /\ r.archive \in objects'
  BY <1>1 DEF WholeAt, Grows
<1>6. QED
  BY <1>1, <1>2, <1>3, <1>4, <1>5 DEF WholeAt, Checkpoint, Signed

LEMMA WholeStays ==
  ASSUME HeadType, OneAhead, Whole, Grows, current' = current,
         DOMAIN rotations' \subseteq 1..(Length + 1)
  PROVE  /\ Whole'
         /\ KeyAt(Length)' = KeyAt(Length) /\ Length' = Length
         /\ ActiveCheckpoint(current)' = ActiveCheckpoint(current)
         /\ ActiveRecords(current)' = ActiveRecords(current)
<1>1. Length' = Length /\ ActiveRecords(current)' = ActiveRecords(current)
  BY DEF Length, ActiveRecords
<1>2. KeyAt(Length)' = KeyAt(Length)
  <2>1. PICK n \in 0..Length : n = Length
    BY LengthIs
  <2>2. KeyAt(n)' = KeyAt(n)
    BY KeysStay DEF Grows
  <2>3. QED
    BY <1>1, <2>1, <2>2 DEF KeyAt
<1>3. \A n \in 1..Length' : WholeAt(n)'
  BY <1>1, WholeAtStays
<1>4. RenewalIsWhole'
  BY <1>1, <1>2 DEF Whole, RenewalIsWhole, Grows, Signed
<1>5. ActiveCheckpoint(current)' = ActiveCheckpoint(current)
  <2>1. Length \in 1..Length
    BY LengthIs
  <2>2. checkpoints'[Length] = checkpoints[Length]
    BY <2>1 DEF Whole, WholeAt, Grows, SameTo
  <2>3. QED
    BY <2>2 DEF ActiveCheckpoint, Sequence, Length
<1>6. QED
  BY <1>1, <1>2, <1>3, <1>4, <1>5 DEF Whole, OneEach

-----------------------------------------------------------------------------
(***************************************************************************)
(* One commit takes a step, the others do not.                             *)
(***************************************************************************)

Only(p) == Shape' /\ \A q \in Committer \ {p} : commit'[q] = commit[q]

SameRequest(p) ==
  commit'[p].op = commit[p].op /\ commit'[p].request = commit[p].request

LEMMA ToIs ==
  ASSUME Shape, NEW p \in Committer, NEW s, To(p, s)
  PROVE  /\ Only(p) /\ SameRequest(p) /\ commit'[p].step = s
         /\ commit'[p].state = commit[p].state /\ commit'[p].next = commit[p].next
  BY DEF To, Only, SameRequest, Shape, NotCommitting

LEMMA EndIs ==
  ASSUME Shape, NEW p \in Committer, End(p)
  PROVE  /\ Only(p) /\ commit'[p] = NotCommitting
         /\ publication' = Unpublished(p)
  BY DEF End, Only, Shape

LEMMA PrepareIs ==
  ASSUME Shape, NEW p \in Committer, NEW s, NEW next, Prepare(p, s, next)
  PROVE  /\ Only(p) /\ SameRequest(p) /\ commit'[p].step = s
         /\ commit'[p].state = commit[p].state /\ commit'[p].next = next
  BY DEF Prepare, Only, SameRequest, Shape, NotCommitting

\* Before it has read the head, and after its end, a commit promises nothing.
LEMMA OutsideProgress ==
  ASSUME NEW p \in Committer, commit'[p].step \in {"idle", "lease", "sweep", "expiring", "read"}
  PROVE  Progress(p)'
<1>1. /\ ~HasNext(p)' /\ ~Renewing(p)' /\ ~Signing(p)' /\ ~Sealing(p)' /\ ~Rotated(p)'
      /\ commit'[p].step \notin {"prune", "head", "adopt", "record", "key", "rotation",
             "old", "new", "snapshot", "checkpoint", "signature", "activate",
             "renewal", "sign"}
  BY DEF HasNext, Renewing, Signing, Sealing, Rotated
<1>2. ReadIsCurrent(p)' /\ NothingAhead(p)'
  BY <1>1 DEF ReadIsCurrent, NothingAhead, BeforeCheckpoint, BeforeSignature,
    BeforeRotation
<1>3. WrittenSoFar(p)'
  BY <1>1 DEF WrittenSoFar
<1>4. Decided(p)'
  BY <1>1 DEF Decided
<1>5. QED
  BY <1>2, <1>3, <1>4 DEF Progress

LEMMA EndedProgress ==
  ASSUME NEW p \in Committer, commit'[p] = NotCommitting
  PROVE  Progress(p)' /\ RequestFits(p)'
<1>1. commit'[p].step = "idle" /\ commit'[p].op = "none"
  BY DEF NotCommitting
<1>2. QED
  BY <1>1, OutsideProgress DEF RequestFits

LEMMA QuietProgress ==
  ASSUME NEW p \in Committer, commit'[p] = commit[p], Progress(p),
         UNCHANGED <<documents, objects, current>>
  PROVE  Progress(p)'
<1>1. UNCHANGED <<records, snapshots, checkpoints, checkpointSignatures, renewals,
                  renewalSignatures, rotations, oldSignatures, newSignatures, keys,
                  objects, current>>
  BY DEF documents
<1>2. /\ (HasNext(p)' <=> HasNext(p)) /\ (Renewing(p)' <=> Renewing(p))
      /\ (Signing(p)' <=> Signing(p)) /\ (Sealing(p)' <=> Sealing(p))
      /\ (Rotated(p)' <=> Rotated(p)) /\ (NewHead(p)' <=> NewHead(p))
  BY DEF HasNext, Renewing, Signing, Sealing, Rotated, NewHead
<1>3. /\ Length' = Length /\ KeyAt(Length)' = KeyAt(Length)
      /\ ActiveCheckpoint(current)' = ActiveCheckpoint(current)
      /\ ActiveRecords(current)' = ActiveRecords(current)
      /\ Rotation(p)' = Rotation(p) /\ OldSignature(p)' = OldSignature(p)
      /\ NewSignature(p)' = NewSignature(p) /\ NextSnapshot(p)' = NextSnapshot(p)
      /\ NextCheckpoint(p)' = NextCheckpoint(p) /\ NextSignature(p)' = NextSignature(p)
      /\ Renewal(p)' = Renewal(p)
  BY <1>1 DEF Length, KeyAt, ActiveCheckpoint, ActiveRecords, Rotation, OldSignature,
     NewSignature, NextSnapshot, NextCheckpoint, NextSignature, Renewal, NextSequence,
     Sequence, Signed, Checkpoint
<1>4. ReadIsCurrent(p)' /\ NothingAhead(p)'
  BY <1>1, <1>2, <1>3 DEF Progress, ReadIsCurrent, NothingAhead,
    BeforeCheckpoint, BeforeSignature, BeforeRotation
<1>5. WrittenSoFar(p)'
  BY <1>1, <1>2, <1>3 DEF Progress, WrittenSoFar, Signed
<1>6. Decided(p)'
  BY <1>1, <1>2, <1>3 DEF Progress, Decided, Follows, OneEach
<1>7. QED
  BY <1>4, <1>5, <1>6 DEF Progress

\* What a step of p does to the publication lease.
Leases(p) ==
  \/ commit'[p] = NotCommitting /\ publication' = Unpublished(p)
  \/ publication' = publication
     /\ (commit[p].step \notin {"idle", "lease"} \/ commit'[p].step \in {"idle", "lease"})
  \/ publication = Nobody /\ publication' = p

LEMMA HeldStays ==
  ASSUME Held, NEW p \in Committer, Only(p), Leases(p)
  PROVE  Held'
<1> SUFFICES ASSUME NEW q \in Committer, commit'[q].step \notin {"idle", "lease"}
             PROVE  publication' = q
  BY DEF Held
<1>1. q # Nobody /\ p # Nobody
  BY UploadAssumption DEF Process
<1>2. CASE q = p
  BY <1>2 DEF Leases, NotCommitting, Held
<1>3. CASE q # p
  <2>1. publication = q
    BY <1>3 DEF Only, Held
  <2>2. QED
    BY <1>1, <1>3, <2>1 DEF Leases, Unpublished
<1>4. QED
  BY <1>2, <1>3

LEMMA QuietKeeps ==
  ASSUME Inv, NEW p \in Committer, Only(p), Leases(p),
         UNCHANGED <<documents, objects, current>>, Progress(p)', RequestFits(p)'
  PROVE  Inv' /\ Grows
<1>0. Shape /\ Held /\ Requested /\ HeadType /\ OneAhead /\ Whole
  BY DEF Inv
<1>1. Grows
  BY NothingGrows
<1>2. Length' = Length
  BY DEF Length
<1>3. OneAhead' /\ HeadType'
  BY <1>0, <1>2 DEF OneAhead, HeadType, documents
<1>4. Whole'
  BY <1>0, <1>1, <1>2, <1>3, WholeStays DEF OneAhead
<1>5. Held' /\ Shape'
  BY <1>0, HeldStays DEF Only
<1>6. \A q \in Committer : Progress(q)'
  <2>1. ASSUME NEW q \in Committer, q # p PROVE Progress(q)'
    BY <2>1, QuietProgress DEF Inv, Only
  <2>2. QED
    BY <2>1
<1>7. Requested'
  BY <1>0 DEF Requested, RequestFits, Only
<1>8. QED
  BY <1>1, <1>3, <1>4, <1>5, <1>6, <1>7 DEF Inv

\* A step of the holder that writes or removes documents past the head.
LEMMA WriteKeeps ==
  ASSUME Inv, NEW p \in Committer, commit[p].step \notin {"idle", "lease"},
         Only(p), Leases(p), Grows, current' = current, keys' \subseteq Key,
         OneAhead', Progress(p)', RequestFits(p)'
  PROVE  Inv'
<1>0. Shape /\ Held /\ Requested /\ HeadType /\ OneAhead /\ Whole
  BY DEF Inv
<1>2. Length' = Length
  BY DEF Length
<1>3. HeadType'
  BY <1>0, <1>2 DEF HeadType
<1>4. Whole'
  BY <1>0, <1>2, WholeStays DEF OneAhead
<1>5. Held' /\ Shape'
  BY <1>0, HeldStays DEF Only
<1>6. \A q \in Committer : Progress(q)'
  <2>1. ASSUME NEW q \in Committer, q # p PROVE Progress(q)'
    <3>1. commit[q].step \in {"idle", "lease"}
      BY <1>0, <2>1 DEF Held
    <3>2. QED
      BY <2>1, <3>1, OutsideProgress DEF Only
  <2>2. QED
    BY <2>1
<1>7. Requested'
  BY <1>0 DEF Requested, RequestFits, Only
<1>8. QED
  BY <1>3, <1>4, <1>5, <1>6, <1>7 DEF Inv

LEMMA EndKeeps ==
  ASSUME Inv, NEW p \in Committer, End(p), UNCHANGED <<documents, objects, current>>
  PROVE  Inv' /\ Grows
<1>1. Only(p) /\ Leases(p) /\ commit'[p] = NotCommitting
  BY EndIs DEF Inv, Leases
<1>2. Progress(p)' /\ RequestFits(p)'
  BY <1>1, EndedProgress
<1>3. QED
  BY <1>1, <1>2, QuietKeeps

-----------------------------------------------------------------------------
(***************************************************************************)
(* From the request to what is to be committed: steps that write nothing.  *)
(***************************************************************************)

LEMMA BeginKeeps ==
  ASSUME Inv, NEW p \in Committer, NEW op, NEW request, NEW state,
         Begin(p, op, request, state),
         op = "publish" => request \in Record,
         op = "yank" => request.yanked \in BOOLEAN
  PROVE  Inv' /\ Grows
<1>1. /\ UNCHANGED <<documents, objects, current, publication>>
      /\ commit[p].step = "idle"
      /\ commit' = [commit EXCEPT ![p] =
           [NotCommitting EXCEPT !.op = op, !.step = "lease", !.request = request,
                                 !.state = state]]
  BY DEF Begin, leases, staged
<1>2. /\ DOMAIN commit' = Committer /\ \A q \in Committer \ {p} : commit'[q] = commit[q]
      /\ commit'[p] = [NotCommitting EXCEPT !.op = op, !.step = "lease",
                                            !.request = request, !.state = state]
  BY <1>1 DEF Inv, Shape
<1>3. Only(p)
  BY <1>2 DEF Only, Inv, Shape, NotCommitting
<1>4. commit'[p].step = "lease" /\ commit'[p].op = op /\ commit'[p].request = request
  BY <1>2 DEF NotCommitting
<1>5. Leases(p) /\ RequestFits(p)'
  BY <1>1, <1>4 DEF Leases, RequestFits
<1>6. QED
  BY <1>1, <1>3, <1>4, <1>5, OutsideProgress, QuietKeeps

LEMMA RequestStays ==
  ASSUME Requested, NEW p \in Committer, SameRequest(p)
  PROVE  RequestFits(p)'
  BY DEF Requested, RequestFits, SameRequest

\* To a step that promises nothing.
LEMMA EarlyKeeps ==
  ASSUME Inv, NEW p \in Committer,
         NEW s \in {"lease", "sweep", "expiring", "read"}, To(p, s),
         UNCHANGED <<documents, objects, current>>,
         \/ commit[p].step \notin {"idle", "lease"} /\ publication' = publication
         \/ publication = Nobody /\ publication' = p
  PROVE  Inv' /\ Grows
<1>1. Only(p) /\ SameRequest(p) /\ commit'[p].step = s
  BY ToIs DEF Inv
<1>2. Leases(p)
  BY DEF Leases
<1>3. Progress(p)' /\ RequestFits(p)'
  BY <1>1, OutsideProgress, RequestStays DEF Inv
<1>4. QED
  BY <1>1, <1>2, <1>3, QuietKeeps

LEMMA ActiveKey ==
  ASSUME HeadType, OneAhead, Whole
  PROVE  /\ ActiveCheckpoint(current).key = KeyAt(Length)
         /\ KeyAt(Length) \in Key
         /\ ActiveCheckpoint(current).time \in Time
<1>1. PICK n \in 1..Length : n = Length
  BY LengthIs
<1>2. KeyAt(Length) \in Key
  <2>1. KeyAt(n) \in Key
    BY KeyIsOne
  <2>2. QED
    BY <1>1, <2>1
<1>3. WholeAt(n) /\ RenewalIsWhole
  BY DEF Whole
<1>4. CASE current.renewal # None
  BY <1>2, <1>3, <1>4 DEF RenewalIsWhole, ActiveCheckpoint, HeadType
<1>5. CASE current.renewal = None
  <2>1. ActiveCheckpoint(current) = checkpoints[n]
    BY <1>1, <1>5 DEF ActiveCheckpoint, Sequence, Length
  <2>2. current.snapshot[n].time \in Time
    BY <1>1, ActiveIs DEF Entry
  <2>3. checkpoints[n].key = KeyAt(n) /\ checkpoints[n].time = current.snapshot[n].time
    BY <1>3 DEF WholeAt, Checkpoint
  <2>4. QED
    BY <1>1, <1>2, <2>1, <2>2, <2>3
<1>6. QED
  BY <1>4, <1>5

LEMMA ReadKeeps ==
  ASSUME Inv, NEW p \in Committer, ReadCurrentState(p)
  PROVE  Inv' /\ Grows
<1>1. /\ commit[p].step = "read"
      /\ UNCHANGED <<documents, objects, current>>
  BY DEF ReadCurrentState, staged
<1>2. CASE Refused(p, current)
  BY <1>1, <1>2, EndKeeps DEF ReadCurrentState, StateUnderLease
<1>3. CASE ~Refused(p, current)
  <2>1. /\ commit' = [commit EXCEPT ![p].step = "prune", ![p].state = current]
        /\ publication' = publication
    BY <1>3 DEF ReadCurrentState, StateUnderLease
  <2>2. /\ Only(p) /\ SameRequest(p)
        /\ commit'[p].step = "prune" /\ commit'[p].state = current
    BY <2>1 DEF Inv, Shape, Only, SameRequest, NotCommitting
  <2>3. commit'[p].op = "rotate" => commit'[p].request = KeyAt(Length)'
    <3>1. KeyAt(Length)' = KeyAt(Length)
      BY <1>1 DEF documents, KeyAt, Length
    <3>2. QED
      BY <1>3, <2>2, <3>1, ActiveKey DEF Refused, SameRequest, Inv
  <2>4. ~HasNext(p)' /\ ~Renewing(p)' /\ ~Signing(p)' /\ ~Sealing(p)' /\ ~Rotated(p)'
    BY <2>2 DEF HasNext, Renewing, Signing, Sealing, Rotated
  <2>5. ReadIsCurrent(p)' /\ NothingAhead(p)' /\ WrittenSoFar(p)'
    BY <1>1, <2>2, <2>4 DEF ReadIsCurrent, NothingAhead, BeforeCheckpoint,
      BeforeSignature, BeforeRotation, WrittenSoFar
  <2>6. Decided(p)'
    BY <2>2, <2>3, <2>4 DEF Decided
  <2>7. Leases(p) /\ RequestFits(p)'
    BY <1>1, <2>1, <2>2, RequestStays DEF Leases, Inv
  <2>8. QED
    BY <1>1, <2>2, <2>5, <2>6, <2>7, QuietKeeps DEF Progress
<1>4. QED
  BY <1>2, <1>3

LEMMA EndPruneKeeps ==
  ASSUME Inv, NEW p \in Committer, EndPrune(p)
  PROVE  Inv' /\ Grows
<1>1. /\ commit[p].step = "prune" /\ UNCHANGED <<documents, objects, current>>
      /\ NoCheckpointAhead(p) /\ Ahead(p, rotations) = {}
  BY DEF EndPrune, staged
<1>2. CASE commit[p].op = "recover"
  BY <1>1, <1>2, EndKeeps DEF EndPrune
<1>3. CASE commit[p].op # "recover"
  <2>1. To(p, "head") /\ publication' = publication
    BY <1>3 DEF EndPrune
  <2>2. /\ Only(p) /\ SameRequest(p) /\ commit'[p].step = "head"
        /\ commit'[p].state = commit[p].state
    BY <2>1, ToIs DEF Inv
  <2>3. commit[p].state = current
    BY <1>1 DEF Inv, Progress, ReadIsCurrent
  <2>4. /\ Length + 1 \notin DOMAIN checkpoints
        /\ Length + 1 \notin DOMAIN checkpointSignatures
        /\ Length + 1 \notin DOMAIN rotations
    <3>1. Length + 1 > Length
      BY LengthIs DEF Inv
    <3>2. QED
      BY <1>1, <2>3, <3>1 DEF NoCheckpointAhead, Ahead, Sequence, Length
  <2>5. ~HasNext(p)' /\ ~Renewing(p)' /\ ~Signing(p)' /\ ~Sealing(p)' /\ ~Rotated(p)'
    BY <2>2 DEF HasNext, Renewing, Signing, Sealing, Rotated
  <2>6. Length' = Length /\ KeyAt(Length)' = KeyAt(Length)
    BY <1>1 DEF documents, KeyAt, Length
  <2>7. ReadIsCurrent(p)' /\ NothingAhead(p)' /\ WrittenSoFar(p)'
    BY <1>1, <2>2, <2>3, <2>4, <2>5, <2>6
    DEF ReadIsCurrent, NothingAhead, BeforeCheckpoint, BeforeSignature,
      BeforeRotation, WrittenSoFar, documents
  <2>8. commit[p].op = "rotate" => commit[p].request = KeyAt(Length)
    BY <1>1 DEF Inv, Progress, Decided
  <2>9. Decided(p)'
    BY <2>2, <2>5, <2>6, <2>8 DEF Decided, SameRequest
  <2>10. Leases(p) /\ RequestFits(p)'
    BY <1>1, <2>1, <2>2, RequestStays DEF Leases, Inv
  <2>11. QED
    BY <1>1, <2>2, <2>7, <2>9, <2>10, QuietKeeps DEF Progress
<1>4. QED
  BY <1>2, <1>3

\* A decision to commit a new head.
LEMMA DecideKeeps ==
  ASSUME Inv, NEW p \in Committer, commit[p].step = "head",
         NEW s \in {"adopt", "record", "key"}, NEW next, Prepare(p, s, next),
         UNCHANGED <<documents, objects, current, publication>>,
         s = "adopt" => commit[p].op = "publish",
         s = "record" => commit[p].op \in {"publish", "yank"},
         s = "key" => commit[p].op = "rotate" /\ next.records \subseteq records,
         next.records \subseteq Record, next.time \in Time, next.key \in Key,
         OneEach(next.records),
         \A old \in ActiveRecords(current) : \E new \in next.records : Lifecycle(old, new),
         commit[p].op # "rotate" => next.key = KeyAt(Length),
         \A r \in next.records :
            \/ r.archive \in objects
            \/ s = "adopt" /\ r.archive = commit[p].request.archive
  PROVE  Inv' /\ Grows
<1>1. /\ Only(p) /\ SameRequest(p) /\ commit'[p].step = s
      /\ commit'[p].state = commit[p].state /\ commit'[p].next = next
  BY PrepareIs DEF Inv
<1>2. commit[p].state = current /\ NothingAhead(p) /\ Decided(p)
  BY DEF Inv, Progress, ReadIsCurrent
<1>3. /\ Length' = Length /\ KeyAt(Length)' = KeyAt(Length)
      /\ ActiveRecords(current)' = ActiveRecords(current)
  BY DEF documents, KeyAt, Length, ActiveRecords
<1>4. ~Renewing(p)' /\ ~Sealing(p)' /\ ~Rotated(p)' /\ HasNext(p)'
      /\ (Signing(p)' <=> s = "key")
  BY <1>1 DEF HasNext, Renewing, Signing, Sealing, Rotated
<1>5. ReadIsCurrent(p)'
  BY <1>1, <1>2 DEF ReadIsCurrent
<1>6. NothingAhead(p)'
  BY <1>1, <1>2, <1>3, <1>4 DEF NothingAhead, BeforeCheckpoint,
    BeforeSignature, BeforeRotation, documents
<1>7. WrittenSoFar(p)'
  BY <1>1, <1>4 DEF WrittenSoFar
<1>8. Follows(p)'
  BY <1>1, <1>3 DEF Follows, OneEach
<1>9. Decided(p)'
  <2>1. commit[p].op = "rotate" => commit[p].request = KeyAt(Length)
    BY <1>2 DEF Decided
  <2>2. QED
    BY <1>1, <1>3, <1>4, <1>8, <2>1 DEF Decided, SameRequest, documents
<1>10. Leases(p) /\ RequestFits(p)'
  BY <1>1, RequestStays DEF Leases, Inv
<1>11. QED
  BY <1>1, <1>5, <1>6, <1>7, <1>9, <1>10, QuietKeeps DEF Progress

\* Every active record is stored, with its archive.
LEMMA ActiveIsWhole ==
  ASSUME HeadType, Whole
  PROVE  \A r \in ActiveRecords(current) : r \in records /\ r.archive \in objects
<1>1. PICK n \in 1..Length : n = Length
  BY LengthIs
<1>2. WholeAt(n)
  BY DEF Whole
<1>3. QED
  BY <1>1, <1>2, ActiveIs DEF WholeAt

LEMMA DecidePublishKeeps ==
  ASSUME Inv, NEW p \in Committer, NEW now \in Time, DecidePublish(p, now)
  PROVE  Inv' /\ Grows
<1>1. /\ commit[p].step = "head" /\ commit[p].op = "publish"
      /\ UNCHANGED <<documents, objects, current>>
  BY DEF DecidePublish, staged
<1>2. commit[p].state = current
  BY <1>1 DEF Inv, Progress, ReadIsCurrent
<1>3. HeadType /\ OneAhead /\ Whole
  BY DEF Inv
<1>4. CASE ~MayPublish(p, now)
  BY <1>1, <1>4, EndKeeps DEF DecidePublish
<1>5. CASE MayPublish(p, now)
  <2> DEFINE r == commit[p].request
             s == IF r.archive \in objects THEN "record" ELSE "adopt"
             active == ActiveRecords(current)
             next == Pending(active \cup {r}, now, ActiveCheckpoint(current).key)
  <2>1. Prepare(p, s, next) /\ publication' = publication
    BY <1>2, <1>5 DEF DecidePublish
  <2>2. r \in Record
    BY <1>1 DEF Inv, Requested, RequestFits
  <2>3. next.records = active \cup {r} /\ next.time = now /\ next.key = KeyAt(Length)
        /\ next.key \in Key
    BY <1>3, ActiveKey DEF Pending
  <2>4. \A o \in active : o.package # r.package
    BY <1>2, <1>5 DEF MayPublish, RecordsOf
  <2>5. OneEach(next.records) /\ next.records \subseteq Record
    BY <1>3, <2>2, <2>3, <2>4, ActiveIs DEF Whole, OneEach
  <2>6. \A o \in active : \E new \in next.records : Lifecycle(o, new)
    BY <2>3 DEF Lifecycle
  <2>7. \A o \in next.records :
           \/ o.archive \in objects
           \/ s = "adopt" /\ o.archive = r.archive
    <3> SUFFICES ASSUME NEW o \in next.records
                 PROVE  \/ o.archive \in objects
                        \/ s = "adopt" /\ o.archive = r.archive
      OBVIOUS
    <3>1. o \in active \/ o = r
      BY <2>3
    <3>2. CASE o \in active
      BY <1>3, <3>2, ActiveIsWhole
    <3>3. CASE o = r
      BY <3>3
    <3>4. QED
      BY <3>1, <3>2, <3>3
  <2>8. s \in {"adopt", "record", "key"} /\ s # "key"
    OBVIOUS
  <2> HIDE DEF next, s
  <2>9. QED
    BY <1>1, <2>1, <2>3, <2>5, <2>6, <2>7, <2>8, DecideKeeps
<1>6. QED
  BY <1>4, <1>5

LEMMA DecideYankKeeps ==
  ASSUME Inv, NEW p \in Committer, NEW now \in Time, DecideYank(p, now)
  PROVE  Inv' /\ Grows
<1>1. /\ commit[p].step = "head" /\ commit[p].op = "yank"
      /\ UNCHANGED <<documents, objects, current>>
  BY DEF DecideYank, staged
<1>2. commit[p].state = current
  BY <1>1 DEF Inv, Progress, ReadIsCurrent
<1>3. HeadType /\ OneAhead /\ Whole
  BY DEF Inv
<1> DEFINE yanked == commit[p].request.yanked
           package == commit[p].request.package
           old == {r \in RecordsOf(current, package) : r.yanked # yanked}
           active == ActiveRecords(current)
           next == Pending((active \ old) \cup {Replaced(r, yanked, now) : r \in old},
                           now, ActiveCheckpoint(current).key)
<1>4. \/ Prepare(p, "record", next) /\ publication' = publication
      \/ End(p)
  BY <1>2 DEF DecideYank
<1>5. CASE End(p)
  BY <1>1, <1>5, EndKeeps
<1>6. CASE Prepare(p, "record", next) /\ publication' = publication
  <2>1. yanked \in BOOLEAN
    BY <1>1 DEF Inv, Requested, RequestFits
  <2>2. /\ next.records = (active \ old) \cup {Replaced(r, yanked, now) : r \in old}
        /\ next.time = now /\ next.key = KeyAt(Length) /\ next.key \in Key
    BY <1>3, ActiveKey DEF Pending
  <2>3. active \subseteq Record /\ old \subseteq active
    BY <1>3, ActiveIs DEF RecordsOf
  <2>4. \A r \in old : /\ Replaced(r, yanked, now) \in Record
                       /\ Replaced(r, yanked, now).package = r.package
                       /\ Replaced(r, yanked, now).archive = r.archive
                       /\ Replaced(r, yanked, now).yanked = yanked
                       /\ r.yanked # yanked
    <3> SUFFICES ASSUME NEW r \in old
                 PROVE  /\ Replaced(r, yanked, now) \in Record
                        /\ Replaced(r, yanked, now).package = r.package
                        /\ Replaced(r, yanked, now).archive = r.archive
                        /\ Replaced(r, yanked, now).yanked = yanked
                        /\ r.yanked # yanked
      OBVIOUS
    <3>1. r \in Record /\ r.yanked # yanked
      BY <2>3
    <3>2. QED
      BY <2>1, <3>1 DEF Record, Replaced
  <2>5. \A a, b \in active : a.package = b.package => a = b
    BY <1>3 DEF Whole, OneEach
  <2> HIDE DEF old
  <2>6. OneEach(next.records) /\ next.records \subseteq Record
    <3>1. ASSUME NEW a \in next.records, NEW b \in next.records, a.package = b.package
          PROVE  a = b
      <4>1. PICK x \in active : \/ a = x /\ x \notin old
                                \/ x \in old /\ a = Replaced(x, yanked, now)
        BY <2>2, <2>3
      <4>2. PICK y \in active : \/ b = y /\ y \notin old
                                \/ y \in old /\ b = Replaced(y, yanked, now)
        BY <2>2, <2>3
      <4>3. x.package = a.package /\ y.package = b.package
        BY <2>4, <4>1, <4>2
      <4>4. x = y
        BY <2>5, <3>1, <4>3
      <4>5. QED
        BY <4>1, <4>2, <4>4
    <3>2. QED
      BY <2>2, <2>3, <2>4, <3>1 DEF OneEach
  <2>7. \A o \in active : \E new \in next.records : Lifecycle(o, new)
    <3> SUFFICES ASSUME NEW o \in active
                 PROVE  \E new \in next.records : Lifecycle(o, new)
      OBVIOUS
    <3>1. CASE o \notin old
      BY <2>2, <3>1 DEF Lifecycle
    <3>2. CASE o \in old
      <4>1. Replaced(o, yanked, now) \in next.records
        BY <2>2, <3>2
      <4>2. Lifecycle(o, Replaced(o, yanked, now))
        BY <2>4, <3>2 DEF Lifecycle
      <4>3. QED
        BY <4>1, <4>2
    <3>3. QED
      BY <3>1, <3>2
  <2>8. \A o \in next.records : o.archive \in objects
    <3>1. \A o \in active : o.archive \in objects
      BY <1>3, ActiveIsWhole
    <3>2. QED
      BY <2>2, <2>3, <2>4, <3>1
  <2> HIDE DEF next
  <2>9. QED
    BY <1>1, <1>6, <2>2, <2>6, <2>7, <2>8, DecideKeeps
<1>7. QED
  BY <1>4, <1>5, <1>6

LEMMA DecideRotateKeeps ==
  ASSUME Inv, NEW p \in Committer, NEW now \in Time, DecideRotate(p, now)
  PROVE  Inv' /\ Grows
<1>1. /\ commit[p].step = "head" /\ commit[p].op = "rotate"
      /\ UNCHANGED <<documents, objects, current, publication>>
  BY DEF DecideRotate, staged, leases
<1>2. commit[p].state = current
  BY <1>1 DEF Inv, Progress, ReadIsCurrent
<1>3. HeadType /\ OneAhead /\ Whole
  BY DEF Inv
<1> DEFINE next == Pending(ActiveRecords(current), now, Cardinality(keys) + 1)
<1>4. Prepare(p, "key", next) /\ Cardinality(keys) < MaxKeys
  BY <1>2 DEF DecideRotate
<1>5. Cardinality(keys) \in Nat
  <2>1. IsFiniteSet(1..MaxKeys)
    BY FS_Interval, OriginAssumption
  <2>2. IsFiniteSet(keys)
    BY <1>3, <2>1, FS_Subset DEF HeadType, Key
  <2>3. QED
    BY <2>2, FS_CardinalityType
<1>6. next.records = ActiveRecords(current) /\ next.time = now /\ next.key \in Key
  BY <1>4, <1>5, OriginAssumption DEF Pending, Key
<1>7. /\ next.records \subseteq Record /\ next.records \subseteq records
      /\ OneEach(next.records) /\ \A r \in next.records : r.archive \in objects
  BY <1>3, <1>6, ActiveIs, ActiveIsWhole DEF Whole
<1>8. \A o \in ActiveRecords(current) : \E new \in next.records : Lifecycle(o, new)
  BY <1>6 DEF Lifecycle
<1> HIDE DEF next
<1>9. QED
  BY <1>1, <1>4, <1>6, <1>7, <1>8, DecideKeeps

LEMMA DecideRenewKeeps ==
  ASSUME Inv, NEW p \in Committer, NEW now \in Time, DecideRenew(p, now)
  PROVE  Inv' /\ Grows
<1>1. /\ commit[p].step = "read" /\ commit[p].op = "renew"
      /\ UNCHANGED <<documents, objects, current>>
  BY DEF DecideRenew, staged
<1>2. HeadType /\ OneAhead /\ Whole
  BY DEF Inv
<1> DEFINE active == ActiveCheckpoint(current)
           next == Pending({}, now, active.key)
<1>3. CASE ~RenewalDue(active, now)
  BY <1>1, <1>3, EndKeeps DEF DecideRenew
<1>4. CASE RenewalDue(active, now)
  <2>1. /\ commit' = [commit EXCEPT ![p].step = "renewal", ![p].state = current,
                                    ![p].next = next]
        /\ publication' = publication
    BY <1>4 DEF DecideRenew
  <2>2. /\ Only(p) /\ SameRequest(p) /\ commit'[p].step = "renewal"
        /\ commit'[p].state = current /\ commit'[p].next = next
    <3> HIDE DEF next
    <3>1. QED
      BY <2>1 DEF Inv, Shape, Only, SameRequest, NotCommitting
  <2>3. next.key = KeyAt(Length) /\ next.key \in Key /\ next.time = now
    BY <1>2, ActiveKey DEF Pending
  <2>4. now > active.time
    <3>1. active.time \in Nat /\ now \in Nat
      BY <1>2, ActiveKey, OriginAssumption DEF Time
    <3>2. QED
      BY <1>4, <3>1, OriginAssumption DEF RenewalDue
  <2>5. /\ Length' = Length /\ KeyAt(Length)' = KeyAt(Length)
        /\ ActiveCheckpoint(current)' = active
    BY <1>1 DEF documents, KeyAt, Length, ActiveCheckpoint, Sequence
  <2>6. ~HasNext(p)' /\ Renewing(p)' /\ ~Signing(p)' /\ ~Sealing(p)' /\ ~Rotated(p)'
    BY <2>2 DEF HasNext, Renewing, Signing, Sealing, Rotated
  <2>7. ReadIsCurrent(p)' /\ NothingAhead(p)' /\ WrittenSoFar(p)'
    BY <1>1, <2>2, <2>6 DEF ReadIsCurrent, NothingAhead, BeforeCheckpoint,
      BeforeSignature, BeforeRotation, WrittenSoFar
  <2>8. Decided(p)'
    <3> HIDE DEF next, active
    <3>1. QED
      BY <1>1, <2>2, <2>3, <2>4, <2>5, <2>6 DEF Decided, SameRequest
  <2>9. Leases(p) /\ RequestFits(p)'
    BY <1>1, <2>1, <2>2, RequestStays DEF Leases, Inv
  <2>10. QED
    BY <1>1, <2>2, <2>7, <2>8, <2>9, QuietKeeps DEF Progress
<1>5. QED
  BY <1>3, <1>4

-----------------------------------------------------------------------------
(***************************************************************************)
(* Pruning, and the writes in their order.                                 *)
(***************************************************************************)

LEMMA NothingSame == \A f : SameTo(f, f)
  BY DEF SameTo

\* Pruning takes documents past the head away.
LEMMA PruneKeeps ==
  ASSUME Inv, NEW p \in Committer, PruneCheckpoint(p) \/ PruneRotation(p)
  PROVE  Inv' /\ Grows
<1>1. /\ commit[p].step = "prune" /\ commit[p].state = current
      /\ HeadType /\ OneAhead /\ Shape /\ Requested
  BY DEF PruneCheckpoint, PruneRotation, Inv, Progress, ReadIsCurrent
<1>2. /\ UNCHANGED <<publication, commit, current, objects, records, snapshots, keys,
                     renewalSignatures>>
      /\ Length' = Length
  BY DEF PruneCheckpoint, PruneRotation, leases, staged, Length
<1>3. Grows /\ OneAhead'
  <2>1. CASE PruneCheckpoint(p)
    <3>1. \/ checkpoints' = checkpoints
          \/ \E n \in Ahead(p, checkpoints) : checkpoints' = Without(checkpoints, {n})
      BY <2>1 DEF PruneCheckpoint
    <3>2. \/ checkpointSignatures' = checkpointSignatures
          \/ \E n \in Ahead(p, checkpointSignatures) :
                checkpointSignatures' = Without(checkpointSignatures, {n})
      BY <2>1 DEF PruneCheckpoint
    <3>3. UNCHANGED <<rotations, oldSignatures, newSignatures>>
      BY <2>1 DEF PruneCheckpoint
    <3>4. SameTo(checkpoints, checkpoints') /\ DOMAIN checkpoints' \subseteq DOMAIN checkpoints
      <4>1. CASE checkpoints' = checkpoints
        BY <4>1, NothingSame
      <4>2. ASSUME NEW n \in Ahead(p, checkpoints), checkpoints' = Without(checkpoints, {n})
            PROVE  /\ SameTo(checkpoints, checkpoints')
                   /\ DOMAIN checkpoints' \subseteq DOMAIN checkpoints
        <5>1. n \notin 1..Length
          BY <1>1, LengthIs DEF Ahead, Sequence, Length, OneAhead
        <5>2. QED
          BY <4>2, <5>1, WithoutSame, WithoutIs
      <4>3. QED
        BY <3>1, <4>1, <4>2
    <3>5. /\ SameTo(checkpointSignatures, checkpointSignatures')
          /\ DOMAIN checkpointSignatures' \subseteq DOMAIN checkpointSignatures
      <4>1. CASE checkpointSignatures' = checkpointSignatures
        BY <4>1, NothingSame
      <4>2. ASSUME NEW n \in Ahead(p, checkpointSignatures),
                   checkpointSignatures' = Without(checkpointSignatures, {n})
            PROVE  /\ SameTo(checkpointSignatures, checkpointSignatures')
                   /\ DOMAIN checkpointSignatures' \subseteq DOMAIN checkpointSignatures
        <5>1. n \notin 1..Length
          BY <1>1, LengthIs DEF Ahead, Sequence, Length, OneAhead
        <5>2. QED
          BY <4>2, <5>1, WithoutSame, WithoutIs
      <4>3. QED
        BY <3>2, <4>1, <4>2
    <3>6. Length' = Length
      BY <1>2 DEF Length
    <3>7. Grows
      BY <1>2, <3>3, <3>4, <3>5, NothingSame DEF Grows
    <3>8. OneAhead'
      BY <1>1, <3>3, <3>4, <3>5, <3>6 DEF OneAhead
    <3>9. QED
      BY <3>7, <3>8
  <2>2. CASE PruneRotation(p)
    <3>1. PICK n \in Ahead(p, rotations) : RemoveRotationFile(n)
      BY <2>2 DEF PruneRotation
    <3>2. UNCHANGED <<checkpoints, checkpointSignatures>>
      BY <2>2 DEF PruneRotation
    <3>3. n \notin 1..Length
      BY <1>1, LengthIs DEF Ahead, Sequence, Length, OneAhead
    <3>4. /\ \/ rotations' = rotations
             \/ /\ rotations' = Without(rotations, {n})
                /\ n \notin DOMAIN oldSignatures \cup DOMAIN newSignatures
                /\ UNCHANGED <<oldSignatures, newSignatures>>
          /\ oldSignatures' = oldSignatures \/ oldSignatures' = Without(oldSignatures, {n})
          /\ newSignatures' = newSignatures \/ newSignatures' = Without(newSignatures, {n})
      BY <3>1 DEF RemoveRotationFile
    <3>5. /\ SameTo(rotations, rotations') /\ SameTo(oldSignatures, oldSignatures')
          /\ SameTo(newSignatures, newSignatures')
      BY <3>3, <3>4, WithoutSame, NothingSame
    <3>6. Length' = Length
      BY <1>2 DEF Length
    <3>7. Grows
      BY <1>2, <3>2, <3>5, NothingSame DEF Grows
    <3>8. /\ DOMAIN rotations' \subseteq DOMAIN rotations
          /\ DOMAIN oldSignatures' \subseteq DOMAIN rotations'
          /\ DOMAIN newSignatures' \subseteq DOMAIN rotations'
      <4>1. /\ DOMAIN oldSignatures' \subseteq DOMAIN oldSignatures
            /\ DOMAIN newSignatures' \subseteq DOMAIN newSignatures
        <5>1. \A f : DOMAIN Without(f, {n}) \subseteq DOMAIN f
          BY WithoutIs
        <5>2. DOMAIN oldSignatures' \subseteq DOMAIN oldSignatures
          BY <3>4, <5>1
        <5>3. DOMAIN newSignatures' \subseteq DOMAIN newSignatures
          BY <3>4, <5>1
        <5>4. QED
          BY <5>2, <5>3
      <4>2. CASE rotations' = rotations
        BY <1>1, <4>1, <4>2 DEF OneAhead
      <4>3. CASE /\ rotations' = Without(rotations, {n})
                 /\ n \notin DOMAIN oldSignatures \cup DOMAIN newSignatures
        <5>1. DOMAIN rotations' = DOMAIN rotations \ {n}
          BY <4>3, WithoutIs
        <5>2. QED
          BY <1>1, <4>1, <4>3, <5>1 DEF OneAhead
      <4>4. QED
        BY <3>4, <4>2, <4>3
    <3>9. OneAhead'
      BY <1>1, <3>2, <3>6, <3>8 DEF OneAhead
    <3>10. QED
      BY <3>7, <3>9
  <2>3. QED
    BY <2>1, <2>2
<1>4. Length' = Length /\ KeyAt(Length)' = KeyAt(Length)
  <2>1. DOMAIN rotations' \subseteq 1..(Length + 1)
    BY <1>2, <1>3 DEF OneAhead, Length
  <2>2. QED
    BY <1>2, <1>3, <2>1, WholeStays DEF Inv
<1>5. ~HasNext(p)' /\ ~Renewing(p)' /\ ~Signing(p)' /\ ~Sealing(p)' /\ ~Rotated(p)'
      /\ commit'[p] = commit[p]
  BY <1>1, <1>2 DEF HasNext, Renewing, Signing, Sealing, Rotated
<1>6. ReadIsCurrent(p)' /\ NothingAhead(p)' /\ WrittenSoFar(p)'
  BY <1>1, <1>2, <1>5 DEF ReadIsCurrent, NothingAhead, BeforeCheckpoint,
    BeforeSignature, BeforeRotation, WrittenSoFar
<1>7. Decided(p)'
  <2>1. commit[p].op = "rotate" => commit[p].request = KeyAt(Length)
    BY <1>1 DEF Inv, Progress, Decided
  <2>2. QED
    BY <1>1, <1>4, <1>5, <2>1 DEF Decided
<1>8. Only(p) /\ Leases(p) /\ RequestFits(p)'
  BY <1>1, <1>2, <1>5 DEF Only, Leases, RequestFits, Requested, Shape
<1>9. QED
  BY <1>1, <1>2, <1>3, <1>6, <1>7, <1>8, WriteKeeps DEF Progress, HeadType

\* What a writing step of p leaves alone: the head, and what it has decided.
Writes(p, s) ==
  /\ To(p, s) /\ commit[p].step \notin {"idle", "lease"}
  /\ UNCHANGED <<publication, current>>
  /\ Grows /\ keys' \subseteq Key /\ OneAhead'

LEMMA WritesIs ==
  ASSUME Inv, NEW p \in Committer, NEW s, Writes(p, s)
  PROVE  /\ Only(p) /\ Leases(p) /\ SameRequest(p) /\ RequestFits(p)'
         /\ commit'[p].step = s /\ commit'[p].state = commit[p].state
         /\ commit'[p].next = commit[p].next
         /\ Length' = Length /\ KeyAt(Length)' = KeyAt(Length)
         /\ ActiveCheckpoint(current)' = ActiveCheckpoint(current)
         /\ ActiveRecords(current)' = ActiveRecords(current)
         /\ Rotation(p)' = Rotation(p) /\ OldSignature(p)' = OldSignature(p)
         /\ NewSignature(p)' = NewSignature(p) /\ NextSnapshot(p)' = NextSnapshot(p)
         /\ NextCheckpoint(p)' = NextCheckpoint(p) /\ NextSignature(p)' = NextSignature(p)
         /\ Renewal(p)' = Renewal(p)
         /\ (Follows(p) => Follows(p)')
<1>1. /\ Only(p) /\ SameRequest(p) /\ commit'[p].step = s
      /\ commit'[p].state = commit[p].state /\ commit'[p].next = commit[p].next
  BY ToIs DEF Writes, Inv
<1>2. Leases(p) /\ RequestFits(p)'
  BY <1>1, RequestStays DEF Writes, Leases, Inv
<1>3. /\ Length' = Length /\ KeyAt(Length)' = KeyAt(Length)
      /\ ActiveCheckpoint(current)' = ActiveCheckpoint(current)
      /\ ActiveRecords(current)' = ActiveRecords(current)
  <2>1. Length' = Length
    BY DEF Writes, Length
  <2>2. DOMAIN rotations' \subseteq 1..(Length + 1)
    BY <2>1 DEF Writes, OneAhead
  <2>3. QED
    BY <2>2, WholeStays DEF Writes, Inv
<1>4. /\ Rotation(p)' = Rotation(p) /\ OldSignature(p)' = OldSignature(p)
      /\ NewSignature(p)' = NewSignature(p) /\ NextSnapshot(p)' = NextSnapshot(p)
      /\ NextCheckpoint(p)' = NextCheckpoint(p) /\ NextSignature(p)' = NextSignature(p)
      /\ Renewal(p)' = Renewal(p)
  BY <1>1 DEF SameRequest, Rotation, OldSignature, NewSignature, NextSnapshot,
     NextCheckpoint, NextSignature, Renewal, NextSequence, Sequence, Signed, Checkpoint
<1>5. Follows(p) => Follows(p)'
  BY <1>1, <1>3 DEF Follows, OneEach
<1>6. QED
  BY <1>1, <1>2, <1>3, <1>4, <1>5

\* So that only what the step is about remains to be shown.
LEMMA StepKeeps ==
  ASSUME Inv, NEW p \in Committer, NEW s, Writes(p, s),
         ReadIsCurrent(p)', NothingAhead(p)', WrittenSoFar(p)', Decided(p)'
  PROVE  Inv' /\ Grows
<1>1. Only(p) /\ Leases(p) /\ RequestFits(p)'
  BY WritesIs
<1>2. QED
  BY <1>1, WriteKeeps DEF Writes, Progress

\* Writes that replace no path.
LEMMA PathsStay ==
  ASSUME HeadType, OneAhead,
         UNCHANGED <<checkpoints, checkpointSignatures, rotations, oldSignatures,
                     newSignatures, current>>,
         records \subseteq records', snapshots \subseteq snapshots',
         objects \subseteq objects', keys \subseteq keys',
         renewalSignatures \subseteq renewalSignatures'
  PROVE  Grows /\ OneAhead'
<1>1. Length' = Length
  BY DEF Length
<1>2. OneAhead'
  BY <1>1 DEF OneAhead
<1>3. Grows
  BY NothingSame DEF Grows
<1>4. QED
  BY <1>2, <1>3

\* What a commit between its decision and the switch of the pointer knows.
LEMMA CommitIs ==
  ASSUME Inv, NEW p \in Committer
  PROVE  /\ HeadType /\ OneAhead /\ Whole /\ keys \subseteq Key
         /\ ReadIsCurrent(p) /\ NothingAhead(p) /\ WrittenSoFar(p) /\ Decided(p)
         /\ (HasNext(p) => /\ commit[p].state = current
                            /\ NextSequence(p) = Length + 1
                            /\ Follows(p))
  BY DEF Inv, HeadType, Progress, ReadIsCurrent, Decided, NextSequence, Sequence, Length

LEMMA AdoptKeeps ==
  ASSUME Inv, NEW p \in Committer, Adopt(p)
  PROVE  Inv' /\ Grows
<1>1. /\ commit[p].step = "adopt" /\ To(p, "record")
      /\ objects' = objects \cup {commit[p].request.archive}
      /\ UNCHANGED <<publication, current, records, snapshots, checkpoints,
                     checkpointSignatures, renewalSignatures, rotations,
                     oldSignatures, newSignatures, keys>>
  BY DEF Adopt, leases, documents
<1>2. Grows /\ OneAhead' /\ keys' \subseteq Key
  BY <1>1, CommitIs, PathsStay
<1>3. Writes(p, "record")
  BY <1>1, <1>2 DEF Writes
<1>4. HasNext(p) /\ commit[p].op = "publish"
  BY <1>1, CommitIs DEF HasNext, Decided
<1>5. ~Signing(p)' /\ ~Sealing(p)' /\ ~Rotated(p)' /\ ~Renewing(p)' /\ HasNext(p)'
  BY <1>3, WritesIs DEF HasNext, Signing, Sealing, Rotated, Renewing
<1>6. ReadIsCurrent(p)' /\ WrittenSoFar(p)' /\ NothingAhead(p)'
  BY <1>1, <1>3, <1>4, <1>5, CommitIs, WritesIs
  DEF ReadIsCurrent, WrittenSoFar, NothingAhead, BeforeCheckpoint,
    BeforeSignature, BeforeRotation, SameRequest
<1>7. Decided(p)'
  BY <1>1, <1>3, <1>4, <1>5, CommitIs, WritesIs DEF Decided, SameRequest
<1>8. QED
  BY <1>3, <1>6, <1>7, StepKeeps

LEMMA WriteRecordKeeps ==
  ASSUME Inv, NEW p \in Committer, WriteRecord(p)
  PROVE  Inv' /\ Grows
<1>1. /\ commit[p].step = "record" /\ To(p, "snapshot")
      /\ records' = records \cup commit[p].next.records
      /\ UNCHANGED <<publication, current, objects, snapshots, checkpoints,
                     checkpointSignatures, renewalSignatures, rotations,
                     oldSignatures, newSignatures, keys>>
  BY DEF WriteRecord, leases, staged
<1>2. Grows /\ OneAhead' /\ keys' \subseteq Key
  BY <1>1, CommitIs, PathsStay
<1>3. Writes(p, "snapshot")
  BY <1>1, <1>2 DEF Writes
<1>4. HasNext(p) /\ commit[p].op \in {"publish", "yank"}
  BY <1>1, CommitIs DEF HasNext, Decided
<1>5. ~Signing(p)' /\ Sealing(p)' /\ ~Rotated(p)' /\ ~Renewing(p)' /\ HasNext(p)'
      /\ NewHead(p)'
  BY <1>3, <1>4, WritesIs DEF HasNext, Signing, Sealing, Rotated, Renewing, NewHead,
     SameRequest
<1>6. ReadIsCurrent(p)' /\ WrittenSoFar(p)' /\ NothingAhead(p)'
  <2>1. commit[p].state = current /\ commit'[p].step = "snapshot"
    BY <1>3, <1>4, CommitIs, WritesIs
  <2>2. ReadIsCurrent(p)'
    BY <1>1, <1>3, <2>1, WritesIs DEF ReadIsCurrent
  <2>3. WrittenSoFar(p)'
    BY <1>5, <2>1 DEF WrittenSoFar
  <2>4. /\ Length + 1 \notin DOMAIN checkpoints
        /\ Length + 1 \notin DOMAIN checkpointSignatures
        /\ Length + 1 \notin DOMAIN rotations
    BY <1>1, CommitIs DEF NothingAhead, BeforeCheckpoint, BeforeSignature, BeforeRotation
  <2>5. NothingAhead(p)'
    BY <1>1, <1>3, <2>1, <2>4, WritesIs DEF NothingAhead, BeforeCheckpoint,
      BeforeSignature, BeforeRotation
  <2>6. QED
    BY <2>2, <2>3, <2>5
<1>7. Decided(p)'
  BY <1>1, <1>3, <1>4, <1>5, CommitIs, WritesIs DEF Decided, SameRequest
<1>8. QED
  BY <1>3, <1>6, <1>7, StepKeeps

LEMMA WriteKeyKeeps ==
  ASSUME Inv, NEW p \in Committer, WriteKey(p)
  PROVE  Inv' /\ Grows
<1>1. /\ commit[p].step = "key" /\ To(p, "rotation")
      /\ keys' = keys \cup {commit[p].next.key}
      /\ UNCHANGED <<publication, current, objects, records, snapshots, checkpoints,
                     checkpointSignatures, renewalSignatures, rotations,
                     oldSignatures, newSignatures>>
  BY DEF WriteKey, leases, staged
<1>2. HasNext(p) /\ Signing(p) /\ commit[p].op = "rotate" /\ commit[p].next.key \in Key
  BY <1>1, CommitIs DEF HasNext, Signing, Decided
<1>3. Grows /\ OneAhead' /\ keys' \subseteq Key
  BY <1>1, <1>2, CommitIs, PathsStay
<1>4. Writes(p, "rotation")
  BY <1>1, <1>3 DEF Writes
<1>5. Signing(p)' /\ ~Sealing(p)' /\ ~Rotated(p)' /\ ~Renewing(p)' /\ HasNext(p)'
  BY <1>4, WritesIs DEF HasNext, Signing, Sealing, Rotated, Renewing
<1>6. ReadIsCurrent(p)' /\ WrittenSoFar(p)' /\ NothingAhead(p)'
  BY <1>1, <1>2, <1>4, <1>5, CommitIs, WritesIs
  DEF ReadIsCurrent, WrittenSoFar, NothingAhead, BeforeCheckpoint,
    BeforeSignature, BeforeRotation, SameRequest
<1>7. Decided(p)'
  BY <1>1, <1>2, <1>4, <1>5, CommitIs, WritesIs DEF Decided, SameRequest
<1>8. QED
  BY <1>4, <1>6, <1>7, StepKeeps

LEMMA WriteRotationKeeps ==
  ASSUME Inv, NEW p \in Committer, WriteRotation(p)
  PROVE  Inv' /\ Grows
<1>1. /\ commit[p].step = "rotation" /\ To(p, "old")
      /\ rotations' = Written(rotations, NextSequence(p), Rotation(p))
      /\ UNCHANGED <<publication, current, objects, records, snapshots, checkpoints,
                     checkpointSignatures, renewalSignatures, oldSignatures,
                     newSignatures, keys>>
  BY DEF WriteRotation, leases, staged
<1>2. /\ HasNext(p) /\ commit[p].op = "rotate" /\ NextSequence(p) = Length + 1
      /\ HeadType /\ OneAhead /\ keys \subseteq Key
      /\ Length + 1 \notin DOMAIN checkpoints
      /\ Length + 1 \notin DOMAIN checkpointSignatures
      /\ Length + 1 \notin DOMAIN rotations
  BY <1>1, CommitIs DEF HasNext, Signing, Decided, NothingAhead, BeforeCheckpoint,
     BeforeSignature, BeforeRotation
<1>3. /\ DOMAIN rotations' = DOMAIN rotations \cup {Length + 1}
      /\ rotations'[Length + 1] = Rotation(p)
  <2>1. rotations' = Written(rotations, Length + 1, Rotation(p))
    BY <1>1, <1>2
  <2>2. QED
    BY <2>1, LengthIs DEF Written
<1>4. Grows
  BY <1>1, <1>2, WrittenSame, NothingSame DEF Grows
<1>5. Length' = Length
  BY <1>1 DEF Length
<1>6. OneAhead'
  BY <1>1, <1>2, <1>3, <1>5, LengthIs DEF OneAhead
<1>7. Writes(p, "old")
  BY <1>1, <1>2, <1>4, <1>6 DEF Writes
<1>8. Signing(p)' /\ ~Sealing(p)' /\ ~Rotated(p)' /\ ~Renewing(p)' /\ HasNext(p)'
  BY <1>7, WritesIs DEF HasNext, Signing, Sealing, Rotated, Renewing
<1>9. ReadIsCurrent(p)'
  BY <1>1, <1>2, <1>7, CommitIs, WritesIs DEF ReadIsCurrent
<1>10. NothingAhead(p)'
  <2>1. Length + 1 \notin DOMAIN oldSignatures \cup DOMAIN newSignatures
    BY <1>2 DEF OneAhead
  <2>2. QED
    BY <1>1, <1>2, <1>7, <1>8, <2>1, WritesIs
    DEF NothingAhead, BeforeCheckpoint, BeforeSignature, BeforeRotation
<1>11. WrittenSoFar(p)'
  <2>1. commit[p].next.key \in keys
    BY <1>1, CommitIs DEF WrittenSoFar
  <2>2. QED
    BY <1>1, <1>3, <1>7, <1>8, <2>1, WritesIs DEF WrittenSoFar
<1>12. Decided(p)'
  BY <1>1, <1>2, <1>7, <1>8, CommitIs, WritesIs DEF Decided, SameRequest, Signing
<1>13. QED
  BY <1>7, <1>9, <1>10, <1>11, <1>12, StepKeeps

LEMMA WriteOldSignatureKeeps ==
  ASSUME Inv, NEW p \in Committer, WriteOldSignature(p)
  PROVE  Inv' /\ Grows
<1>1. /\ commit[p].step = "old" /\ To(p, "new")
      /\ oldSignatures' = Written(oldSignatures, NextSequence(p), OldSignature(p))
      /\ UNCHANGED <<publication, current, objects, records, snapshots, checkpoints,
                     checkpointSignatures, renewalSignatures, rotations,
                     newSignatures, keys>>
  BY DEF WriteOldSignature, leases, staged
<1>2. /\ HasNext(p) /\ commit[p].op = "rotate" /\ NextSequence(p) = Length + 1
      /\ HeadType /\ OneAhead /\ keys \subseteq Key
      /\ Length + 1 \notin DOMAIN checkpoints
      /\ Length + 1 \notin DOMAIN checkpointSignatures
      /\ Length + 1 \notin DOMAIN newSignatures
  BY <1>1, CommitIs DEF HasNext, Signing, Decided, NothingAhead, BeforeCheckpoint,
     BeforeSignature, BeforeRotation
<1>3. /\ Length + 1 \in DOMAIN rotations
      /\ rotations[Length + 1] = Rotation(p) /\ commit[p].next.key \in keys
  BY <1>1, CommitIs DEF WrittenSoFar
<1>4. /\ DOMAIN oldSignatures' = DOMAIN oldSignatures \cup {Length + 1}
      /\ oldSignatures'[Length + 1] = OldSignature(p)
  <2>1. oldSignatures' = Written(oldSignatures, Length + 1, OldSignature(p))
    BY <1>1, <1>2
  <2>2. QED
    BY <2>1, LengthIs DEF Written
<1>5. Grows
  BY <1>1, <1>2, WrittenSame, NothingSame DEF Grows
<1>6. Length' = Length
  BY <1>1 DEF Length
<1>7. OneAhead'
  BY <1>1, <1>2, <1>3, <1>4, <1>6 DEF OneAhead
<1>8. Writes(p, "new")
  BY <1>1, <1>2, <1>5, <1>7 DEF Writes
<1>9. Signing(p)' /\ ~Sealing(p)' /\ ~Rotated(p)' /\ ~Renewing(p)' /\ HasNext(p)'
  BY <1>8, WritesIs DEF HasNext, Signing, Sealing, Rotated, Renewing
<1>10. ReadIsCurrent(p)' /\ NothingAhead(p)'
  BY <1>1, <1>2, <1>8, <1>9, CommitIs, WritesIs
  DEF ReadIsCurrent, NothingAhead, BeforeCheckpoint, BeforeSignature, BeforeRotation
<1>11. WrittenSoFar(p)'
  BY <1>1, <1>3, <1>4, <1>8, <1>9, WritesIs DEF WrittenSoFar
<1>12. Decided(p)'
  BY <1>1, <1>2, <1>8, <1>9, CommitIs, WritesIs DEF Decided, SameRequest, Signing
<1>13. QED
  BY <1>8, <1>10, <1>11, <1>12, StepKeeps

LEMMA WriteNewSignatureKeeps ==
  ASSUME Inv, NEW p \in Committer, WriteNewSignature(p)
  PROVE  Inv' /\ Grows
<1>1. /\ commit[p].step = "new" /\ To(p, "snapshot")
      /\ newSignatures' = Written(newSignatures, NextSequence(p), NewSignature(p))
      /\ UNCHANGED <<publication, current, objects, records, snapshots, checkpoints,
                     checkpointSignatures, renewalSignatures, rotations,
                     oldSignatures, keys>>
  BY DEF WriteNewSignature, leases, staged
<1>2. /\ HasNext(p) /\ commit[p].op = "rotate" /\ NextSequence(p) = Length + 1
      /\ HeadType /\ OneAhead /\ keys \subseteq Key
      /\ Length + 1 \notin DOMAIN checkpoints
      /\ Length + 1 \notin DOMAIN checkpointSignatures
  BY <1>1, CommitIs DEF HasNext, Signing, Decided, NothingAhead, BeforeCheckpoint,
     BeforeSignature, BeforeRotation
<1>3. /\ Length + 1 \in DOMAIN rotations
      /\ rotations[Length + 1] = Rotation(p) /\ commit[p].next.key \in keys
      /\ Length + 1 \in DOMAIN oldSignatures
      /\ oldSignatures[Length + 1] = OldSignature(p)
  BY <1>1, CommitIs DEF WrittenSoFar
<1>4. /\ DOMAIN newSignatures' = DOMAIN newSignatures \cup {Length + 1}
      /\ newSignatures'[Length + 1] = NewSignature(p)
  <2>1. newSignatures' = Written(newSignatures, Length + 1, NewSignature(p))
    BY <1>1, <1>2
  <2>2. QED
    BY <2>1, LengthIs DEF Written
<1>5. Grows
  BY <1>1, <1>2, WrittenSame, NothingSame DEF Grows
<1>6. Length' = Length
  BY <1>1 DEF Length
<1>7. OneAhead'
  BY <1>1, <1>2, <1>3, <1>4, <1>6 DEF OneAhead
<1>8. Writes(p, "snapshot")
  BY <1>1, <1>2, <1>5, <1>7 DEF Writes
<1>9. /\ ~Signing(p)' /\ Sealing(p)' /\ Rotated(p)' /\ ~Renewing(p)' /\ HasNext(p)'
      /\ NewHead(p)'
  BY <1>2, <1>8, WritesIs
  DEF HasNext, Signing, Sealing, Rotated, Renewing, NewHead, SameRequest
<1>10. ReadIsCurrent(p)' /\ NothingAhead(p)'
  BY <1>1, <1>2, <1>8, <1>9, CommitIs, WritesIs
  DEF ReadIsCurrent, NothingAhead, BeforeCheckpoint, BeforeSignature, BeforeRotation,
      SameRequest
<1>11. WrittenSoFar(p)'
  BY <1>1, <1>3, <1>4, <1>8, <1>9, WritesIs DEF WrittenSoFar
<1>12. Decided(p)'
  BY <1>1, <1>2, <1>8, <1>9, CommitIs, WritesIs DEF Decided, SameRequest, Signing
<1>13. QED
  BY <1>8, <1>10, <1>11, <1>12, StepKeeps

LEMMA WriteSnapshotKeeps ==
  ASSUME Inv, NEW p \in Committer, WriteSnapshot(p)
  PROVE  Inv' /\ Grows
<1>1. /\ commit[p].step = "snapshot"
      /\ snapshots' = snapshots \cup {NextSnapshot(p)}
      /\ UNCHANGED <<current, objects, records, checkpoints,
                     checkpointSignatures, renewalSignatures, rotations,
                     oldSignatures, newSignatures, keys>>
  BY DEF WriteSnapshot, staged
<1>2. NewHead(p) /\ Sealing(p) /\ HasNext(p) /\ ~Signing(p) /\ ~Renewing(p)
  BY <1>1, CommitIs DEF HasNext, Signing, Sealing, Renewing, Decided
<1>3. Grows /\ OneAhead' /\ keys' \subseteq Key
  BY <1>1, CommitIs, PathsStay
<1>4. CASE End(p)
  <2>1. Only(p) /\ Leases(p) /\ commit'[p] = NotCommitting
    BY <1>4, EndIs DEF Inv, Leases
  <2>2. Progress(p)' /\ RequestFits(p)'
    BY <2>1, EndedProgress
  <2>3. QED
    BY <1>1, <1>3, <2>1, <2>2, WriteKeeps
<1>5. CASE To(p, "checkpoint") /\ publication' = publication
  <2>1. Writes(p, "checkpoint")
    BY <1>1, <1>3, <1>5 DEF Writes
  <2>2. /\ NewHead(p)' /\ Sealing(p)' /\ HasNext(p)' /\ ~Signing(p)' /\ ~Renewing(p)'
        /\ (Rotated(p)' <=> Rotated(p))
    BY <1>2, <2>1, WritesIs
    DEF HasNext, Signing, Sealing, Rotated, Renewing, NewHead, SameRequest
  <2>3. ReadIsCurrent(p)'
    BY <1>1, <1>2, <2>1, CommitIs, WritesIs DEF ReadIsCurrent
  <2>4. NothingAhead(p)'
    <3>1. /\ Length + 1 \notin DOMAIN checkpoints
          /\ Length + 1 \notin DOMAIN checkpointSignatures
          /\ commit[p].op # "rotate" => Length + 1 \notin DOMAIN rotations
      BY <1>1, <1>2, CommitIs
      DEF NothingAhead, BeforeCheckpoint, BeforeSignature, BeforeRotation
    <3>2. QED
      BY <1>1, <2>1, <2>2, <3>1, WritesIs
      DEF NothingAhead, BeforeCheckpoint, BeforeSignature, BeforeRotation, SameRequest
  <2>5. WrittenSoFar(p)'
    <3>1. NextSnapshot(p)' \in snapshots'
      BY <1>1, <2>1, WritesIs
    <3>2. Rotated(p) =>
            /\ Length + 1 \in DOMAIN rotations
            /\ rotations[Length + 1] = Rotation(p) /\ commit[p].next.key \in keys
            /\ Length + 1 \in DOMAIN oldSignatures
            /\ oldSignatures[Length + 1] = OldSignature(p)
            /\ Length + 1 \in DOMAIN newSignatures
            /\ newSignatures[Length + 1] = NewSignature(p)
      BY CommitIs DEF WrittenSoFar
    <3>3. QED
      BY <1>1, <2>1, <2>2, <3>1, <3>2, WritesIs DEF WrittenSoFar
  <2>6. Decided(p)'
    BY <1>1, <1>2, <2>1, <2>2, CommitIs, WritesIs DEF Decided, SameRequest
  <2>7. QED
    BY <2>1, <2>3, <2>4, <2>5, <2>6, StepKeeps
<1>6. QED
  BY <1>4, <1>5 DEF WriteSnapshot

LEMMA WriteCheckpointKeeps ==
  ASSUME Inv, NEW p \in Committer, WriteCheckpoint(p)
  PROVE  Inv' /\ Grows
<1>1. /\ commit[p].step = "checkpoint" /\ To(p, "signature")
      /\ checkpoints' = Written(checkpoints, NextSequence(p), NextCheckpoint(p))
      /\ UNCHANGED <<publication, current, objects, records, snapshots,
                     checkpointSignatures, renewalSignatures, rotations,
                     oldSignatures, newSignatures, keys>>
  BY DEF WriteCheckpoint, leases, staged
<1>2. /\ NewHead(p) /\ Sealing(p) /\ HasNext(p) /\ ~Signing(p) /\ ~Renewing(p)
      /\ NextSequence(p) = Length + 1 /\ HeadType /\ OneAhead /\ keys \subseteq Key
  BY <1>1, CommitIs DEF HasNext, Signing, Sealing, Renewing, Decided
<1>3. /\ DOMAIN checkpoints' = DOMAIN checkpoints \cup {Length + 1}
      /\ checkpoints'[Length + 1] = NextCheckpoint(p)
  <2>1. checkpoints' = Written(checkpoints, Length + 1, NextCheckpoint(p))
    BY <1>1, <1>2
  <2>2. QED
    BY <2>1, LengthIs DEF Written
<1>4. Grows
  BY <1>1, <1>2, WrittenSame, NothingSame DEF Grows
<1>5. Length' = Length
  BY <1>1 DEF Length
<1>6. OneAhead'
  BY <1>1, <1>2, <1>3, <1>5, LengthIs DEF OneAhead
<1>7. Writes(p, "signature")
  BY <1>1, <1>2, <1>4, <1>6 DEF Writes
<1>8. /\ NewHead(p)' /\ Sealing(p)' /\ HasNext(p)' /\ ~Signing(p)' /\ ~Renewing(p)'
      /\ (Rotated(p)' <=> Rotated(p))
  BY <1>2, <1>7, WritesIs
  DEF HasNext, Signing, Sealing, Rotated, Renewing, NewHead, SameRequest
<1>9. ReadIsCurrent(p)'
  BY <1>1, <1>2, <1>7, CommitIs, WritesIs DEF ReadIsCurrent
<1>10. NothingAhead(p)'
  <2>1. /\ Length + 1 \notin DOMAIN checkpointSignatures
        /\ commit[p].op # "rotate" => Length + 1 \notin DOMAIN rotations
    BY <1>1, <1>2, CommitIs
    DEF NothingAhead, BeforeCheckpoint, BeforeSignature, BeforeRotation
  <2>2. QED
    BY <1>1, <1>7, <1>8, <2>1, WritesIs
    DEF NothingAhead, BeforeCheckpoint, BeforeSignature, BeforeRotation, SameRequest
<1>11. WrittenSoFar(p)'
  <2>1. NextSnapshot(p) \in snapshots
    BY <1>1, <1>2, CommitIs DEF WrittenSoFar
  <2>2. Rotated(p) =>
          /\ Length + 1 \in DOMAIN rotations
          /\ rotations[Length + 1] = Rotation(p) /\ commit[p].next.key \in keys
          /\ Length + 1 \in DOMAIN oldSignatures
          /\ oldSignatures[Length + 1] = OldSignature(p)
          /\ Length + 1 \in DOMAIN newSignatures
          /\ newSignatures[Length + 1] = NewSignature(p)
    BY CommitIs DEF WrittenSoFar
  <2>3. QED
    BY <1>1, <1>3, <1>7, <1>8, <2>1, <2>2, WritesIs DEF WrittenSoFar
<1>12. Decided(p)'
  BY <1>1, <1>2, <1>7, <1>8, CommitIs, WritesIs DEF Decided, SameRequest
<1>13. QED
  BY <1>7, <1>9, <1>10, <1>11, <1>12, StepKeeps

LEMMA WriteSignatureKeeps ==
  ASSUME Inv, NEW p \in Committer, WriteSignature(p)
  PROVE  Inv' /\ Grows
<1>1. /\ commit[p].step = "signature" /\ To(p, "activate")
      /\ checkpointSignatures' =
           Written(checkpointSignatures, NextSequence(p), NextSignature(p))
      /\ UNCHANGED <<publication, current, objects, records, snapshots, checkpoints,
                     renewalSignatures, rotations, oldSignatures, newSignatures, keys>>
  BY DEF WriteSignature, leases, staged
<1>2. /\ NewHead(p) /\ Sealing(p) /\ HasNext(p) /\ ~Signing(p) /\ ~Renewing(p)
      /\ NextSequence(p) = Length + 1 /\ HeadType /\ OneAhead /\ keys \subseteq Key
  BY <1>1, CommitIs DEF HasNext, Signing, Sealing, Renewing, Decided
<1>3. /\ DOMAIN checkpointSignatures' = DOMAIN checkpointSignatures \cup {Length + 1}
      /\ checkpointSignatures'[Length + 1] = NextSignature(p)
  <2>1. checkpointSignatures' = Written(checkpointSignatures, Length + 1, NextSignature(p))
    BY <1>1, <1>2
  <2>2. QED
    BY <2>1, LengthIs DEF Written
<1>4. Grows
  BY <1>1, <1>2, WrittenSame, NothingSame DEF Grows
<1>5. Length' = Length
  BY <1>1 DEF Length
<1>6. OneAhead'
  BY <1>1, <1>2, <1>3, <1>5, LengthIs DEF OneAhead
<1>7. Writes(p, "activate")
  BY <1>1, <1>2, <1>4, <1>6 DEF Writes
<1>8. /\ NewHead(p)' /\ Sealing(p)' /\ HasNext(p)' /\ ~Signing(p)' /\ ~Renewing(p)'
      /\ (Rotated(p)' <=> Rotated(p))
  BY <1>2, <1>7, WritesIs
  DEF HasNext, Signing, Sealing, Rotated, Renewing, NewHead, SameRequest
<1>9. ReadIsCurrent(p)'
  BY <1>1, <1>2, <1>7, CommitIs, WritesIs DEF ReadIsCurrent
<1>10. NothingAhead(p)'
  <2>1. commit[p].op # "rotate" => Length + 1 \notin DOMAIN rotations
    BY <1>2, CommitIs DEF NothingAhead, BeforeRotation
  <2>2. QED
    BY <1>1, <1>7, <1>8, <2>1, WritesIs
    DEF NothingAhead, BeforeCheckpoint, BeforeSignature, BeforeRotation, SameRequest
<1>11. WrittenSoFar(p)'
  <2>1. /\ NextSnapshot(p) \in snapshots
        /\ Length + 1 \in DOMAIN checkpoints
        /\ checkpoints[Length + 1] = NextCheckpoint(p)
    BY <1>1, <1>2, CommitIs DEF WrittenSoFar
  <2>2. Rotated(p) =>
          /\ Length + 1 \in DOMAIN rotations
          /\ rotations[Length + 1] = Rotation(p) /\ commit[p].next.key \in keys
          /\ Length + 1 \in DOMAIN oldSignatures
          /\ oldSignatures[Length + 1] = OldSignature(p)
          /\ Length + 1 \in DOMAIN newSignatures
          /\ newSignatures[Length + 1] = NewSignature(p)
    BY CommitIs DEF WrittenSoFar
  <2>3. QED
    BY <1>1, <1>3, <1>7, <1>8, <2>1, <2>2, WritesIs DEF WrittenSoFar
<1>12. Decided(p)'
  BY <1>1, <1>2, <1>7, <1>8, CommitIs, WritesIs DEF Decided, SameRequest
<1>13. QED
  BY <1>7, <1>9, <1>10, <1>11, <1>12, StepKeeps

LEMMA RenewalKeeps ==
  ASSUME Inv, NEW p \in Committer, WriteRenewal(p) \/ SignRenewal(p)
  PROVE  Inv' /\ Grows
<1>1. \/ commit[p].step = "renewal" /\ To(p, "sign")
      \/ /\ commit[p].step = "sign" /\ To(p, "activate")
         /\ renewalSignatures' =
              renewalSignatures \cup {Signed(Renewal(p), commit[p].next.key)}
  BY DEF WriteRenewal, SignRenewal
<1>2. /\ renewalSignatures \subseteq renewalSignatures'
      /\ UNCHANGED <<publication, current, objects, records, snapshots, checkpoints,
                     checkpointSignatures, rotations, oldSignatures, newSignatures,
                     keys>>
  BY DEF WriteRenewal, SignRenewal, leases, staged
<1>3. Grows /\ OneAhead' /\ keys' \subseteq Key
  BY <1>2, CommitIs, PathsStay
<1>4. PICK s \in {"sign", "activate"} : Writes(p, s)
  BY <1>1, <1>2, <1>3 DEF Writes
<1>5. Renewing(p) /\ commit[p].op = "renew" /\ commit[p].state = current
  BY <1>1, CommitIs DEF Renewing, Decided, ReadIsCurrent
<1>6. /\ ~NewHead(p)' /\ ~Sealing(p)' /\ ~HasNext(p)' /\ ~Signing(p)' /\ Renewing(p)'
      /\ ~Rotated(p)'
  BY <1>4, <1>5, WritesIs
  DEF HasNext, Signing, Sealing, Rotated, Renewing, NewHead, SameRequest
<1>7. ReadIsCurrent(p)'
  BY <1>2, <1>4, <1>5, WritesIs DEF ReadIsCurrent
<1>8. NothingAhead(p)'
  BY <1>4, <1>6, WritesIs
  DEF NothingAhead, BeforeCheckpoint, BeforeSignature, BeforeRotation
<1>9. WrittenSoFar(p)'
  <2>1. commit'[p].step = "activate" =>
          Signed(Renewal(p), commit[p].next.key)' \in renewalSignatures'
    BY <1>1, <1>4, ToIs, WritesIs DEF Inv, Signed
  <2>2. QED
    BY <1>4, <1>6, <2>1, WritesIs DEF WrittenSoFar
<1>10. Decided(p)'
  BY <1>4, <1>5, <1>6, CommitIs, WritesIs DEF Decided, SameRequest
<1>11. QED
  BY <1>4, <1>7, <1>8, <1>9, <1>10, StepKeeps

-----------------------------------------------------------------------------
(***************************************************************************)
(* The switch of the pointer, which is the commit.                         *)
(***************************************************************************)

HeadFollows ==
  current' # current =>
    \/ /\ current'.snapshot = current.snapshot
       /\ ActiveCheckpoint(current)'.key = ActiveCheckpoint(current).key
       /\ ActiveCheckpoint(current)'.time > ActiveCheckpoint(current).time
    \/ /\ Front(current'.snapshot) = current.snapshot
       /\ \A old \in ActiveRecords(current) :
            \E new \in ActiveRecords(current') : Lifecycle(old, new)
       /\ \A r, s \in ActiveRecords(current') :
            r.package = s.package => r = s

\* All commits are over but for the head, which is whole.
LEMMA SwitchKeeps ==
  ASSUME Inv, NEW p \in Committer, Activate(p), HeadType', OneAhead', Whole'
  PROVE  Inv' /\ Grows
<1>0. Shape /\ Held /\ Requested
  BY DEF Inv
<1>1. commit[p].step = "activate" /\ UNCHANGED <<documents, objects>> /\ End(p)
  BY DEF Activate, staged
<1>2. Grows
  BY <1>1, NothingGrows
<1>3. Only(p) /\ Leases(p) /\ commit'[p] = NotCommitting
  BY <1>0, <1>1, EndIs DEF Leases
<1>4. Held' /\ Shape'
  BY <1>0, <1>3, HeldStays DEF Only
<1>5. Progress(p)' /\ RequestFits(p)'
  BY <1>3, EndedProgress
<1>6. \A q \in Committer : Progress(q)'
  <2>1. ASSUME NEW q \in Committer, q # p PROVE Progress(q)'
    <3>1. commit[q].step \in {"idle", "lease"}
      BY <1>0, <1>1, <2>1 DEF Held
    <3>2. QED
      BY <1>3, <2>1, <3>1, OutsideProgress DEF Only
  <2>2. QED
    BY <1>5, <2>1
<1>7. Requested'
  BY <1>0, <1>3, <1>5 DEF Requested, RequestFits, Only
<1>8. QED
  BY <1>2, <1>4, <1>6, <1>7 DEF Inv

LEMMA RenewedIsWhole ==
  ASSUME Inv, NEW p \in Committer, Activate(p), commit[p].op = "renew"
  PROVE  HeadType' /\ OneAhead' /\ Whole' /\ HeadFollows
<1>1. /\ commit[p].step = "activate" /\ UNCHANGED <<documents, objects>>
      /\ current' = Pointer(commit[p].state.snapshot, Renewal(p))
  BY DEF Activate, staged
<1>2. Renewing(p) /\ HeadType /\ OneAhead /\ Whole /\ commit[p].state = current
  BY <1>1, CommitIs DEF Renewing, ReadIsCurrent
<1>3. /\ commit[p].next.key = KeyAt(Length) /\ commit[p].next.key \in Key
      /\ commit[p].next.time \in Time
      /\ commit[p].next.time > ActiveCheckpoint(current).time
  BY <1>2, CommitIs DEF Decided
<1>4. /\ current'.snapshot = current.snapshot /\ current'.renewal = Renewal(p)
      /\ Renewal(p) = Checkpoint(current.snapshot, commit[p].next.time,
                                 commit[p].next.key)
  BY <1>1, <1>2 DEF Pointer, Renewal
<1>5. Renewal(p) # None
  <2>1. Renewal(p) \in [snapshot : Seq(Entry), time : Time, key : Key]
    BY <1>2, <1>3, <1>4 DEF Checkpoint, HeadType
  <2>2. QED
    BY <2>1, NoneAssumption DEF Entry
<1>6. Length' = Length
  BY <1>4 DEF Length
<1>7. HeadType' /\ OneAhead'
  BY <1>1, <1>2, <1>3, <1>4, <1>6 DEF HeadType, OneAhead, documents, Checkpoint
<1>8. \A n : KeyAt(n)' = KeyAt(n)
  BY <1>1 DEF KeyAt, documents
<1>9. ASSUME NEW n \in 1..Length PROVE WholeAt(n)'
  <2>1. WholeAt(n)
    BY <1>2 DEF Whole
  <2>2. Proved(n) => Proved(n)'
    BY <1>1, <1>8 DEF Proved, documents, Signed
  <2>3. QED
    BY <1>1, <1>4, <1>8, <2>1, <2>2 DEF WholeAt, documents, Checkpoint, Signed
<1>10. KeyAt(Length)' = KeyAt(Length)
  <2>1. PICK n \in 0..Length : n = Length
    BY <1>2, LengthIs
  <2>2. QED
    BY <1>6, <1>8, <2>1
<1>11. RenewalIsWhole'
  <2>1. Signed(Renewal(p), commit[p].next.key) \in renewalSignatures
    BY <1>1, <1>2, CommitIs DEF WrittenSoFar
  <2>2. QED
    BY <1>1, <1>3, <1>4, <1>10, <2>1 DEF RenewalIsWhole, documents, Checkpoint, Signed
<1>12. OneEach(ActiveRecords(current))'
  BY <1>2, <1>4 DEF Whole, OneEach, ActiveRecords
<1>13. HeadFollows
  <2>1. ActiveCheckpoint(current)' = Renewal(p)
    BY <1>4, <1>5 DEF ActiveCheckpoint
  <2>2. ActiveCheckpoint(current).key = KeyAt(Length)
    BY <1>2, ActiveKey
  <2>3. QED
    BY <1>3, <1>4, <2>1, <2>2 DEF HeadFollows, Checkpoint
<1>14. QED
  BY <1>6, <1>7, <1>9, <1>11, <1>12, <1>13 DEF Whole

LEMMA NewHeadIsWhole ==
  ASSUME Inv, NEW p \in Committer, Activate(p), NewHead(p)
  PROVE  HeadType' /\ OneAhead' /\ Whole' /\ HeadFollows
<1> DEFINE entry == [records |-> commit[p].next.records, time |-> commit[p].next.time]
<1>1. /\ commit[p].step = "activate" /\ UNCHANGED <<documents, objects>>
      /\ current' = Pointer(NextSnapshot(p), None)
  BY DEF Activate, staged, NewHead
<1>2. /\ Sealing(p) /\ HasNext(p) /\ HeadType /\ OneAhead /\ Whole
      /\ commit[p].state = current /\ NextSequence(p) = Length + 1
      /\ Follows(p) /\ Decided(p) /\ WrittenSoFar(p) /\ NothingAhead(p)
  BY <1>1, CommitIs DEF HasNext, Sealing
<1>3. UNCHANGED <<records, snapshots, checkpoints, checkpointSignatures,
                  renewalSignatures, rotations, oldSignatures, newSignatures, keys,
                  objects>>
  BY <1>1 DEF documents
<1>4. current'.snapshot = NextSnapshot(p) /\ current'.renewal = None
  BY <1>1 DEF Pointer
<1>5. /\ entry \in Entry /\ current.snapshot \in Seq(Entry)
      /\ NextSnapshot(p) = Append(current.snapshot, entry)
  BY <1>2 DEF Follows, Entry, HeadType, NextSnapshot
<1>6. PICK m : m = Length + 1
  OBVIOUS
<1>7. m \in Nat /\ 1..m = 1..Length \cup {m} /\ m = Length + 1 /\ m - 1 = Length
  BY <1>2, <1>6, LengthIs
<1> HIDE DEF entry
<1>8. /\ NextSnapshot(p) \in Seq(Entry) /\ Length' = m
      /\ Front(NextSnapshot(p)) = current.snapshot /\ Last(NextSnapshot(p)) = entry
      /\ SubSeq(NextSnapshot(p), 1, m) = NextSnapshot(p)
      /\ NextSnapshot(p)[m] = entry
      /\ \A n \in 1..Length :
           /\ NextSnapshot(p)[n] = current.snapshot[n]
           /\ SubSeq(NextSnapshot(p), 1, n) = SubSeq(current.snapshot, 1, n)
  <2>1. Len(NextSnapshot(p)) = m
    BY <1>5, <1>6, AppendIs DEF Length
  <2>2. NextSnapshot(p)[m] = entry
    BY <1>5, <1>6, <1>7, <2>1, AppendIs DEF Last
  <2>3. QED
    BY <1>4, <1>5, <1>6, <2>1, <2>2, AppendIs DEF Length
<1>9. entry.records = commit[p].next.records /\ entry.time = commit[p].next.time
  BY DEF entry
<1>10. \A n : KeyAt(n)' = KeyAt(n)
  BY <1>3 DEF KeyAt
<1>11. HeadType'
  BY <1>2, <1>3, <1>4, <1>7, <1>8, LengthIs DEF HeadType, Length
<1>12. OneAhead'
  <2>1. 1..(Length + 1) \subseteq 1..(m + 1)
    BY <1>7, <1>2, LengthIs
  <2>2. QED
    BY <1>2, <1>3, <1>8, <2>1 DEF OneAhead
<1>13. ASSUME NEW n \in 1..Length PROVE WholeAt(n)'
  <2>1. WholeAt(n)
    BY <1>2 DEF Whole
  <2>2. Proved(n) => Proved(n)'
    BY <1>3, <1>10 DEF Proved, Signed
  <2>3. /\ current'.snapshot[n] = current.snapshot[n]
        /\ SubSeq(current'.snapshot, 1, n) = SubSeq(current.snapshot, 1, n)
    BY <1>4, <1>8
  <2>4. QED
    BY <1>3, <1>10, <2>1, <2>2, <2>3 DEF WholeAt, Checkpoint, Signed
<1>14. KeyAt(m) = commit[p].next.key /\ KeyAt(m - 1) = KeyAt(Length)
  <2>1. KeyAt(m - 1) = KeyAt(Length)
    BY <1>7
  <2>2. KeyAt(Length + 1) = IF Length + 1 \in DOMAIN rotations
                            THEN rotations[Length + 1].to ELSE KeyAt(Length)
    BY <1>2, KeyAhead
  <2>3. KeyAt(m) = KeyAt(Length + 1)
    BY <1>6
  <2>4. CASE commit[p].op = "rotate"
    <3>1. /\ Length + 1 \in DOMAIN rotations
          /\ rotations[Length + 1] = Rotation(p)
      BY <1>2, <2>4 DEF WrittenSoFar, Rotated
    <3>2. Rotation(p).to = commit[p].next.key
      BY DEF Rotation
    <3>3. QED
      BY <2>1, <2>2, <2>3, <3>1, <3>2
  <2>5. CASE commit[p].op # "rotate"
    <3>1. Length + 1 \notin DOMAIN rotations
      BY <1>2, <2>5 DEF NothingAhead, BeforeRotation
    <3>2. commit[p].next.key = KeyAt(Length)
      BY <1>2, <2>5 DEF Decided
    <3>3. QED
      BY <2>1, <2>2, <2>3, <3>1, <3>2
  <2>6. QED
    BY <2>1, <2>4, <2>5
<1>15. m \in DOMAIN rotations => Proved(m)
  <2> SUFFICES ASSUME m \in DOMAIN rotations
               PROVE  Proved(m)
    OBVIOUS
  <2>1. commit[p].op = "rotate"
    BY <1>2, <1>6 DEF NothingAhead, BeforeRotation
  <2>2. Rotated(p) /\ commit[p].request = KeyAt(Length)
    BY <1>2, <2>1 DEF Rotated, Decided
  <2>3. /\ rotations[m] = Rotation(p) /\ commit[p].next.key \in keys
        /\ m \in DOMAIN oldSignatures /\ oldSignatures[m] = OldSignature(p)
        /\ m \in DOMAIN newSignatures /\ newSignatures[m] = NewSignature(p)
    BY <1>2, <1>6, <2>2 DEF WrittenSoFar
  <2>4. QED
    BY <1>2, <1>6, <1>14, <2>2, <2>3
    DEF Proved, Rotation, OldSignature, NewSignature
<1>16. WholeAt(m)'
  <2>1. NextSnapshot(p) \in snapshots
    BY <1>1, <1>2 DEF WrittenSoFar
  <2>2. /\ m \in DOMAIN checkpoints /\ checkpoints[m] = NextCheckpoint(p)
        /\ m \in DOMAIN checkpointSignatures
        /\ checkpointSignatures[m] = NextSignature(p)
    BY <1>1, <1>2, <1>6 DEF WrittenSoFar
  <2>3. \A r \in commit[p].next.records : r \in records /\ r.archive \in objects
    BY <1>2 DEF Decided
  <2>4. current'.snapshot[m] = entry /\ SubSeq(current'.snapshot, 1, m) = NextSnapshot(p)
    BY <1>4, <1>8
  <2>5. /\ checkpoints[m] = Checkpoint(NextSnapshot(p), entry.time, KeyAt(m))
        /\ checkpointSignatures[m] = Signed(checkpoints[m], KeyAt(m))
    BY <1>9, <1>14, <2>2 DEF NextCheckpoint, NextSignature
  <2>6. m \in DOMAIN rotations' => Proved(m)'
    BY <1>3, <1>10, <1>15 DEF Proved, Signed
  <2>7. QED
    BY <1>3, <1>9, <1>10, <2>1, <2>2, <2>3, <2>4, <2>5, <2>6
    DEF WholeAt, Checkpoint, Signed
<1>17. ActiveRecords(current') = commit[p].next.records
  BY <1>4, <1>8, <1>9 DEF ActiveRecords
<1>18. Whole'
  <2>1. \A n \in 1..Length' : WholeAt(n)'
    BY <1>7, <1>8, <1>13, <1>16
  <2>2. RenewalIsWhole'
    BY <1>4 DEF RenewalIsWhole
  <2>3. OneEach(ActiveRecords(current'))
    BY <1>2, <1>17 DEF Follows
  <2>4. QED
    BY <2>1, <2>2, <2>3 DEF Whole, OneEach
<1>19. HeadFollows
  BY <1>2, <1>4, <1>8, <1>17 DEF HeadFollows, Follows, OneEach
<1>20. QED
  BY <1>11, <1>12, <1>18, <1>19

LEMMA ActivateKeeps ==
  ASSUME Inv, NEW p \in Committer, Activate(p)
  PROVE  Inv' /\ Grows /\ HeadFollows
<1>1. NewHead(p) \/ commit[p].op = "renew"
  BY CommitIs DEF Activate, Decided
<1>2. HeadType' /\ OneAhead' /\ Whole' /\ HeadFollows
  BY <1>1, RenewedIsWhole, NewHeadIsWhole
<1>3. QED
  BY <1>2, SwitchKeeps

-----------------------------------------------------------------------------
(***************************************************************************)
(* The other steps, and the theorems.                                      *)
(***************************************************************************)

\* An upload never holds the publication lease of a commit, nor touches a
\* document.
LEMMA UploadKeeps ==
  ASSUME Inv, UploadNext, UNCHANGED <<documents, current, commit>>
  PROVE  Inv' /\ Grows
<1>1. /\ objects' = objects
      /\ \A q \in Committer : publication = q => publication' = q
  <2>1. CASE \E a \in Archive : Age(a)
    BY <2>1 DEF Age, leases
  <2>2. ASSUME NEW u \in Uploader,
               \/ \E a \in Archive : BeginUpload(u, a)
               \/ AdmitGuard(u) \/ AdmitBusy(u) \/ ScanCompleted(u) \/ Admit(u)
               \/ AdmitRefused(u) \/ SweepGuard(u)
        PROVE  objects' = objects /\ publication' = publication
    BY <2>2 DEF BeginUpload, AdmitGuard, AdmitBusy, ScanCompleted, Admit, AdmitRefused,
       SweepGuard, leases
  <2>3. ASSUME NEW u \in Uploader,
               \/ Received(u) \/ Complete(u) \/ CompleteFails(u) \/ Abandon(u)
               \/ GiveUpPart(u)
        PROVE  objects' = objects /\ publication' = publication
    BY <2>3 DEF Received, Complete, CompleteFails, Abandon, GiveUpPart, leases
  <2>4. ASSUME NEW u \in Uploader, ExpireAsPublicationHolder(u)
        PROVE  objects' = objects /\ publication = Nobody
    BY <2>4 DEF ExpireAsPublicationHolder, OwnToExpire
  <2>5. ASSUME NEW u \in Uploader, ExpireBusy(u) \/ SweepExpired(u) \/ UploadDies(u)
        PROVE  objects' = objects /\ publication' = Unpublished(u)
    BY <2>5 DEF ExpireBusy, SweepExpired, UploadDies
  <2>6. \A q \in Committer : q # Nobody /\ q \notin Uploader
    BY UploadAssumption DEF Process
  <2>7. QED
    BY <2>1, <2>2, <2>3, <2>4, <2>5, <2>6 DEF UploadNext, Unpublished
<1>2. Shape /\ Held /\ Requested /\ HeadType /\ OneAhead /\ Whole
  BY DEF Inv
<1>3. Grows
  BY <1>1, NothingGrows
<1>4. Length' = Length
  BY DEF Length
<1>5. HeadType' /\ OneAhead'
  BY <1>2, <1>4 DEF HeadType, OneAhead, documents
<1>6. Whole'
  BY <1>2, <1>3, <1>4, <1>5, WholeStays DEF OneAhead
<1>7. Shape' /\ Held' /\ Requested'
  BY <1>1, <1>2 DEF Shape, Held, Requested, RequestFits
<1>8. \A q \in Committer : Progress(q)'
  BY <1>1, QuietProgress DEF Inv
<1>9. QED
  BY <1>3, <1>5, <1>6, <1>7, <1>8 DEF Inv

LEMMA ArriveKeeps ==
  ASSUME Inv, NEW p \in Committer, Arrive(p)
  PROVE  Inv' /\ Grows
<1>1. CASE BeginPublish(p)
  BY <1>1, BeginKeeps DEF BeginPublish
<1>2. CASE BeginYank(p)
  <2>1. PICK package \in Package, yanked \in BOOLEAN :
          Begin(p, "yank", [package |-> package, yanked |-> yanked], None)
    BY <1>2 DEF BeginYank
  <2>2. QED
    BY <2>1, BeginKeeps
<1>3. CASE BeginRotate(p)
  BY <1>3, BeginKeeps DEF BeginRotate
<1>4. CASE BeginRenew(p)
  BY <1>4, BeginKeeps DEF BeginRenew
<1>5. CASE BeginRecover(p)
  BY <1>5, BeginKeeps DEF BeginRecover
<1>6. CASE OwnLease(p)
  BY <1>6, EarlyKeeps DEF OwnLease, staged
<1>7. CASE LeaseIsBusy(p)
  BY <1>7, EndKeeps DEF LeaseIsBusy, staged
<1>8. CASE SweepIncoming(p)
  BY <1>8, EarlyKeeps DEF SweepIncoming
<1>9. CASE ExpireIncoming(p)
  BY <1>9, EarlyKeeps DEF ExpireIncoming
<1>10. CASE SweepIsBusy(p)
  <2>1. UNCHANGED <<documents, objects, current>> /\ commit[p].step = "sweep"
    BY <1>10 DEF SweepIsBusy, staged
  <2>2. End(p) \/ (To(p, "read") /\ publication' = publication)
    BY <1>10 DEF SweepIsBusy
  <2>3. QED
    BY <2>1, <2>2, EndKeeps, EarlyKeeps
<1>11. CASE ReadCurrentState(p)
  BY <1>11, ReadKeeps
<1>12. CASE PruneCheckpoint(p) \/ PruneRotation(p)
  BY <1>12, PruneKeeps
<1>13. CASE EndPrune(p)
  BY <1>13, EndPruneKeeps
<1>14. QED
  BY <1>1, <1>2, <1>3, <1>4, <1>5, <1>6, <1>7, <1>8, <1>9, <1>10, <1>11, <1>12, <1>13
  DEF Arrive

\* No step but the switch touches the pointer.
LEMMA PointerStays ==
  ASSUME NEW p \in Committer,
         Arrive(p) \/ Decide(p) \/ CommitDies(p) \/ (Write(p) /\ ~Activate(p))
  PROVE  current' = current
<1>1. CASE Arrive(p)
  BY <1>1 DEF Arrive, BeginPublish, BeginYank, BeginRotate, BeginRenew, BeginRecover,
     Begin, OwnLease, LeaseIsBusy, SweepIncoming, ExpireIncoming, SweepIsBusy,
     ReadCurrentState, PruneCheckpoint, PruneRotation, EndPrune
<1>2. CASE Decide(p)
  BY <1>2 DEF Decide, DecidePublish, DecideYank, DecideRotate, DecideRenew
<1>3. CASE CommitDies(p)
  BY <1>3 DEF CommitDies
<1>4. CASE Write(p) /\ ~Activate(p)
  BY <1>4 DEF Write, Adopt, AdoptIsBusy, WriteRecord, WriteKey, WriteRotation,
     WriteOldSignature, WriteNewSignature, WriteSnapshot, WriteCheckpoint,
     WriteSignature, WriteRenewal, SignRenewal
<1>5. QED
  BY <1>1, <1>2, <1>3, <1>4

LEMMA NextKeeps ==
  ASSUME Inv, [Next]_vars
  PROVE  Inv' /\ Grows /\ HeadFollows
<1>1. CASE UploadNext /\ UNCHANGED <<documents, current, commit>>
  BY <1>1, UploadKeeps DEF HeadFollows
<1>2. ASSUME NEW p \in Committer, Arrive(p)
      PROVE  Inv' /\ Grows /\ HeadFollows
  BY <1>2, ArriveKeeps, PointerStays DEF HeadFollows
<1>3. ASSUME NEW p \in Committer, Decide(p)
      PROVE  Inv' /\ Grows /\ HeadFollows
  BY <1>3, DecidePublishKeeps, DecideYankKeeps, DecideRotateKeeps, DecideRenewKeeps,
     PointerStays DEF HeadFollows, Decide
<1>4. ASSUME NEW p \in Committer, CommitDies(p)
      PROVE  Inv' /\ Grows /\ HeadFollows
  BY <1>4, EndKeeps, PointerStays DEF HeadFollows, CommitDies, staged
<1>5. ASSUME NEW p \in Committer, Write(p)
      PROVE  Inv' /\ Grows /\ HeadFollows
  <2>1. CASE Activate(p)
    BY <2>1, ActivateKeeps
  <2>2. CASE ~Activate(p)
    <3>1. HeadFollows
      BY <1>5, <2>2, PointerStays DEF HeadFollows
    <3>2. CASE AdoptIsBusy(p)
      BY <3>1, <3>2, EndKeeps DEF AdoptIsBusy, staged
    <3>3. CASE ~AdoptIsBusy(p)
      BY <1>5, <2>2, <3>1, <3>3, AdoptKeeps, WriteRecordKeeps, WriteKeyKeeps,
         WriteRotationKeeps, WriteOldSignatureKeeps, WriteNewSignatureKeeps,
         WriteSnapshotKeeps, WriteCheckpointKeeps, WriteSignatureKeeps, RenewalKeeps
      DEF Write
    <3>4. QED
      BY <3>2, <3>3
  <2>3. QED
    BY <2>1, <2>2
<1>6. CASE UNCHANGED vars
  <2>1. UNCHANGED <<documents, objects, current, commit, publication>>
    BY <1>6 DEF vars, leases, staged
  <2>2. Grows
    BY <2>1, NothingGrows
  <2>3. Length' = Length
    BY <2>1 DEF Length
  <2>4. Shape' /\ Held' /\ Requested' /\ HeadType' /\ OneAhead'
    BY <2>1, <2>3
    DEF Inv, Shape, Held, Requested, RequestFits, HeadType, OneAhead, documents
  <2>5. Whole'
    BY <2>1, <2>2, <2>3, <2>4, WholeStays DEF Inv, OneAhead
  <2>6. \A q \in Committer : Progress(q)'
    BY <2>1, QuietProgress DEF Inv
  <2>7. QED
    BY <2>1, <2>2, <2>4, <2>5, <2>6 DEF Inv, HeadFollows
<1>7. QED
  BY <1>1, <1>2, <1>3, <1>4, <1>5, <1>6 DEF Next

LEMMA InitIsWhole ==
  ASSUME Init
  PROVE  Inv
<1>1. /\ snapshots = {First} /\ current = Pointer(First, None) /\ keys = {RootKey}
      /\ checkpoints = <<Checkpoint(First, 0, RootKey)>>
      /\ checkpointSignatures = <<Signed(Checkpoint(First, 0, RootKey), RootKey)>>
      /\ rotations = <<>> /\ oldSignatures = <<>> /\ newSignatures = <<>>
      /\ commit = [p \in Committer |-> NotCommitting]
  BY DEF Init, OriginInit
<1>2. Shape /\ Held /\ Requested
  BY <1>1 DEF Shape, Held, Requested, RequestFits, NotCommitting
<1>3. /\ current.snapshot = First /\ current.renewal = None
      /\ First \in Seq(Entry) /\ Len(First) = 1 /\ First[1].records = {}
      /\ First[1].time = 0 /\ SubSeq(First, 1, 1) = First
  <2> DEFINE entry == [records |-> {}, time |-> 0]
  <2>1. entry \in Entry /\ entry.records = {} /\ entry.time = 0
    <3>1. 0 \in Time /\ {} \in SUBSET Record
      BY OriginAssumption DEF Time
    <3>2. QED
      BY <3>1 DEF Entry
  <2>2. First = <<entry>>
    BY DEF First
  <2> HIDE DEF entry
  <2>3. First \in Seq(Entry) /\ Len(First) = 1 /\ First[1] = entry
    BY <2>1, <2>2
  <2>4. SubSeq(First, 1, 1) = First
    <3>1. \A s \in Seq(Entry) : SubSeq(s, 1, Len(s)) = s
      OBVIOUS
    <3>2. QED
      BY <2>3, <3>1
  <2>5. QED
    BY <1>1, <2>1, <2>3, <2>4 DEF Pointer
<1>4. HeadType
  BY <1>1, <1>3, OriginAssumption DEF HeadType, Length, Key, RootKey
<1>5. /\ DOMAIN rotations = {} /\ DOMAIN oldSignatures = {} /\ DOMAIN newSignatures = {}
      /\ DOMAIN checkpoints = {1} /\ DOMAIN checkpointSignatures = {1}
      /\ checkpoints[1] = Checkpoint(First, 0, RootKey)
      /\ checkpointSignatures[1] = Signed(Checkpoint(First, 0, RootKey), RootKey)
  BY <1>1
<1>6. OneAhead
  BY <1>3, <1>5 DEF OneAhead, Length
<1>7. \A n : KeyAt(n) = RootKey
  BY <1>5 DEF KeyAt
<1>8. WholeAt(1)
  BY <1>1, <1>3, <1>5, <1>7 DEF WholeAt
<1>9. Whole
  <2>1. \A n \in 1..Length : WholeAt(n)
    BY <1>3, <1>8 DEF Length
  <2>2. ActiveRecords(current) = {}
    BY <1>3, <1>4, ActiveIs DEF Length
  <2>3. QED
    BY <1>3, <2>1, <2>2 DEF Whole, RenewalIsWhole, OneEach
<1>10. ASSUME NEW p \in Committer PROVE Progress(p)
  <2>1. commit[p].step = "idle" /\ commit[p].op = "none"
    BY <1>1 DEF NotCommitting
  <2>2. ~HasNext(p) /\ ~Renewing(p) /\ ~Signing(p) /\ ~Sealing(p) /\ ~Rotated(p)
    BY <2>1 DEF HasNext, Renewing, Signing, Sealing, Rotated
  <2>3. ReadIsCurrent(p) /\ NothingAhead(p) /\ WrittenSoFar(p)
    BY <2>1, <2>2 DEF ReadIsCurrent, NothingAhead, BeforeCheckpoint, BeforeSignature,
       BeforeRotation, WrittenSoFar
  <2>4. Decided(p)
    BY <2>1, <2>2 DEF Decided
  <2>5. QED
    BY <2>3, <2>4 DEF Progress
<1>11. QED
  BY <1>2, <1>4, <1>6, <1>9, <1>10 DEF Inv

LEMMA InvIsWhole ==
  ASSUME Inv
  PROVE  HeadsAreWhole
<1>1. Whole /\ Sequence(current) = Length
  BY DEF Inv, Sequence, Length
<1>2. HistoryIsWhole
  <2>1. ASSUME NEW n \in 1..Length
        PROVE  /\ SubSeq(current.snapshot, 1, n) \in snapshots
               /\ \A r \in current.snapshot[n].records :
                    r \in records /\ r.archive \in objects
               /\ Lookup(checkpoints, n) =
                    Checkpoint(SubSeq(current.snapshot, 1, n),
                               current.snapshot[n].time, KeyAt(n))
               /\ Lookup(checkpointSignatures, n) = Signed(checkpoints[n], KeyAt(n))
               /\ n \in DOMAIN rotations => RotationIsProved(n)
    <3>1. WholeAt(n)
      BY <1>1 DEF Whole
    <3>2. Proved(n) => RotationIsProved(n)
      BY DEF Proved, RotationIsProved, Lookup
    <3>3. QED
      BY <3>1, <3>2 DEF WholeAt, Lookup
  <2>2. QED
    BY <1>1, <2>1 DEF HistoryIsWhole, Whole, RenewalIsWhole
<1>3. NoImmutableConflict
  <2> SUFFICES ASSUME NEW p \in Committer,
                      commit[p].step \in {"rotation", "old", "new", "checkpoint",
                                          "signature"}
               PROVE  CASE commit[p].step = "rotation" ->
                             Writable(rotations, NextSequence(p), Rotation(p))
                        [] commit[p].step = "old" ->
                             Writable(oldSignatures, NextSequence(p), OldSignature(p))
                        [] commit[p].step = "new" ->
                             Writable(newSignatures, NextSequence(p), NewSignature(p))
                        [] commit[p].step = "checkpoint" ->
                             Writable(checkpoints, NextSequence(p), NextCheckpoint(p))
                        [] commit[p].step = "signature" ->
                             Writable(checkpointSignatures, NextSequence(p),
                                      NextSignature(p))
                        [] OTHER -> TRUE
    BY DEF NoImmutableConflict
  <2>1. \/ Signing(p)
        \/ Sealing(p)
    BY CommitIs DEF Signing, Sealing, Decided
  <2>2. NextSequence(p) = Length + 1 /\ NothingAhead(p)
    BY <2>1, CommitIs DEF HasNext
  <2>3. \A f, d : Length + 1 \notin DOMAIN f => Writable(f, Length + 1, d)
    BY DEF Writable, Lookup
  <2>4. CASE commit[p].step = "rotation"
    BY <2>2, <2>3, <2>4 DEF NothingAhead, BeforeRotation
  <2>5. CASE commit[p].step = "old"
    BY <2>2, <2>3, <2>5 DEF NothingAhead
  <2>6. CASE commit[p].step = "new"
    BY <2>2, <2>3, <2>6 DEF NothingAhead
  <2>7. CASE commit[p].step = "checkpoint"
    BY <2>1, <2>2, <2>3, <2>7 DEF NothingAhead, BeforeCheckpoint, Signing
  <2>8. CASE commit[p].step = "signature"
    BY <2>1, <2>2, <2>3, <2>8 DEF NothingAhead, BeforeSignature, Signing
  <2>9. QED
    BY <2>4, <2>5, <2>6, <2>7, <2>8
<1>4. QED
  BY <1>2, <1>3 DEF HeadsAreWhole

LEMMA CommittedIs ==
  ASSUME Grows
  PROVE  \A n \in 1..Sequence(current) : Committed(n)' = Committed(n)
<1> SUFFICES ASSUME NEW n \in 1..Sequence(current)
             PROVE  Committed(n)' = Committed(n)
  OBVIOUS
<1>1. n \in 1..Length
  BY DEF Sequence, Length
<1>2. \A f, g : SameTo(f, g) => Lookup(g, n) = Lookup(f, n)
  BY <1>1 DEF SameTo, Lookup
<1>3. /\ Lookup(checkpoints', n) = Lookup(checkpoints, n)
      /\ Lookup(checkpointSignatures', n) = Lookup(checkpointSignatures, n)
      /\ Lookup(rotations', n) = Lookup(rotations, n)
      /\ Lookup(oldSignatures', n) = Lookup(oldSignatures, n)
      /\ Lookup(newSignatures', n) = Lookup(newSignatures, n)
  BY <1>2 DEF Grows
<1>4. QED
  BY <1>3 DEF Committed, Lookup

LEMMA InvHolds == Spec => []Inv
<1>1. Init => Inv
  BY InitIsWhole
<1>2. Inv /\ [Next]_vars => Inv'
  BY NextKeeps
<1>3. QED
  BY <1>1, <1>2, PTL DEF Spec

\* What the pointer names can be verified from the root key down to the first
\* snapshot at every moment, and no commit meets a path with other bytes, for
\* any number of commits, keys and packages and wherever any of them dies
\* (VerifyState, VerifyHistory, RecoverDerivedState, WriteImmutable).
THEOREM HeadsStayWhole == Spec => []HeadsAreWhole
<1>1. Inv => HeadsAreWhole
  BY InvIsWhole
<1>2. QED
  BY <1>1, InvHolds, PTL

\* No step takes back or changes a document of a committed sequence, and every
\* new head is a later renewal or one lawful snapshot more: consumers never see
\* a rollback, an equivocation or a changed package (RecoverDerivedState,
\* CommitHead, EnsureFreshCheckpoint).
THEOREM HistoryIsAddedTo == Spec => HistoryOnlyGrows
<1>1. Inv /\ [Next]_vars =>
        [\A n \in 1..Sequence(current) : Committed(n)' = Committed(n)]_vars
  BY NextKeeps, CommittedIs
<1>2. Inv /\ [Next]_vars => [HeadFollows]_vars
  BY NextKeeps
<1>3. Spec => CommittedStays
  BY <1>1, InvHolds, PTL DEF Spec, CommittedStays
<1>4. Spec => HeadsFollow
  BY <1>2, InvHolds, PTL DEF Spec, HeadsFollow, HeadFollows
<1>5. QED
  BY <1>3, <1>4 DEF HistoryOnlyGrows
-----------------------------------------------------------------------------
(***************************************************************************)
(* Sums over finite sets: what MapThenSumSet gives for a function.         *)
(***************************************************************************)

Total(w, S) == MapThenSumSet(LAMBDA x : w[x], S)
Picked(s) == CHOOSE x \in s : TRUE
Adds(w, S, g) ==
  g = [s \in SUBSET S |-> IF s = {} THEN 0 ELSE w[Picked(s)] + g[s \ {Picked(s)}]]

LEMMA TotalIs == \A w, S : Total(w, S) = (CHOOSE g : Adds(w, S, g))[S]
  BY DEF Total, MapThenSumSet, MapThenFoldSet, Adds, Picked

LEMMA LeastNumber ==
  ASSUME NEW T, T \subseteq Nat, T # {}
  PROVE  \E m \in T : \A k \in T : m <= k
<1> DEFINE R == {ss \in Nat \X Nat : ss[1] < ss[2]}
<1>1. IsWellFoundedOn(R, Nat)
  BY NatLessThanWellFounded DEF OpToRel
<1> HIDE DEF R
<1>2. PICK m \in T : \A k \in T : <<k, m>> \notin R
  BY <1>1, WFMin
<1>3. \A k \in T : ~(k < m)
  BY <1>2 DEF R
<1>4. QED
  BY <1>2, <1>3

LEMMA SmallestSet ==
  ASSUME NEW F, F # {}, \A s \in F : IsFiniteSet(s)
  PROVE  \E s \in F : \A t \in F : Cardinality(s) <= Cardinality(t)
<1> DEFINE T == {Cardinality(s) : s \in F}
<1>1. T \subseteq Nat /\ T # {}
  BY FS_CardinalityType
<1>2. PICK m \in T : \A k \in T : m <= k
  <2> HIDE DEF T
  <2>1. QED
    BY <1>1, LeastNumber
<1>3. QED
  BY <1>2

\* Taking an element out of a finite set.
LEMMA OneLess ==
  ASSUME NEW s, IsFiniteSet(s), NEW x \in s
  PROVE  /\ IsFiniteSet(s \ {x}) /\ Cardinality(s) \in Nat /\ Cardinality(s) >= 1
         /\ Cardinality(s \ {x}) = Cardinality(s) - 1
<1>1. Cardinality(s) \in Nat /\ Cardinality(s) # 0
  BY FS_CardinalityType, FS_EmptySet
<1>2. IsFiniteSet(s \ {x}) /\ Cardinality(s \ {x}) = Cardinality(s) - 1
  BY FS_RemoveElement
<1>3. QED
  BY <1>1, <1>2

LEMMA PickedIs == \A s : s # {} => Picked(s) \in s
  BY DEF Picked

LEMMA AddsExists ==
  ASSUME NEW S, IsFiniteSet(S), NEW w, \A x \in S : w[x] \in Nat
  PROVE  \E g : Adds(w, S, g) /\ \A s \in SUBSET S : g[s] \in Nat
<1> DEFINE Small(n) == {s \in SUBSET S : Cardinality(s) <= n}
           UpTo(n, g) ==
             /\ g = [s \in Small(n) |->
                       IF s = {} THEN 0 ELSE w[Picked(s)] + g[s \ {Picked(s)}]]
             /\ \A s \in Small(n) : g[s] \in Nat
           T == {n \in Nat : ~\E g : UpTo(n, g)}
<1>1. \A s \in SUBSET S : IsFiniteSet(s) /\ Cardinality(s) \in Nat
  BY FS_Subset, FS_CardinalityType
<1>2. ASSUME T # {} PROVE FALSE
  <2>1. PICK m \in T : \A k \in T : m <= k
    BY <1>2, LeastNumber
  <2>2. m \in Nat /\ ~\E g : UpTo(m, g)
    BY <2>1
  <2>3. CASE m = 0
    <3> DEFINE g == [s \in Small(0) |-> 0]
    <3>1. \A s \in Small(0) : s = {}
      BY <1>1, FS_EmptySet
    <3>2. UpTo(0, g)
      BY <3>1
    <3>3. QED
      BY <2>2, <2>3, <3>2
  <2>4. CASE m # 0
    <3>1. m - 1 \in Nat /\ ~(m <= m - 1)
      BY <2>2, <2>4
    <3>2. m - 1 \notin T
      BY <2>1, <3>1
    <3>3. PICK f : UpTo(m - 1, f)
      BY <3>1, <3>2
    <3> DEFINE g == [s \in Small(m) |->
                       IF s = {} THEN 0 ELSE w[Picked(s)] + f[s \ {Picked(s)}]]
    <3>4. \A s \in Small(m - 1) : s \in Small(m)
      BY <1>1, <2>2
    <3>5. \A s \in Small(m - 1) :
             f[s] = IF s = {} THEN 0 ELSE w[Picked(s)] + f[s \ {Picked(s)}]
      BY <3>3
    <3>6. \A s \in Small(m - 1) : g[s] = f[s] /\ f[s] \in Nat
      BY <3>3, <3>4, <3>5
    <3>7. ASSUME NEW s \in Small(m), s # {}
          PROVE  s \ {Picked(s)} \in Small(m - 1) /\ w[Picked(s)] \in Nat
      <4>1. Picked(s) \in s /\ s \in SUBSET S
        BY <3>7, PickedIs
      <4>2. Cardinality(s \ {Picked(s)}) = Cardinality(s) - 1
        BY <1>1, <4>1, OneLess
      <4>3. Cardinality(s) \in Nat /\ Cardinality(s) <= m
        BY <1>1, <4>1
      <4>4. QED
        BY <2>2, <4>1, <4>2, <4>3
    <3>8. g = [s \in Small(m) |->
                 IF s = {} THEN 0 ELSE w[Picked(s)] + g[s \ {Picked(s)}]]
      <4> DEFINE h == [s \in Small(m) |->
                         IF s = {} THEN 0 ELSE w[Picked(s)] + g[s \ {Picked(s)}]]
      <4>1. \A s \in Small(m) : g[s] = h[s]
        <5>1. SUFFICES ASSUME NEW s \in Small(m) PROVE g[s] = h[s]
          OBVIOUS
        <5>2. CASE s = {}
          BY <5>2
        <5>3. CASE s # {}
          <6>1. g[s \ {Picked(s)}] = f[s \ {Picked(s)}]
            BY <3>6, <3>7, <5>3
          <6>2. g[s] = w[Picked(s)] + f[s \ {Picked(s)}]
            BY <5>3
          <6>3. h[s] = w[Picked(s)] + g[s \ {Picked(s)}]
            BY <5>3
          <6>4. QED
            BY <6>1, <6>2, <6>3
        <5>4. QED
          BY <5>2, <5>3
      <4>2. g = h
        BY <4>1
      <4>3. QED
        BY <4>2
    <3>9. ASSUME NEW s \in Small(m) PROVE g[s] \in Nat
      <4>1. CASE s = {}
        BY <4>1
      <4>2. CASE s # {}
        <5>1. w[Picked(s)] \in Nat /\ f[s \ {Picked(s)}] \in Nat
          BY <3>6, <3>7, <4>2
        <5>2. g[s] = w[Picked(s)] + f[s \ {Picked(s)}]
          BY <4>2
        <5> HIDE DEF g, Small
        <5>3. QED
          BY <5>1, <5>2
      <4>3. QED
        BY <4>1, <4>2
    <3>10. UpTo(m, g)
      <4> HIDE DEF g
      <4>1. QED
        BY <3>8, <3>9
    <3>11. QED
      BY <2>2, <3>10
  <2>5. QED
    BY <2>3, <2>4
<1>3. Cardinality(S) \in Nat
  BY <1>1
<1>4. PICK g : UpTo(Cardinality(S), g)
  BY <1>2, <1>3
<1>5. Small(Cardinality(S)) = SUBSET S
  <2>1. \A s \in SUBSET S : Cardinality(s) <= Cardinality(S)
    BY FS_Subset
  <2>2. QED
    BY <2>1
<1>6. QED
  BY <1>4, <1>5 DEF Adds

LEMMA AddsIsOne ==
  ASSUME NEW S, IsFiniteSet(S), NEW R \in SUBSET S, NEW w, NEW g, NEW h,
         Adds(w, S, g), Adds(w, R, h)
  PROVE  \A s \in SUBSET R : g[s] = h[s]
<1> DEFINE F == {s \in SUBSET R : g[s] # h[s]}
<1>1. SUFFICES ASSUME F # {} PROVE FALSE
  OBVIOUS
<1>2. \A s \in SUBSET S : IsFiniteSet(s) /\ Cardinality(s) \in Nat
  BY FS_Subset, FS_CardinalityType
<1>3. PICK s \in F : \A t \in F : Cardinality(s) <= Cardinality(t)
  BY <1>1, <1>2, SmallestSet
<1>4. s \in SUBSET R /\ s \in SUBSET S /\ g[s] # h[s]
  BY <1>3
<1>5. /\ g[s] = IF s = {} THEN 0 ELSE w[Picked(s)] + g[s \ {Picked(s)}]
      /\ h[s] = IF s = {} THEN 0 ELSE w[Picked(s)] + h[s \ {Picked(s)}]
  BY <1>4 DEF Adds
<1>6. s # {}
  BY <1>4, <1>5
<1>7. Picked(s) \in s
  BY <1>6, PickedIs
<1>8. Cardinality(s \ {Picked(s)}) = Cardinality(s) - 1 /\ Cardinality(s) \in Nat
  BY <1>2, <1>4, <1>7, OneLess
<1>9. s \ {Picked(s)} \notin F
  BY <1>3, <1>8
<1>10. g[s \ {Picked(s)}] = h[s \ {Picked(s)}]
  BY <1>4, <1>9
<1>11. QED
  BY <1>4, <1>5, <1>10

\* The sum by the element that is picked first.
LEMMA TotalByPicked ==
  ASSUME NEW S, IsFiniteSet(S), NEW w, \A x \in S : w[x] \in Nat
  PROVE  /\ Total(w, S) \in Nat
         /\ S = {} => Total(w, S) = 0
         /\ S # {} => Total(w, S) = w[Picked(S)] + Total(w, S \ {Picked(S)})
<1> DEFINE g == CHOOSE gg : Adds(w, S, gg)
           R == S \ {Picked(S)}
           h == CHOOSE hh : Adds(w, R, hh)
<1>1. PICK a : Adds(w, S, a) /\ \A s \in SUBSET S : a[s] \in Nat
  BY AddsExists
<1>2. R \in SUBSET S /\ IsFiniteSet(R) /\ \A x \in R : w[x] \in Nat
  BY FS_Subset
<1>3. PICK b : Adds(w, R, b)
  <2> HIDE DEF R
  <2>1. QED
    BY <1>2, AddsExists
<1>4. Adds(w, S, g) /\ Adds(w, R, h)
  BY <1>1, <1>3
<1> HIDE DEF g, h
<1>5. g[S] = a[S]
  BY <1>1, <1>4, AddsIsOne
<1>6. Total(w, S) = g[S] /\ Total(w, R) = h[R]
  BY TotalIs DEF g, h
<1>7. g[S] = IF S = {} THEN 0 ELSE w[Picked(S)] + g[R]
  BY <1>4 DEF Adds
<1>8. g[R] = h[R]
  <2> HIDE DEF R
  <2>1. QED
    BY <1>2, <1>4, AddsIsOne
<1>9. QED
  BY <1>1, <1>5, <1>6, <1>7, <1>8

\* The sum by any element.
LEMMA TotalByElement ==
  ASSUME NEW S, IsFiniteSet(S), NEW w, \A x \in S : w[x] \in Nat, NEW x \in S
  PROVE  /\ Total(w, S) = w[x] + Total(w, S \ {x})
         /\ Total(w, S) \in Nat /\ Total(w, S \ {x}) \in Nat
<1> DEFINE F == {s \in SUBSET S : \E y \in s : Total(w, s) # w[y] + Total(w, s \ {y})}
<1>1. \A s \in SUBSET S : /\ IsFiniteSet(s) /\ Cardinality(s) \in Nat
                          /\ \A y \in s : w[y] \in Nat
  BY FS_Subset, FS_CardinalityType
<1>2. \A s \in SUBSET S : Total(w, s) \in Nat
  BY <1>1, TotalByPicked
<1>3. ASSUME F # {} PROVE FALSE
  <2>1. PICK s \in F : \A t \in F : Cardinality(s) <= Cardinality(t)
    BY <1>1, <1>3, SmallestSet
  <2>2. PICK y \in s : Total(w, s) # w[y] + Total(w, s \ {y})
    BY <2>1
  <2> DEFINE z == Picked(s)
             both == s \ {y, z}
  <2>3. s \in SUBSET S /\ z \in s
    BY <2>1, <2>2, PickedIs
  <2>4. Total(w, s) = w[z] + Total(w, s \ {z})
    BY <1>1, <2>2, <2>3, TotalByPicked
  <2>5. y # z
    BY <2>2, <2>4
  <2>6. /\ Cardinality(s \ {y}) = Cardinality(s) - 1
        /\ Cardinality(s \ {z}) = Cardinality(s) - 1
        /\ Cardinality(s) \in Nat
    BY <1>1, <2>2, <2>3, OneLess
  <2> HIDE DEF z
  <2>7. s \ {y} \notin F /\ s \ {z} \notin F
    BY <2>1, <2>6
  <2>8. (s \ {y}) \ {z} = both /\ (s \ {z}) \ {y} = both
    OBVIOUS
  <2>9. Total(w, s \ {y}) = w[z] + Total(w, both)
    BY <2>3, <2>5, <2>7, <2>8
  <2>10. Total(w, s \ {z}) = w[y] + Total(w, both)
    BY <2>2, <2>3, <2>5, <2>7, <2>8
  <2>11. w[y] \in Nat /\ w[z] \in Nat /\ Total(w, both) \in Nat
    <3>1. both \in SUBSET S
      BY <2>3
    <3>2. QED
      BY <1>1, <1>2, <2>2, <2>3, <3>1
  <2> HIDE DEF both, F
  <2>12. QED
    BY <2>2, <2>4, <2>9, <2>10, <2>11
<1>4. S \in SUBSET S /\ S \ {x} \in SUBSET S
  OBVIOUS
<1>5. QED
  BY <1>2, <1>3, <1>4

LEMMA TotalOfMore ==
  ASSUME NEW S, IsFiniteSet(S), NEW w, \A y \in S : w[y] \in Nat,
         NEW x, x \notin S, w[x] \in Nat
  PROVE  Total(w, S \cup {x}) = Total(w, S) + w[x] /\ Total(w, S) \in Nat
<1>1. IsFiniteSet(S \cup {x}) /\ \A y \in S \cup {x} : w[y] \in Nat
  BY FS_AddElement
<1>2. (S \cup {x}) \ {x} = S /\ x \in S \cup {x}
  OBVIOUS
<1>3. Total(w, S \cup {x}) = w[x] + Total(w, S) /\ Total(w, S) \in Nat
  <2> DEFINE more == S \cup {x}
  <2>1. IsFiniteSet(more) /\ (\A y \in more : w[y] \in Nat) /\ x \in more /\ more \ {x} = S
    BY <1>1, <1>2
  <2> HIDE DEF more
  <2>2. Total(w, more) = w[x] + Total(w, more \ {x}) /\ Total(w, more \ {x}) \in Nat
    BY <2>1, TotalByElement
  <2>3. QED
    BY <2>1, <2>2 DEF more
<1>4. QED
  BY <1>3

LEMMA TotalOfPart ==
  ASSUME NEW S, IsFiniteSet(S), NEW w, \A x \in S : w[x] \in Nat, NEW R \in SUBSET S
  PROVE  Total(w, R) \in Nat /\ Total(w, S) \in Nat /\ Total(w, R) <= Total(w, S)
<1> DEFINE F == {s \in SUBSET S : R \subseteq s /\ ~(Total(w, R) <= Total(w, s))}
<1>1. \A s \in SUBSET S : /\ IsFiniteSet(s) /\ Cardinality(s) \in Nat
                          /\ \A y \in s : w[y] \in Nat
  BY FS_Subset, FS_CardinalityType
<1>2. \A s \in SUBSET S : Total(w, s) \in Nat
  BY <1>1, TotalByPicked
<1>3. ASSUME F # {} PROVE FALSE
  <2>1. PICK s \in F : \A t \in F : Cardinality(s) <= Cardinality(t)
    BY <1>1, <1>3, SmallestSet
  <2>2. s \in SUBSET S /\ R \subseteq s /\ ~(Total(w, R) <= Total(w, s))
    BY <2>1
  <2>3. s # R
    BY <1>2, <2>2
  <2>4. PICK x \in s : x \notin R
    BY <2>2, <2>3
  <2>5. Cardinality(s \ {x}) = Cardinality(s) - 1 /\ Cardinality(s) \in Nat
    BY <1>1, <2>2, OneLess
  <2>6. s \ {x} \notin F
    BY <2>1, <2>5
  <2>7. Total(w, R) <= Total(w, s \ {x})
    BY <2>2, <2>4, <2>6
  <2>8. Total(w, s) = w[x] + Total(w, s \ {x}) /\ w[x] \in Nat
    BY <1>1, <2>2, TotalByElement
  <2>9. Total(w, s \ {x}) \in Nat /\ Total(w, R) \in Nat
    BY <1>2, <2>2
  <2>10. QED
    BY <2>2, <2>7, <2>8, <2>9
<1>4. QED
  BY <1>2, <1>3

LEMMA TotalOfSame ==
  ASSUME NEW S, IsFiniteSet(S), NEW w, \A x \in S : w[x] \in Nat,
         NEW v, \A x \in S : v[x] = w[x]
  PROVE  Total(v, S) = Total(w, S)
<1> DEFINE F == {s \in SUBSET S : Total(v, s) # Total(w, s)}
<1>1. \A s \in SUBSET S : /\ IsFiniteSet(s) /\ Cardinality(s) \in Nat
                          /\ \A y \in s : w[y] \in Nat /\ v[y] \in Nat /\ v[y] = w[y]
  BY FS_Subset, FS_CardinalityType
<1>2. ASSUME F # {} PROVE FALSE
  <2>1. PICK s \in F : \A t \in F : Cardinality(s) <= Cardinality(t)
    BY <1>1, <1>2, SmallestSet
  <2>2. s \in SUBSET S /\ Total(v, s) # Total(w, s)
    BY <2>1
  <2>3. IsFiniteSet(s) /\ \A y \in s : w[y] \in Nat /\ v[y] \in Nat
    BY <1>1, <2>2
  <2>4. s # {}
    BY <2>2, <2>3, TotalByPicked
  <2>5. Picked(s) \in s
    BY <2>4, PickedIs
  <2>6. Total(w, s) = w[Picked(s)] + Total(w, s \ {Picked(s)})
    BY <2>3, <2>4, TotalByPicked
  <2>7. Total(v, s) = v[Picked(s)] + Total(v, s \ {Picked(s)})
    BY <2>3, <2>4, TotalByPicked
  <2>8. Cardinality(s \ {Picked(s)}) = Cardinality(s) - 1 /\ Cardinality(s) \in Nat
    BY <1>1, <2>2, <2>5, OneLess
  <2>9. s \ {Picked(s)} \notin F
    BY <2>1, <2>8
  <2>10. QED
    BY <1>1, <2>2, <2>5, <2>6, <2>7, <2>9
<1>3. QED
  BY <1>2

-----------------------------------------------------------------------------
(***************************************************************************)
(* Uploads.  Admission counts what a scan saw under the guard, and nothing *)
(* comes under incoming/ without it (ScanIsWhole): so what is admitted     *)
(* fits.  A reservation belongs to the upload whose lease is held          *)
(* (HoldsOwn), and completed entries are taken away only by the holder of  *)
(* the publication lease (SweeperPublishes).                               *)
(***************************************************************************)

UploadStage == [at : At, upload : Upload \cup {None}, archive : Archive \cup {None},
                final : BOOLEAN, fresh : SUBSET Archive, expired : SUBSET Archive]

IncomingType ==
  /\ DOMAIN part \subseteq Upload /\ IsFiniteSet(DOMAIN part)
  /\ \A u \in DOMAIN part : part[u] \in Nat
  /\ DOMAIN completed \subseteq Archive /\ IsFiniteSet(DOMAIN completed)
  /\ owner \in [Upload -> Process \cup {Nobody}]
  /\ staging \in [Uploader -> UploadStage]

Admitting(p) == staging[p].at \in {"admit", "reclaimed", "scanned"}
Uploading(p) == staging[p].at \in {"body", "complete", "abandon"}
Expiring(p) == staging[p].at \in {"expire", "sweep", "expiring"}

HoldsOwn(p) ==
  /\ Admitting(p) \/ Uploading(p) =>
       staging[p].upload \in Upload /\ owner[staging[p].upload] = p
  /\ Admitting(p) \/ Uploading(p) \/ Expiring(p) => staging[p].archive \in Archive
  /\ Admitting(p) => staging[p].upload \notin DOMAIN part
  /\ Uploading(p) => /\ staging[p].upload \in DOMAIN part
                     /\ part[staging[p].upload] = Size[staging[p].archive]

GuardsScan(p) == staging[p].at \in {"reclaimed", "scanned", "expiring"} => guard = p

ScanIsWhole(p) ==
  staging[p].at = "scanned" =>
    DOMAIN completed \subseteq Scanned(p) /\ IsFiniteSet(Scanned(p))

SweeperPublishes(p) == staging[p].at \in {"sweep", "expiring"} => publication = p

UploadIsSound(p) ==
  HoldsOwn(p) /\ GuardsScan(p) /\ ScanIsWhole(p) /\ SweeperPublishes(p)

CommitGuards(c) == commit[c].step = "expiring" => guard = c

UploadInv ==
  /\ IncomingType
  /\ \A p \in Uploader : UploadIsSound(p)
  /\ \A c \in Committer : CommitGuards(c)
  /\ UploadsWithinBudget
  /\ AdoptionFindsArchive

LEMMA SumsAre ==
  /\ Reserved = Total(part, DOMAIN part)
  /\ Reserved' = Total(part', DOMAIN part')
  /\ \A S : Bytes(S) = Total(Size, S)
<1>1. Reserved = Total(part, DOMAIN part)
  BY DEF Reserved, Total, MapThenSumSet, MapThenFoldSet
<1>2. Reserved' = Total(part', DOMAIN part')
  BY DEF Reserved, Total, MapThenSumSet, MapThenFoldSet
<1>3. \A S : Bytes(S) = Total(Size, S)
  BY DEF Bytes, Total, MapThenSumSet, MapThenFoldSet
<1>4. QED
  BY <1>1, <1>2, <1>3

LEMMA WithoutSetIs ==
  ASSUME NEW f, NEW gone
  PROVE  /\ DOMAIN Without(f, gone) = DOMAIN f \ gone
         /\ \A m \in DOMAIN f \ gone : Without(f, gone)[m] = f[m]
  BY DEF Without, Restrict

LEMMA StageIs ==
  ASSUME IncomingType, NEW p \in Uploader, NEW stage \in UploadStage, Stage(p, stage)
  PROVE  /\ staging' \in [Uploader -> UploadStage] /\ staging'[p] = stage
         /\ \A q \in Uploader \ {p} : staging'[q] = staging[q]
<1> HIDE DEF UploadStage
<1>1. QED
  BY DEF IncomingType, Stage

LEMMA StageFields ==
  ASSUME IncomingType, NEW p \in Uploader
  PROVE  /\ staging[p] \in UploadStage /\ staging[p].at \in At
         /\ staging[p].upload \in Upload \cup {None}
         /\ staging[p].archive \in Archive \cup {None}
         /\ staging[p].final \in BOOLEAN
         /\ staging[p].fresh \subseteq Archive /\ staging[p].expired \subseteq Archive
<1>1. staging[p] \in UploadStage
  BY DEF IncomingType
<1>2. QED
  BY <1>1 DEF UploadStage

LEMMA GoIs ==
  ASSUME IncomingType, NEW p \in Uploader, NEW at \in At, Go(p, at)
  PROVE  /\ staging' \in [Uploader -> UploadStage]
         /\ staging'[p].at = at /\ staging'[p].upload = staging[p].upload
         /\ staging'[p].archive = staging[p].archive
         /\ \A q \in Uploader \ {p} : staging'[q] = staging[q]
<1> DEFINE stage == [staging[p] EXCEPT !.at = at]
<1>1. staging[p] \in UploadStage
  BY StageFields
<1>2. /\ stage \in UploadStage /\ stage.at = at /\ stage.upload = staging[p].upload
      /\ stage.archive = staging[p].archive
  BY <1>1 DEF UploadStage
<1> HIDE DEF stage
<1>3. Stage(p, stage)
  BY DEF Go, stage
<1>4. QED
  BY <1>2, <1>3, StageIs

LEMMA NotStagingIs ==
  /\ NotStaging \in UploadStage
  /\ NotStaging.at = "idle"
  BY DEF NotStaging, UploadStage, At

LEMMA FinishIs ==
  ASSUME IncomingType, NEW p \in Uploader, Finish(p)
  PROVE  /\ staging' \in [Uploader -> UploadStage] /\ staging'[p].at = "idle"
         /\ \A q \in Uploader \ {p} : staging'[q] = staging[q]
         /\ owner' \in [Upload -> Process \cup {Nobody}]
         /\ \A u \in Upload : owner[u] # p => owner'[u] = owner[u]
<1>1. Stage(p, NotStaging) /\ owner' = Unowned(p)
  BY DEF Finish
<1>2. /\ staging' \in [Uploader -> UploadStage] /\ staging'[p] = NotStaging
      /\ \A q \in Uploader \ {p} : staging'[q] = staging[q]
  BY <1>1, StageIs, NotStagingIs
<1>3. /\ owner' \in [Upload -> Process \cup {Nobody}]
      /\ \A u \in Upload : owner[u] # p => owner'[u] = owner[u]
  BY <1>1 DEF Unowned, IncomingType
<1>4. QED
  BY <1>2, <1>3, NotStagingIs

\* An upload is only at one place, and an idle one promises nothing.
LEMMA IdleIsSound ==
  ASSUME NEW p \in Uploader, staging'[p].at = "idle"
  PROVE  UploadIsSound(p)'
  BY DEF UploadIsSound, HoldsOwn, GuardsScan, ScanIsWhole, SweeperPublishes,
     Admitting, Uploading, Expiring

\* What one process does leaves the uploads of the others as they are: it takes
\* none of their leases, and what comes under incoming/ comes under the guard.
OthersKept(p) ==
  /\ \A q \in Uploader \ {p} : staging'[q] = staging[q]
  /\ \A c \in Committer \ {p} : commit'[c] = commit[c]
  /\ \A q \in Process \ {p} : /\ guard = q => guard' = q
                              /\ publication = q => publication' = q
  /\ \A u \in Upload : owner[u] \in Process \ {p} =>
       /\ owner'[u] = owner[u]
       /\ u \in DOMAIN part' <=> u \in DOMAIN part
       /\ u \in DOMAIN part => part'[u] = part[u]
  /\ DOMAIN completed' \subseteq DOMAIN completed \/ guard = Nobody

LEMMA OthersStay ==
  ASSUME UploadInv, NEW p, OthersKept(p)
  PROVE  /\ \A q \in Uploader \ {p} : UploadIsSound(q)'
         /\ \A c \in Committer \ {p} : CommitGuards(c)'
<1>1. ASSUME NEW q \in Uploader \ {p} PROVE UploadIsSound(q)'
  <2>1. /\ UploadIsSound(q) /\ staging'[q] = staging[q] /\ q \in Process /\ q # Nobody
        /\ guard = q => guard' = q
        /\ publication = q => publication' = q
    BY UploadAssumption DEF UploadInv, OthersKept, Process
  <2>2. HoldsOwn(q)'
    BY <2>1 DEF UploadIsSound, HoldsOwn, Admitting, Uploading, Expiring, OthersKept
  <2>3. GuardsScan(q)' /\ SweeperPublishes(q)'
    BY <2>1 DEF UploadIsSound, GuardsScan, SweeperPublishes
  <2>4. ScanIsWhole(q)'
    <3>1. SUFFICES ASSUME staging[q].at = "scanned"
                   PROVE  (DOMAIN completed \subseteq Scanned(q) /\ IsFiniteSet(Scanned(q)))'
      BY <2>1 DEF ScanIsWhole
    <3>2. guard = q
      BY <2>1, <3>1 DEF UploadIsSound, GuardsScan
    <3>3. DOMAIN completed' \subseteq DOMAIN completed
      BY <2>1, <3>2 DEF OthersKept
    <3>4. Scanned(q)' = Scanned(q)
      BY <2>1 DEF Scanned
    <3>5. QED
      BY <2>1, <3>1, <3>3, <3>4 DEF UploadIsSound, ScanIsWhole
  <2>5. QED
    BY <2>2, <2>3, <2>4 DEF UploadIsSound
<1>2. ASSUME NEW c \in Committer \ {p} PROVE CommitGuards(c)'
  BY <1>2 DEF UploadInv, OthersKept, CommitGuards, Process
<1>3. QED
  BY <1>1, <1>2

\* Less under incoming/ is within the budget too.
LEMMA LessFits ==
  ASSUME IncomingType, UploadsWithinBudget,
         DOMAIN part' \subseteq DOMAIN part, \A u \in DOMAIN part' : part'[u] = part[u],
         DOMAIN completed' \subseteq DOMAIN completed
  PROVE  /\ UploadsWithinBudget'
         /\ IsFiniteSet(DOMAIN part') /\ IsFiniteSet(DOMAIN completed')
<1>1. /\ IsFiniteSet(DOMAIN part') /\ Cardinality(DOMAIN part') <= Cardinality(DOMAIN part)
      /\ IsFiniteSet(DOMAIN part) /\ Cardinality(DOMAIN part) \in Nat
      /\ Cardinality(DOMAIN part') \in Nat
  BY FS_Subset, FS_CardinalityType DEF IncomingType
<1>2. /\ IsFiniteSet(DOMAIN completed')
      /\ Cardinality(DOMAIN completed') <= Cardinality(DOMAIN completed)
      /\ IsFiniteSet(DOMAIN completed) /\ Cardinality(DOMAIN completed) \in Nat
      /\ Cardinality(DOMAIN completed') \in Nat
  BY FS_Subset, FS_CardinalityType DEF IncomingType
<1>3. \A u \in DOMAIN part : part[u] \in Nat
  BY DEF IncomingType
<1>4. Total(part', DOMAIN part') = Total(part, DOMAIN part')
  BY <1>1, <1>3, TotalOfSame
<1>5. /\ Total(part, DOMAIN part') \in Nat /\ Total(part, DOMAIN part) \in Nat
      /\ Total(part, DOMAIN part') <= Total(part, DOMAIN part)
  BY <1>1, <1>3, TotalOfPart
<1>6. \A a \in DOMAIN completed : Size[a] \in Nat
  BY UploadAssumption DEF IncomingType
<1>7. /\ Total(Size, DOMAIN completed') \in Nat /\ Total(Size, DOMAIN completed) \in Nat
      /\ Total(Size, DOMAIN completed') <= Total(Size, DOMAIN completed)
  BY <1>2, <1>6, TotalOfPart
<1>8. /\ Total(part, DOMAIN part) + Total(Size, DOMAIN completed) <= ByteBudget
      /\ Cardinality(DOMAIN part) + Cardinality(DOMAIN completed) <= EntryBudget
  BY SumsAre DEF UploadsWithinBudget
<1>9. /\ Total(part', DOMAIN part') + Total(Size, DOMAIN completed') <= ByteBudget
      /\ Cardinality(DOMAIN part') + Cardinality(DOMAIN completed') <= EntryBudget
  BY <1>1, <1>2, <1>4, <1>5, <1>7, <1>8, UploadAssumption
<1>10. Reserved' = Total(part', DOMAIN part') /\ Bytes(DOMAIN completed)' = Total(Size, DOMAIN completed')
  BY SumsAre
<1>11. QED
  BY <1>1, <1>2, <1>9, <1>10 DEF UploadsWithinBudget

\* The holder of the publication lease alone takes completed entries away.
LEMMA EntriesStay ==
  ASSUME Held, AdoptionFindsArchive, UNCHANGED <<commit, objects>>,
         \/ DOMAIN completed \subseteq DOMAIN completed'
         \/ \A c \in Committer : publication # c
  PROVE  AdoptionFindsArchive'
<1> SUFFICES ASSUME NEW c \in Committer, commit[c].step = "adopt"
             PROVE  commit[c].request.archive \in DOMAIN completed' \cup objects
  BY DEF AdoptionFindsArchive
<1>1. publication = c
  BY DEF Held
<1>2. commit[c].request.archive \in DOMAIN completed \cup objects
  BY DEF AdoptionFindsArchive
<1>3. QED
  BY <1>1, <1>2

\* A step of one upload, from what it does to its own.
LEMMA UploadStep ==
  ASSUME Inv, UploadInv, NEW p \in Uploader, OthersKept(p), UploadIsSound(p)',
         IncomingType', UploadsWithinBudget', UNCHANGED <<commit, objects>>,
         \/ DOMAIN completed \subseteq DOMAIN completed'
         \/ publication = p
  PROVE  UploadInv'
<1>1. \A q \in Uploader : UploadIsSound(q)'
  BY OthersStay
<1>2. \A c \in Committer : CommitGuards(c)' /\ p # c
  BY OthersStay, UploadAssumption
<1>3. AdoptionFindsArchive'
  BY <1>2, EntriesStay DEF Inv, UploadInv
<1>4. QED
  BY <1>1, <1>2, <1>3 DEF UploadInv

\* What is under incoming/ stays within the budget and well typed.
LEMMA IncomingSame ==
  ASSUME UploadInv, UNCHANGED <<part, completed>>,
         owner' \in [Upload -> Process \cup {Nobody}],
         staging' \in [Uploader -> UploadStage]
  PROVE  IncomingType' /\ UploadsWithinBudget'
<1>1. IncomingType'
  BY DEF UploadInv, IncomingType
<1>2. UploadsWithinBudget'
  BY LessFits DEF UploadInv
<1>3. QED
  BY <1>1, <1>2

LEMMA IncomingLess ==
  ASSUME UploadInv, NEW gone, NEW expired,
         part' = Without(part, gone), completed' = Without(completed, expired),
         owner' \in [Upload -> Process \cup {Nobody}],
         staging' \in [Uploader -> UploadStage]
  PROVE  /\ IncomingType' /\ UploadsWithinBudget'
         /\ DOMAIN part' = DOMAIN part \ gone /\ DOMAIN completed' = DOMAIN completed \ expired
         /\ \A u \in DOMAIN part' : part'[u] = part[u]
<1>1. /\ DOMAIN part' = DOMAIN part \ gone /\ DOMAIN completed' = DOMAIN completed \ expired
      /\ \A u \in DOMAIN part' : part'[u] = part[u]
  <2>1. DOMAIN part' = DOMAIN part \ gone /\ \A u \in DOMAIN part \ gone : part'[u] = part[u]
    BY WithoutSetIs
  <2>2. DOMAIN completed' = DOMAIN completed \ expired
    BY WithoutSetIs
  <2>3. QED
    BY <2>1, <2>2
<1>2. /\ UploadsWithinBudget'
      /\ IsFiniteSet(DOMAIN part') /\ IsFiniteSet(DOMAIN completed')
  BY <1>1, LessFits DEF UploadInv
<1>3. IncomingType'
  BY <1>1, <1>2 DEF UploadInv, IncomingType
<1>4. QED
  BY <1>1, <1>2, <1>3

\* What p knows of its own leases and files.
LEMMA OwnIs ==
  ASSUME UploadInv, NEW p \in Uploader
  PROVE  /\ IncomingType /\ HoldsOwn(p) /\ GuardsScan(p) /\ ScanIsWhole(p)
         /\ SweeperPublishes(p) /\ p \in Process /\ p # Nobody /\ p \notin Committer
         /\ staging[p] \in UploadStage /\ staging[p].at \in At
BY StageFields, UploadAssumption DEF UploadInv, UploadIsSound, Process

LEMMA TakeIs ==
  ASSUME IncomingType, NEW p \in Uploader, NEW archive \in Archive, NEW final \in BOOLEAN,
         TakeUploadLease(p, archive, final)
  PROVE  \E u \in Upload \ DOMAIN part :
           /\ owner[u] = Nobody /\ owner' = [owner EXCEPT ![u] = p]
           /\ owner' \in [Upload -> Process \cup {Nobody}]
           /\ owner'[u] = p /\ \A v \in Upload \ {u} : owner'[v] = owner[v]
           /\ staging' \in [Uploader -> UploadStage]
           /\ staging'[p].at = "admit" /\ staging'[p].upload = u
           /\ staging'[p].archive = archive
           /\ \A q \in Uploader \ {p} : staging'[q] = staging[q]
<1>1. PICK u \in Upload \ DOMAIN part :
        /\ owner[u] = Nobody /\ owner' = [owner EXCEPT ![u] = p]
        /\ Stage(p, [NotStaging EXCEPT !.at = "admit", !.upload = u,
                                       !.archive = archive, !.final = final])
  BY DEF TakeUploadLease
<1> DEFINE stage == [NotStaging EXCEPT !.at = "admit", !.upload = u,
                                       !.archive = archive, !.final = final]
<1>2. /\ stage \in UploadStage /\ stage.at = "admit" /\ stage.upload = u
      /\ stage.archive = archive
  BY DEF NotStaging, UploadStage, At
<1> HIDE DEF stage
<1>3. Stage(p, stage)
  BY <1>1 DEF stage
<1>4. /\ staging' \in [Uploader -> UploadStage] /\ staging'[p] = stage
      /\ \A q \in Uploader \ {p} : staging'[q] = staging[q]
  BY <1>2, <1>3, StageIs
<1>5. /\ owner' \in [Upload -> Process \cup {Nobody}]
      /\ owner'[u] = p /\ \A v \in Upload \ {u} : owner'[v] = owner[v]
  BY <1>1 DEF IncomingType, Process
<1>6. QED
  BY <1>1, <1>2, <1>4, <1>5

LEMMA BeginUploadKeeps ==
  ASSUME Inv, UploadInv, NEW p \in Uploader, NEW a \in Archive, BeginUpload(p, a),
         UNCHANGED commit
  PROVE  UploadInv'
<1>1. UNCHANGED <<publication, guard, part, completed, objects>>
  BY DEF BeginUpload, incoming
<1> PICK final \in BOOLEAN : final = FALSE
  OBVIOUS
<1>a. TakeUploadLease(p, a, final)
  BY DEF BeginUpload
<1>2. IncomingType /\ p # Nobody
  BY OwnIs
<1>3. PICK u \in Upload \ DOMAIN part :
        /\ owner[u] = Nobody
        /\ owner' \in [Upload -> Process \cup {Nobody}]
        /\ owner'[u] = p /\ \A v \in Upload \ {u} : owner'[v] = owner[v]
        /\ staging' \in [Uploader -> UploadStage]
        /\ staging'[p].at = "admit" /\ staging'[p].upload = u
        /\ staging'[p].archive = a
        /\ \A q \in Uploader \ {p} : staging'[q] = staging[q]
  BY <1>a, <1>2, TakeIs
<1>4. UploadIsSound(p)'
  BY <1>1, <1>3 DEF UploadIsSound, HoldsOwn, GuardsScan, ScanIsWhole, SweeperPublishes,
     Admitting, Uploading, Expiring
<1>5. OthersKept(p)
  BY <1>1, <1>3, UploadAssumption DEF OthersKept
<1>6. IncomingType' /\ UploadsWithinBudget'
  BY <1>1, <1>3, IncomingSame
<1>7. QED
  BY <1>1, <1>4, <1>5, <1>6, UploadStep

LEMMA ReclaimIs ==
  ASSUME UploadInv, ReclaimUnderGuard, UNCHANGED <<completed, owner>>,
         staging' \in [Uploader -> UploadStage]
  PROVE  /\ IncomingType' /\ UploadsWithinBudget'
         /\ \A u \in Upload : owner[u] \in Process =>
              /\ u \in DOMAIN part' <=> u \in DOMAIN part
              /\ u \in DOMAIN part => part'[u] = part[u]
         /\ DOMAIN part' \subseteq DOMAIN part
<1>1. PICK reclaimed \in SUBSET Abandoned : part' = Without(part, reclaimed)
  BY DEF ReclaimUnderGuard
<1>2. /\ DOMAIN part' = DOMAIN part \ reclaimed
      /\ \A u \in DOMAIN part' : part'[u] = part[u]
  <2>1. /\ DOMAIN part' = DOMAIN part \ reclaimed
        /\ \A u \in DOMAIN part \ reclaimed : part'[u] = part[u]
    BY <1>1, WithoutSetIs
  <2>2. QED
    BY <2>1
<1>3. \A u \in Upload : owner[u] \in Process => u \notin reclaimed
  BY <1>1, UploadAssumption DEF Abandoned
<1>4. /\ UploadsWithinBudget'
      /\ IsFiniteSet(DOMAIN part') /\ IsFiniteSet(DOMAIN completed')
  BY <1>2, LessFits DEF UploadInv
<1>5. IncomingType'
  BY <1>2, <1>4 DEF UploadInv, IncomingType
<1>6. QED
  BY <1>2, <1>3, <1>4, <1>5

LEMMA GuardTaken ==
  ASSUME Inv, UploadInv, NEW p \in Uploader, AdmitGuard(p) \/ SweepGuard(p),
         UNCHANGED commit
  PROVE  UploadInv'
<1>0. IncomingType /\ HoldsOwn(p) /\ SweeperPublishes(p) /\ p \in Process
  BY OwnIs
<1>1. /\ guard = Nobody /\ guard' = p /\ ReclaimUnderGuard
      /\ UNCHANGED <<publication, owner, completed, objects>>
  BY DEF AdmitGuard, SweepGuard
<1>2. PICK at \in {"reclaimed", "expiring"} :
        /\ Go(p, at)
        /\ at = "reclaimed" => staging[p].at = "admit"
        /\ at = "expiring" => staging[p].at = "sweep"
  BY DEF AdmitGuard, SweepGuard
<1>3. /\ staging' \in [Uploader -> UploadStage]
      /\ staging'[p].at = at /\ staging'[p].upload = staging[p].upload
      /\ staging'[p].archive = staging[p].archive
      /\ \A q \in Uploader \ {p} : staging'[q] = staging[q]
  <2>1. at \in At
    BY DEF At
  <2>2. QED
    BY <1>0, <1>2, <2>1, GoIs
<1>4. /\ IncomingType' /\ UploadsWithinBudget'
      /\ \A u \in Upload : owner[u] \in Process =>
           /\ u \in DOMAIN part' <=> u \in DOMAIN part
           /\ u \in DOMAIN part => part'[u] = part[u]
      /\ DOMAIN part' \subseteq DOMAIN part
  BY <1>1, <1>3, ReclaimIs
<1>5. UploadIsSound(p)'
  BY <1>0, <1>1, <1>2, <1>3, <1>4 DEF UploadIsSound, HoldsOwn, GuardsScan, ScanIsWhole,
     SweeperPublishes, Admitting, Uploading, Expiring
<1>6. OthersKept(p)
  BY <1>1, <1>3, <1>4, UploadAssumption DEF OthersKept
<1>7. QED
  BY <1>1, <1>4, <1>5, <1>6, UploadStep

LEMMA ScanCompletedKeeps ==
  ASSUME Inv, UploadInv, NEW p \in Uploader, ScanCompleted(p), UNCHANGED commit
  PROVE  UploadInv'
<1>0. /\ IncomingType /\ HoldsOwn(p) /\ GuardsScan(p) /\ staging[p] \in UploadStage
      /\ DOMAIN completed \subseteq Archive /\ IsFiniteSet(DOMAIN completed)
  BY OwnIs DEF IncomingType
<1>1. UNCHANGED <<publication, guard, owner, part, completed, objects>>
  BY DEF ScanCompleted, leases, incoming
<1> DEFINE stage == [staging[p] EXCEPT !.at = "scanned",
                                       !.fresh = DOMAIN completed \ Expired,
                                       !.expired = Expired]
<1>2. Stage(p, stage) /\ staging[p].at = "reclaimed"
  BY DEF ScanCompleted
<1>3. Expired \subseteq DOMAIN completed
  BY DEF Expired
<1>4. /\ stage \in UploadStage /\ stage.at = "scanned"
      /\ stage.upload = staging[p].upload /\ stage.archive = staging[p].archive
      /\ stage.fresh \cup stage.expired = DOMAIN completed
  BY <1>0, <1>3 DEF UploadStage, At
<1> HIDE DEF stage
<1>5. /\ staging' \in [Uploader -> UploadStage] /\ staging'[p] = stage
      /\ \A q \in Uploader \ {p} : staging'[q] = staging[q]
  BY <1>0, <1>2, <1>4, StageIs
<1>6. ScanIsWhole(p)'
  BY <1>0, <1>1, <1>4, <1>5 DEF ScanIsWhole, Scanned
<1>7. UploadIsSound(p)'
  BY <1>0, <1>1, <1>2, <1>4, <1>5, <1>6 DEF UploadIsSound, HoldsOwn, GuardsScan,
     SweeperPublishes, Admitting, Uploading, Expiring
<1>8. OthersKept(p)
  BY <1>1, <1>5 DEF OthersKept
<1>9. IncomingType' /\ UploadsWithinBudget'
  BY <1>0, <1>1, <1>5, IncomingSame DEF IncomingType
<1>10. QED
  BY <1>1, <1>7, <1>8, <1>9, UploadStep

\* The upload ends, with its lease, and leaves incoming/ as it is.
LEMMA EndedKeeps ==
  ASSUME Inv, UploadInv, NEW p \in Uploader, Finish(p), UNCHANGED <<part, completed, objects, commit>>,
         \A q \in Process \ {p} : /\ guard = q => guard' = q
                                  /\ publication = q => publication' = q
  PROVE  UploadInv'
<1>0. IncomingType
  BY OwnIs
<1>1. /\ staging' \in [Uploader -> UploadStage] /\ staging'[p].at = "idle"
      /\ \A q \in Uploader \ {p} : staging'[q] = staging[q]
      /\ owner' \in [Upload -> Process \cup {Nobody}]
      /\ \A u \in Upload : owner[u] # p => owner'[u] = owner[u]
  BY <1>0, FinishIs
<1>2. UploadIsSound(p)'
  BY <1>1, IdleIsSound
<1>3. OthersKept(p)
  BY <1>1 DEF OthersKept
<1>4. IncomingType' /\ UploadsWithinBudget'
  BY <1>1, IncomingSame
<1>5. QED
  BY <1>2, <1>3, <1>4, UploadStep

LEMMA EndingsKeep ==
  ASSUME Inv, UploadInv, NEW p \in Uploader, UNCHANGED commit,
         AdmitBusy(p) \/ GiveUpPart(p) \/ UploadDies(p)
  PROVE  UploadInv'
<1>1. CASE AdmitBusy(p)
  BY <1>1, EndedKeeps DEF AdmitBusy, incoming
<1>2. CASE GiveUpPart(p)
  BY <1>2, EndedKeeps DEF GiveUpPart, incoming
<1>3. CASE UploadDies(p)
  BY <1>3, EndedKeeps DEF UploadDies, incoming, Unpublished
<1>4. QED
  BY <1>1, <1>2, <1>3

\* What fits beside the entries of the scan fits beside the ones there are.
LEMMA AdmittedFits ==
  ASSUME IncomingType, NEW u \in Upload \ DOMAIN part, NEW a \in Archive,
         NEW entries, DOMAIN completed \subseteq entries, entries \subseteq Archive,
         IsFiniteSet(entries),
         Fits(Bytes(entries) + Reserved, Cardinality(entries) + Cardinality(DOMAIN part),
              Size[a]),
         part' = [v \in DOMAIN part \cup {u} |-> IF v = u THEN Size[a] ELSE part[v]],
         completed' = completed
  PROVE  /\ UploadsWithinBudget' /\ IsFiniteSet(DOMAIN part')
         /\ DOMAIN part' = DOMAIN part \cup {u} /\ part'[u] = Size[a]
         /\ \A v \in DOMAIN part : part'[v] = part[v]
<1>1. /\ DOMAIN part' = DOMAIN part \cup {u} /\ part'[u] = Size[a]
      /\ \A v \in DOMAIN part : part'[v] = part[v]
  BY DEF IncomingType
<1>2. IsFiniteSet(DOMAIN part) /\ \A v \in DOMAIN part : part[v] \in Nat
  BY DEF IncomingType
<1>3. Size[a] \in Nat /\ \A b \in entries : Size[b] \in Nat
  BY UploadAssumption
<1>4. \A v \in DOMAIN part : part'[v] \in Nat
  BY <1>1, <1>2
<1>5. /\ Total(part', DOMAIN part \cup {u}) = Total(part', DOMAIN part) + Size[a]
      /\ Total(part', DOMAIN part) \in Nat
  BY <1>1, <1>2, <1>3, <1>4, TotalOfMore
<1>6. Total(part', DOMAIN part) = Total(part, DOMAIN part)
  BY <1>1, <1>2, TotalOfSame
<1>7. /\ Total(Size, DOMAIN completed) \in Nat /\ Total(Size, entries) \in Nat
      /\ Total(Size, DOMAIN completed) <= Total(Size, entries)
  BY <1>3, TotalOfPart
<1>8. /\ IsFiniteSet(DOMAIN part \cup {u})
      /\ Cardinality(DOMAIN part \cup {u}) = Cardinality(DOMAIN part) + 1
      /\ Cardinality(DOMAIN part) \in Nat
  BY <1>2, FS_AddElement, FS_CardinalityType
<1>9. /\ Cardinality(DOMAIN completed) \in Nat /\ Cardinality(entries) \in Nat
      /\ Cardinality(DOMAIN completed) <= Cardinality(entries)
  BY FS_Subset, FS_CardinalityType
<1>10. /\ (Total(Size, entries) + Total(part, DOMAIN part)) + Size[a] <= ByteBudget
       /\ (Cardinality(entries) + Cardinality(DOMAIN part)) + 1 <= EntryBudget
  BY SumsAre DEF Fits
<1>11. /\ Total(part', DOMAIN part') + Total(Size, DOMAIN completed) <= ByteBudget
       /\ Cardinality(DOMAIN part') + Cardinality(DOMAIN completed) <= EntryBudget
  <2>1. /\ ByteBudget \in Nat /\ EntryBudget \in Nat
        /\ Total(part', DOMAIN part') = Total(part, DOMAIN part) + Size[a]
        /\ Total(part, DOMAIN part) \in Nat
        /\ Cardinality(DOMAIN part') = Cardinality(DOMAIN part) + 1
    BY <1>1, <1>5, <1>6, <1>8, UploadAssumption
  <2>2. QED
    BY <1>3, <1>7, <1>8, <1>9, <1>10, <2>1
<1>12. Reserved' = Total(part', DOMAIN part') /\ Bytes(DOMAIN completed)' = Total(Size, DOMAIN completed)
  BY SumsAre
<1>13. QED
  BY <1>1, <1>8, <1>11, <1>12 DEF UploadsWithinBudget

LEMMA AdmitKeeps ==
  ASSUME Inv, UploadInv, NEW p \in Uploader, Admit(p), UNCHANGED commit
  PROVE  UploadInv'
<1> DEFINE u == staging[p].upload
           a == staging[p].archive
<1>0. /\ IncomingType /\ HoldsOwn(p) /\ GuardsScan(p) /\ ScanIsWhole(p)
      /\ staging[p] \in UploadStage /\ p \in Process
  BY OwnIs
<1>1. /\ staging[p].at = "scanned" /\ FitsBeside(p, Scanned(p))
      /\ part' = [v \in DOMAIN part \cup {u} |-> IF v = u THEN Size[a] ELSE part[v]]
      /\ guard' = Nobody /\ UNCHANGED <<publication, owner, completed, objects>>
  BY DEF Admit
<1>2. /\ u \in Upload /\ owner[u] = p /\ a \in Archive /\ u \notin DOMAIN part /\ guard = p
      /\ DOMAIN completed \subseteq Scanned(p) /\ IsFiniteSet(Scanned(p))
  BY <1>0, <1>1 DEF HoldsOwn, Admitting, GuardsScan, ScanIsWhole
<1> DEFINE stage == [staging[p] EXCEPT !.at = "body", !.fresh = {}, !.expired = {}]
<1>3. /\ stage \in UploadStage /\ stage.at = "body" /\ stage.upload = u /\ stage.archive = a
  BY <1>0 DEF UploadStage, At
<1>4. Stage(p, stage)
  BY DEF Admit
<1> HIDE DEF stage
<1>5. /\ staging' \in [Uploader -> UploadStage] /\ staging'[p] = stage
      /\ \A q \in Uploader \ {p} : staging'[q] = staging[q]
  BY <1>0, <1>3, <1>4, StageIs
<1>6. Scanned(p) \subseteq Archive
  BY <1>0, StageFields DEF Scanned
<1>7. /\ UploadsWithinBudget' /\ IsFiniteSet(DOMAIN part')
      /\ DOMAIN part' = DOMAIN part \cup {u} /\ part'[u] = Size[a]
      /\ \A v \in DOMAIN part : part'[v] = part[v]
  <2> HIDE DEF u, a
  <2>1. Fits(Bytes(Scanned(p)) + Reserved,
             Cardinality(Scanned(p)) + Cardinality(DOMAIN part), Size[a])
    BY <1>1 DEF FitsBeside, a
  <2>2. QED
    BY <1>0, <1>1, <1>2, <1>6, <2>1, AdmittedFits
<1>8. IncomingType'
  <2>1. Size[a] \in Nat
    BY <1>2, UploadAssumption
  <2>2. \A v \in DOMAIN part' : part'[v] \in Nat
    BY <1>0, <1>7, <2>1 DEF IncomingType
  <2>3. QED
    BY <1>0, <1>1, <1>2, <1>5, <1>7, <2>2 DEF IncomingType
<1>9. UploadIsSound(p)'
  BY <1>1, <1>2, <1>3, <1>5, <1>7 DEF UploadIsSound, HoldsOwn, GuardsScan, ScanIsWhole,
     SweeperPublishes, Admitting, Uploading, Expiring
<1>10. OthersKept(p)
  <2>1. \A v \in Upload : owner[v] \in Process \ {p} => v # u
    BY <1>2
  <2>2. QED
    BY <1>1, <1>2, <1>5, <1>7, <2>1 DEF OthersKept
<1>11. QED
  BY <1>1, <1>7, <1>8, <1>9, <1>10, UploadStep

LEMMA AdmitRefusedKeeps ==
  ASSUME Inv, UploadInv, NEW p \in Uploader, AdmitRefused(p), UNCHANGED commit
  PROVE  UploadInv'
<1>0. /\ IncomingType /\ HoldsOwn(p) /\ GuardsScan(p) /\ p \in Process
  BY OwnIs
<1>1. /\ staging[p].at = "scanned" /\ guard' = Nobody /\ owner' = Unowned(p)
      /\ UNCHANGED <<publication, part, completed, objects>>
  BY DEF AdmitRefused, incoming
<1>2. guard = p /\ staging[p].archive \in Archive
  BY <1>0, <1>1 DEF GuardsScan, HoldsOwn, Admitting
<1> DEFINE expire == [NotStaging EXCEPT !.at = "expire", !.archive = staging[p].archive]
<1>3. expire \in UploadStage /\ expire.at = "expire" /\ expire.archive \in Archive
  BY <1>2 DEF NotStaging, UploadStage, At
<1>4. Stage(p, expire) \/ Stage(p, NotStaging)
  BY DEF AdmitRefused
<1> HIDE DEF expire
<1>5. /\ staging' \in [Uploader -> UploadStage]
      /\ staging'[p] = expire \/ staging'[p] = NotStaging
      /\ \A q \in Uploader \ {p} : staging'[q] = staging[q]
  BY <1>0, <1>3, <1>4, StageIs, NotStagingIs
<1>6. UploadIsSound(p)'
  <2>1. CASE staging'[p] = NotStaging
    BY <2>1, NotStagingIs, IdleIsSound
  <2>2. CASE staging'[p] = expire
    BY <1>3, <2>2 DEF UploadIsSound, HoldsOwn, GuardsScan, ScanIsWhole,
       SweeperPublishes, Admitting, Uploading, Expiring
  <2>3. QED
    BY <1>5, <2>1, <2>2
<1>7. /\ owner' \in [Upload -> Process \cup {Nobody}]
      /\ \A u \in Upload : owner[u] # p => owner'[u] = owner[u]
  BY <1>0, <1>1 DEF Unowned, IncomingType
<1>8. OthersKept(p)
  BY <1>1, <1>2, <1>5, <1>7 DEF OthersKept
<1>9. IncomingType' /\ UploadsWithinBudget'
  BY <1>1, <1>5, <1>7, IncomingSame
<1>10. QED
  BY <1>1, <1>6, <1>8, <1>9, UploadStep

LEMMA ExpireKeeps ==
  ASSUME Inv, UploadInv, NEW p \in Uploader, UNCHANGED commit,
         ExpireAsPublicationHolder(p) \/ ExpireBusy(p)
  PROVE  UploadInv'
<1>0. IncomingType /\ HoldsOwn(p) /\ p \in Process
  BY OwnIs
<1>1. /\ staging[p].at \in {"expire", "sweep"}
      /\ UNCHANGED <<guard, owner, part, completed, objects>>
  BY DEF ExpireAsPublicationHolder, ExpireBusy, incoming
<1>2. /\ staging' \in [Uploader -> UploadStage]
      /\ \A q \in Uploader \ {p} : staging'[q] = staging[q]
      /\ UploadIsSound(p)'
      /\ \A q \in Process \ {p} : publication = q => publication' = q
  <2>1. CASE ExpireAsPublicationHolder(p)
    <3>1. Go(p, "sweep") /\ "sweep" \in At /\ publication = Nobody /\ publication' = p
          /\ staging[p].at = "expire"
      BY <2>1 DEF ExpireAsPublicationHolder, OwnToExpire, At
    <3>2. /\ staging' \in [Uploader -> UploadStage] /\ staging'[p].at = "sweep"
          /\ staging'[p].archive = staging[p].archive
          /\ \A q \in Uploader \ {p} : staging'[q] = staging[q]
      BY <1>0, <3>1, GoIs
    <3>3. staging[p].archive \in Archive
      BY <1>0, <3>1 DEF HoldsOwn, Expiring
    <3>4. UploadIsSound(p)'
      BY <3>1, <3>2, <3>3 DEF UploadIsSound, HoldsOwn, GuardsScan, ScanIsWhole,
         SweeperPublishes, Admitting, Uploading, Expiring
    <3>5. QED
      BY <3>1, <3>2, <3>4, UploadAssumption
  <2>2. CASE ExpireBusy(p)
    <3>1. Stage(p, NotStaging) /\ publication' = Unpublished(p)
      BY <2>2 DEF ExpireBusy
    <3>2. /\ staging' \in [Uploader -> UploadStage] /\ staging'[p] = NotStaging
          /\ \A q \in Uploader \ {p} : staging'[q] = staging[q]
      BY <1>0, <3>1, StageIs, NotStagingIs
    <3>3. QED
      BY <3>1, <3>2, NotStagingIs, IdleIsSound DEF Unpublished
  <2>3. QED
    BY <2>1, <2>2
<1>3. OthersKept(p)
  BY <1>1, <1>2 DEF OthersKept
<1>4. IncomingType' /\ UploadsWithinBudget'
  BY <1>0, <1>1, <1>2, IncomingSame DEF IncomingType
<1>5. QED
  BY <1>1, <1>2, <1>3, <1>4, UploadStep

\* Completed entries that expired, and only those, go.
LEMMA ExpiredGo ==
  ASSUME UploadInv, ExpireUnderGuard, UNCHANGED part,
         owner' \in [Upload -> Process \cup {Nobody}],
         staging' \in [Uploader -> UploadStage]
  PROVE  IncomingType' /\ UploadsWithinBudget' /\ DOMAIN completed' \subseteq DOMAIN completed
<1>1. PICK gone \in SUBSET Expired : completed' = Without(completed, gone)
  BY DEF ExpireUnderGuard
<1>2. DOMAIN completed' \subseteq DOMAIN completed
  <2>1. DOMAIN completed' = DOMAIN completed \ gone
    BY <1>1, WithoutSetIs
  <2>2. QED
    BY <2>1
<1>3. UploadsWithinBudget' /\ IsFiniteSet(DOMAIN part') /\ IsFiniteSet(DOMAIN completed')
  BY <1>2, LessFits DEF UploadInv
<1>4. IncomingType'
  BY <1>2, <1>3 DEF UploadInv, IncomingType
<1>5. QED
  BY <1>2, <1>3, <1>4

LEMMA SweepExpiredKeeps ==
  ASSUME Inv, UploadInv, NEW p \in Uploader, SweepExpired(p), UNCHANGED commit
  PROVE  UploadInv'
<1>0. /\ IncomingType /\ HoldsOwn(p) /\ GuardsScan(p) /\ SweeperPublishes(p)
      /\ p \in Process /\ p # Nobody
  BY OwnIs
<1>1. /\ staging[p].at = "expiring" /\ ExpireUnderGuard /\ guard' = Nobody
      /\ publication' = Unpublished(p) /\ UNCHANGED <<part, objects>>
  BY DEF SweepExpired
<1>2. PICK final \in BOOLEAN : TakeUploadLease(p, staging[p].archive, final)
  <2>1. PICK final \in BOOLEAN : final = TRUE
    OBVIOUS
  <2>2. TakeUploadLease(p, staging[p].archive, final)
    BY <2>1 DEF SweepExpired
  <2>3. QED
    BY <2>2
<1>3. guard = p /\ publication = p /\ staging[p].archive \in Archive
  BY <1>0, <1>1 DEF GuardsScan, SweeperPublishes, HoldsOwn, Expiring
<1>4. PICK u \in Upload \ DOMAIN part :
        /\ owner[u] = Nobody
        /\ owner' \in [Upload -> Process \cup {Nobody}]
        /\ owner'[u] = p /\ \A v \in Upload \ {u} : owner'[v] = owner[v]
        /\ staging' \in [Uploader -> UploadStage]
        /\ staging'[p].at = "admit" /\ staging'[p].upload = u
        /\ staging'[p].archive = staging[p].archive
        /\ \A q \in Uploader \ {p} : staging'[q] = staging[q]
  <2> DEFINE a == staging[p].archive
  <2>1. a \in Archive /\ TakeUploadLease(p, a, final)
    BY <1>2, <1>3
  <2> HIDE DEF a
  <2>2. \E u \in Upload \ DOMAIN part :
           /\ owner[u] = Nobody
           /\ owner' \in [Upload -> Process \cup {Nobody}]
           /\ owner'[u] = p /\ \A v \in Upload \ {u} : owner'[v] = owner[v]
           /\ staging' \in [Uploader -> UploadStage]
           /\ staging'[p].at = "admit" /\ staging'[p].upload = u
           /\ staging'[p].archive = a
           /\ \A q \in Uploader \ {p} : staging'[q] = staging[q]
    BY <1>0, <2>1, TakeIs
  <2>3. QED
    BY <2>2 DEF a
<1>5. IncomingType' /\ UploadsWithinBudget' /\ DOMAIN completed' \subseteq DOMAIN completed
  BY <1>1, <1>4, ExpiredGo
<1>6. UploadIsSound(p)'
  BY <1>1, <1>3, <1>4 DEF UploadIsSound, HoldsOwn, GuardsScan, ScanIsWhole, SweeperPublishes,
     Admitting, Uploading, Expiring
<1>7. OthersKept(p)
  BY <1>1, <1>3, <1>4, <1>5, UploadAssumption DEF OthersKept, Unpublished
<1>8. QED
  BY <1>1, <1>3, <1>5, <1>6, <1>7, UploadStep

LEMMA GoesOnKeeps ==
  ASSUME Inv, UploadInv, NEW p \in Uploader, Received(p) \/ CompleteFails(p),
         UNCHANGED commit
  PROVE  UploadInv'
<1>0. IncomingType /\ HoldsOwn(p) /\ p \in Process
  BY OwnIs
<1>1. /\ Uploading(p)
      /\ UNCHANGED <<publication, guard, owner, part, completed, objects>>
  BY DEF Received, CompleteFails, Uploading, leases, incoming
<1>2. PICK at \in {"complete", "abandon"} : Go(p, at)
  BY DEF Received, CompleteFails
<1>3. /\ staging' \in [Uploader -> UploadStage]
      /\ staging'[p].at = at /\ staging'[p].upload = staging[p].upload
      /\ staging'[p].archive = staging[p].archive
      /\ \A q \in Uploader \ {p} : staging'[q] = staging[q]
  <2>1. at \in At
    BY DEF At
  <2>2. QED
    BY <1>0, <1>2, <2>1, GoIs
<1>4. UploadIsSound(p)'
  BY <1>0, <1>1, <1>3 DEF UploadIsSound, HoldsOwn, GuardsScan, ScanIsWhole, SweeperPublishes,
     Admitting, Uploading, Expiring
<1>5. OthersKept(p)
  BY <1>1, <1>3 DEF OthersKept
<1>6. IncomingType' /\ UploadsWithinBudget'
  BY <1>0, <1>1, <1>3, IncomingSame DEF IncomingType
<1>7. QED
  BY <1>1, <1>4, <1>5, <1>6, UploadStep

\* A reservation that becomes an entry takes what it took before.
LEMMA MovedFits ==
  ASSUME IncomingType, UploadsWithinBudget, NEW u \in DOMAIN part,
         NEW a \in Archive, a \notin DOMAIN completed, part[u] = Size[a],
         part' = Without(part, {u}),
         completed' = [b \in DOMAIN completed \cup {a} |->
                         IF b = a THEN "fresh" ELSE completed[b]]
  PROVE  /\ UploadsWithinBudget'
         /\ IsFiniteSet(DOMAIN part') /\ IsFiniteSet(DOMAIN completed')
         /\ DOMAIN part' = DOMAIN part \ {u} /\ DOMAIN completed' = DOMAIN completed \cup {a}
         /\ \A v \in DOMAIN part \ {u} : part'[v] = part[v]
<1>1. /\ DOMAIN part' = DOMAIN part \ {u} /\ DOMAIN completed' = DOMAIN completed \cup {a}
      /\ \A v \in DOMAIN part \ {u} : part'[v] = part[v]
  BY WithoutIs
<1>2. /\ IsFiniteSet(DOMAIN part) /\ \A v \in DOMAIN part : part[v] \in Nat
      /\ IsFiniteSet(DOMAIN completed)
  BY DEF IncomingType
<1>3. /\ IsFiniteSet(DOMAIN part \ {u}) /\ Cardinality(DOMAIN part) \in Nat
      /\ Cardinality(DOMAIN part \ {u}) = Cardinality(DOMAIN part) - 1
  BY <1>2, OneLess
<1>4. /\ IsFiniteSet(DOMAIN completed \cup {a}) /\ Cardinality(DOMAIN completed) \in Nat
      /\ Cardinality(DOMAIN completed \cup {a}) = Cardinality(DOMAIN completed) + 1
  BY <1>2, FS_AddElement, FS_CardinalityType
<1>5. /\ Total(part, DOMAIN part) = part[u] + Total(part, DOMAIN part \ {u})
      /\ Total(part, DOMAIN part \ {u}) \in Nat
  BY <1>2, TotalByElement
<1>6. Total(part', DOMAIN part \ {u}) = Total(part, DOMAIN part \ {u})
  BY <1>1, <1>2, <1>3, TotalOfSame
<1>7. /\ Total(Size, DOMAIN completed \cup {a}) = Total(Size, DOMAIN completed) + Size[a]
      /\ Total(Size, DOMAIN completed) \in Nat
  <2>1. Size[a] \in Nat /\ \A b \in DOMAIN completed : Size[b] \in Nat
    BY UploadAssumption DEF IncomingType
  <2>2. QED
    BY <1>2, <2>1, TotalOfMore
<1>8. /\ Total(part, DOMAIN part) + Total(Size, DOMAIN completed) <= ByteBudget
      /\ Cardinality(DOMAIN part) + Cardinality(DOMAIN completed) <= EntryBudget
  BY SumsAre DEF UploadsWithinBudget
<1>9. Size[a] \in Nat /\ ByteBudget \in Nat /\ EntryBudget \in Nat
  BY UploadAssumption
<1>10. /\ Total(part', DOMAIN part') + Total(Size, DOMAIN completed') <= ByteBudget
       /\ Cardinality(DOMAIN part') + Cardinality(DOMAIN completed') <= EntryBudget
  <2>1. /\ Total(part', DOMAIN part') = Total(part, DOMAIN part \ {u})
        /\ Total(Size, DOMAIN completed') = Total(Size, DOMAIN completed) + Size[a]
        /\ Cardinality(DOMAIN part') = Cardinality(DOMAIN part) - 1
        /\ Cardinality(DOMAIN completed') = Cardinality(DOMAIN completed) + 1
    BY <1>1, <1>3, <1>4, <1>6, <1>7
  <2>2. QED
    BY <1>3, <1>4, <1>5, <1>7, <1>8, <1>9, <2>1
<1>11. Reserved' = Total(part', DOMAIN part') /\ Bytes(DOMAIN completed)' = Total(Size, DOMAIN completed')
  BY SumsAre
<1>12. QED
  BY <1>1, <1>3, <1>4, <1>10, <1>11 DEF UploadsWithinBudget

LEMMA CompleteKeeps ==
  ASSUME Inv, UploadInv, NEW p \in Uploader, Complete(p), UNCHANGED commit
  PROVE  UploadInv'
<1> DEFINE u == staging[p].upload
           a == staging[p].archive
<1>0. IncomingType /\ HoldsOwn(p) /\ p \in Process /\ UploadsWithinBudget
  BY OwnIs DEF UploadInv
<1>1. /\ staging[p].at = "complete" /\ guard = Nobody /\ ~Archived(p) /\ Finish(p)
      /\ part' = Without(part, {u})
      /\ completed' = [b \in DOMAIN completed \cup {a} |->
                         IF b = a THEN "fresh" ELSE completed[b]]
      /\ UNCHANGED <<publication, guard, objects>>
  BY DEF Complete
<1>2. /\ u \in DOMAIN part /\ u \in Upload /\ owner[u] = p /\ a \in Archive /\ part[u] = Size[a]
      /\ a \notin DOMAIN completed
  BY <1>0, <1>1 DEF HoldsOwn, Uploading, Archived
<1> HIDE DEF u, a
<1>3. /\ UploadsWithinBudget'
      /\ IsFiniteSet(DOMAIN part') /\ IsFiniteSet(DOMAIN completed')
      /\ DOMAIN part' = DOMAIN part \ {u} /\ DOMAIN completed' = DOMAIN completed \cup {a}
      /\ \A v \in DOMAIN part \ {u} : part'[v] = part[v]
  BY <1>0, <1>1, <1>2, MovedFits
<1>4. /\ staging' \in [Uploader -> UploadStage] /\ staging'[p].at = "idle"
      /\ \A q \in Uploader \ {p} : staging'[q] = staging[q]
      /\ owner' \in [Upload -> Process \cup {Nobody}]
      /\ \A v \in Upload : owner[v] # p => owner'[v] = owner[v]
  BY <1>0, <1>1, FinishIs
<1>5. UploadIsSound(p)'
  BY <1>4, IdleIsSound
<1>6. OthersKept(p)
  <2>1. \A v \in Upload : owner[v] \in Process \ {p} => v # u
    BY <1>2
  <2>2. QED
    BY <1>1, <1>3, <1>4, <2>1 DEF OthersKept
<1>7. IncomingType'
  BY <1>0, <1>2, <1>3, <1>4 DEF IncomingType
<1>8. DOMAIN completed \subseteq DOMAIN completed'
  BY <1>3
<1>9. QED
  BY <1>1, <1>3, <1>5, <1>6, <1>7, <1>8, UploadStep

LEMMA AbandonKeeps ==
  ASSUME Inv, UploadInv, NEW p \in Uploader, Abandon(p), UNCHANGED commit
  PROVE  UploadInv'
<1> DEFINE u == staging[p].upload
<1>0. IncomingType /\ HoldsOwn(p) /\ p \in Process /\ UploadsWithinBudget
  BY OwnIs DEF UploadInv
<1>1. /\ staging[p].at \in {"complete", "abandon"} /\ Finish(p)
      /\ UNCHANGED <<publication, guard, completed, objects>>
  BY DEF Abandon
<1>2. u \in Upload /\ owner[u] = p
  BY <1>0, <1>1 DEF HoldsOwn, Uploading
<1>3. PICK gone \in SUBSET {u} : part' = Without(part, gone)
  BY DEF Abandon
<1> HIDE DEF u
<1>4. /\ DOMAIN part' = DOMAIN part \ gone
      /\ \A v \in DOMAIN part \ gone : part'[v] = part[v]
  BY <1>3, WithoutSetIs
<1>5. /\ staging' \in [Uploader -> UploadStage] /\ staging'[p].at = "idle"
      /\ \A q \in Uploader \ {p} : staging'[q] = staging[q]
      /\ owner' \in [Upload -> Process \cup {Nobody}]
      /\ \A v \in Upload : owner[v] # p => owner'[v] = owner[v]
  BY <1>0, <1>1, FinishIs
<1>6. UploadIsSound(p)'
  BY <1>5, IdleIsSound
<1>7. OthersKept(p)
  <2>1. \A v \in Upload : owner[v] \in Process \ {p} => v \notin gone
    BY <1>2
  <2>2. QED
    BY <1>1, <1>4, <1>5, <2>1 DEF OthersKept
<1>8. UploadsWithinBudget' /\ IsFiniteSet(DOMAIN part') /\ IsFiniteSet(DOMAIN completed')
  BY <1>0, <1>1, <1>4, LessFits
<1>9. IncomingType'
  BY <1>0, <1>1, <1>4, <1>5, <1>8 DEF IncomingType
<1>10. QED
  BY <1>1, <1>6, <1>7, <1>8, <1>9, UploadStep

\* Nothing but what lies under incoming/ changes, and no upload's part of it.
LEMMA OnlyIncoming ==
  ASSUME Inv, UploadInv, UNCHANGED <<guard, publication, owner, part, staging, commit, objects>>,
         DOMAIN completed' = DOMAIN completed
  PROVE  UploadInv'
<1>1. OthersKept(Nobody)
  BY DEF OthersKept
<1>2. /\ \A q \in Uploader : UploadIsSound(q)'
      /\ \A c \in Committer : CommitGuards(c)'
  BY <1>1, OthersStay, UploadAssumption DEF Process
<1>3. UploadsWithinBudget'
  BY LessFits DEF UploadInv
<1>4. AdoptionFindsArchive'
  BY EntriesStay DEF Inv, UploadInv
<1>5. IncomingType'
  BY DEF UploadInv, IncomingType
<1>6. QED
  BY <1>2, <1>3, <1>4, <1>5 DEF UploadInv

LEMMA UploadNextKeeps ==
  ASSUME Inv, UploadInv, UploadNext, UNCHANGED <<documents, current, commit>>
  PROVE  UploadInv'
<1>1. CASE \E a \in Archive : Age(a)
  <2>1. DOMAIN completed' = DOMAIN completed
    BY <1>1 DEF Age
  <2>2. QED
    BY <1>1, <2>1, OnlyIncoming DEF Age, leases
<1>2. ASSUME NEW p \in Uploader,
             \/ \E a \in Archive : BeginUpload(p, a)
             \/ AdmitGuard(p) \/ AdmitBusy(p) \/ ScanCompleted(p) \/ Admit(p)
             \/ AdmitRefused(p) \/ ExpireAsPublicationHolder(p) \/ ExpireBusy(p)
             \/ SweepGuard(p) \/ SweepExpired(p)
      PROVE  UploadInv'
  BY <1>2, BeginUploadKeeps, GuardTaken, EndingsKeep, ScanCompletedKeeps, AdmitKeeps,
     AdmitRefusedKeeps, ExpireKeeps, SweepExpiredKeeps
<1>3. ASSUME NEW p \in Uploader,
             \/ Received(p) \/ Complete(p) \/ CompleteFails(p) \/ Abandon(p)
             \/ GiveUpPart(p) \/ UploadDies(p)
      PROVE  UploadInv'
  BY <1>3, GoesOnKeeps, CompleteKeeps, AbandonKeeps, EndingsKeep
<1>4. QED
  BY <1>1, <1>2, <1>3 DEF UploadNext

-----------------------------------------------------------------------------
\* What a commit does to incoming/ and to the leases.
Yields(p) ==
  publication' = publication \/ publication' = Unpublished(p) \/ publication = Nobody

LEMMA CommitStep ==
  ASSUME Inv, UploadInv, NEW p \in Committer, Only(p), Yields(p),
         UNCHANGED <<owner, staging>>, DOMAIN completed' \subseteq DOMAIN completed,
         \A q \in Process \ {p} : guard = q => guard' = q,
         \A u \in Upload : owner[u] \in Process =>
           /\ u \in DOMAIN part' <=> u \in DOMAIN part
           /\ u \in DOMAIN part => part'[u] = part[u],
         commit'[p].step = "expiring" => guard' = p,
         IncomingType', UploadsWithinBudget', AdoptionFindsArchive'
  PROVE  UploadInv'
<1>1. p \in Process /\ p # Nobody /\ Uploader \ {p} = Uploader
  BY UploadAssumption DEF Process
<1>2. \A q \in Process \ {p} : publication = q => publication' = q
  BY UploadAssumption DEF Yields, Unpublished
<1>3. OthersKept(p)
  BY <1>2 DEF OthersKept, Only
<1>4. \A q \in Uploader : UploadIsSound(q)'
  BY <1>1, <1>3, OthersStay
<1>5. \A c \in Committer : CommitGuards(c)'
  <2>1. CommitGuards(p)'
    BY DEF CommitGuards
  <2>2. \A c \in Committer \ {p} : CommitGuards(c)'
    BY <1>3, OthersStay
  <2>3. QED
    BY <2>1, <2>2
<1>6. QED
  BY <1>4, <1>5 DEF UploadInv

LEMMA CommitQuiet ==
  ASSUME Inv, UploadInv, NEW p \in Committer, Only(p), Yields(p),
         UNCHANGED <<guard, owner, staging, part, completed, objects>>,
         commit'[p].step # "expiring",
         commit'[p].step = "adopt" =>
           commit'[p].request.archive \in DOMAIN completed \cup objects
  PROVE  UploadInv'
<1>1. IncomingType' /\ UploadsWithinBudget'
  BY IncomingSame DEF UploadInv, IncomingType
<1>2. AdoptionFindsArchive'
  <2>1. SUFFICES ASSUME NEW c \in Committer, commit'[c].step = "adopt"
                 PROVE  commit'[c].request.archive \in DOMAIN completed \cup objects
    BY DEF AdoptionFindsArchive
  <2>2. CASE c = p
    BY <2>1, <2>2
  <2>3. CASE c # p
    <3>1. commit'[c] = commit[c]
      BY <2>3 DEF Only
    <3>2. QED
      BY <2>1, <3>1 DEF UploadInv, AdoptionFindsArchive
  <2>4. QED
    BY <2>2, <2>3
<1>3. QED
  BY <1>1, <1>2, CommitStep

LEMMA CommitEnds ==
  ASSUME Inv, UploadInv, NEW p \in Committer, End(p),
         UNCHANGED <<guard, owner, staging, part, completed, objects>>
  PROVE  UploadInv'
<1>1. Only(p) /\ commit'[p].step = "idle" /\ Yields(p)
  BY EndIs DEF Inv, NotCommitting, Yields
<1>2. QED
  BY <1>1, CommitQuiet

LEMMA CommitGoes ==
  ASSUME Inv, UploadInv, NEW p \in Committer, NEW s, To(p, s),
         s \notin {"expiring", "adopt"}, Yields(p),
         UNCHANGED <<guard, owner, staging, part, completed, objects>>
  PROVE  UploadInv'
<1>1. Only(p) /\ commit'[p].step = s
  BY ToIs DEF Inv
<1>2. QED
  BY <1>1, CommitQuiet

LEMMA SweepIncomingKeeps ==
  ASSUME Inv, UploadInv, NEW p \in Committer, SweepIncoming(p)
  PROVE  UploadInv'
<1>1. /\ guard = Nobody /\ guard' = p /\ ReclaimUnderGuard /\ To(p, "expiring")
      /\ UNCHANGED <<publication, owner, completed, objects, staging>>
  BY DEF SweepIncoming
<1>2. Only(p) /\ commit'[p].step = "expiring"
  BY <1>1, ToIs DEF Inv
<1>3. /\ IncomingType' /\ UploadsWithinBudget'
      /\ \A u \in Upload : owner[u] \in Process =>
           /\ u \in DOMAIN part' <=> u \in DOMAIN part
           /\ u \in DOMAIN part => part'[u] = part[u]
  BY <1>1, ReclaimIs DEF UploadInv, IncomingType
<1>4. AdoptionFindsArchive'
  <2>1. \A c \in Committer : commit'[c].step = "adopt" => commit'[c] = commit[c]
    BY <1>2 DEF Only
  <2>2. QED
    BY <1>1, <2>1 DEF UploadInv, AdoptionFindsArchive
<1>5. \A q \in Process \ {p} : guard = q => guard' = q
  BY <1>1, UploadAssumption
<1>6. Yields(p)
  BY <1>1 DEF Yields
<1>7. QED
  BY <1>1, <1>2, <1>3, <1>4, <1>5, <1>6, CommitStep

\* Two commits never hold the publication lease.
LEMMA NoOtherAdopts ==
  ASSUME Inv, NEW p \in Committer, commit[p].step \notin {"idle", "lease"}, Only(p),
         commit'[p].step # "adopt"
  PROVE  AdoptionFindsArchive'
<1>1. \A c \in Committer \ {p} : commit'[c].step # "adopt"
  <2>1. publication = p
    BY DEF Inv, Held
  <2>2. QED
    BY <2>1 DEF Inv, Held, Only
<1>2. QED
  BY <1>1 DEF AdoptionFindsArchive

LEMMA ExpireIncomingKeeps ==
  ASSUME Inv, UploadInv, NEW p \in Committer, ExpireIncoming(p)
  PROVE  UploadInv'
<1>1. /\ commit[p].step = "expiring" /\ ExpireUnderGuard /\ guard' = Nobody /\ To(p, "read")
      /\ UNCHANGED <<publication, owner, part, objects, staging>>
  BY DEF ExpireIncoming
<1>2. Only(p) /\ commit'[p].step = "read"
  BY <1>1, ToIs DEF Inv
<1>3. IncomingType' /\ UploadsWithinBudget' /\ DOMAIN completed' \subseteq DOMAIN completed
  BY <1>1, ExpiredGo DEF UploadInv, IncomingType
<1>4. AdoptionFindsArchive'
  BY <1>1, <1>2, NoOtherAdopts
<1>5. \A q \in Process \ {p} : guard = q => guard' = q
  BY <1>1 DEF UploadInv, CommitGuards
<1>6. Yields(p)
  BY <1>1 DEF Yields
<1>7. QED
  BY <1>1, <1>2, <1>3, <1>4, <1>5, <1>6, CommitStep

LEMMA AdoptTakes ==
  ASSUME Inv, UploadInv, NEW p \in Committer, Adopt(p)
  PROVE  UploadInv'
<1> DEFINE a == commit[p].request.archive
<1>1. /\ commit[p].step = "adopt" /\ completed' = Without(completed, {a}) /\ To(p, "record")
      /\ UNCHANGED <<publication, guard, owner, part, staging>>
  BY DEF Adopt, leases
<1>2. Only(p) /\ commit'[p].step = "record"
  BY <1>1, ToIs DEF Inv
<1> HIDE DEF a
<1>3. DOMAIN completed' = DOMAIN completed \ {a}
  BY <1>1, WithoutIs
<1>4. UploadsWithinBudget' /\ IsFiniteSet(DOMAIN part') /\ IsFiniteSet(DOMAIN completed')
  BY <1>1, <1>3, LessFits DEF UploadInv
<1>5. IncomingType'
  BY <1>1, <1>3, <1>4 DEF UploadInv, IncomingType
<1>6. AdoptionFindsArchive'
  BY <1>1, <1>2, NoOtherAdopts
<1>7. Yields(p)
  BY <1>1 DEF Yields
<1>8. QED
  BY <1>1, <1>2, <1>3, <1>4, <1>5, <1>6, <1>7, CommitStep

LEMMA CommitDiesKeeps ==
  ASSUME Inv, UploadInv, NEW p \in Committer, CommitDies(p)
  PROVE  UploadInv'
<1>1. /\ End(p) /\ guard' = (IF guard = p THEN Nobody ELSE guard)
      /\ UNCHANGED <<owner, part, completed, objects, staging>>
  BY DEF CommitDies, staged, incoming
<1>2. Only(p) /\ commit'[p].step = "idle" /\ Yields(p)
  BY <1>1, EndIs DEF Inv, NotCommitting, Yields
<1>3. IncomingType' /\ UploadsWithinBudget'
  BY <1>1, IncomingSame DEF UploadInv, IncomingType
<1>4. AdoptionFindsArchive'
  <2>1. \A c \in Committer : commit'[c].step = "adopt" => commit'[c] = commit[c]
    BY <1>2 DEF Only
  <2>2. QED
    BY <1>1, <2>1 DEF UploadInv, AdoptionFindsArchive
<1>5. QED
  BY <1>1, <1>2, <1>3, <1>4, CommitStep

LEMMA ArrivesSoundly ==
  ASSUME Inv, UploadInv, NEW p \in Committer, Arrive(p)
  PROVE  UploadInv'
<1> DEFINE Still == UNCHANGED <<guard, owner, staging, part, completed, objects>>
<1>1. ASSUME NEW op, NEW request, NEW state, Begin(p, op, request, state) PROVE UploadInv'
  <2>1. /\ Still /\ publication' = publication
        /\ commit' = [commit EXCEPT ![p] =
             [NotCommitting EXCEPT !.op = op, !.step = "lease", !.request = request,
                                   !.state = state]]
    BY <1>1 DEF Begin, leases, staged, incoming
  <2>2. /\ DOMAIN commit' = Committer /\ \A q \in Committer \ {p} : commit'[q] = commit[q]
        /\ commit'[p] = [NotCommitting EXCEPT !.op = op, !.step = "lease",
                                              !.request = request, !.state = state]
    BY <2>1 DEF Inv, Shape
  <2>3. Only(p) /\ commit'[p].step = "lease"
    BY <2>2 DEF Only, Inv, Shape, NotCommitting
  <2>4. QED
    BY <2>1, <2>3, CommitQuiet DEF Yields
<1>2. CASE BeginPublish(p) \/ BeginYank(p) \/ BeginRotate(p) \/ BeginRenew(p) \/ BeginRecover(p)
  BY <1>1, <1>2 DEF BeginPublish, BeginYank, BeginRotate, BeginRenew, BeginRecover
<1>3. CASE OwnLease(p)
  <2>1. Still /\ To(p, "sweep") /\ publication = Nobody
    BY <1>3 DEF OwnLease, staged, incoming
  <2>2. QED
    BY <2>1, CommitGoes DEF Yields
<1>4. CASE LeaseIsBusy(p)
  BY <1>4, CommitEnds DEF LeaseIsBusy, staged, incoming
<1>5. CASE SweepIsBusy(p)
  <2>1. Still /\ (End(p) \/ (To(p, "read") /\ publication' = publication))
    BY <1>5 DEF SweepIsBusy, staged, incoming
  <2>2. QED
    BY <2>1, CommitEnds, CommitGoes DEF Yields
<1>6. CASE ReadCurrentState(p)
  <2>1. Still
    BY <1>6 DEF ReadCurrentState, staged, incoming
  <2>2. \/ End(p)
        \/ /\ commit' = [commit EXCEPT ![p].step = "prune", ![p].state = StateUnderLease(p)]
           /\ publication' = publication
    BY <1>6 DEF ReadCurrentState
  <2>3. CASE /\ commit' = [commit EXCEPT ![p].step = "prune", ![p].state = StateUnderLease(p)]
             /\ publication' = publication
    <3>1. Only(p) /\ commit'[p].step = "prune"
      BY <2>3 DEF Only, Inv, Shape, NotCommitting
    <3>2. QED
      BY <2>1, <2>3, <3>1, CommitQuiet DEF Yields
  <2>4. QED
    BY <2>1, <2>2, <2>3, CommitEnds
<1>7. CASE PruneCheckpoint(p) \/ PruneRotation(p)
  <2>1. Still /\ UNCHANGED <<publication, commit>> /\ commit[p].step = "prune"
    BY <1>7 DEF PruneCheckpoint, PruneRotation, leases, staged, incoming
  <2>2. Only(p)
    BY <2>1 DEF Only, Inv, Shape
  <2>3. QED
    BY <2>1, <2>2, CommitQuiet DEF Yields
<1>8. CASE EndPrune(p)
  <2>1. Still /\ (End(p) \/ (To(p, "head") /\ publication' = publication))
    BY <1>8 DEF EndPrune, staged, incoming
  <2>2. QED
    BY <2>1, CommitEnds, CommitGoes DEF Yields
<1>9. QED
  BY <1>2, <1>3, <1>4, <1>5, <1>6, <1>7, <1>8, SweepIncomingKeeps, ExpireIncomingKeeps
  DEF Arrive

LEMMA DecidesSoundly ==
  ASSUME Inv, UploadInv, NEW p \in Committer, Decide(p)
  PROVE  UploadInv'
<1> DEFINE Still == UNCHANGED <<guard, owner, staging, part, completed, objects>>
<1>1. ASSUME NEW s, NEW next, Prepare(p, s, next), Still, publication' = publication,
             s # "expiring",
             s = "adopt" => commit[p].request.archive \in DOMAIN completed \cup objects
      PROVE  UploadInv'
  <2>1. Only(p) /\ commit'[p].step = s /\ commit'[p].request = commit[p].request
    BY <1>1, PrepareIs DEF Inv, SameRequest
  <2>2. QED
    BY <1>1, <2>1, CommitQuiet DEF Yields
<1>2. PICK now \in Time : \/ DecidePublish(p, now) \/ DecideYank(p, now)
                          \/ DecideRotate(p, now) \/ DecideRenew(p, now)
  BY DEF Decide
<1>3. CASE DecidePublish(p, now)
  <2>1. Still
    BY <1>3 DEF DecidePublish, staged, incoming
  <2>2. CASE MayPublish(p, now)
    <3>1. PICK next : /\ Prepare(p, IF commit[p].request.archive \in objects
                                    THEN "record" ELSE "adopt", next)
                      /\ publication' = publication
      BY <1>3, <2>2 DEF DecidePublish
    <3>2. commit[p].request.archive \in DOMAIN completed \cup objects
      BY <2>2 DEF MayPublish
    <3>3. QED
      BY <1>1, <2>1, <3>1, <3>2
  <2>3. CASE ~MayPublish(p, now)
    BY <1>3, <2>1, <2>3, CommitEnds DEF DecidePublish
  <2>4. QED
    BY <2>2, <2>3
<1>4. CASE DecideYank(p, now)
  <2>1. Still
    BY <1>4 DEF DecideYank, staged, incoming
  <2>2. \/ End(p)
        \/ (\E next : Prepare(p, "record", next)) /\ publication' = publication
    BY <1>4 DEF DecideYank
  <2>3. QED
    BY <1>1, <2>1, <2>2, CommitEnds
<1>5. CASE DecideRotate(p, now)
  <2>1. Still /\ publication' = publication
    BY <1>5 DEF DecideRotate, leases, staged, incoming
  <2>2. \E next : Prepare(p, "key", next)
    BY <1>5 DEF DecideRotate
  <2>3. QED
    BY <1>1, <2>1, <2>2
<1>6. CASE DecideRenew(p, now)
  <2>1. Still
    BY <1>6 DEF DecideRenew, staged, incoming
  <2>2. CASE End(p)
    BY <2>1, <2>2, CommitEnds
  <2>3. CASE ~End(p)
    <3>1. PICK next : /\ commit' = [commit EXCEPT ![p].step = "renewal",
                                                  ![p].state = current, ![p].next = next]
                      /\ publication' = publication
      BY <1>6, <2>3 DEF DecideRenew
    <3>2. Only(p) /\ commit'[p].step = "renewal"
      BY <3>1 DEF Inv, Shape, Only, NotCommitting
    <3>3. QED
      BY <2>1, <3>1, <3>2, CommitQuiet DEF Yields
  <2>4. QED
    BY <2>2, <2>3
<1>7. QED
  BY <1>2, <1>3, <1>4, <1>5, <1>6

LEMMA WritesSoundly ==
  ASSUME Inv, UploadInv, NEW p \in Committer, Write(p)
  PROVE  UploadInv'
<1> DEFINE Still == UNCHANGED <<guard, owner, staging, part, completed, objects>>
           Goes == \E s \in {"rotation", "old", "new", "snapshot", "checkpoint",
                             "signature", "sign", "activate"} :
                     To(p, s) /\ publication' = publication
<1>1. CASE Adopt(p)
  BY <1>1, AdoptTakes
<1>2. CASE Still /\ End(p)
  BY <1>2, CommitEnds
<1>3. CASE Still /\ Goes
  BY <1>3, CommitGoes DEF Yields
<1>4. CASE AdoptIsBusy(p) \/ Activate(p)
  BY <1>2, <1>4 DEF AdoptIsBusy, Activate, staged, incoming
<1>5. CASE WriteRecord(p) \/ WriteKey(p) \/ WriteRenewal(p) \/ SignRenewal(p)
  <2>1. Still
    BY <1>5 DEF WriteRecord, WriteKey, WriteRenewal, SignRenewal, leases, staged, incoming
  <2>2. Goes
    BY <1>5 DEF WriteRecord, WriteKey, WriteRenewal, SignRenewal, leases
  <2>3. QED
    BY <1>3, <2>1, <2>2
<1>6. CASE WriteRotation(p) \/ WriteOldSignature(p) \/ WriteNewSignature(p)
  <2>1. Still
    BY <1>6 DEF WriteRotation, WriteOldSignature, WriteNewSignature, leases, staged, incoming
  <2>2. Goes
    BY <1>6 DEF WriteRotation, WriteOldSignature, WriteNewSignature, leases
  <2>3. QED
    BY <1>3, <2>1, <2>2
<1>7. CASE WriteCheckpoint(p) \/ WriteSignature(p)
  <2>1. Still
    BY <1>7 DEF WriteCheckpoint, WriteSignature, leases, staged, incoming
  <2>2. Goes
    BY <1>7 DEF WriteCheckpoint, WriteSignature, leases
  <2>3. QED
    BY <1>3, <2>1, <2>2
<1>8. CASE WriteSnapshot(p)
  <2>1. Still
    BY <1>8 DEF WriteSnapshot, staged, incoming
  <2>2. End(p) \/ Goes
    BY <1>8 DEF WriteSnapshot
  <2>3. QED
    BY <1>2, <1>3, <2>1, <2>2
<1>9. QED
  BY <1>1, <1>4, <1>5, <1>6, <1>7, <1>8 DEF Write

LEMMA NothingIsUploaded ==
  ASSUME Init
  PROVE  UploadInv
<1>1. /\ owner = [u \in Upload |-> Nobody] /\ part = <<>>
      /\ staging = [p \in Uploader |-> NotStaging]
      /\ commit = [p \in Committer |-> NotCommitting]
  BY DEF Init, OriginInit, UploadInit
<1>2. PICK entries \in SUBSET Archive :
        /\ IsFiniteSet(entries) /\ Bytes(entries) <= ByteBudget
        /\ Cardinality(entries) <= EntryBudget
        /\ completed = [a \in entries |-> "fresh"]
  BY DEF Init, OriginInit, UploadInit
<1>3. DOMAIN part = {} /\ DOMAIN completed = entries
  BY <1>1, <1>2
<1>4. IncomingType
  <2>1. staging \in [Uploader -> UploadStage]
    BY <1>1, NotStagingIs
  <2>2. owner \in [Upload -> Process \cup {Nobody}]
    BY <1>1
  <2>3. QED
    BY <1>2, <1>3, <2>1, <2>2, FS_EmptySet DEF IncomingType
<1>5. UploadsWithinBudget
  <2>1. Reserved = 0 /\ Cardinality(DOMAIN part) = 0
    <3>1. IsFiniteSet({}) /\ Cardinality({}) = 0
      BY FS_EmptySet
    <3>2. Total(part, {}) = 0
      BY <3>1, TotalByPicked
    <3>3. QED
      BY <1>3, <3>1, <3>2, SumsAre
  <2>2. Cardinality(entries) \in Nat
    BY <1>2, FS_CardinalityType
  <2>3. Bytes(entries) \in Nat
    <3>1. \A a \in entries : Size[a] \in Nat
      BY UploadAssumption
    <3>2. Total(Size, entries) \in Nat
      BY <1>2, <3>1, TotalByPicked
    <3>3. QED
      BY <3>2, SumsAre
  <2>4. QED
    BY <1>2, <1>3, <2>1, <2>2, <2>3 DEF UploadsWithinBudget
<1>6. \A p \in Uploader : UploadIsSound(p)
  BY <1>1, NotStagingIs DEF UploadIsSound, HoldsOwn, GuardsScan, ScanIsWhole,
     SweeperPublishes, Admitting, Uploading, Expiring
<1>7. /\ \A c \in Committer : CommitGuards(c)
      /\ AdoptionFindsArchive
  BY <1>1 DEF NotCommitting, CommitGuards, AdoptionFindsArchive
<1>8. QED
  BY <1>4, <1>5, <1>6, <1>7 DEF UploadInv

LEMMA UploadInvKept ==
  ASSUME Inv, UploadInv, [Next]_vars
  PROVE  UploadInv'
<1>1. CASE UploadNext /\ UNCHANGED <<documents, current, commit>>
  BY <1>1, UploadNextKeeps
<1>2. CASE \E p \in Committer : Arrive(p) \/ Decide(p) \/ Write(p) \/ CommitDies(p)
  BY <1>2, ArrivesSoundly, DecidesSoundly, WritesSoundly, CommitDiesKeeps
<1>3. CASE UNCHANGED vars
  BY <1>3, OnlyIncoming DEF vars, leases, staged, incoming
<1>4. QED
  BY <1>1, <1>2, <1>3 DEF Next

\* Uploads stay within the budget of bytes and of entries however admissions,
\* sweeps, completions and deaths interleave, no reservation of a living upload
\* is reclaimed, and a commit finds the entry it is about to adopt: for any
\* number of requests and commands, any budgets and any lengths
\* (ScanUnderGuard, ReclaimUnderGuard, Adopt).
THEOREM UploadsStaySound == Spec => []UploadsAreSound
<1>1. Init => UploadInv
  BY NothingIsUploaded
<1>2. Inv /\ UploadInv /\ [Next]_vars => UploadInv'
  BY UploadInvKept
<1>3. UploadInv => UploadsAreSound
  BY DEF UploadInv, UploadsAreSound, LiveUploadKept, UploadIsSound, HoldsOwn, Uploading
<1>4. QED
  BY <1>1, <1>2, <1>3, InvHolds, PTL DEF Spec
=============================================================================
