--------------------------- MODULE RegistryUpload ---------------------------
(***************************************************************************)
(* The uploads of a registry origin before a commit refers to them         *)
(* (src/source/LWPT.Registry.Incoming.pas).                                *)
(*                                                                         *)
(* An upload reserves its declared length under incoming/, receives its    *)
(* bytes, and becomes a completed entry; a commit (RegistryOrigin) moves   *)
(* the entry into objects/.  Three leases order all this: the publication  *)
(* lease, the guard of incoming/, and one lease per upload, which says     *)
(* that its owner lives.  A lease is a lock that dies with its holder:     *)
(* that it is one is what ProducerLease is about.                          *)
(*                                                                         *)
(* A process is a request of the server or a command.  One that uploads    *)
(* does not commit, and each may die alone.                                *)
(***************************************************************************)
EXTENDS Naturals, FiniteSets, FiniteSetsExt, Functions

CONSTANTS
  Uploader, Committer, Nobody,
  Upload, None,             \* upload IDs, and no value of any kind
  Archive, Size,            \* archives by content, and their lengths
  ByteBudget, EntryBudget,  \* RegistryIncomingBudgetBytes, ...BudgetEntries
  MaxOperations             \* bound: requests and commands that begin

Process == Uploader \cup Committer

ASSUME UploadAssumption ==
  /\ Uploader \cap Committer = {}
  /\ Nobody \notin Process
  /\ None \notin Upload \cup Archive
  /\ Size \in [Archive -> Nat]
  /\ ByteBudget \in Nat
  /\ EntryBudget \in Nat

VARIABLES
  publication, guard, owner,  \* who holds the leases
  part,                       \* the length of each reservation
  completed,                  \* completed entries: "fresh" or "expired"
  objects,                    \* archives in objects/
  staging,                    \* what the upload of each process is doing
  operations

leases == <<publication, guard, owner>>
incoming == <<part, completed>>

At == {"idle", "admit", "reclaimed", "scanned", "expire", "sweep", "expiring",
       "body", "complete", "abandon"}

NotStaging == [at |-> "idle", upload |-> None, archive |-> None,
               final |-> FALSE, fresh |-> {}, expired |-> {}]

UploadTypeOK ==
  /\ publication \in Process \cup {Nobody}
  /\ guard \in Process \cup {Nobody}
  /\ owner \in [Upload -> Process \cup {Nobody}]
  /\ IsInjective([u \in {v \in Upload : owner[v] # Nobody} |-> owner[u]])
  /\ DOMAIN part \subseteq Upload /\ Range(part) \subseteq Range(Size)
  /\ DOMAIN completed \subseteq Archive
  /\ Range(completed) \subseteq {"fresh", "expired"}
  /\ objects \subseteq Archive
  /\ staging \in [Uploader -> [at : At, upload : Upload \cup {None},
                              archive : Archive \cup {None}, final : BOOLEAN,
                              fresh : SUBSET Archive,
                              expired : SUBSET Archive]]

Bytes(entries) == MapThenSumSet(LAMBDA a : Size[a], entries)
Reserved == MapThenSumSet(LAMBDA u : part[u], DOMAIN part)

Fits(bytes, entries, length) ==
  bytes + length <= ByteBudget /\ entries + 1 <= EntryBudget

\* An origin without commits, and with entries of earlier uploads.
UploadInit ==
  /\ publication = Nobody /\ guard = Nobody
  /\ owner = [u \in Upload |-> Nobody]
  /\ part = <<>>
  /\ \E entries \in SUBSET Archive :
       /\ IsFiniteSet(entries)
       /\ Bytes(entries) <= ByteBudget /\ Cardinality(entries) <= EntryBudget
       /\ completed = [a \in entries |-> "fresh"]
  /\ objects = {}
  /\ staging = [p \in Uploader |-> NotStaging]
  /\ operations = 0

-----------------------------------------------------------------------------
(***************************************************************************)
(* What holders of the guard do to incoming/.                              *)
(***************************************************************************)

Stage(p, stage) == staging' = [staging EXCEPT ![p] = stage]
Go(p, at) == Stage(p, [staging[p] EXCEPT !.at = at])

Without(f, gone) == Restrict(f, DOMAIN f \ gone)

\* A reservation without a living owner: whoever gets its upload lease
\* without waiting may delete it.
Abandoned == {u \in DOMAIN part : owner[u] = Nobody}

\* ReclaimUnderGuard.  A file that cannot be deleted stays.
ReclaimUnderGuard ==
  \E reclaimed \in SUBSET Abandoned : part' = Without(part, reclaimed)

\* The second half of Sweep.
Expired == {a \in DOMAIN completed : completed[a] = "expired"}
ExpireUnderGuard ==
  \E gone \in SUBSET Expired : completed' = Without(completed, gone)

GuardIsBusy(p) == guard \notin {p, Nobody}

-----------------------------------------------------------------------------
(***************************************************************************)
(* Admission: TryAdmit, ScanUnderGuard, ExpireAsPublicationHolder.         *)
(***************************************************************************)

\* An ID of 128 random bits is one nobody ever used: one without a file.
TakeUploadLease(p, archive, final) ==
  \E u \in Upload \ DOMAIN part :
    /\ owner[u] = Nobody
    /\ owner' = [owner EXCEPT ![u] = p]
    /\ Stage(p, [NotStaging EXCEPT !.at = "admit", !.upload = u,
                                   !.archive = archive, !.final = final])

BeginUpload(p, a) ==
  /\ staging[p].at = "idle"
  /\ operations < MaxOperations /\ operations' = operations + 1
  /\ TakeUploadLease(p, a, FALSE)
  /\ UNCHANGED <<publication, guard, incoming, objects>>

Unowned(p) == [u \in Upload |-> IF owner[u] = p THEN Nobody ELSE owner[u]]
Finish(p) == owner' = Unowned(p) /\ Stage(p, NotStaging)

AdmitGuard(p) ==
  /\ staging[p].at = "admit"
  /\ guard = Nobody /\ guard' = p
  /\ ReclaimUnderGuard
  /\ Go(p, "reclaimed")
  /\ UNCHANGED <<publication, owner, completed, objects, operations>>

\* The bounded wait for the guard is over: nothing is left behind.
AdmitBusy(p) ==
  /\ staging[p].at = "admit" /\ GuardIsBusy(p)
  /\ Finish(p)
  /\ UNCHANGED <<publication, guard, incoming, objects, operations>>

\* Completed entries first, then reservations.
ScanCompleted(p) ==
  /\ staging[p].at = "reclaimed"
  /\ Stage(p, [staging[p] EXCEPT !.at = "scanned",
                                 !.fresh = DOMAIN completed \ Expired,
                                 !.expired = Expired])
  /\ UNCHANGED <<leases, incoming, objects, operations>>

FitsBeside(p, entries) ==
  Fits(Bytes(entries) + Reserved, Cardinality(entries) + Cardinality(DOMAIN part),
       Size[staging[p].archive])

Scanned(p) == staging[p].fresh \cup staging[p].expired

Admit(p) ==
  /\ staging[p].at = "scanned" /\ FitsBeside(p, Scanned(p))
  /\ part' = [u \in DOMAIN part \cup {staging[p].upload} |->
                IF u = staging[p].upload THEN Size[staging[p].archive]
                                         ELSE part[u]]
  /\ guard' = Nobody
  /\ Stage(p, [staging[p] EXCEPT !.at = "body", !.fresh = {}, !.expired = {}])
  /\ UNCHANGED <<publication, owner, completed, objects, operations>>

\* Expired entries hold the budget: they go first, once.
MakesRoom(p) ==
  /\ ~staging[p].final /\ staging[p].expired # {}
  /\ FitsBeside(p, staging[p].fresh)

AdmitRefused(p) ==
  /\ staging[p].at = "scanned" /\ ~FitsBeside(p, Scanned(p))
  /\ guard' = Nobody
  /\ owner' = Unowned(p)
  /\ Stage(p, IF MakesRoom(p)
              THEN [NotStaging EXCEPT !.at = "expire",
                                      !.archive = staging[p].archive]
              ELSE NotStaging)
  /\ UNCHANGED <<publication, incoming, objects, operations>>

OwnToExpire(p) == publication = Nobody /\ publication' = p

ExpireAsPublicationHolder(p) ==
  /\ staging[p].at = "expire"
  /\ OwnToExpire(p)
  /\ Go(p, "sweep")
  /\ UNCHANGED <<guard, owner, incoming, objects, operations>>

Unpublished(p) == IF publication = p THEN Nobody ELSE publication

\* Either bounded wait is over.
ExpireBusy(p) ==
  /\ \/ staging[p].at = "expire" /\ publication # Nobody
     \/ staging[p].at = "sweep" /\ GuardIsBusy(p)
  /\ publication' = Unpublished(p)
  /\ Stage(p, NotStaging)
  /\ UNCHANGED <<guard, owner, incoming, objects, operations>>

SweepGuard(p) ==
  /\ staging[p].at = "sweep"
  /\ guard = Nobody /\ guard' = p
  /\ ReclaimUnderGuard
  /\ Go(p, "expiring")
  /\ UNCHANGED <<publication, owner, completed, objects, operations>>

\* And the second attempt, which is the last, takes a lease of its own.
SweepExpired(p) ==
  /\ staging[p].at = "expiring"
  /\ ExpireUnderGuard
  /\ guard' = Nobody
  /\ publication' = Unpublished(p)
  /\ TakeUploadLease(p, staging[p].archive, TRUE)
  /\ UNCHANGED <<part, objects, operations>>

-----------------------------------------------------------------------------
(***************************************************************************)
(* The body, completion and abandonment.                                   *)
(***************************************************************************)

\* All bytes arrive and hash to the digest of the path, or they do not, or
\* the request is aborted.
Received(p) ==
  /\ staging[p].at = "body"
  /\ \E at \in {"complete", "abandon"} : Go(p, at)
  /\ UNCHANGED <<leases, incoming, objects, operations>>

Archived(p) == staging[p].archive \in DOMAIN completed \cup objects

\* Seeded fault: the entry moves without the guard.
CompleteUnguarded(p) ==
  /\ staging[p].at = "complete" /\ ~Archived(p)
  /\ part' = Without(part, {staging[p].upload})
  /\ completed' = [a \in DOMAIN completed \cup {staging[p].archive} |->
                     IF a = staging[p].archive THEN "fresh" ELSE completed[a]]
  /\ Finish(p)
  /\ UNCHANGED <<publication, guard, objects, operations>>

\* The guard is held for one change of incoming/.
Complete(p) ==
  /\ staging[p].at = "complete" /\ guard = Nobody /\ ~Archived(p)
  /\ part' = Without(part, {staging[p].upload})
  /\ completed' = [a \in DOMAIN completed \cup {staging[p].archive} |->
                     IF a = staging[p].archive THEN "fresh" ELSE completed[a]]
  /\ Finish(p)
  /\ UNCHANGED <<publication, guard, objects, operations>>

\* The rename fails: the exception abandons the upload.
CompleteFails(p) ==
  /\ staging[p].at = "complete" /\ guard = Nobody /\ ~Archived(p)
  /\ Go(p, "abandon")
  /\ UNCHANGED <<leases, incoming, objects, operations>>

\* DeletePart, or the content was there already.  The result of the deletion
\* is not looked at.
Abandon(p) ==
  /\ \/ staging[p].at = "abandon"
     \/ staging[p].at = "complete" /\ Archived(p)
  /\ guard = Nobody
  /\ \E gone \in SUBSET {staging[p].upload} : part' = Without(part, gone)
  /\ Finish(p)
  /\ UNCHANGED <<publication, guard, completed, objects, operations>>

\* The bounded wait for the guard is over: the reservation stays charged,
\* and without its lease it can be reclaimed.
GiveUpPart(p) ==
  /\ staging[p].at \in {"complete", "abandon"} /\ GuardIsBusy(p)
  /\ Finish(p)
  /\ UNCHANGED <<publication, guard, incoming, objects, operations>>

\* The process dies, and all its leases with it.
UploadDies(p) ==
  /\ staging[p].at # "idle"
  /\ publication' = Unpublished(p)
  /\ guard' = IF guard = p THEN Nobody ELSE guard
  /\ Finish(p)
  /\ UNCHANGED <<incoming, objects, operations>>

\* An hour passes.
Age(a) ==
  /\ a \in DOMAIN completed /\ completed[a] = "fresh"
  /\ completed' = [completed EXCEPT ![a] = "expired"]
  /\ UNCHANGED <<leases, part, objects, staging, operations>>

UploadNext ==
  \/ \E p \in Uploader :
       \/ \E a \in Archive : BeginUpload(p, a)
       \/ AdmitGuard(p) \/ AdmitBusy(p) \/ ScanCompleted(p) \/ Admit(p)
       \/ AdmitRefused(p) \/ ExpireAsPublicationHolder(p) \/ ExpireBusy(p)
       \/ SweepGuard(p) \/ SweepExpired(p)
       \/ Received(p) \/ Complete(p) \/ CompleteFails(p) \/ Abandon(p)
       \/ GiveUpPart(p) \/ UploadDies(p)
  \/ \E a \in Archive : Age(a)

-----------------------------------------------------------------------------
\* Uploads not yet committed, the ones in progress included, stay within the
\* budget, however admissions, completions and deaths interleave: no charged
\* file escapes an admission scan (ScanUnderGuard, ADR-0049).
UploadsWithinBudget ==
  /\ Reserved + Bytes(DOMAIN completed) <= ByteBudget
  /\ Cardinality(DOMAIN part) + Cardinality(DOMAIN completed) <= EntryBudget

\* Nobody reclaims the reservation of an upload whose owner lives, whatever
\* its age (ReclaimUnderGuard, TryAdmit).
LiveUploadKept ==
  \A p \in Uploader :
    staging[p].at \in {"body", "complete", "abandon"} =>
      staging[p].upload \in DOMAIN part
=============================================================================
