---------------------------- MODULE WorkerBudget ----------------------------
(***************************************************************************)
(* The machine-wide worker budget (src/source/LWPT.WorkerBudget.pas).      *)
(*                                                                         *)
(* Every invocation owns a session.  A session keeps one request file in   *)
(* a shared directory and an operating-system lock (the owner guard) for   *)
(* as long as its process lives.  All reads and writes of the directory    *)
(* happen in short transactions under one more lock, so a transaction is   *)
(* one step here; what a process does between two transactions is not.     *)
(*                                                                         *)
(* The request records are what ReadEntry accepts: Granted is the number   *)
(* of lease tokens and Waiting means a positive ticket, so neither field   *)
(* is kept apart.  A request with requested = 0 stands for a missing file. *)
(* Times, process identifiers and heartbeats are diagnostics and left out. *)
(***************************************************************************)
EXTENDS Naturals, FiniteSets

CONSTANTS
  Session,      \* processes that may open a session, one session each
  Token,        \* opaque random tokens; a token nobody refers to is fresh
  Budgets,      \* values ConfiguredBudget may return (environment, CPU count)
  MaxWorkers,   \* the largest worker count an invocation asks for
  MaxTicket,    \* bound: last wait ticket handed out in a behaviour
  Faults,       \* which failures may happen, a subset of FaultKinds
  NoToken

FaultKinds == {"misread", "lost_budget", "lost_sequence", "failed_write",
               "early_release"}

ASSUME SessionAssumption == IsFiniteSet(Session)
ASSUME TokenAssumption == IsFiniteSet(Token) /\ NoToken \notin Token
ASSUME BudgetsAssumption == Budgets \subseteq Nat \ {0}
ASSUME BoundsAssumption == MaxWorkers \in Nat \ {0} /\ MaxTicket \in Nat
ASSUME FaultsAssumption == Faults \subseteq FaultKinds

VARIABLES
  budget,       \* the budget file, 0 when there is none
  ceiling,      \* history: the largest budget since the directory was empty
  lost,         \* history: unreadable since then, and taken for another budget
  overlooked,   \* history: a slot was granted beside an unreadable request
  sequence,     \* the queue-sequence file
  request,      \* the request files
  guard,        \* sessions whose owner guard is locked
  local,        \* the session object of each process
  environment   \* the delegation token a process was started with

\* No code reads the history variables: they say what befell the budget
\* file since a transaction last found no request.
books == <<budget, ceiling, lost, overlooked>>
vars == <<books, sequence, request, guard, local, environment>>

Worker == 1..MaxWorkers
Delegation == [token: Token, lease: Token]
Request == [requested: Nat, ticket: Nat, tokens: SUBSET Token,
            delegations: SUBSET Delegation]
Absent == [requested |-> 0, ticket |-> 0, tokens |-> {}, delegations |-> {}]

Phase == {"new", "open", "closing", "gone"}
Local == [phase: Phase, requested: Nat, effective: Nat,
          inherited: Token \cup {NoToken}, persistent: BOOLEAN,
          acquiring: Nat, granted: Nat,
          leases: [Worker -> Token \cup {NoToken}], delegated: SUBSET Worker]
Fresh(p) == [phase |-> p, requested |-> 0, effective |-> 0,
             inherited |-> NoToken, persistent |-> FALSE, acquiring |-> 0,
             granted |-> 0, leases |-> [w \in Worker |-> NoToken],
             delegated |-> {}]

TypeOK ==
  /\ budget \in Nat
  /\ ceiling \in Nat
  /\ lost \in BOOLEAN
  /\ overlooked \in BOOLEAN
  /\ sequence \in Nat
  /\ request \in [Session -> Request]
  /\ guard \subseteq Session
  /\ local \in [Session -> Local]
  /\ environment \in [Session -> Token \cup {NoToken}]

Init ==
  /\ budget = 0 /\ ceiling = 0
  /\ lost = FALSE /\ overlooked = FALSE
  /\ sequence = 0
  /\ request = [s \in Session |-> Absent]
  /\ guard = {}
  /\ local = [s \in Session |-> Fresh("new")]
  /\ environment = [s \in Session |-> NoToken]

-----------------------------------------------------------------------------
(***************************************************************************)
(* What a transaction computes from the directory.                         *)
(***************************************************************************)

Present(r) == {s \in Session : r[s].requested > 0}

\* Requests whose owner guard is free are deleted, whatever their age.
PruneEntries == [s \in Session |-> IF s \in guard THEN request[s] ELSE Absent]

\* The lease tokens recorded in the request files, one slot each.
Leases(r) == {l \in Session \X Token : l[2] \in r[l[1]].tokens}
LiveLeases == Leases(PruneEntries)

\* A request of a live owner that cannot be read counts as a whole budget.
ActiveWorkerCount(r, unread, counted) ==
  Cardinality(Leases(r)) + Cardinality(unread) * counted

Waiting(r) == {s \in Session : r[s].ticket > 0}
Candidates(r) ==
  {s \in Waiting(r) : Cardinality(r[s].tokens) < r[s].requested}

\* Only the waiter with the lowest ticket among those below their request.
IsBestWaiting(s, r) ==
  /\ s \in Candidates(r)
  /\ \A t \in Candidates(r) : r[s].ticket <= r[t].ticket

\* The directory a transaction sees when the requests of unread are not
\* readable: placeholders that neither wait nor hold a token.
Seen(r, unread) == [s \in Session |-> IF s \in unread THEN Absent ELSE r[s]]

Misreads(S) == IF "misread" \in Faults THEN SUBSET S ELSE {{}}

\* An unreadable queue-sequence file reads as zero.
QueueReads ==
  {sequence} \cup IF "lost_sequence" \in Faults THEN {0} ELSE {}

\* One more than the file and than every ticket in the queue.
NextWaitTicket(r, read) ==
  {n \in 1..MaxTicket :
     /\ n > read
     /\ \A s \in Session : n > r[s].ticket
     /\ n = read + 1 \/ \E s \in Session : n = r[s].ticket + 1}

\* An unreadable budget file reads as zero.
BudgetReads == {budget} \cup IF "lost_budget" \in Faults THEN {0} ELSE {}

\* Seeded fault: every invocation configures the budget again.
ResolvedBudgetsAnew(read) == Budgets

\* The first live invocation fixes the budget; later ones adopt what they
\* read, and configure it anew when they read nothing.
ResolvedBudgets(read) ==
  IF Present(PruneEntries) = {} \/ read < 1 THEN Budgets ELSE {read}

\* ResolveEffectiveBudget gives b, and the file holds b from then on, beside
\* whatever sessions still work with another budget.
ResolveBudget(b) ==
  \E read \in BudgetReads :
    /\ b \in ResolvedBudgets(read)
    /\ budget' = b
    /\ IF Present(PruneEntries) = {}
       THEN ceiling' = b /\ lost' = FALSE /\ overlooked' = FALSE
       ELSE /\ ceiling' = IF b > ceiling THEN b ELSE ceiling
            /\ lost' = (lost \/ (read < 1 /\ b # budget))
            /\ UNCHANGED overlooked

\* What a transaction counts per placeholder: the budget it reads, or the one
\* it would configure.  It reads the file once for each; as only the sum is
\* compared, equal readings decide whatever mixed ones may.
PlaceholderCounts(unread) ==
  {budget} \cup IF unread # {} /\ "lost_budget" \in Faults THEN Budgets ELSE {}

WithoutLease(q, k) ==
  [q EXCEPT !.tokens = @ \ {k},
            !.delegations = {d \in @ : d.lease # k}]

\* Tokens are drawn from a 256-bit random source, so none in use is drawn.
InUse ==
  {k \in Token :
     \/ \E s \in Session : \/ k \in request[s].tokens
                           \/ k \in {environment[s], local[s].inherited}
                           \/ \E w \in Worker : local[s].leases[w] = k
     \/ \E s \in Session : \E d \in request[s].delegations :
          k \in {d.token, d.lease}}

-----------------------------------------------------------------------------
(***************************************************************************)
(* Opening a session.                                                      *)
(***************************************************************************)

Opened(n, b, token) ==
  [Fresh("open") EXCEPT !.requested = n, !.effective = b, !.inherited = token]

\* TLWPTWorkerBudgetSession.Create without a token in the environment.
Create(s) ==
  /\ local[s].phase = "new"
  /\ environment[s] = NoToken
  /\ \E b \in Budgets, n \in Worker :
       LET capped == IF n > b THEN b ELSE n
       IN  /\ ResolveBudget(b)
           /\ request' = [PruneEntries EXCEPT ![s] =
                            [Absent EXCEPT !.requested = capped]]
           /\ local' = [local EXCEPT ![s] = Opened(capped, b, NoToken)]
  /\ guard' = guard \cup {s}
  /\ UNCHANGED <<sequence, environment>>

\* The delegation d of session p can still be consumed.
Pending(p, d) ==
  /\ d \in PruneEntries[p].delegations
  /\ d.lease \in PruneEntries[p].tokens

\* Seeded faults: the delegation, or the lease, stays with the parent.
ConsumedAgain(q, d) == [q EXCEPT !.tokens = @ \ {d.lease}]
ConsumedCopy(q, d) == [q EXCEPT !.delegations = @ \ {d}]

\* The request of the parent once the child has taken the lease over.
Consumed(q, d) ==
  [q EXCEPT !.tokens = @ \ {d.lease}, !.delegations = @ \ {d}]

ChildRequest(d) == [Absent EXCEPT !.requested = 1, !.tokens = {d.token}]

\* Create with a token: the grant moves to the child's own request, and the
\* token leaves the environment before any work runs.
Inherit(s) ==
  /\ local[s].phase = "new"
  /\ \E p \in Session : \E d \in PruneEntries[p].delegations :
       /\ Pending(p, d)
       /\ d.token = environment[s]
       /\ request' = [PruneEntries EXCEPT ![p] = Consumed(@, d),
                                          ![s] = ChildRequest(d)]
       /\ \E b \in Budgets :
            /\ ResolveBudget(b)
            /\ local' = [local EXCEPT ![s] = Opened(1, b, d.token)]
  /\ guard' = guard \cup {s}
  /\ environment' = [environment EXCEPT ![s] = NoToken]
  /\ UNCHANGED sequence

\* The child dies after writing its own request and before the parent's.
InheritCrash(s) ==
  /\ local[s].phase = "new"
  /\ \E p \in Session : \E d \in PruneEntries[p].delegations :
       /\ Pending(p, d)
       /\ d.token = environment[s]
       /\ request' = [PruneEntries EXCEPT ![s] = ChildRequest(d)]
  /\ \E b \in Budgets : ResolveBudget(b)
  /\ local' = [local EXCEPT ![s] = Fresh("gone")]
  /\ environment' = [environment EXCEPT ![s] = NoToken]
  /\ UNCHANGED <<sequence, guard>>

\* Create with a token that is unknown, consumed or expired fails, and so
\* does one whose parent request cannot be read: the process ends.
RejectInherited(s) ==
  /\ local[s].phase = "new"
  /\ environment[s] # NoToken
  /\ \/ \A p \in Session : \A d \in PruneEntries[p].delegations :
          d.token = environment[s] => ~ Pending(p, d)
     \/ "misread" \in Faults
  /\ request' = PruneEntries
  /\ \E b \in Budgets : ResolveBudget(b)
  /\ local' = [local EXCEPT ![s] = Fresh("gone")]
  /\ environment' = [environment EXCEPT ![s] = NoToken]
  /\ UNCHANGED <<sequence, guard>>

-----------------------------------------------------------------------------
(***************************************************************************)
(* Acquiring a lease.  A session runs at most one worker per requested     *)
(* worker, and each holds at most one lease: that is how Command.Testing   *)
(* starts its threads and Command.Build limits its jobs.                   *)
(***************************************************************************)

FreeWorker(s, w) ==
  w <= local[s].requested /\ local[s].leases[w] = NoToken

\* Which free worker asks does not matter: the first one does.
MayStart(s, w) ==
  /\ local[s].phase = "open"
  /\ local[s].acquiring = 0
  /\ FreeWorker(s, w)
  /\ \A v \in 1..(w - 1) : ~ FreeWorker(s, v)
  /\ local[s].granted < local[s].requested

Held(l, w, k) ==
  [l EXCEPT !.leases = [@ EXCEPT ![w] = k], !.granted = @ + 1]

\* The first acquisition of a session that was handed a lease.
AcquireInherited(s, w) ==
  /\ MayStart(s, w)
  /\ local[s].inherited # NoToken
  /\ \E t \in Session : local[s].inherited \in PruneEntries[t].tokens
  /\ request' = PruneEntries
  /\ local' = [local EXCEPT ![s] = Held(@, w, local[s].inherited)]
  /\ UNCHANGED <<books, sequence, guard, environment>>

\* The ticket a session waits with: the one it has, or the next one.
TicketOf(s, unread, read) ==
  IF PruneEntries[s].ticket > 0 THEN {PruneEntries[s].ticket}
  ELSE NextWaitTicket(Seen(PruneEntries, unread), read)

\* The directory once s is in the queue, as the transaction sees it.
Queued(s, ticket) == [PruneEntries EXCEPT ![s].ticket = ticket]

\* There is a slot, and no better waiter for it.
Grantable(s, r, unread, counted) ==
  /\ ActiveWorkerCount(r, unread, counted) < local[s].effective
  /\ IsBestWaiting(s, r)

\* The transaction of one pass of the loop: join the queue unless already in
\* it, then take a slot or stay.  stayed is the session that stays.
Try(s, w, stayed) ==
  /\ PruneEntries[s].requested > 0
  /\ \E unread \in Misreads((guard \cap Present(request)) \ {s}),
        read \in QueueReads :
       \E ticket \in TicketOf(s, unread, read),
          counted \in PlaceholderCounts(unread) :
         /\ sequence' = IF PruneEntries[s].ticket > 0 THEN sequence ELSE ticket
         /\ lost' = (lost \/ counted # budget)
         /\ \/ /\ Grantable(s, Seen(Queued(s, ticket), unread), unread, counted)
               /\ overlooked' = (overlooked \/ unread # {})
               /\ \E k \in Token \ InUse :
                    /\ request' = [Queued(s, ticket) EXCEPT
                         ![s].tokens = @ \cup {k}, ![s].ticket = 0]
                    /\ local' = [local EXCEPT ![s] =
                         [Held(@, w, k) EXCEPT !.persistent = FALSE,
                                               !.acquiring = 0]]
            \/ /\ ~ Grantable(s, Seen(Queued(s, ticket), unread), unread,
                            counted)
               /\ request' = Queued(s, ticket)
               /\ local' = [local EXCEPT ![s] = stayed]
               /\ UNCHANGED overlooked
  /\ UNCHANGED <<budget, ceiling, guard, environment>>

PollAcquire(s, w) ==
  /\ MayStart(s, w)
  /\ local[s].inherited = NoToken
  /\ Try(s, w, [local[s] EXCEPT !.persistent = TRUE])

\* Acquire holds the session's acquisition lock from its first pass to its
\* last; acquiring is the worker that is inside.
Acquire(s, w) ==
  /\ local[s].phase = "open"
  /\ local[s].inherited = NoToken
  /\ MayStart(s, w) \/ local[s].acquiring = w
  /\ Try(s, w, [local[s] EXCEPT !.acquiring = w])

\* A finite wait that expires leaves the queue, unless the ticket is that of
\* a pending PollAcquire of the same session.
Timeout(s) ==
  /\ local[s].acquiring # 0
  /\ local' = [local EXCEPT ![s].acquiring = 0]
  /\ request' = IF local[s].persistent THEN request
                ELSE [request EXCEPT ![s].ticket = 0]
  /\ UNCHANGED <<books, sequence, guard, environment>>

CancelPendingAcquire(s) ==
  /\ local[s].phase = "open"
  /\ local[s].acquiring = 0
  /\ local[s].persistent
  /\ request' = [request EXCEPT ![s].ticket = 0]
  /\ local' = [local EXCEPT ![s].persistent = FALSE]
  /\ UNCHANGED <<books, sequence, guard, environment>>

\* A request that cannot be read or written fails the acquisition: the error
\* leaves the loop, and the ticket where it was.
AcquireError(s) ==
  /\ Faults \cap {"misread", "failed_write"} # {}
  /\ local[s].acquiring # 0
  /\ request' = PruneEntries
  /\ local' = [local EXCEPT ![s].acquiring = 0]
  /\ UNCHANGED <<books, sequence, guard, environment>>

-----------------------------------------------------------------------------
(***************************************************************************)
(* Returning a lease, and handing it to a child process.                   *)
(***************************************************************************)

Drop(n) == IF n > 0 THEN n - 1 ELSE n

Leased(s, w) == local[s].phase = "open" /\ local[s].leases[w] # NoToken

Delegated(s, w) == w \in local[s].delegated

Emptied(l, w) ==
  [l EXCEPT !.leases = [@ EXCEPT ![w] = NoToken], !.delegated = @ \ {w}]

HasDelegation(q, k) == \E d \in q.delegations : d.lease = k

\* A session that cannot read its own request finds no lease token in it.
OwnReadable == IF "misread" \in Faults THEN BOOLEAN ELSE {TRUE}

\* TLWPTWorkerLease.Release: first the request file, then the session.  The
\* wrapper of a delegated lease leaves the file alone, so a caller must have
\* cancelled a delegation that no child consumed.
Release(s, w) ==
  LET lease == local[s].leases[w]
      own == PruneEntries[s]
  IN  /\ Leased(s, w)
      /\ Delegated(s, w) /\ HasDelegation(own, lease)
           => "early_release" \in Faults
      /\ \E readable \in OwnReadable :
           request' = IF ~ Delegated(s, w) /\ readable /\ lease \in own.tokens
                        THEN [PruneEntries EXCEPT ![s] = WithoutLease(@, lease)]
                        ELSE PruneEntries
      /\ local' = [local EXCEPT ![s] = [Emptied(local[s], w) EXCEPT
           !.granted = IF Delegated(s, w) THEN @ ELSE Drop(@),
           !.inherited = IF @ = lease THEN NoToken ELSE @]]
      /\ UNCHANGED <<books, sequence, guard, environment>>

\* A release whose transaction fails while the lease object is destroyed:
\* the slot stays taken and the session does not replace it.  A scheduler
\* frees the lease of a delegation only after the child process has ended.
AbandonLease(s, w) ==
  /\ "failed_write" \in Faults
  /\ Leased(s, w)
  /\ \A d \in request[s].delegations : d.lease = local[s].leases[w] =>
       \A c \in Session : environment[c] # d.token
  /\ local' = [local EXCEPT ![s] = Emptied(@, w)]
  /\ UNCHANGED <<books, sequence, request, guard, environment>>

WithDelegation(q, d) == [q EXCEPT !.delegations = @ \cup {d}]

\* AppendWorkerLeaseEnvironment.  children are the processes that receive the
\* environment: one, or more when a caller reuses it.
CreateDelegation(s, w, children) ==
  LET lease == local[s].leases[w]
      own == PruneEntries[s]
  IN  /\ Leased(s, w)
      /\ ~ Delegated(s, w)
      /\ lease \in own.tokens
      /\ ~ HasDelegation(own, lease)
      /\ \A c \in children : /\ local[c].phase = "new"
                             /\ environment[c] = NoToken
      /\ \E k \in Token \ InUse :
           /\ request' = [PruneEntries EXCEPT ![s] =
                WithDelegation(@, [token |-> k, lease |-> lease])]
           /\ environment' = [c \in Session |->
                IF c \in children THEN k ELSE environment[c]]
      /\ local' = [local EXCEPT ![s] =
           [local[s] EXCEPT !.delegated = @ \cup {w}, !.granted = Drop(@)]]
      /\ UNCHANGED <<books, sequence, guard>>

\* Returns the grant of a delegation no child consumed.
CancelPendingDelegation(s, w) ==
  LET lease == local[s].leases[w]
      own == PruneEntries[s]
  IN  /\ Leased(s, w)
      /\ Delegated(s, w)
      /\ \E readable \in OwnReadable :
           request' = IF /\ readable
                         /\ lease \in own.tokens
                         /\ HasDelegation(own, lease)
                        THEN [PruneEntries EXCEPT ![s] = WithoutLease(@, lease)]
                        ELSE PruneEntries
      /\ UNCHANGED <<books, sequence, guard, local, environment>>

-----------------------------------------------------------------------------
(***************************************************************************)
(* The end of a session, and the transactions of other commands.           *)
(***************************************************************************)

\* TLWPTWorkerBudgetSession.Destroy withdraws the request, then the guard.
\* When the state root is unavailable the request stays behind.
Destroy(s) ==
  /\ local[s].phase = "open"
  /\ local[s].acquiring = 0
  /\ request' \in {[request EXCEPT ![s] = Absent]}
                  \cup IF "failed_write" \in Faults THEN {request} ELSE {}
  /\ local' = [local EXCEPT ![s] = Fresh("closing")]
  /\ UNCHANGED <<books, sequence, guard, environment>>

FreeOwnerGuard(s) ==
  /\ local[s].phase = "closing"
  /\ guard' = guard \ {s}
  /\ local' = [local EXCEPT ![s] = Fresh("gone")]
  /\ UNCHANGED <<books, sequence, request, environment>>

\* The process dies: the system drops its guard, the request file stays.
Crash(s) ==
  /\ local[s].phase \in {"open", "closing"}
  /\ guard' = guard \ {s}
  /\ local' = [local EXCEPT ![s] = Fresh("gone")]
  /\ UNCHANGED <<books, sequence, request, environment>>

\* GetWorkerBudgetSnapshot, for the diagnostics of any command.
Snapshot ==
  /\ request' = PruneEntries
  /\ \E b \in Budgets : ResolveBudget(b)
  /\ UNCHANGED <<sequence, guard, local, environment>>

RepairWorkerBudget ==
  /\ request' = PruneEntries
  /\ UNCHANGED <<books, sequence, guard, local, environment>>

SessionStep(s) ==
  \/ Create(s)
  \/ Inherit(s)
  \/ InheritCrash(s)
  \/ RejectInherited(s)
  \/ Timeout(s)
  \/ AcquireError(s)
  \/ CancelPendingAcquire(s)
  \/ Destroy(s)
  \/ FreeOwnerGuard(s)
  \/ Crash(s)

WorkerStep(s, w) ==
  \/ AcquireInherited(s, w)
  \/ PollAcquire(s, w)
  \/ Acquire(s, w)
  \/ Release(s, w)
  \/ AbandonLease(s, w)
  \/ \E children \in SUBSET Session : CreateDelegation(s, w, children)
  \/ CancelPendingDelegation(s, w)

Next ==
  \/ \E s \in Session : SessionStep(s)
  \/ \E s \in Session, w \in Worker : WorkerStep(s, w)
  \/ Snapshot
  \/ RepairWorkerBudget

Spec == Init /\ [][Next]_vars

-----------------------------------------------------------------------------
(***************************************************************************)
(* Properties.                                                             *)
(***************************************************************************)

RunningWorkers ==
  {x \in Session \X Worker : Leased(x[1], x[2]) /\ ~ Delegated(x[1], x[2])}

\* Only a grant beside an unreadable request, after the budget file itself
\* was unreadable, may exceed the largest budget that was resolved.
Excused == lost /\ overlooked

\* While the budget file can be read, nobody changes the budget under a live
\* request, and the requests of live owners never hold more leases than it,
\* whatever crashes, hand-overs and unreadable requests happen.  Once the file
\* was unreadable the budget was configured anew beside sessions that keep
\* the old one: the leases are then bounded by the largest budget resolved
\* (ResolveEffectiveBudget, AcquireInternal, Create, PruneEntries).
WithinBudget ==
  /\ lost \/ budget = ceiling
  /\ Cardinality(LiveLeases) <= ceiling \/ Excused

\* Why: every open session is guarded, has a request and works with a budget
\* that was resolved since the directory was empty, the one of the file as
\* long as that was never unreadable.
SlotInv ==
  /\ \A s \in Session : local[s].phase = "open" =>
       /\ s \in guard
       /\ request[s].requested > 0
       /\ budget > 0
       /\ local[s].effective <= ceiling
       /\ lost \/ local[s].effective = budget
  /\ \A s \in guard : local[s].phase \in {"open", "closing"}
  /\ \A s \in Session : request[s].requested = 0 => request[s].tokens = {}
  /\ WithinBudget

\* The workers that believe they hold a slot never outnumber the largest
\* budget in force: the promise of the coordinator to the machine.
RunningWithinBudget == Cardinality(RunningWorkers) <= ceiling \/ Excused

\* A lease a worker is using, or a child was handed, stands in the request
\* file of its own live session: nobody else's step can have taken it away.
LeasesBacked ==
  \A s \in Session : local[s].phase = "open" =>
    /\ s \in guard
    /\ request[s].requested > 0
    /\ \A w \in Worker :
         <<s, w>> \in RunningWorkers =>
           local[s].leases[w] \in request[s].tokens
    /\ local[s].inherited # NoToken =>
         \/ local[s].inherited \in request[s].tokens
         \/ \E w \in local[s].delegated :
              local[s].leases[w] = local[s].inherited
         \/ "failed_write" \in Faults

\* One token names one grant: no two live requests share a lease, no two
\* workers of a session do, a pending delegation names a lease of the same
\* request, one lease has at most one, and its token is not yet a lease.
TokensUnique ==
  /\ \A s, t \in guard :
       s # t => request[s].tokens \cap request[t].tokens = {}
  /\ \A x, y \in RunningWorkers :
       x # y => local[x[1]].leases[x[2]] # local[y[1]].leases[y[2]]
  /\ \A s \in guard : \A d \in request[s].delegations :
       /\ d.lease \in request[s].tokens
       /\ \A e \in request[s].delegations : e.lease = d.lease => e = d
       /\ \A t \in guard : d.token \notin request[t].tokens

\* A slot is one grant and a grant is one slot: every worker that runs has a
\* lease of its own, recorded in the request of its own live session, whatever
\* hand-overs, crashes and unreadable files happened.
GrantsAreSound == RunningWithinBudget /\ LeasesBacked /\ TokensUnique

\* The request directory implements a pool of slots: its capacity is the
\* budget of the file, or the largest one since that was unreadable.
Pool == INSTANCE SlotPool WITH Slot <- Session \X Token,
  Capacities <- Budgets, capacity <- ceiling, taken <- LiveLeases
PoolSpec == Pool!Spec
=============================================================================
