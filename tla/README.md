# Verification of LWPT in TLA+

The repository holds two programs. LWPT itself is a Pascal package toolkit that
many processes of one user run at the same time: several `lwpt build`, `lwpt
test` and `lwpt install` share a worker budget, a cache and producer leases, an
install changes a project in place, and any of them may be killed. The delivery
tooling is a set of Python scripts under `.agents/skills` that several agents
run beside each other and beside GitHub: they wait for checks and reviews,
answer reviews, trigger them, keep a ledger, and guard what is published. What
is hard about both is not one function but the protocol between processes, or
between a process and a service that moves on while it is read. These modules
model the protocols, TLC checks them on small instances, and TLAPS proves what
matters most for every size.

## The system

| component | state | operations | hard behaviour |
|---|---|---|---|
| Worker budget (`LWPT.WorkerBudget`) | budget file, queue sequence, one request file and owner guard per session | open, acquire, poll, time out, release, delegate, inherit, cancel, destroy, repair | crash with leases, hand-over to a child, unreadable files, FIFO order |
| Producer lease (`LWPT.ProducerLease`) | guard file, record lock, state file, process-local list | try acquire, heartbeat, release, retire, repair | threads and processes at once, renamed directories, crash |
| Shared production (`LWPT.Install`, `LWPT.Command.Build`) | the store, one lease per key | look up, wait, take over, produce, publish | a producer that dies or fails, publication just before take-over |
| Install lock (`LWPT.InstallLock`) | lock file, its record lock and owner record | create, own, release, reclaim | repair beside a starting or stopping owner, filesystems without record locks |
| Install transaction (`LWPT.Install`, `LWPT.Core`, `LWPT.Command.Repair`) | transaction root with state and commit markers, retained copies, modules, archives, `lwpt.lock`, `lwpt.cfg`, manifest | publish, roll back, commit, recover | crash between any two file operations, failing rollback |
| Shared cache (`LWPT.CacheLifecycle`, `LWPT.ObjectStore`, `LWPT.BuildCache`) | objects, references, ledger, mutation guard, object guards | admit, store, materialize, evict, repair | lock order, eviction beside use, ledger that drifts |
| Build sessions (`LWPT.BuildSession`) | session directories, owner guards, published outputs | stage, publish, discard, repair | concurrent publications of one output, crash |
| Build scheduler (`LWPT.Command.Build`) | jobs, their leases and waits | schedule, wait for a peer's result, publish | slots held while waiting, cancellation |
| Test scheduler (`LWPT.Command.Testing`) | threads, queue of tests, results | start, delegate, collect, cancel | child processes and their leases, cancellation |
| Process tree (`LWPT.ProcessTree`, `LWPT.ProcessRunner`) | children, groups | spawn, signal, reap | cascading cancellation |
| Resolution (`LWPT.Resolver`, `LWPT.Install`) | graph of versions | fixed point | termination, one version per name |
| Registry uploads (`LWPT.Registry.Incoming`) | reservations, completed entries, a lease per upload | admit, receive, complete, abandon, reclaim, expire, adopt | budget against interleaved admissions, death with a reservation |
| Registry origin (`LWPT.Registry.Store`) | records, snapshots, checkpoints, renewals, rotations, keys, the pointer | publish, yank, rotate, renew, recover | crash between any two writes, readers without a lease |
| Registry administration (`LWPT.Registry.Tokens`, `.Audit`, `.Publication`) | tokens, quotas, log | authorise, account | several servers on one store |
| Registry mirror, consumer, publisher | snapshots, accepted checkpoints | synchronise, verify, accept, retry | rollback and equivocation, lost answers |
| Semver, formatter, archives, manifests, drivers, transport, command line | none shared | text and byte transformation | sequential |
| State lock, wait loop (`delivery-wait/scripts/kgr_github.py`) | `<state>.lock`, checkpoint file, digest, deadline | lock, observe, write, report, sleep, cancel | kill between any two calls, lock files of the dead, a change written and not reported |
| Delivery wait (`delivery_wait.py`) | checkpoint, the gate's last observation | check contexts, workflow census, verdict | lists read in several requests while jobs and suites come, run and are re-run |
| Review observation and wait (`review_observation.py`, `review_wait.py`) | checkpoint | two readings of all pages, order of evidence, verdict | pages change between reads, stamps of one second |
| Stack state (`stack_state.py`) | checkpoint, expected snapshot | four reads, comparison, verdict | members and base move between the reads |
| Review mutations (`review_mutations.py`) | checkpoint of the operation | reply once, resolve and read back | lost answers, a listing that lags, retries beside each other |
| CodeRabbit adapter (`coderabbit_adapter.py`) | trigger lock, nothing saved | read evidence, decide, trigger, sleep | a reviewer that refuses, pauses, skips, loses reviews; bounds counted from evidence |
| Event ledger (`event_ledger.py`) | a JSON-lines file under an flock | ingest, validate, summarize | overlapping batches, writes cut short, samples out of order |
| Publication guard (`publication_guard.py`) | index, worktree, text files, map of placeholders under a lock | scan, rewrite, save | runs in several worktrees, answers that fail half way |
| Stack push guard (`stack_push_guard.py`) | admission, guard directory, receipt | approve, prepare, hook, push | everything moves between approval and push; branches move one by one |
| Prose check (`prose_check.py`) | none | scan a text | sequential |

Interactions. Every command that compiles opens a worker-budget session; a
process that runs `lwpt` below it is handed a lease by a delegation token in its
environment. A miss in the shared cache takes the producer lease of the object's
key before it produces the object. Install and repair take the install lock of
the project; repair then recovers the install transaction.

The waits of the Python tooling share one loop and, like the replies, one kind of
lock beside their checkpoint; everything else they share with each other is on
GitHub. The guards of a publication share the repository and the map of
placeholders, not each other's state.

Order of the locks. A client that stores a build result holds the producer lease
of its fingerprint, then the guard of the artifact, then the guard of the result
manifest, then the mutation guard of the cache; the holder of the mutation guard
only tries object guards. The worker lease of a compilation is given back while
its process waits for another one's result. In a registry origin the order is the
lease of an upload, then publication, then the guard of `incoming/`; an admission
that needs publication gives its upload lease up first.

## Modules

| module | of | models |
|---|---|---|
| `WorkerBudget` | `LWPT.WorkerBudget` | sessions, requests, queue, leases, delegation, crash, repair |
| `SlotPool` | - | abstract specification: a pool of slots |
| `ProducerLease` | `LWPT.ProducerLease` | guard file, record lock, local list, state file, retirement |
| `SharedProduction` | `LWPT.Install`, `LWPT.Command.Build` | clients that miss one object, on top of `ProducerLease` |
| `InstallLock` | `LWPT.InstallLock` | lock file, record lock, owner record, reclamation |
| `ProjectTree` | `LWPT.Install` | the files an install owns, and what a graph makes of them |
| `AtomicInstall` | - | abstract specification: one installed graph after the other |
| `InstallTransaction` | `LWPT.Install`, `LWPT.Core`, `LWPT.Command.Repair` | retention, publication, commit, rollback, recovery |
| `SharedCache` | `LWPT.CacheLifecycle`, `LWPT.ObjectStore`, `LWPT.BuildCache` | objects, references, index, ledger, eviction, repair |
| `RegistryUpload` | `LWPT.Registry.Incoming` | uploads before a commit refers to them |
| `RegistryOrigin` | `LWPT.Registry.Store` | commits, renewals and recovery of the origin, on top of `RegistryUpload` |
| `StateLock` | `kgr_github.py` | the lock file beside a checkpoint |
| `ReviewReply` | `review_mutations.py` | reply and resolve, on top of `StateLock` |
| `TransitionWait` | `kgr_github.py` | the wait loop, its checkpoint, signals and deadline |
| `CheckContexts` | `delivery_wait.py` | the verdict on named checks, on top of `TransitionWait` |
| `WorkflowCensus` | `delivery_wait.py` | the census of all workflows and its gate, on top of `TransitionWait` |
| `ReviewCensus` | `review_observation.py`, `review_wait.py` | the double reading and the order of evidence, on top of `TransitionWait` |
| `StackSnapshot` | `stack_state.py` | the four reads and the comparison, on top of `TransitionWait` |
| `DeliveryWait` | - | the composition: one loop over each of these observations |
| `CodeRabbitDecision` | `coderabbit_adapter.py` | `decide()`, without state |
| `CodeRabbit` | `coderabbit_adapter.py` | `run` beside CodeRabbit and people |
| `EventLedger` | `event_ledger.py` | ingestion, validation and counters |
| `PublicationGuard` | `publication_guard.py` | rewriting of private references |
| `StackPush` | `stack_push_guard.py` | a stack push bound to an admission |
| `WorkerBudgetProofs`, `SharedCacheProofs`, `InstallProofs`, `AddressFeedbackProofs`, `DeliveryWaitProofs`, `EventLedgerProofs`, `PublicationProofs`, `RegistryOriginProofs` | - | theorems |

`SharedProduction` extends `ProducerLease`: a client is one of its threads, and a
step of the lease is a step of both. `InstallTransaction` extends `ProjectTree`
and implements `AtomicInstall`; `WorkerBudget` implements `SlotPool`. The `MC`
modules give the sets of an instance. `RegistryOrigin` extends `RegistryUpload`:
commits and uploads share the publication lease, the guard and `completed`.
`DeliveryWait` extends the loop and its four observations; a behaviour is about
one kind of wait. `MCPublication` puts the two guards of a publication beside
each other.

Definitions named "Seeded fault" are not part of any specification: each is a
variant of the definition it stands before, with a plausible bug, and the
property it is paired with in `PROJECT.json` must fail when it takes that
definition's place.

### How the state and the actions correspond to the code

**Worker budget.** The directory `budget`, `sequence`, `request`, `guard` is what
is on disk, `local` is the session object of each process, `environment` the
token its environment carries. Every read-modify-write of the directory runs
under one state lock in the code (`WithStateTransaction`), so a transaction is
one action; everything between two transactions is interleaved. `Create`,
`Inherit`, `RejectInherited`, `PollAcquire`, `Acquire` (one action per pass of
its loop), `Timeout`, `Release`, `CreateDelegation`, `CancelPendingDelegation`,
`Destroy`, `Snapshot` and `RepairWorkerBudget` are the operations. `Faults`
switches on what the code tolerates: a request file that cannot be read for a
moment (`misread`), a budget file that cannot (`lost_budget`), a write that fails
while a lease object is destroyed (`failed_write`), a lost queue sequence
(`lost_sequence`), and a parent that frees a lease while its delegation is
pending (`early_release`). The run has all but the lost sequence, which only the
order of the queue depends on; the theorems hold for every set of faults.
`ReadBudget` takes an unreadable file for a missing one, so that
`ResolveEffectiveBudget` configures the budget again beside live leases, and
`ConservativeUnreadableEntry` may count a placeholder by another budget than the
one in force (`PlaceholderCounts`). What that did is kept in histories no code
reads: `ceiling`, the largest budget since the directory was empty, `lost`, that
the file was unreadable since then and another budget taken, and `overlooked`,
that a slot was granted beside an unreadable request. Times, process
identifiers and the display fields are left out, and the ranges of tickets are
cut off by `MaxTicket`. Tickets that tie are served in any order.

**Producer lease.** One action is one system call another process can see: make
the directory, open `owner.guard`, lock it, write or remove the state file,
close. `file` is the inode a thread has open and `path` the inode the name has
now, so a renamed directory leaves threads with a detached file. `registered`
is `LocalGuardPaths`, without which two threads of one process would share one
`fcntl` lock. Each call on the way may raise (`DirectoryFails`, `OpenFails`,
`LockFails`, `WriteStateFails`); the last leaves a lease that is freed again.

**Shared production.** `task` is where a client is in the loop of
`WaitForSharedArchive`: look up, contend, poll, look again under the lease,
produce, publish. The variant around a compilation is the same protocol; the
worker lease it gives back while it waits is not part of it. Any call may raise:
a lookup or a second look (`LookupFails`, `RecheckFails`), or the directory,
guard, record lock or state file of the lease (`AcquireFails`, with the failing
calls of `ProducerLease`). The code then warns, frees the lease it may have
(`Retreat`) and fetches without one. `stored` says whether the first publisher
had the lease or was such a client.

**Install lock.** Again one action per system call. `Unsupported` are processes on
a file system without record locks. `DeleteByHand` is the user who follows the
advice of the error message.

**Install transaction.** `disk` is the content of every path of the project:
manifest, lock file, cfg, and per package its module tree and archive. The
rollback root is `pending`, `committed`, `sidecar` and `backup`. `phase` is where
the running command is; a command is killed (`Crash`) between any two changes of
the file system. Steps, restores and deletions may fail, and commands may be
killed (`MaxFaults` together). `undone` is a history of the two ways in which a
committed transaction is taken for an unfinished one: its cleanup raises, or a
kill takes the mark of a committed root and leaves the root. The content of
an archive is told by its ref. The order in which entries are restored is any.
The directory of registry proofs (retained and swapped as a module is),
`--offline`, `--frozen`, and the `.old` residue of `AtomicMoveDir` are left out.

**Shared cache.** `object` is what each path of the object store holds, `reference`
what each fingerprint refers to, `index` the recency index (a rebuilt entry has
no recency), `ledger` the usage ledger together with whether it was recorded
against the index that is there. `mutation` and `guard` are the locks, `job` the
operation of each client, and `batch` the walk of whoever evicts or verifies. An
object, a reference, a staging directory and a quarantined file are one unit of
bytes; control manifests, index and ledger are none, so a touch that needs room
for the index is a choice. `cutShort` and `corrupted` are histories. Dependency
archives are objects without references and not told apart. Symbolic links,
deletions that fail, references whose text is invalid, walks that cannot be
finished, and control manifests are left out. The branch of
`RepairCorruptObjectLocked` that restores a verified object from quarantine
cannot be taken while the object guard is held. An index is taken never to have
an identity it had before; the code's comment allows for one tick of the clock.

**Registry uploads.** `part` is what is reserved under `incoming/`, `completed` what
waits under `incoming/sha256`, and whether it expired; `publication`, `guard` and
`owner` are the holders of the three kinds of leases, which `ProducerLease`
models step by step and this module takes as locks that die with their holder.
`staging` is where each request is in `Admit` or in the life of its
`TLWPTRegistryUpload`; an admission scans completed entries and reservations in
two steps, as the code does. The bytes of an upload are its length, and an
upload that has all of them hashes to its digest or does not. Waiting is left
out: a wait that is over (`AdmitBusy`, `ExpireBusy`, `GiveUpPart`) may be over at
any time another process holds the lease.

**Registry origin.** Each variable is a directory of the store. A document named
by its hash is its own name, and since the hash of a snapshot covers the hash of
the one before, a snapshot is the sequence of its history and its number the
length. `commit` is where each command or request is between taking the
publication lease and replacing `state/current.toml`; every write is an action,
and so is every file that `RecoverDerivedState` removes. Times are numbers:
`RenewalAge` is when a renewal is due, and the five minutes a client's time may
differ are equality. `MaxSnapshots` is the verification limit of the code;
`MaxKeys` and `MaxOperations` only bound the model. The seed of a key and its
document are one write. Indexes are left out, since nothing reads them.
`Initialize` gives the initial state; `Publish` has no caller but tests.

**State lock.** `lock` is the file `<state>.lock`, which can be there without its
text, and `pc` where each invocation is between the system calls of
`__enter__` and `__exit__`: create, write, read, probe the pid, read again,
unlink. `Kill` may come between any two. Process identifiers are not reused.

**Review replies.** `checkpoint` is the state file, `reply` what each invocation
posted, which a listing may not show yet (`Appear`). Each step of `reply()` is
one request or one write: look for the reply, check the head, save "posting",
post, confirm, save "confirmed". `ReadFails` is any request that fails; a POST
that fails may have been carried out, at once or later. `resolve()` takes no
lock and runs beside the replies; its thread may be reopened (`Reopen`).

**Wait loop.** `step` is where the running invocation is in
`wait_for_transition`; `checkpoint` is the file and `prior` the digest it was
loaded with. The observation is the modules' own; it comes back through
`Observed`, `ObserveRetries` or `ObserveRefused`. A digest is the
observation's key itself. `late` is that the deadline has passed, the only thing
the loop asks of the time; `stopped` is a signal that arrived. The last
observation at the deadline, the write before the report, and the sleep that is
cut to the deadline are steps of their own.

**Checks.** `contexts` is the one answer of the query, in any order;
`ChecksByName` is the pass of `checks_by_name` over it as a fold.
**Workflows.** `ReadRuns` and one `ReadJobs` per run are the requests of
`workflow_census`, between which GitHub may start, finish, extend and re-run
runs; `previous` is the gate. **Reviews.** `ReadNextPage` follows the cursor, so
that a thread deleted or opened meanwhile shifts the rest as it does there; two
readings are compared with their totals. Evidence has real times and stamps
of half the precision. **Stack.** `ReadStack`, `ReadBase`, `RereadStack` and
`RereadBase` are the four reads, of which one that returns fewer than two pull
requests is refused (`Parses`); `FirstInvalidated` is the comparison. The
histories in these modules (`green`, `reviewInstant`, `stackInstant`, `touched`,
`comings`) say what was true at one instant between the reads.

**CodeRabbit.** `Decide` is `decide()`, clause by clause in its order, over a
record of evidence. `ReadStatuses` and `ReadAndJudge` are the reads, in
the order of the code; `PostTrigger` posts and decides once more, on the same
evidence with the new trigger; triggers are ordered as the code sorts them
(`Precedes`); `SleepUntil` is the sleep until the decision can change. The rest is CodeRabbit
and people, as the adapter's comments take them to behave: it reviews, refuses
with a stated wait or without, pauses, skips, starts and loses the lock. The
bounds of the code (60 s to 12 h) are 1 or 2 units, in their order.

**Event ledger.** `file` is the sequence of lines, a line being whole, partial
or run into the next one. `Lock` to `Close` are the steps of `ingest`; one
action per line written. `ValidRun` is the validation of one run, `CountedFor`
its counters. An event's `values` are those of its counters and of the gauge,
each a number or null; a sample has a tool or none, and a snapshot stream counts
from zero or from its start. `stream` is source and stream id together.
`WriteFails` models that Python's buffered file still flushes when it is closed,
which is after the lock was given back.

**Publication guard.** A content is a set of references. `Scan` asks for the
visibility of everything staged, `TakeLock` reads the shared map under its lock,
and each file is rewritten in the index and then in the worktree, one action
each, before `Save` writes the map. `NoAnswer` is a question that Git or GitHub
cannot answer (exit 2), `Dies` a kill. `Publish` is the commit the guard was run
for. The names in a JSON file become placeholders even in words that elsewhere
are left alone (`Data`).

**Stack push.** `Approve` makes the admission, `Prepare` the guard directory,
`Advertise` is Git reading the remote, `Accept` and `Refuse` the hook, and
`ServerUpdate` the server moving one branch if it still is where it was read.
`Meanwhile` is everyone else.

## Runs

| run | instance | shows |
|---|---|---|
| `budget_safety` | 3 sessions, 3 tokens, budgets 1 and 2, 2 workers, 2 tickets, faults misread, lost budget, failed write, early release | the leases of live requests stay within the largest budget in force, running workers too; a lease has exactly one live request behind it; tokens are unique; the directory implements `SlotPool` |
| `shared_production` | 3 clients in 2 processes, 4 guard files, 1 crash, any call may fail; in a second initial state keys are retired at any time | clients with the lease produce one at a time and not what one of them has published, those without one had a call fail, nobody is stranded by a death; with retirement, one holder per guard file still |
| `install_lock` | 3 processes, one without record locks, 4 files | one owner, the path names its file, repair adopts only from the dead |
| `install_transaction` | 1 package with an archive, 1 ref, 2 faults: failing steps or restores and kills, fair | installs are atomic, old content is kept, the lock file describes the project, and what was interrupted is settled unless a copy was lost |
| `shared_cache` | 2 clients, 3 results of 2 fingerprints with 2 artifacts, budget 4 of the 7 units, 3 operations, 1 kill or corruption | references resolve whole results, whole results keep their reference, the ledger covers the tree, the budget holds, no circular wait |
| `registry_origin` | 2 uploads, 2 commits, 3 requests in all, 1 package, 2 archives of length 1, budgets of 2, 3 snapshots, 3 keys, 2 times | the pointer names a history that can be verified, heads follow each other lawfully, nothing committed goes, no commit meets remains, uploads stay in their budget and live ones are not reclaimed |
| `review_reply` | 3 invocations, 2 bodies | a reply is posted once unless two invocations shared the lock, that takes a kill, and "satisfied" is what GitHub has |
| `delivery_wait` | one wait of each kind, two on one file with kills and signals for named checks; 1 name from 2 sources with 2 suites; 2 runs, one re-run; 2 threads and 2 changes; 3 attempts in 5 half-seconds; an expected stack of 3 of 4 pull requests and 2 moves | what a wait reports was true, changes are reported unless a kill took them, every wait ends |
| `event_ledger` | 2 agents, 3 ingests of 15 batches, 2 counters, an old ledger | one line per event, valid runs, reported events stay, counters are what was measured |
| `coderabbit` | 2 invocations, 4 units of time, 2 events of CodeRabbit or people | every wait has a bound, no state changes during a sleep, "complete" is reviewed, triggers are answered before the next |
| `publication` | 2 worktrees, 2 files (one JSON), 2 private names, 2 written lines; 2 pushes of 2 branches, 2 URLs, 2 changes by others | nothing private is published, a placeholder is one repository, the map only grows; pushes move branches as approved |
| `publication_exit` | as `publication` | finding: exit 2 after a rewrite |

Why these bounds are enough. Two processes contend and a third one comes in
between: three sessions, clients or processes show every pairwise race together
with an intruder, and the theorems cover the other sizes. Two slots are the
least that tells the budget from mutual exclusion. Two tickets let two waiters
queue while a third session opens, dies or is overlooked; they are one too few
for more leases than the largest budget, which takes a third grant while budget
file and a request are unreadable (two sessions and three tickets reach it). The
theorems hold for any number. Four guard files are three threads that each
hold a detached one and a fresh one at the path. One package has every path an
install can touch, module and archive among them, and the gap between them. One
fault reaches recovery from any state it leaves, and the second one strikes that
recovery; two kills, the first while a committed root is wiped and the second
while the next command sweeps it, are also the least that lose a commit (`undone`). In the cache
three results are the least in which two fingerprints share an artifact while
one of them also has a second result, a budget of four makes the third
admission evict, and three operations are a store, its eviction by another one,
and a reader or repair between them. The ledger is trusted, dropped, brought up
to date and measured again within that.

In the origin three requests are a commit that dies, a second one that dies while
it removes what the first one left, and a third one that writes there again;
or two uploads and the commit that adopts one. Two archives fill the budget, and
they may be there, and expire, before the first upload.

In the Python tooling, two requests that disagree are enough to mix two moments,
and two changes are the least that can go away and back between two equal
readings, which is why the properties that compare readings name that exception
and the bound is two. The loop is explored over several waits on one checkpoint
with the observation that takes one request; with the others it runs once, since
the loop does not depend on the observation. Three invocations of a reply are
one that was killed and two that both find its lock. The fifteen batches hold
each kind of event that another one can contradict, twice in one batch, in a
later one, and in another run; nulls at the start, in the middle and at the end
of a stream, a start without a baseline, and samples with and without a tool.
Three attempts are the least with which two begin
in one second beside one that was accepted. The CodeRabbit bounds keep their order, and four
units let the longest of them pass twice.

Deadlock is not checked where a system may stop: sessions end, clients finish,
and operations run out. Symmetry is used in runs without liveness, over sets
that no definition tells apart.

## Fairness

`shared_production`
assumes that a client that is alive takes its next step (it sleeps 25 ms
between two polls); retirement, crashes and failing calls are not fair. The install runs
assume that a running command takes its next step and that, as long as a
repair can begin again and again, somebody runs it (strong fairness of
`Begin("repair")`); no step is assumed to succeed. `delivery_wait` assumes that
a wait's own steps go on, for which every request has a time limit and every
sleep an end, and that its deadline comes. It promises nothing of GitHub:
requests may fail for ever and nothing there need ever happen. The other runs
check safety only.

## Theorems

| theorem | says |
|---|---|
| `TypeCorrect`, `LeaseTypeCorrect`, `LockTypeCorrect`, `TransactionTypeCorrect`, `ReplyTypeCorrect`, `CacheTypeCorrect` | type correctness of budget, lease, install lock, install transaction, replies and cache |
| `BudgetHolds` | the leases of live requests never exceed the largest budget in force, the one in the file as long as that can be read |
| `PoolRefinement` | `WorkerBudget` implements `SlotPool`, losing the budget file included |
| `GrantsHold` | a slot is one grant and a grant is one slot |
| `GuardFilesAreExclusive` | one holder per guard file, whatever is retired |
| `OneProducerPerKey` | one producer per key, if no key is retired |
| `ConcurrentMissesProduceOnce` | concurrent misses run one production with the lease, and none of what one published, whatever calls fail |
| `StateFileIsTheProducers` | the state file of a key is its producer's own |
| `CacheStaysConsistent` | references resolve whole results, the ledger covers the tree, the budget holds |
| `WholeReferencesStay` | nobody invalidates a reference whose result is whole |
| `ClientsNeverWaitInACircle` | no clients of the cache wait for each other in a circle |
| `InstallLockExclusive` | one owner of the install lock, and the path names its file |
| `RepairAdoptsFromTheDead` | repair adopts only from a process that died |
| `InstallsAreAccountedFor` | the project is what the lock file describes, or recovery can make it so |
| `TransactionIsAtomic` | `InstallTransaction` implements `AtomicInstall`, unless a commit was undone |
| `PostsOnce` | one reply per operation, unless two invocations shared the lock |
| `SharedNeedsAKill` | two share that lock only after one was killed |
| `SatisfiedReplyIsThere` | a satisfied reply is listed, with its text |
| `PrivateNamesStayPrivate` | no private name is published |
| `PlaceholdersAreUnambiguous` | a published placeholder is one repository |
| `SavedMapOnlyGrows` | the saved map never takes a placeholder back |
| `PushesAreBound` | branches move only as approved for the URL, with a receipt |
| `ChangesAreReported` | a wait, of whichever kind, loses a change only by a kill |
| `SatisfiedWasGreen` | two equal all-green observations were true |
| `VerdictsAreCurrent` | a verdict on named checks is about the newest suites only |
| `ReviewsWereTrue` | what two equal readings say was so at one instant |
| `ReviewsAreTerminal` | reviews are done only by their last attempts, in real time |
| `StackSnapshotsHold` | accepted snapshots were true, and what they void is exact |
| `EventsAreOnce` | no event stands twice in the ledger |
| `LedgersValidate` | between two ingests the ledger validates |
| `ReportsStay` | what was reported stays in the ledger |
| `TotalsAreSound` | the totals of a run that validates are what its streams measured, nulls aside |
| `HeadsStayWhole` | what the pointer names is whole, and the way ahead of it is free |
| `HistoryIsAddedTo` | committed documents stay, and heads follow one another lawfully |
| `AdapterAsksOnce` | unless a listing lagged, runs ask again only after an answer |
| `AdapterReportsReviews` | "complete" is reviewed, and no silent review ran meanwhile |
| `AdapterWaitsAreBounded` | every wait for CodeRabbit has an end |
| `AdapterWakesInTime` | no decision changes before a run wakes |
| `AdapterKeepsInv` | the invariant of the adapter these rest on |
| `UploadsStaySound` | uploads stay in the budget, live ones are kept, commits find theirs |

They assume what the modules assume: finite sets of sessions and tokens,
positive budgets, `NoInode`, `Nobody`, `NoClient`, `NoToken` and `NoProcess`
outside the sets they are added to, run and job numbers (a run's own conclusion
counts as job 0), and for a push at least one URL and one commit. In a registry
origin uploaders do not commit, the value `None` is neither an upload nor a
renewal, there is at least one key, and the entries there are at first are
finitely many and within the budget. The names of checks and the repositories
are finite sets, what people write is a repository in one of two forms, there is
at least one thread, and the ledger starts as an ingest leaves one: valid events,
one per id, in runs that validate (`LegacyAssumption`). What an event holds of a
counter or the gauge is a natural number or null (`ValueAssumption`). The stack
that evidence was taken from is any sequence of pull requests
(`PacketAssumption`). For installs, a path that
names nothing and a torn tree are told from refs and graphs
(`ContentAssumption`). For the CodeRabbit adapter the four bounds are positive, in
any order, the interval, deadlines and stated waits are any natural numbers, and
`NoRun` is no run. In the shared cache the manifests are not artifacts,
objects and fingerprints are finitely many, and the band is no larger than the
budget; the number of clients, of operations and of faults is not bounded.

*Worker budget.* That the leases are at most `ceiling` is not inductive: a session
compares with the budget it resolved when it opened (`effective`). `SlotInv` adds
that an open session is guarded and present, that its effective budget is at
most the ceiling, and that it is the one in the file unless that was lost. A
transaction that finds no request starts the histories afresh, and then nothing
is taken (`NothingTaken`); one that finds some leaves the ceiling or raises it
(`BooksOfStep`). `LiveLeasesAre` reduces the leases to a set of pairs, `Shrinks`
shows once that a step that adds no lease is a step of the pool, and what is
left are the three steps that add one: a grant (`TryTakes`), a hand-over to a
child, and a child that dies half way through one. A grant finds a free slot
(`GrantableMeansFree`): the transaction counts every lease it can read and at
least the budget for a request it cannot. Only where that placeholder was counted
by another budget, or the session's own budget is no longer the file's, does the
count say nothing, and then both records were unreadable (`Excused`).

*Grants.* That every worker that runs has a lease of its own says nothing of
tokens on the way from a parent to a child. `GrantInv` follows each through
`delegated`, the pending delegation, the child's environment and its `inherited`:
at each place it is in one request at most, and no session names a token that
another one could still be handed.

*Producer lease.* The invariant says that an open guard is registered in its
process, one thread at a time, and that who passed the lock holds the record
lock of the file it opened. One holder per file follows from the record lock
between processes and from the registration within one. One producer per key
needs that the path always names the same file (`OneFile`), which holds exactly
while nobody retires: with retirement it is false, and a thread can be granted a
key on a detached file. That the state file is its producer's own follows from
what a thread may still do to it: between the lock and the close only.

*Shared production.* Where a client is in the loop agrees with where it is in the
lease (`ClientStepsAgree`): who looks again or releases holds it, and who
produces holds it or has none after a failure. One that produces with it has
looked since it got it (`ProducerLookedAgain`): what is published with a lease
meanwhile is published by its holder, and there is one (`ProducerIsAlone`).
Failing steps are steps of the lease as well (`ClientsTakeLeaseSteps`), so that
the invariant of the lease carries over.

*Shared cache.* The invariant has four layers. First the locks: where a job is in
its operation decides which objects it has guarded (`Must`, `May`) and whether it
holds the mutation guard (`UnderMutation`), and the victim of a batch is guarded
too. `NoCircularWait` follows from this layer alone, since a job that waits for
an artifact holds nothing, one that waits for a manifest holds at most its
artifact, and the holder of the mutation guard never waits. Second the objects: what a
store has found or published stays until it gives up, since it guards it
(`SecuredIsThere`), and what a materialization missed is still missing when it
invalidates (`InvalidIsBroken`, which gives `WholeReferencesStay`). Third the references:
nothing reaches an object that is about to be removed, and the edges of a batch,
once collected, cover every reference there still is (`BatchIsCollected`); a
reference is only written by a store that has secured both objects. Last the
counts: the ledger covers what was admitted together with what its holder has
entered and not made room for (`Entered`) and with the reference it is about to
write (`Pending`), and the budget has room for that reference from the answer on
(`Promised`). Only `AccountLedger`, `WriteReference` and the three answers of
`EnsureRoomLocked` (`TrustLedger`, `Measure`, `Settle`) need an argument of their
own; after any other step there is no more admitted than before
(`AdmittedShrinks`), which is where a published object that nobody counted
yet must stay its client's own, or be `cutShort` when that client dies. The recency
index enters none of this, and that its entries stay objects is left out of
`CacheTypeCorrect`: it is a filter over a sequence.

*Install lock.* Two owners have the file the path names open (`OwnerIsNamed`). With
record locks both hold its lock. A process without them created its file, and a
file whose creator is at work carries no marker, so nobody adopted it
(`Creators`, `Adopters`).

*Install transaction.* `Logical` is the project as recovery makes it: the old
content where an unsettled transaction has a sidecar, the disk elsewhere. A step
before the commit retains a path for the first time (`RetainEffect`) or changes
one that is retained (`PutEffect`), and leaves `Logical` alone; so does every
restore, since it ends with the recorded content in place, and every sweep,
since it follows a restore that left nothing out (`RestoredSoFar`) or a commit.
`Commit` alone switches `Logical` to the disk. That the disk is then what
`Installed` says (`CommitInstalls`) is what the phases hand on: each package of the
graph is in place (`Placed`), lock file, cfg and manifest are written (`Written`),
orphans are retained and gone (`OrphansPruned`), and the retained paths are the
heads, the plan and the orphans and no others, so that the rest of the project is
what it was. The invariant holds for any number of faults as long as no commit
was `undone`. Commands run one at a time in this model: that is
`InstallLockExclusive`.

*Review replies.* That one reply was posted is not inductive. `Inv` adds what the
code relies on while invocations are inside the lock one at a time (`Alone`):
what was posted left a checkpoint (`Recorded`), since it is saved before the
POST, and an invocation on its way to the POST found none and had nothing to
find (`Clear`). `shared` is a history of the only way out:
as long as nobody was killed inside the lock, the file names who is inside, and
a waiter removes it only if its owner is gone (`LockInv`). A satisfied reply is
there because every path to "satisfied" reads the listing under the lock and
finds it, and a listed reply stays (`ListedInv`).

*CodeRabbit.* What `decide()` says of fixed evidence is argued clause by clause:
its answer stays until the time it names (`DecisionStays`), which with the choice
of the sleep gives `WakesInTime`; once the longest bound has passed since the last
thing the evidence tells it is final or permits (`DecisionSettles`). That the
latest trigger and the maxima of times are among the evidence rests on a lemma
on finite ordered sets (`GreatestExists`). That runs ask once is not inductive. The
invariant adds that one run works at a time (`HolderWorks`), that records come in
the order of their times (`RecordsInOrder`), that what a run read first is a prefix
of what is recorded later (`ReadIsPrefix`), that a run knows its own triggers
(`OwnAreKnown`), and that on its way to the POST it has in its evidence every
trigger of every run, each of the cycle answered by a status (`AsksWhenAnswered`,
from `PermitMeans`): the cycle may only move on between the reading and the POST,
and statuses are never taken back. For "complete", a review that has stated
nothing shows among the statuses as one that has not ended and began after any
findings (`SilenceShows`), unless a skip for another pull request lost its cause
(`misled`); whoever read the statuses while it ran has it in its evidence
(`SilenceWasRead`), and `CompletedMeans` excludes that.

*Publication guard.* From its scan on, what a run has still to publish names only
repositories it found private, in files it is still to rewrite (`CheckedIn`), as
long as nobody touched them (`fresh`). For the placeholders, all lines
everywhere agree with one map (`PlaceholdersAgree`): the saved one, or that of
the run inside the lock once it has rewritten something; the run's extends the
saved one (`RunShape`). A run that ends after a rewrite and before its save is
the exception, and `torn` records it.

*Stack push.* What a push holds was admitted together with the URL it then
resolves (`Admitted`), and one that reached the update passed the hook: its URL
is the admitted one and a receipt names what is left to move (`Bound`).

*Waits.* While nothing is killed, the checkpoint and the digest that a wait
compares with are what the caller was told of, but for the step between the
write of an observation and its report (`Told`); the four observations enter
only through what they may do to the loop (`Reading`, `Ends`).

*Named checks.* `ChecksByName` is a fold over the answer in whatever order it
comes. What it keeps of each prefix of the answer is, for every source, a newest
suite (`NewestOf`); the least prefix for which that failed would have to be one
context longer than one for which it held.

*Workflow gate.* Attempts only grow, and a run that has ended stays so in its
attempt. An observation that looks all green and was not true when complete
missed a newer attempt (`Missed`); the next one begins later, sees it, and
differs (`CensusInv`). `AllGreen` itself is only unfolded.

*Stack snapshot.* Without comings and goings heads and marks only grow
(`Later`), so that two equal reads of the stack pin what it was between them; a
single coming or going changes the length (`ReadsAre`). The comparison, with an
expected stack of any length, is decided at the least position where the two
differ (`ComparisonIsSound`).

*Reviews.* Pages are read by a cursor, while threads come, go and change. The
invariant follows each thread through both readings: what a reading has is there
or was touched since, and what is there untouched it has or will have. Two equal
readings with no thread touched twice are then the connection as it was between
them (`FirstPages`, `BetweenReadings`, `SecondPages`); their order is that of
creation. Of the attempts, stamps follow the times, so that the last ones by
time are among the last by stamp (`LastAreOver`).

*Event ledger.* One invariant carries the theorems about the file. While an agent writes,
`Writing` says what it owes the file: the rest of its batch is new to it, the file
with that rest validates, and both together hold the batch. Writes outside the
lock come only after a failed one (`LateIsCut`). That a batch of new events is
listed once each (`Fresh`) and that a run accepted whole is accepted as part of
the ledger are lemmas of their own. The totals are a fact about any finite set of
valid events, which the lines of the file always are (`AlwaysFinitely`). In a
stream that validates, the sequence numbers 0, 1, 2... put each sample in its
place (`InOrderIs`). Deltas add up sample by sample, nulls as zero
(`DeltasAddUp`). Of a snapshot counter the sum up to a place is its last value
known there (`LastPlace`) less the first one, or less nothing when it counts from
zero (`SnapshotsAddUp`), and since known values never fall these are the least
and the greatest (`SnapshotsRange`). A sum over the tools of a run is regrouped by stream
(`StreamOfTools`, `SharesAddUp`); samples without a tool stay a part of their own.

*Registry origin.* Past the reading of the head, whoever commits holds the
publication lease (`Held`), so that the head it works from is the one the
pointer names (`ReadIsCurrent`), and nobody else is past that reading. Documents
by sequence exist at most one past the head (`OneAhead`); pruning ends with
nothing there (`NothingAhead`), for a rotation because its record goes last.
From there each write adds one document of the commit's next head
(`WrittenSoFar`, `Decided`), which is whole when the pointer is switched
(`NewHeadIsWhole`); a commit that dies leaves only documents past the head, and
no step touches others (`Grows`). The induction is over steps: `HistoryIsWhole`
speaks of all sequences, and a switch adds one and keeps the others, since no
rotation past a sequence changes the key in force at it (`KeysStay`).

*Registry uploads.* That uploads fit is not inductive: an admission counts entries
it listed earlier. `UploadInv` adds that this listing is under the guard
(`GuardsScan`), that nothing comes under `incoming/` without it, so that what was
listed is all there is (`ScanIsWhole`), that a reservation is of the length its
owner declared and belongs to whose lease is held (`HoldsOwn`), and that who
sweeps holds the publication lease (`SweeperPublishes`), which is why nobody
takes an entry from a commit between its decision and `Adopt`. The budget is a
sum over a finite set, defined by choosing elements one after another; that it
does not depend on the choice (`TotalByElement`) is shown on a smallest set for
which it would.

For the components of the first line of the table the type invariant is the
theorem and not a property of a run.

Every safety invariant and action property of the runs is stated by a theorem;
only model-checked are the liveness properties: fairness and `ENABLED` are out of
the prover's reach. The library's induction
theorems take an operator and cannot be used either; where a fold or a sum over
data had to be reasoned about (checks, batches, budgets), the proof takes a
least counterexample, which the well-foundedness of the numbers gives (`WFMin`).
No module uses `RECURSIVE`.

## Findings

One statement of the repository is not what the code does, and is a run of its
own that fails, with the statement quoted in `PROJECT.json`: the publication
guard says that exit 2 changed nothing, but a command that fails for a second
file comes after the first one was rewritten and staged (`publication_exit`,
`publication_guard.py:888` against its lines 14-16 and `git-workflow/SKILL.md:128`).

Other steps of the code are in the models and are why a property carries an
exception:

- A release whose own request file cannot be read for a moment succeeds and
  leaves its slot taken (`LWPT.WorkerBudget.pas:1902`; `docs/adr/0021` line 63
  calls release retry-safe). `GrantsAreSound` asks that every worker's lease is in its request, not the reverse.
- A budget file that cannot be read in one transaction counts as missing: the
  budget is configured anew beside live leases, and a smaller or larger one is in
  the file from then on (`LWPT.WorkerBudget.pas:1358`, 1429). `WithinBudget` is about the
  largest budget resolved since the directory was empty, and names the grant that
  overlooks an unreadable request besides (`Excused`).
- A lookup or a lease that raises makes a client fetch without the lease, beside
  its holder (`LWPT.Install.pas:926`). `ProducedOnce` is about those that have it.
- A producer lease can be granted on a guard file that was retired between open
  and lock, so two producers hold one key (`LWPT.ProducerLease.pas:286`;
  `docs/adr/0038` line 18). `KeptKeyHasOneProducer` is about keys nobody retires. The
  install lock, which is built alike, compares handle and path after it locked.
- A command killed between moving a copy back and deleting its sidecar leaves a
  transaction that no repair settles (`LWPT.Core.pas:2060`; `docs/contributor/tooling.md`
  line 350). `PendingIsRecoveredUnlessLost` names it (`CopyLost`).
- A recovery killed while it wipes a committed root can leave a root that reads as
  pending (`LWPT.Install.pas:2160`, `LWPT.Core.pas:1818`), and a cleanup that raises after
  the commit restores lock file, cfg and manifest although the modules stay
  (`LWPT.Install.pas:6843`). `undone` records both.
- Two invocations that find the lock file of a dead one can both get in: the
  second one's unlink removes the first one's new file
  (`kgr_github.py:221`). `PostsOnceUnlessShared` names it, and
  `SharedOnlyAfterAKill` says what it takes. An invocation killed between
  creating the file and writing its pid blocks all later ones.
- A wait killed between the write of its checkpoint and its report loses the
  change (`ChangeReportedUnlessKilled`).
- A ledger write that fails half way is continued by `close()` after the lock is
  gone (`flushedLate`); a killed one leaves half a batch (`cut`).
- A placeholder is handed out again when a run ended after a rewrite and before it
  saved the map (`torn`).

## Not modelled

Whole components. Build sessions, the build and test schedulers, process trees
and dependency resolution work inside one process, or clean up after it; what
they share with other processes (worker budget, producer leases, cache) is
modelled, so that a model of them would be about their own sequential code and
the operating system. The registry's administration, server, mirror, consumer
and publisher stand around the origin store, which is modelled without them.
The formatter, duplication and health analysis, the prose check, semantic
versions, archives and git transport, manifest text, compiler drivers, transport
and cryptography, command line and rendering transform text or bytes
sequentially, keep no state between calls, and are tested directly: a model
would restate them.

The order of the worker queue and the progress of those who wait in it are
in `WorkerBudget` (tickets, polls, time-outs) and not in a property of a run.

Parts of modelled components. Install transaction: the directory of registry
proofs, `--offline`, `--frozen`. Shared cache: control manifests, links,
incomplete walks. Registry origin: indexes, read views, streaming. Delivery
wait: `pr-merged`, `workflow-terminal`, `tag-target`, `release-assets` and
`wake-at`, which compare one answer with a constant in the same loop; the REST
fallback; named checks and all workflows at once. Reviews: policy files, which
are parsed text; top-level comments and review bodies, which count as threads
do. CodeRabbit: how evidence is found in texts, edit histories and timelines;
the `status` command, which only reads. Event ledger: presence and types of
fields, the summary of gauges, models and waits, which get shares as tools do, and
values with fractions. Publication guard: local paths, numbers, SHAs
and gists, which are other entries of the same map; files that cannot be
decoded, which the guard cannot inspect, lists in a warning and lets pass with
exit 0 (`publication_guard.py:717`, 949), so that `NothingPrivateIsPublished` says
nothing of them; the outgoing operation, whose history is only warned about; the
syntax of references.
