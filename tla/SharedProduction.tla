-------------------------- MODULE SharedProduction --------------------------
(***************************************************************************)
(* Concurrent misses of one immutable object: WaitForSharedArchive and the *)
(* fetch around it (src/source/LWPT.Install.pas), and the same protocol    *)
(* around a compilation (src/source/LWPT.Command.Build.pas).               *)
(*                                                                         *)
(* A client looks the object up, contends for the producer lease of its    *)
(* key, polls the store while another client holds it, looks again once it *)
(* holds the lease itself, and only then produces and publishes.  The      *)
(* lease is that of ProducerLease, step by step.  Whatever raises on the   *)
(* way there is a warning only: the client lets go of the lease it may     *)
(* have and produces alone, so that the lease saves work and no more.      *)
(***************************************************************************)
EXTENDS ProducerLease

CONSTANT MaxCrashes     \* bound: processes that die in a behaviour

ASSUME CrashesAssumption == MaxCrashes \in Nat

VARIABLES
  task,         \* where each client is
  stored,       \* whether the store has a usable object, and whether its
                \* first publisher had the lease or was alone
  crashes

vars == <<leaseVars, task, stored, crashes>>

Task == {"lookup", "acquire", "poll", "recheck", "produce", "release",
         "retreat", "served", "failed", "dead"}

ProductionTypeOK ==
  /\ TypeOK
  /\ task \in [Thread -> Task]
  /\ stored \in {"absent", "leased", "alone"}
  /\ crashes \in 0..MaxCrashes

ProductionInit ==
  /\ Init
  /\ task = [t \in Thread |-> "lookup"]
  /\ stored = "absent"
  /\ crashes = 0

Stored == stored # "absent"

Becomes(t, there) == task' = [task EXCEPT ![t] = there]

\* Seeded fault: a waiter only polls the store.
LookupOnly(t) ==
  /\ task[t] \in {"lookup", "poll"}
  /\ Becomes(t, IF Stored THEN "served"
                ELSE IF task[t] = "poll" THEN "poll" ELSE "acquire")
  /\ UNCHANGED <<leaseVars, stored, crashes>>

\* Materialize copies the object when the store has it.
Lookup(t) ==
  /\ task[t] \in {"lookup", "poll"}
  /\ Becomes(t, IF Stored THEN "served" ELSE "acquire")
  /\ UNCHANGED <<leaseVars, stored, crashes>>

\* Materialize raises.  FetchToCache asks for the lease all the same when it
\* has not yet, and a compilation goes on alone; so does whoever waits.
LookupFails(t) ==
  /\ \/ task[t] = "lookup" /\ Becomes(t, "acquire")
     \/ task[t] \in {"lookup", "poll"} /\ Becomes(t, "produce")
  /\ UNCHANGED <<leaseVars, stored, crashes>>

BeginAcquire(t) ==
  /\ task[t] = "acquire"
  /\ EnsureLeaseDirectory(t)
  /\ role'[t] = "lease"
  /\ UNCHANGED <<task, stored, crashes>>

\* Seeded fault: a client that takes the lease over does not look again.
AfterAcquireBlind(t) ==
  CASE step'[t] = "holding" -> "produce"
    [] step'[t] = "idle" -> "poll"
    [] OTHER -> "acquire"

\* The lease is there, somebody else has it, or TryAcquire is not through.
AfterAcquire(t) ==
  CASE step'[t] = "holding" -> "recheck"
    [] step'[t] = "idle" -> "poll"
    [] OTHER -> "acquire"

Acquire(t) ==
  /\ task[t] = "acquire"
  /\ Acquiring(t)
  /\ Becomes(t, AfterAcquire(t))
  /\ UNCHANGED <<stored, crashes>>

\* TryAcquire raises: the client goes on alone, once the lease it may have
\* got that far with is freed.
AcquireFails(t) ==
  /\ task[t] = "acquire"
  /\ AcquiringFails(t)
  /\ Becomes(t, IF step'[t] = "idle" THEN "produce" ELSE "retreat")
  /\ UNCHANGED <<stored, crashes>>

Recheck(t) ==
  /\ task[t] = "recheck"
  /\ Becomes(t, IF Stored THEN "release" ELSE "produce")
  /\ UNCHANGED <<leaseVars, stored, crashes>>

\* The second look raises: the lease is freed before the client goes on.
RecheckFails(t) ==
  /\ task[t] = "recheck"
  /\ Becomes(t, "retreat")
  /\ UNCHANGED <<leaseVars, stored, crashes>>

Retreat(t) ==
  /\ task[t] = "retreat"
  /\ Releasing(t)
  /\ Becomes(t, IF step'[t] = "idle" THEN "produce" ELSE "retreat")
  /\ UNCHANGED <<stored, crashes>>

Heartbeat(t) ==
  /\ task[t] \in {"recheck", "produce"}
  /\ TouchHeartbeat(t)
  /\ UNCHANGED <<task, stored, crashes>>

Published(t) ==
  IF Stored THEN stored
  ELSE IF step[t] = "holding" THEN "leased" ELSE "alone"

\* The download or the compilation succeeds and is admitted, or the client
\* leaves the store as it was.  One without a lease is through here.
Produce(t) ==
  /\ task[t] = "produce"
  /\ stored' \in {stored, Published(t)}
  /\ Becomes(t, IF step[t] = "holding" THEN "release"
                ELSE IF stored' # "absent" THEN "served" ELSE "failed")
  /\ UNCHANGED <<leaseVars, crashes>>

Release(t) ==
  /\ task[t] = "release"
  /\ Releasing(t)
  /\ Becomes(t, IF step'[t] # "idle" THEN "release"
                ELSE IF Stored THEN "served" ELSE "failed")
  /\ UNCHANGED <<stored, crashes>>

Die(p) ==
  /\ crashes < MaxCrashes
  /\ crashes' = crashes + 1
  /\ Crash(p)
  /\ task' = [t \in Thread |-> IF ProcessOf[t] = p THEN "dead" ELSE task[t]]
  /\ UNCHANGED stored

ClientStep(t) ==
  \/ Lookup(t)
  \/ BeginAcquire(t)
  \/ Acquire(t)
  \/ Recheck(t)
  \/ Retreat(t)
  \/ Produce(t)
  \/ Release(t)

ClientFails(t) ==
  \/ LookupFails(t)
  \/ AcquireFails(t)
  \/ RecheckFails(t)

ProductionNext ==
  \/ \E t \in Thread : ClientStep(t) \/ ClientFails(t) \/ Heartbeat(t)
  \/ \E p \in Process : Die(p)

ProductionSpec == ProductionInit /\ [][ProductionNext]_vars

-----------------------------------------------------------------------------
\* The client produces with the lease.
Leased(t) == task[t] = "produce" /\ step[t] = "holding"

\* Concurrent misses run one production: of the clients that found nothing
\* wrong, no two produce the object at a time, and none produces what another
\* of them has published.  This is the lease, and the second look after taking
\* it over (WaitForSharedArchive); only clients whose lookup or lease failed
\* (FetchToCache) produce beside them.
ProducedOnce ==
  \A t, u \in Thread :
    Leased(t) => /\ stored # "leased"
                 /\ Leased(u) => t = u

\* A producer that dies or fails strands nobody: every client that lives is served,
\* or finds out by its own attempt that the object cannot be produced.
NobodyStranded ==
  \A t \in Thread : <>(task[t] \in {"served", "failed", "dead"})
=============================================================================
