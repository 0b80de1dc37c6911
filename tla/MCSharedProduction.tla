------------------------- MODULE MCSharedProduction -------------------------
(***************************************************************************)
(* SharedProduction with two clients in one process and one in another.    *)
(*                                                                         *)
(* Two kinds of behaviour are checked in one run: clients that produce an  *)
(* object while no key is retired, and the bare lease while repair retires *)
(* keys at any moment.                                                     *)
(***************************************************************************)
EXTENDS SharedProduction

CONSTANTS t1, t2, t3, p1, p2

Owner == [t \in {t1, t2, t3} |-> IF t = t3 THEN p2 ELSE p1]

VARIABLE retiring

Retired == INSTANCE ProducerLease WITH Retiring <- TRUE

EitherInit == ProductionInit /\ retiring \in BOOLEAN

EitherNext ==
  /\ IF retiring THEN Retired!Next /\ UNCHANGED <<task, stored, crashes>>
                 ELSE ProductionNext
  /\ UNCHANGED retiring

\* Every live client goes on: its waits are sleeps, and a download or a
\* compiler run ends, if only by its time limit.  Nothing has to fail.
Either ==
  /\ EitherInit /\ [][EitherNext]_<<vars, retiring>>
  /\ \A t \in Thread : WF_vars(~ retiring /\ ClientStep(t))

-----------------------------------------------------------------------------
\* While no key is retired, a key has one producer, and the state file of the
\* key is that producer's own (TryCreate, TouchHeartbeat, Destroy).
KeptKeyHasOneProducer == ~ retiring => OneProducer /\ StateIsHolders

\* NobodyStranded, of the clients that produce (WaitForSharedArchive).
NobodyStrandedByADeath == ~ retiring => NobodyStranded
=============================================================================
