------------------------- MODULE WorkerBudgetProofs -------------------------
(***************************************************************************)
(* Proofs about WorkerBudget, for every set of sessions and tokens, every  *)
(* budget and every combination of failures.                               *)
(***************************************************************************)
EXTENDS WorkerBudget, FiniteSetTheorems, TLAPS

USE SessionAssumption, TokenAssumption, BudgetsAssumption, BoundsAssumption
USE DEF books

-----------------------------------------------------------------------------
(* The types of what the actions build. *)

LEMMA AbsentType == Absent \in Request
  BY DEF Absent, Request

LEMMA PruneType ==
  ASSUME TypeOK
  PROVE  PruneEntries \in [Session -> Request]
  BY AbsentType DEF TypeOK, PruneEntries

LEMMA FreshType ==
  ASSUME NEW p \in Phase
  PROVE  Fresh(p) \in Local
  BY DEF Fresh, Local

LEMMA WithoutLeaseType ==
  ASSUME NEW q \in Request, NEW k
  PROVE  WithoutLease(q, k) \in Request
  BY DEF WithoutLease, Request

LEMMA ConsumedType ==
  ASSUME NEW q \in Request, NEW d
  PROVE  Consumed(q, d) \in Request
  BY DEF Consumed, Request

LEMMA OpenedType ==
  ASSUME NEW n \in Nat, NEW b \in Nat, NEW k \in Token \cup {NoToken}
  PROVE  Opened(n, b, k) \in Local
<1>1. Fresh("open") \in Local
  BY FreshType DEF Phase
<1> QED
  BY <1>1 DEF Opened, Local

LEMMA HeldType ==
  ASSUME NEW l \in Local, NEW w \in Worker, NEW k \in Token \cup {NoToken}
  PROVE  Held(l, w, k) \in Local
<1> DEFINE f == [l.leases EXCEPT ![w] = k]
<1>1. f \in [Worker -> Token \cup {NoToken}]
  BY DEF Local
<1>2. Held(l, w, k) = [l EXCEPT !.leases = f, !.granted = l.granted + 1]
  BY DEF Held
<1> HIDE DEF f
<1>3. l.granted + 1 \in Nat
  BY DEF Local
<1> QED
  BY <1>1, <1>2, <1>3 DEF Local

LEMMA EmptiedType ==
  ASSUME NEW l \in Local, NEW w \in Worker
  PROVE  Emptied(l, w) \in Local
<1>1. [l.leases EXCEPT ![w] = NoToken] \in [Worker -> Token \cup {NoToken}]
  BY DEF Local
<1> QED
  BY <1>1 DEF Emptied, Local

\* Neither touches the phase or the budget of the session.
LEMMA HeldKeeps ==
  ASSUME NEW l \in Local, NEW w, NEW k
  PROVE  Held(l, w, k).phase = l.phase /\ Held(l, w, k).effective = l.effective
<1> DEFINE f == [l.leases EXCEPT ![w] = k]
           n == l.granted + 1
<1>1. Held(l, w, k) = [l EXCEPT !.leases = f, !.granted = n]
  BY DEF Held
<1> HIDE DEF f, n
<1> QED
  BY <1>1 DEF Local

LEMMA EmptiedKeeps ==
  ASSUME NEW l \in Local, NEW w
  PROVE  /\ Emptied(l, w).phase = l.phase
         /\ Emptied(l, w).effective = l.effective
<1> DEFINE f == [l.leases EXCEPT ![w] = NoToken]
           D == l.delegated \ {w}
<1>1. Emptied(l, w) = [l EXCEPT !.leases = f, !.delegated = D]
  BY DEF Emptied
<1> HIDE DEF f, D
<1> QED
  BY <1>1 DEF Local

\* Setting the scalar fields of a session keeps its type.
LEMMA PersistentType ==
  ASSUME NEW l \in Local
  PROVE  /\ [l EXCEPT !.persistent = TRUE] \in Local
         /\ [l EXCEPT !.persistent = FALSE] \in Local
<1>1. [l EXCEPT !.persistent = TRUE] \in Local
  BY DEF Local
<1>2. [l EXCEPT !.persistent = FALSE] \in Local
  BY DEF Local
<1> QED
  BY <1>1, <1>2

LEMMA AcquiringType ==
  ASSUME NEW l \in Local, NEW n \in Nat
  PROVE  [l EXCEPT !.acquiring = n] \in Local
  BY DEF Local

LEMMA ReleasedType ==
  ASSUME NEW l \in Local, NEW n \in Nat, NEW k \in Token \cup {NoToken}
  PROVE  [l EXCEPT !.granted = n, !.inherited = k] \in Local
  BY DEF Local

LEMMA DelegatedType ==
  ASSUME NEW l \in Local, NEW n \in Nat, NEW D \in SUBSET Worker
  PROVE  [l EXCEPT !.delegated = D, !.granted = n] \in Local
  BY DEF Local

LEMMA TicketType ==
  ASSUME NEW r \in [Session -> Request], NEW s \in Session
  PROVE  [r EXCEPT ![s].ticket = 0] \in [Session -> Request]
  BY DEF Request

LEMMA ResolvedType ==
  ASSUME TypeOK, NEW b \in Budgets, ResolveBudget(b)
  PROVE  /\ b \in Nat \ {0} /\ budget' = b
         /\ ceiling' \in Nat /\ b <= ceiling'
         /\ lost' \in BOOLEAN /\ overlooked' \in BOOLEAN
<1>1. PICK read \in BudgetReads :
        /\ budget' = b
        /\ IF Present(PruneEntries) = {}
           THEN ceiling' = b /\ lost' = FALSE /\ overlooked' = FALSE
           ELSE /\ ceiling' = IF b > ceiling THEN b ELSE ceiling
                /\ lost' = (lost \/ (read < 1 /\ b # budget))
                /\ overlooked' = overlooked
  BY DEF ResolveBudget
<1>2. b \in Nat \ {0} /\ ceiling \in Nat
  BY DEF TypeOK
<1>3. lost' \in BOOLEAN /\ overlooked' \in BOOLEAN
  <2>1. overlooked \in BOOLEAN
    BY DEF TypeOK
  <2>2. overlooked' \in {FALSE, overlooked}
    BY <1>1, Zenon
  <2>3. lost' \in {FALSE, lost \/ (read < 1 /\ b # budget)}
    BY <1>1, Zenon
  <2> QED
    BY <2>1, <2>2, <2>3, Zenon
<1>4. CASE Present(PruneEntries) = {}
  <2>1. budget' = b /\ ceiling' = b
    BY <1>1, <1>4
  <2> QED
    BY <1>2, <1>3, <2>1
<1>5. CASE Present(PruneEntries) # {}
  <2>1. budget' = b /\ ceiling' = IF b > ceiling THEN b ELSE ceiling
    BY <1>1, <1>5
  <2> QED
    BY <1>2, <1>3, <2>1
<1> QED
  BY <1>4, <1>5

\* The books after a pass of the acquisition loop.
LEMMA TryBooks ==
  ASSUME TypeOK, NEW s, NEW w, NEW stayed, Try(s, w, stayed)
  PROVE  /\ budget' = budget /\ ceiling' = ceiling
         /\ lost' \in BOOLEAN /\ (lost => lost')
         /\ overlooked' \in BOOLEAN /\ (overlooked => overlooked')
<1>1. budget' = budget /\ ceiling' = ceiling
  BY DEF Try
<1>2. PICK u, n : /\ lost' = (lost \/ n # budget)
                  /\ overlooked' \in {overlooked, overlooked \/ u # {}}
  BY Zenon DEF Try
<1>3. lost \in BOOLEAN /\ overlooked \in BOOLEAN
  BY DEF TypeOK
<1> QED
  BY <1>1, <1>2, <1>3

-----------------------------------------------------------------------------
LEMMA TypeInit == Init => TypeOK
<1> SUFFICES ASSUME Init PROVE TypeOK
  OBVIOUS
<1>1. \A s \in Session : request[s] \in Request /\ local[s] \in Local
  BY AbsentType, FreshType DEF Init, Phase
<1> QED
  BY <1>1 DEF Init, TypeOK

LEMMA TypeStep == TypeOK /\ [Next]_vars => TypeOK'
<1> SUFFICES ASSUME TypeOK, [Next]_vars PROVE TypeOK'
  OBVIOUS
<1> DEFINE P == PruneEntries
<1>0. /\ P \in [Session -> Request] /\ request \in [Session -> Request]
      /\ local \in [Session -> Local] /\ guard \subseteq Session
      /\ budget \in Nat /\ sequence \in Nat
      /\ ceiling \in Nat /\ lost \in BOOLEAN /\ overlooked \in BOOLEAN
      /\ environment \in [Session -> Token \cup {NoToken}]
  BY PruneType DEF TypeOK
<1>a. Absent \in Request /\ Fresh("gone") \in Local /\ Fresh("closing") \in Local
  BY AbsentType, FreshType DEF Phase
<1> HIDE DEF P
<1>1. ASSUME NEW s \in Session, Create(s) PROVE TypeOK'
  <2>1. PICK b \in Budgets, n \in Worker :
          LET capped == IF n > b THEN b ELSE n
          IN  /\ ResolveBudget(b)
              /\ request' = [P EXCEPT ![s] =
                   [Absent EXCEPT !.requested = capped]]
              /\ local' = [local EXCEPT ![s] = Opened(capped, b, NoToken)]
    BY <1>1 DEF Create, P
  <2> DEFINE c == IF n > b THEN b ELSE n
  <2>2. b \in Nat /\ c \in Nat
    BY DEF Worker
  <2>r. /\ budget' \in Nat /\ ceiling' \in Nat
        /\ lost' \in BOOLEAN /\ overlooked' \in BOOLEAN
    BY <2>1, ResolvedType
  <2> HIDE DEF c
  <2>3. Opened(c, b, NoToken) \in Local
    BY <2>2, OpenedType
  <2>4. [Absent EXCEPT !.requested = c] \in Request
    BY <2>2 DEF Absent, Request
  <2>5. request' = [P EXCEPT ![s] = [Absent EXCEPT !.requested = c]]
        /\ local' = [local EXCEPT ![s] = Opened(c, b, NoToken)]
    BY <2>1 DEF c
  <2>6. request' \in [Session -> Request] /\ local' \in [Session -> Local]
    BY <1>0, <2>3, <2>4, <2>5
  <2> QED
    BY <1>0, <1>1, <2>r, <2>6 DEF Create, TypeOK
<1>2. ASSUME NEW s \in Session, Inherit(s) PROVE TypeOK'
  <2>0. PICK p \in Session : \E d \in P[p].delegations :
          /\ Pending(p, d)
          /\ request' = [P EXCEPT ![p] = Consumed(@, d), ![s] = ChildRequest(d)]
          /\ \E b \in Budgets :
               /\ ResolveBudget(b)
               /\ local' = [local EXCEPT ![s] = Opened(1, b, d.token)]
    BY <1>2 DEF Inherit, P
  <2>1. PICK d \in P[p].delegations :
          /\ Pending(p, d)
          /\ request' = [P EXCEPT ![p] = Consumed(@, d), ![s] = ChildRequest(d)]
          /\ \E b \in Budgets :
               /\ ResolveBudget(b)
               /\ local' = [local EXCEPT ![s] = Opened(1, b, d.token)]
    BY <2>0
  <2>2. d \in Delegation
    BY <1>0 DEF Request
  <2>3. ChildRequest(d) \in Request /\ Consumed(P[p], d) \in Request
    BY <1>0, <2>2, ConsumedType DEF ChildRequest, Absent, Request, Delegation
  <2>4. request' \in [Session -> Request]
    BY <1>0, <2>1, <2>3
  <2>5. PICK b \in Budgets :
          /\ ResolveBudget(b)
          /\ local' = [local EXCEPT ![s] = Opened(1, b, d.token)]
    BY <2>1
  <2>6. local' \in [Session -> Local]
    BY <1>0, <2>2, <2>5, OpenedType DEF Delegation
  <2>7. /\ budget' \in Nat /\ ceiling' \in Nat
        /\ lost' \in BOOLEAN /\ overlooked' \in BOOLEAN
    BY <2>5, ResolvedType
  <2> QED
    BY <1>0, <1>2, <2>4, <2>6, <2>7 DEF Inherit, TypeOK
<1>3. ASSUME NEW s \in Session, InheritCrash(s) PROVE TypeOK'
  <2>0. PICK p \in Session : \E d \in P[p].delegations :
          request' = [P EXCEPT ![s] = ChildRequest(d)]
    BY <1>3 DEF InheritCrash, P
  <2>1. PICK d \in P[p].delegations :
          request' = [P EXCEPT ![s] = ChildRequest(d)]
    BY <2>0
  <2>2. d \in Delegation
    BY <1>0 DEF Request
  <2>3. request' \in [Session -> Request]
    BY <1>0, <2>1, <2>2 DEF ChildRequest, Absent, Request, Delegation
  <2>4. /\ budget' \in Nat /\ ceiling' \in Nat
        /\ lost' \in BOOLEAN /\ overlooked' \in BOOLEAN
    BY <1>3, ResolvedType DEF InheritCrash
  <2> QED
    BY <1>0, <1>a, <1>3, <2>3, <2>4 DEF InheritCrash, TypeOK
<1>4. ASSUME NEW s \in Session, RejectInherited(s) PROVE TypeOK'
  <2>1. /\ budget' \in Nat /\ ceiling' \in Nat
        /\ lost' \in BOOLEAN /\ overlooked' \in BOOLEAN
    BY <1>4, ResolvedType DEF RejectInherited
  <2> QED
    BY <1>0, <1>a, <1>4, <2>1 DEF RejectInherited, TypeOK, P
<1>5. ASSUME NEW s \in Session, NEW w \in Worker, NEW stayed \in Local,
             Try(s, w, stayed)
      PROVE  TypeOK'
  <2>1. PICK ticket \in 1..MaxTicket \cup {P[s].ticket} :
          /\ sequence' = IF P[s].ticket > 0 THEN sequence ELSE ticket
          /\ \/ \E k \in Token \ InUse :
                  /\ request' = [Queued(s, ticket) EXCEPT
                       ![s].tokens = @ \cup {k}, ![s].ticket = 0]
                  /\ local' = [local EXCEPT ![s] =
                       [Held(@, w, k) EXCEPT !.persistent = FALSE,
                                             !.acquiring = 0]]
             \/ /\ request' = Queued(s, ticket)
                /\ local' = [local EXCEPT ![s] = stayed]
    <3>1. \A unread, read :
            TicketOf(s, unread, read) \subseteq 1..MaxTicket \cup {P[s].ticket}
      BY DEF TicketOf, NextWaitTicket, P
    <3> QED
      BY <1>5, <3>1 DEF Try, P
  <2>b. /\ budget' = budget /\ ceiling' \in Nat
        /\ lost' \in BOOLEAN /\ overlooked' \in BOOLEAN
    BY <1>0, <1>5, TryBooks
  <2>2. ticket \in Nat
    BY <1>0 DEF Request
  <2>3. Queued(s, ticket) \in [Session -> Request]
    BY <1>0, <2>2 DEF Queued, P, Request
  <2>4. sequence' \in Nat
    BY <1>0, <2>1, <2>2
  <2>5. CASE \E k \in Token \ InUse :
               /\ request' = [Queued(s, ticket) EXCEPT
                    ![s].tokens = @ \cup {k}, ![s].ticket = 0]
               /\ local' = [local EXCEPT ![s] =
                    [Held(@, w, k) EXCEPT !.persistent = FALSE,
                                          !.acquiring = 0]]
    <3>1. PICK k \in Token \ InUse :
            /\ request' = [Queued(s, ticket) EXCEPT
                 ![s].tokens = @ \cup {k}, ![s].ticket = 0]
            /\ local' = [local EXCEPT ![s] =
                 [Held(@, w, k) EXCEPT !.persistent = FALSE, !.acquiring = 0]]
      BY <2>5
    <3>2. Held(local[s], w, k) \in Local
      BY <1>0, HeldType
    <3>3. [Held(local[s], w, k) EXCEPT !.persistent = FALSE, !.acquiring = 0]
            \in Local
      BY <3>2 DEF Local
    <3>4. local' \in [Session -> Local]
      BY <1>0, <3>1, <3>3
    <3>5. request' \in [Session -> Request]
      BY <2>3, <3>1 DEF Request
    <3> QED
      BY <1>0, <1>5, <2>b, <2>4, <3>4, <3>5 DEF Try, TypeOK
  <2>6. CASE /\ request' = Queued(s, ticket)
             /\ local' = [local EXCEPT ![s] = stayed]
    BY <1>0, <1>5, <2>b, <2>3, <2>4, <2>6 DEF Try, TypeOK
  <2> QED
    BY <2>1, <2>5, <2>6
<1>6. ASSUME NEW s \in Session, Timeout(s) PROVE TypeOK'
  <2>1. [local[s] EXCEPT !.acquiring = 0] \in Local
    BY <1>0, AcquiringType
  <2>2. local' = [local EXCEPT ![s] = [local[s] EXCEPT !.acquiring = 0]]
    BY <1>6 DEF Timeout
  <2> QED
    BY <1>0, <1>6, <2>1, <2>2, TicketType DEF Timeout, TypeOK
<1>7. ASSUME NEW s \in Session, AcquireError(s) PROVE TypeOK'
  <2>1. [local[s] EXCEPT !.acquiring = 0] \in Local
    BY <1>0, AcquiringType
  <2>2. local' = [local EXCEPT ![s] = [local[s] EXCEPT !.acquiring = 0]]
    BY <1>7 DEF AcquireError
  <2> QED
    BY <1>0, <1>7, <2>1, <2>2 DEF AcquireError, TypeOK, P
<1>8. ASSUME NEW s \in Session, CancelPendingAcquire(s) PROVE TypeOK'
  <2>1. [local[s] EXCEPT !.persistent = FALSE] \in Local
    BY <1>0, PersistentType
  <2>2. local' = [local EXCEPT ![s] = [local[s] EXCEPT !.persistent = FALSE]]
    BY <1>8 DEF CancelPendingAcquire
  <2> QED
    BY <1>0, <1>8, <2>1, <2>2, TicketType DEF CancelPendingAcquire, TypeOK
<1>9. ASSUME NEW s \in Session,
             Destroy(s) \/ FreeOwnerGuard(s) \/ Crash(s)
      PROVE  TypeOK'
  BY <1>0, <1>a, <1>9 DEF Destroy, FreeOwnerGuard, Crash, TypeOK
<1>10. ASSUME NEW s \in Session, NEW w \in Worker, AcquireInherited(s, w)
       PROVE  TypeOK'
  <2>1. Held(local[s], w, local[s].inherited) \in Local
    BY <1>0, HeldType DEF Local
  <2> QED
    BY <1>0, <1>10, <2>1 DEF AcquireInherited, TypeOK, P
<1>11. ASSUME NEW s \in Session, NEW w \in Worker,
              PollAcquire(s, w) \/ Acquire(s, w)
       PROVE  TypeOK'
  <2>1. [local[s] EXCEPT !.persistent = TRUE] \in Local
    BY <1>0, PersistentType
  <2>2. [local[s] EXCEPT !.acquiring = w] \in Local
    <3>1. w \in Nat
      BY DEF Worker
    <3>2. local[s] \in Local
      BY <1>0
    <3> QED
      BY <3>1, <3>2, AcquiringType, Zenon
  <2> QED
    BY <1>5, <1>11, <2>1, <2>2 DEF PollAcquire, Acquire
<1>12. ASSUME NEW s \in Session, NEW w \in Worker, Release(s, w)
       PROVE  TypeOK'
  <2>1. request' \in [Session -> Request]
    BY <1>0, <1>12, WithoutLeaseType DEF Release, P
  <2>2. Emptied(local[s], w) \in Local
    BY <1>0, EmptiedType
  <2> DEFINE n == IF Delegated(s, w) THEN local[s].granted
                  ELSE Drop(local[s].granted)
             k == IF local[s].inherited = local[s].leases[w] THEN NoToken
                  ELSE local[s].inherited
  <2>3. n \in Nat /\ k \in Token \cup {NoToken}
    BY <1>0 DEF Local, Drop
  <2>4. Emptied(local[s], w).granted = local[s].granted
        /\ Emptied(local[s], w).inherited = local[s].inherited
    BY <1>0 DEF Emptied, Local
  <2> DEFINE l == [Emptied(local[s], w) EXCEPT !.granted = n, !.inherited = k]
  <2>5. local' = [local EXCEPT ![s] = l]
    BY <1>0, <1>12, <2>4 DEF Release
  <2>6. l \in Local
    BY <2>2, <2>3, ReleasedType, Zenon
  <2> HIDE DEF l
  <2>7. local' \in [Session -> Local]
    BY <1>0, <2>5, <2>6
  <2> QED
    BY <1>0, <1>12, <2>1, <2>7 DEF Release, TypeOK
<1>13. ASSUME NEW s \in Session, NEW w \in Worker, AbandonLease(s, w)
       PROVE  TypeOK'
  BY <1>0, <1>13, EmptiedType DEF AbandonLease, TypeOK
<1>14. ASSUME NEW s \in Session, NEW w \in Worker, NEW children \in SUBSET Session,
              CreateDelegation(s, w, children)
       PROVE  TypeOK'
  <2>1. PICK k \in Token \ InUse :
          /\ request' = [P EXCEPT ![s] =
               WithDelegation(@, [token |-> k, lease |-> local[s].leases[w]])]
          /\ environment' = [c \in Session |->
               IF c \in children THEN k ELSE environment[c]]
    BY <1>14 DEF CreateDelegation, P
  <2>2. local[s].leases[w] \in Token
    BY <1>0, <1>14 DEF CreateDelegation, Leased, Local
  <2>3. request' \in [Session -> Request]
    BY <1>0, <2>1, <2>2 DEF WithDelegation, Request, Delegation
  <2>4. local' \in [Session -> Local]
    <3>1. Drop(local[s].granted) \in Nat
          /\ local[s].delegated \cup {w} \in SUBSET Worker
      BY <1>0 DEF Local, Drop
    <3> DEFINE l == [local[s] EXCEPT !.delegated = local[s].delegated \cup {w},
                                     !.granted = Drop(local[s].granted)]
    <3>2. local' = [local EXCEPT ![s] = l]
      BY <1>14 DEF CreateDelegation
    <3>3. l \in Local
      <4>1. local[s] \in Local
        BY <1>0
      <4> QED
        BY <3>1, <4>1, DelegatedType, Zenon
    <3> HIDE DEF l
    <3> QED
      BY <1>0, <3>2, <3>3
  <2> QED
    BY <1>0, <1>14, <2>1, <2>3, <2>4 DEF CreateDelegation, TypeOK
<1>15. ASSUME NEW s \in Session, NEW w \in Worker, CancelPendingDelegation(s, w)
       PROVE  TypeOK'
  <2>1. request' \in [Session -> Request]
    BY <1>0, <1>15, WithoutLeaseType DEF CancelPendingDelegation, P
  <2> QED
    BY <1>0, <1>15, <2>1 DEF CancelPendingDelegation, TypeOK
<1>16. ASSUME Snapshot \/ RepairWorkerBudget PROVE TypeOK'
  <2>1. /\ budget' \in Nat /\ ceiling' \in Nat
        /\ lost' \in BOOLEAN /\ overlooked' \in BOOLEAN
    BY <1>0, <1>16, ResolvedType DEF Snapshot, RepairWorkerBudget
  <2> QED
    BY <1>0, <1>16, <2>1 DEF Snapshot, RepairWorkerBudget, TypeOK, P
<1>17. ASSUME UNCHANGED vars PROVE TypeOK'
  BY <1>17 DEF vars, TypeOK
<1> QED
  BY <1>1, <1>2, <1>3, <1>4, <1>6, <1>7, <1>8, <1>9, <1>10, <1>11, <1>12,
     <1>13, <1>14, <1>15, <1>16, <1>17
  DEF Next, SessionStep, WorkerStep

\* Every reachable state is well typed.
THEOREM TypeCorrect == Spec => []TypeOK
BY TypeInit, TypeStep, PTL DEF Spec

-----------------------------------------------------------------------------
(***************************************************************************)
(* The request directory implements a pool of slots.                       *)
(***************************************************************************)

LEMMA LiveLeasesAre ==
  /\ LiveLeases = {l \in Session \X Token :
                     l[1] \in guard /\ l[2] \in request[l[1]].tokens}
  /\ LiveLeases' = {l \in Session \X Token :
                      l[1] \in guard' /\ l[2] \in request'[l[1]].tokens}
  BY DEF LiveLeases, Leases, PruneEntries, Absent

LEMMA LiveLeasesFinite == IsFiniteSet(LiveLeases) /\ IsFiniteSet(LiveLeases')
<1>1. IsFiniteSet(Session \X Token)
  BY FS_Product
<1>2. LiveLeases \in SUBSET (Session \X Token)
      /\ LiveLeases' \in SUBSET (Session \X Token)
  BY LiveLeasesAre
<1> QED
  BY <1>1, <1>2, FS_Subset

\* An open session is among the live requests; without any nothing is open.
LEMMA OpenIsPresent ==
  ASSUME SlotInv, NEW s \in Session, local[s].phase = "open"
  PROVE  s \in Present(PruneEntries)
<1>1. s \in guard /\ request[s].requested > 0
  BY DEF SlotInv
<1>2. PruneEntries[s] = request[s]
  BY <1>1 DEF PruneEntries
<1> QED
  BY <1>1, <1>2 DEF Present

\* With no live request no slot is taken.
LEMMA NothingTaken ==
  ASSUME TypeOK, SlotInv, Present(PruneEntries) = {}
  PROVE  LiveLeases = {}
<1>1. ASSUME NEW l \in LiveLeases PROVE FALSE
  <2>1. l[1] \in Session /\ l[1] \in guard /\ l[2] \in request[l[1]].tokens
    BY LiveLeasesAre
  <2>2. ~ (PruneEntries[l[1]].requested > 0)
    BY <2>1 DEF Present
  <2>3. PruneEntries[l[1]] = request[l[1]] /\ request[l[1]] \in Request
    BY <2>1 DEF PruneEntries, TypeOK
  <2>4. request[l[1]].requested = 0
    BY <2>2, <2>3 DEF Request
  <2> QED
    BY <2>1, <2>4 DEF SlotInv
<1> QED
  BY <1>1

(***************************************************************************)
(* What a step does to the books: a transaction that finds no request      *)
(* starts them afresh, any other keeps them, or loses the budget of the    *)
(* file and then works with the larger one.                                *)
(***************************************************************************)
Afresh ==
  /\ Present(PruneEntries) = {}
  /\ budget' > 0 /\ ceiling' = budget' /\ ceiling' \in Budgets
  /\ ~ lost' /\ ~ overlooked'
Upheld ==
  /\ budget > 0 => budget' > 0
  /\ \/ lost'
     \/ /\ budget' = ceiling' /\ budget' = budget
        /\ ceiling' = ceiling /\ lost' = lost
  /\ ceiling' \in Budgets \cup {ceiling} /\ ceiling' >= ceiling
  /\ lost => lost'
BooksUnchanged ==
  /\ budget' = budget /\ ceiling' = ceiling
  /\ lost' = lost /\ overlooked' = overlooked
\* The books of any step but an acquisition.
BooksStep == BooksUnchanged \/ \E b \in Budgets : ResolveBudget(b)

LEMMA ResolvedBooks ==
  ASSUME TypeOK, SlotInv, NEW b \in Budgets, ResolveBudget(b)
  PROVE  Afresh \/ (Upheld /\ overlooked' = overlooked)
<1>1. PICK read \in BudgetReads :
        /\ b \in ResolvedBudgets(read)
        /\ budget' = b
        /\ IF Present(PruneEntries) = {}
           THEN ceiling' = b /\ lost' = FALSE /\ overlooked' = FALSE
           ELSE /\ ceiling' = IF b > ceiling THEN b ELSE ceiling
                /\ lost' = (lost \/ (read < 1 /\ b # budget))
                /\ overlooked' = overlooked
  BY DEF ResolveBudget
<1>2. b \in Nat \ {0} /\ ceiling \in Nat /\ lost \in BOOLEAN /\ budget \in Nat
      /\ (lost \/ budget = ceiling)
  BY DEF TypeOK, SlotInv, WithinBudget
<1>3. CASE Present(PruneEntries) = {}
  BY <1>1, <1>2, <1>3 DEF Afresh
<1>4. CASE Present(PruneEntries) # {}
  <2>1. read \in {budget, 0}
    BY <1>1 DEF BudgetReads
  <2>2. b = budget \/ read < 1
    BY <1>1, <1>2, <1>4, <2>1 DEF ResolvedBudgets
  <2>3. lost' = (lost \/ (read < 1 /\ b # budget))
    BY <1>1, <1>4, Zenon
  <2>4. lost' = TRUE \/ (lost' = FALSE /\ lost = FALSE /\ b = budget)
    <3>1. CASE lost \/ (read < 1 /\ b # budget)
      BY <2>3, <3>1, Zenon
    <3>2. CASE ~ (lost \/ (read < 1 /\ b # budget))
      BY <1>2, <2>2, <2>3, <3>2, Zenon
    <3> QED
      BY <3>1, <3>2
  <2>5. /\ budget' = b /\ overlooked' = overlooked
        /\ ceiling' = IF b > ceiling THEN b ELSE ceiling
    BY <1>1, <1>4, Zenon
  <2>6. /\ ceiling' \in Budgets \cup {ceiling} /\ ceiling' >= ceiling
        /\ budget' > 0
    BY <1>2, <2>5
  <2>7. CASE lost' = TRUE
    BY <2>5, <2>6, <2>7 DEF Upheld
  <2>8. CASE lost' = FALSE /\ lost = FALSE /\ b = budget
    <3>1. ceiling' = ceiling /\ budget' = budget /\ budget' = ceiling'
      BY <1>2, <2>5, <2>8
    <3> QED
      BY <2>5, <2>6, <2>8, <3>1 DEF Upheld
  <2> QED
    BY <2>4, <2>7, <2>8
<1> QED
  BY <1>3, <1>4

LEMMA BooksOfStep ==
  ASSUME TypeOK, SlotInv, BooksStep
  PROVE  Afresh \/ (Upheld /\ overlooked' = overlooked)
<1>1. CASE BooksUnchanged
  BY <1>1 DEF BooksUnchanged, Upheld, TypeOK, SlotInv, WithinBudget
<1> QED
  BY <1>1, ResolvedBooks DEF BooksStep

\* A step that takes no slot returns slots, loses the capacity, or resizes an
\* empty pool.  No code does two of these at once.
LEMMA Shrinks ==
  ASSUME TypeOK, SlotInv,
         \/ BooksUnchanged /\ LiveLeases' \subseteq LiveLeases
         \/ /\ Afresh \/ (Upheld /\ overlooked' = overlooked)
            /\ LiveLeases' = LiveLeases
  PROVE  Pool!Next
<1>1. CASE BooksUnchanged /\ LiveLeases' \subseteq LiveLeases
  BY <1>1 DEF BooksUnchanged, Pool!Next, Pool!Return
<1>2. CASE Afresh /\ LiveLeases' = LiveLeases
  <2>1. LiveLeases = {}
    BY <1>2, NothingTaken DEF Afresh
  <2> QED
    BY <1>2, <2>1 DEF Afresh, Pool!Next, Pool!Resize
<1>3. CASE Upheld /\ overlooked' = overlooked /\ LiveLeases' = LiveLeases
  <2>1. CASE lost'
    BY <1>3, <2>1 DEF Upheld, Pool!Next, Pool!Lose, Pool!Misread
  <2>2. CASE ~ lost'
    <3>1. BooksUnchanged
      BY <1>3, <2>2, Zenon DEF Upheld, BooksUnchanged
    <3> QED
      BY <1>3, <3>1 DEF BooksUnchanged, Pool!Next, Pool!Return
  <2> QED
    BY <2>1, <2>2
<1> QED
  BY <1>1, <1>2, <1>3

\* A consumed delegation moves one slot from the parent to the child.
LEMMA InheritHandsOver ==
  ASSUME TypeOK, SlotInv, NEW s \in Session, Inherit(s)
  PROVE  Pool!Next
<1> DEFINE P == PruneEntries
<1>1. PICK p \in Session : \E d \in P[p].delegations :
        /\ Pending(p, d)
        /\ request' = [P EXCEPT ![p] = Consumed(@, d), ![s] = ChildRequest(d)]
  BY DEF Inherit
<1>2. PICK d \in P[p].delegations :
        /\ Pending(p, d)
        /\ request' = [P EXCEPT ![p] = Consumed(@, d), ![s] = ChildRequest(d)]
  BY <1>1
<1>3. p \in guard /\ d \in Delegation /\ d.lease \in request[p].tokens
  BY <1>2, PruneType DEF Pending, PruneEntries, Absent, TypeOK, Request
<1>4. s \notin guard
  BY DEF Inherit, SlotInv
<1>5. d.token \in Token /\ d.lease \in Token
  BY <1>3 DEF Delegation
<1>6. Upheld /\ overlooked' = overlooked
  <2>1. <<p, d.lease>> \in LiveLeases
    BY <1>3, <1>5, LiveLeasesAre
  <2>2. ~ Afresh
    BY <2>1, NothingTaken DEF Afresh
  <2>3. PICK b \in Budgets : ResolveBudget(b)
    BY DEF Inherit
  <2> QED
    BY <2>2, <2>3, ResolvedBooks
<1>7. guard' = guard \cup {s}
  BY DEF Inherit
<1>8. \A t \in Session : request'[t].tokens =
        IF t = s THEN {d.token}
        ELSE IF t = p THEN request[p].tokens \ {d.lease}
        ELSE IF t \in guard THEN request[t].tokens ELSE {}
  BY <1>2, <1>3, PruneType
  DEF PruneEntries, ChildRequest, Consumed, Absent, TypeOK, Request
<1>9. LiveLeases' = (LiveLeases \ {<<p, d.lease>>}) \cup {<<s, d.token>>}
  BY <1>3, <1>4, <1>5, <1>7, <1>8, LiveLeasesAre
<1>10. Pool!Kept \/ Pool!Misread
  BY <1>6 DEF Upheld, Pool!Kept, Pool!Misread, TypeOK
<1>11. /\ <<p, d.lease>> \in LiveLeases /\ <<s, d.token>> \in Session \X Token
       /\ <<s, d.token>> \notin LiveLeases
  BY <1>3, <1>4, <1>5, LiveLeasesAre
<1>12. Pool!HandOver(<<p, d.lease>>, <<s, d.token>>)
  BY <1>6, <1>9, <1>10, <1>11 DEF Upheld, Pool!HandOver
<1>13. /\ <<s, d.token>> \in LiveLeases' \ LiveLeases
       /\ <<p, d.lease>> \in LiveLeases \ LiveLeases'
  BY <1>3, <1>4, <1>9, <1>11
<1> QED
  BY <1>12, <1>13 DEF Pool!Next

\* Whatever requests it could not read, a transaction that finds a slot free
\* is right, unless it did not know the budget of the file either.
LEMMA GrantableMeansFree ==
  ASSUME TypeOK, SlotInv, NEW s \in Session, local[s].phase = "open",
         NEW r, NEW unread \in SUBSET guard, NEW counted \in Nat,
         \A t \in Session : r[t].tokens =
            IF t \in guard THEN request[t].tokens ELSE {},
         Grantable(s, Seen(r, unread), unread, counted)
  PROVE  \/ Cardinality(LiveLeases) < ceiling
         \/ unread # {} /\ (lost \/ counted # budget)
<1> DEFINE L == Leases(Seen(r, unread))
           e == local[s].effective
<1>1. IsFiniteSet(unread)
  BY FS_Subset DEF TypeOK
<1>2. L \subseteq LiveLeases /\ (unread = {} => L = LiveLeases)
  BY LiveLeasesAre DEF Leases, Seen, Absent
<1>3. Cardinality(L) \in Nat /\ Cardinality(unread) \in Nat
  BY <1>1, <1>2, LiveLeasesFinite, FS_Subset, FS_CardinalityType
<1>4. Cardinality(L) + Cardinality(unread) * counted < e
  BY DEF Grantable, ActiveWorkerCount
<1>e. e \in Nat /\ ceiling \in Nat /\ e <= ceiling /\ (lost \/ e = budget)
  BY DEF TypeOK, Local, SlotInv
<1> HIDE DEF L, e
<1>5. CASE unread = {}
  <2>1. Cardinality(unread) = 0
    BY <1>5, FS_EmptySet
  <2>2. Cardinality(L) < e
    BY <1>3, <1>4, <2>1
  <2> QED
    BY <1>2, <1>3, <1>5, <1>e, <2>2
<1>6. CASE unread # {}
  <2>1. Cardinality(unread) >= 1
    BY <1>1, <1>3, <1>6, FS_EmptySet
  <2>2. \A m, n \in Nat : m >= 1 => m * n >= n
    BY SMT
  <2>3. Cardinality(unread) * counted >= counted
        /\ Cardinality(unread) * counted \in Nat
    BY <1>3, <2>1, <2>2
  <2>4. counted < e
    BY <1>3, <1>4, <1>e, <2>3
  <2> QED
    BY <1>6, <1>e, <2>4
<1> QED
  BY <1>5, <1>6

\* A granted acquisition takes one slot while one is free, whatever part of
\* the directory it could not read.
LEMMA TryTakes ==
  ASSUME TypeOK, SlotInv, NEW s \in Session, NEW w \in Worker, NEW stayed,
         local[s].phase = "open", Try(s, w, stayed)
  PROVE  Pool!Next
<1> DEFINE Grants(n, u, c) ==
             /\ Grantable(s, Seen(Queued(s, n), u), u, c)
             /\ overlooked' = (overlooked \/ u # {})
             /\ \E k \in Token \ InUse :
                  request' = [Queued(s, n) EXCEPT
                    ![s].tokens = @ \cup {k}, ![s].ticket = 0]
           Stays(n) == request' = Queued(s, n) /\ overlooked' = overlooked
<1>1. PICK unread \in Misreads((guard \cap Present(request)) \ {s}),
           rd \in QueueReads :
        \E n \in TicketOf(s, unread, rd), c \in PlaceholderCounts(unread) :
          /\ lost' = (lost \/ c # budget)
          /\ \/ /\ Grantable(s, Seen(Queued(s, n), unread), unread, c)
                /\ overlooked' = (overlooked \/ unread # {})
                /\ \E k \in Token \ InUse :
                     request' = [Queued(s, n) EXCEPT
                       ![s].tokens = @ \cup {k}, ![s].ticket = 0]
             \/ request' = Queued(s, n) /\ overlooked' = overlooked
  <2>1. PICK unread \in Misreads((guard \cap Present(request)) \ {s}),
             rd \in QueueReads :
          \E n \in TicketOf(s, unread, rd), c \in PlaceholderCounts(unread) :
            /\ sequence' = IF PruneEntries[s].ticket > 0 THEN sequence ELSE n
            /\ lost' = (lost \/ c # budget)
            /\ \/ /\ Grantable(s, Seen(Queued(s, n), unread), unread, c)
                  /\ overlooked' = (overlooked \/ unread # {})
                  /\ \E k \in Token \ InUse :
                       /\ request' = [Queued(s, n) EXCEPT
                            ![s].tokens = @ \cup {k}, ![s].ticket = 0]
                       /\ local' = [local EXCEPT ![s] =
                            [Held(@, w, k) EXCEPT !.persistent = FALSE,
                                                  !.acquiring = 0]]
               \/ /\ ~ Grantable(s, Seen(Queued(s, n), unread), unread, c)
                  /\ request' = Queued(s, n)
                  /\ local' = [local EXCEPT ![s] = stayed]
                  /\ UNCHANGED overlooked
    BY Zenon DEF Try
  <2> QED
    BY <2>1, Zenon
<1>2. PICK ticket \in TicketOf(s, unread, rd),
           counted \in PlaceholderCounts(unread) :
        /\ lost' = (lost \/ counted # budget)
        /\ Grants(ticket, unread, counted) \/ Stays(ticket)
  BY <1>1
<1>l. lost' = TRUE \/ (lost' = lost /\ counted = budget)
  <2>1. lost \in BOOLEAN /\ lost' = (lost \/ counted # budget)
    BY <1>2 DEF TypeOK
  <2> QED
    BY <2>1, Zenon
<1>n. ticket \in Nat /\ counted \in Nat
  BY PruneType DEF TicketOf, NextWaitTicket, Request, PlaceholderCounts, TypeOK
<1>3. guard' = guard /\ s \in guard
  BY DEF Try, SlotInv
<1>b. /\ budget' = budget /\ ceiling' = ceiling
      /\ (lost => lost') /\ (overlooked => overlooked')
  BY TryBooks
<1>4. Queued(s, ticket) \in [Session -> Request]
  BY <1>n, PruneType DEF Queued, Request
<1>5. \A t \in Session : Queued(s, ticket)[t].tokens =
            IF t \in guard THEN request[t].tokens ELSE {}
  BY PruneType DEF Queued, PruneEntries, Absent, Request
<1>6. CASE Stays(ticket)
  <2>1. LiveLeases' = LiveLeases
    BY <1>3, <1>5, <1>6, LiveLeasesAre
  <2>2. Upheld /\ overlooked' = overlooked
    BY <1>l, <1>6, <1>b DEF Upheld, TypeOK, SlotInv, WithinBudget
  <2> QED
    BY <2>1, <2>2, Shrinks
<1>7. CASE Grants(ticket, unread, counted)
  <2>1. PICK k \in Token \ InUse :
          request' = [Queued(s, ticket) EXCEPT
            ![s].tokens = @ \cup {k}, ![s].ticket = 0]
    BY <1>7
  <2>2. \A t \in Session : request'[t].tokens =
          IF t = s THEN request[s].tokens \cup {k}
          ELSE IF t \in guard THEN request[t].tokens ELSE {}
    BY <1>3, <1>4, <1>5, <2>1 DEF Request
  <2>3. LiveLeases' = LiveLeases \cup {<<s, k>>}
    BY <1>3, <2>2, LiveLeasesAre
  <2>4. <<s, k>> \in Session \X Token /\ <<s, k>> \notin LiveLeases
    BY LiveLeasesAre DEF InUse
  <2>5. Cardinality(LiveLeases) < ceiling \/ (lost' /\ overlooked')
    <3>1. unread \in SUBSET guard
      BY DEF Misreads
    <3>2. \/ Cardinality(LiveLeases) < ceiling
          \/ unread # {} /\ (lost \/ counted # budget)
      BY <1>5, <1>7, <1>n, <3>1, GrantableMeansFree
    <3> QED
      BY <1>2, <1>7, <3>2
  <2>6. Pool!Cardinality(LiveLeases) = Cardinality(LiveLeases)
    BY Zenon DEF Pool!Cardinality, Cardinality
  <2>7. Pool!Take(<<s, k>>)
    BY <1>b, <2>3, <2>4, <2>5, <2>6, Zenon DEF Pool!Take
  <2>8. <<s, k>> \in LiveLeases' \ LiveLeases
    BY <2>3, <2>4
  <2> QED
    BY <2>7, <2>8 DEF Pool!Next
<1> QED
  BY <1>2, <1>6, <1>7

\* Every step of the coordinator is a step of the pool, or leaves it alone.
LEMMA PoolStep ==
  ASSUME TypeOK, SlotInv, [Next]_vars
  PROVE  [Pool!Next]_<<ceiling, LiveLeases, lost, overlooked>>
<1> DEFINE P == PruneEntries
<1>0. P \in [Session -> Request] /\ request \in [Session -> Request]
      /\ local \in [Session -> Local]
  BY PruneType DEF TypeOK
<1>p. \A t \in Session : P[t].tokens =
        IF t \in guard THEN request[t].tokens ELSE {}
  BY DEF PruneEntries, Absent
<1> HIDE DEF P
<1>1. ASSUME NEW s \in Session,
             Create(s) \/ InheritCrash(s) \/ RejectInherited(s)
      PROVE  Pool!Next
  <2>1. s \notin guard
    BY <1>1 DEF Create, InheritCrash, RejectInherited, SlotInv
  <2>2. \A t \in Session \ {s} : request'[t] = P[t]
    BY <1>0, <1>1 DEF Create, InheritCrash, RejectInherited, P
  <2>3. CASE Create(s)
    <3>1. request'[s].tokens = {} /\ guard' = guard \cup {s}
      BY <1>0, <2>3 DEF Create, Absent, P
    <3>2. LiveLeases' = LiveLeases
      BY <1>p, <2>1, <2>2, <3>1, LiveLeasesAre
    <3>3. \E b \in Budgets : ResolveBudget(b)
      BY <2>3 DEF Create
    <3> QED
      BY <3>2, <3>3, ResolvedBooks, Shrinks
  <2>4. CASE InheritCrash(s) \/ RejectInherited(s)
    <3>1. guard' = guard
      BY <2>4 DEF InheritCrash, RejectInherited
    <3>2. LiveLeases' = LiveLeases
      BY <1>p, <2>1, <2>2, <3>1, LiveLeasesAre
    <3>3. \E b \in Budgets : ResolveBudget(b)
      BY <2>4 DEF InheritCrash, RejectInherited
    <3> QED
      BY <3>2, <3>3, ResolvedBooks, Shrinks
  <2> QED
    BY <1>1, <2>3, <2>4
<1>2. ASSUME NEW s \in Session,
             Timeout(s) \/ CancelPendingAcquire(s) \/ AcquireError(s)
      PROVE  Pool!Next
  <2>1. \A t \in Session : request'[t].tokens \in {request[t].tokens, P[t].tokens}
    <3>1. CASE request' = request \/ request' = P
      BY <3>1
    <3>2. CASE request' = [request EXCEPT ![s].ticket = 0]
      BY <1>0, <3>2 DEF Request
    <3> QED
      BY <1>2, <3>1, <3>2 DEF Timeout, CancelPendingAcquire, AcquireError, P
  <2>2. guard' = guard /\ BooksUnchanged
    BY <1>2 DEF BooksUnchanged, Timeout, CancelPendingAcquire, AcquireError
  <2>3. LiveLeases' \subseteq LiveLeases
    BY <1>p, <2>1, <2>2, LiveLeasesAre
  <2> QED
    BY <2>2, <2>3, Shrinks
<1>3. ASSUME NEW s \in Session,
             Destroy(s) \/ FreeOwnerGuard(s) \/ Crash(s)
      PROVE  Pool!Next
  <2>1. \A t \in Session : request'[t].tokens \in {request[t].tokens, {}}
    BY <1>0, <1>3 DEF Destroy, FreeOwnerGuard, Crash, Absent
  <2>2. guard' \subseteq guard /\ BooksUnchanged
    BY <1>3 DEF BooksUnchanged, Destroy, FreeOwnerGuard, Crash
  <2>3. LiveLeases' \subseteq LiveLeases
    BY <2>1, <2>2, LiveLeasesAre
  <2> QED
    BY <2>2, <2>3, Shrinks
<1>4. ASSUME NEW s \in Session, NEW w \in Worker,
             \/ AcquireInherited(s, w)
             \/ Release(s, w)
             \/ AbandonLease(s, w)
             \/ CancelPendingDelegation(s, w)
      PROVE  Pool!Next
  <2>1. \A t \in Session : request'[t].tokens \subseteq request[t].tokens
    <3>1. CASE request' = request \/ request' = P
      BY <1>p, <3>1
    <3>2. CASE \E k : request' = [P EXCEPT ![s] = WithoutLease(@, k)]
      <4>1. \A k : WithoutLease(P[s], k).tokens = P[s].tokens \ {k}
        BY <1>0 DEF WithoutLease, Request
      <4> QED
        BY <1>0, <1>p, <3>2, <4>1
    <3> QED
      BY <1>4, <3>1, <3>2
      DEF AcquireInherited, Release, AbandonLease, CancelPendingDelegation, P
  <2>2. guard' = guard /\ BooksUnchanged
    BY <1>4
    DEF BooksUnchanged, AcquireInherited, Release, AbandonLease,
        CancelPendingDelegation
  <2>3. LiveLeases' \subseteq LiveLeases
    BY <2>1, <2>2, LiveLeasesAre
  <2> QED
    BY <2>2, <2>3, Shrinks
<1>5. ASSUME NEW s \in Session, NEW w \in Worker, NEW children \in SUBSET Session,
             CreateDelegation(s, w, children)
      PROVE  Pool!Next
  <2>1. \A t \in Session : request'[t].tokens = P[t].tokens
    BY <1>0, <1>5 DEF CreateDelegation, WithDelegation, Request, P
  <2>2. guard' = guard /\ BooksUnchanged
    BY <1>5 DEF BooksUnchanged, CreateDelegation
  <2>3. LiveLeases' \subseteq LiveLeases
    BY <1>p, <2>1, <2>2, LiveLeasesAre
  <2> QED
    BY <2>2, <2>3, Shrinks
<1>6. ASSUME NEW s \in Session, NEW w \in Worker,
             PollAcquire(s, w) \/ Acquire(s, w)
      PROVE  Pool!Next
  BY <1>6, TryTakes DEF PollAcquire, Acquire, MayStart
<1>7. ASSUME Snapshot \/ RepairWorkerBudget PROVE Pool!Next
  <2>1. LiveLeases' = LiveLeases
    BY <1>p, <1>7, LiveLeasesAre DEF Snapshot, RepairWorkerBudget, P
  <2>2. BooksStep
    BY <1>7 DEF Snapshot, RepairWorkerBudget, BooksStep, BooksUnchanged
  <2> QED
    BY <2>1, <2>2, BooksOfStep, Shrinks
<1>8. CASE UNCHANGED vars
  <2>1. UNCHANGED <<ceiling, LiveLeases, lost, overlooked>>
    BY <1>8, LiveLeasesAre DEF vars
  <2> QED
    BY <2>1
<1> QED
  BY <1>1, <1>2, <1>3, <1>4, <1>5, <1>6, <1>7, <1>8, InheritHandsOver
  DEF Next, SessionStep, WorkerStep

-----------------------------------------------------------------------------
(***************************************************************************)
(* The invariant behind the pool.                                          *)
(***************************************************************************)

\* The parts of SlotInv that are not about the number of leases.
OpenIsBacked ==
  \A s \in Session : local[s].phase = "open" =>
    /\ s \in guard
    /\ request[s].requested > 0
    /\ budget > 0
    /\ local[s].effective <= ceiling
    /\ lost \/ local[s].effective = budget
GuardsHaveSessions == \A s \in guard : local[s].phase \in {"open", "closing"}
AbsentHoldsNothing ==
  \A s \in Session : request[s].requested = 0 => request[s].tokens = {}

FileIsCeiling == lost \/ budget = ceiling
LeasesFit == Cardinality(LiveLeases) <= ceiling \/ Excused

LEMMA SlotInvIs ==
  /\ SlotInv <=> /\ OpenIsBacked /\ GuardsHaveSessions
                 /\ AbsentHoldsNothing /\ FileIsCeiling /\ LeasesFit
  /\ SlotInv' <=> /\ OpenIsBacked' /\ GuardsHaveSessions'
                  /\ AbsentHoldsNothing' /\ FileIsCeiling' /\ LeasesFit'
  BY DEF SlotInv, OpenIsBacked, GuardsHaveSessions, AbsentHoldsNothing,
     WithinBudget, FileIsCeiling, LeasesFit

\* A step of the pool never takes more slots than there are.
LEMMA PoolKeepsBudget ==
  ASSUME TypeOK, TypeOK', LeasesFit,
         [Pool!Next]_<<ceiling, LiveLeases, lost, overlooked>>
  PROVE  LeasesFit'
<1>1. /\ IsFiniteSet(LiveLeases) /\ IsFiniteSet(LiveLeases')
      /\ Cardinality(LiveLeases) \in Nat /\ Cardinality(LiveLeases') \in Nat
      /\ ceiling \in Nat /\ ceiling' \in Nat
      /\ lost \in BOOLEAN /\ lost' \in BOOLEAN
      /\ overlooked \in BOOLEAN /\ overlooked' \in BOOLEAN
      /\ Cardinality(LiveLeases) <= ceiling \/ (lost /\ overlooked)
  BY LiveLeasesFinite, FS_CardinalityType DEF LeasesFit, Excused, TypeOK
<1>2. Pool!Cardinality(LiveLeases) = Cardinality(LiveLeases)
  BY Zenon DEF Pool!Cardinality, Cardinality
<1> SUFFICES Cardinality(LiveLeases') <= ceiling' \/ (lost' /\ overlooked')
  BY DEF LeasesFit, Excused
<1>3. ASSUME NEW x, Pool!Take(x)
      PROVE  Cardinality(LiveLeases') <= ceiling' \/ (lost' /\ overlooked')
  <2>1. /\ x \notin LiveLeases /\ LiveLeases' = LiveLeases \cup {x}
        /\ ceiling' = ceiling
    BY <1>3 DEF Pool!Take
  <2>2. Cardinality(LiveLeases) < ceiling \/ (lost' /\ overlooked')
    BY <1>2, <1>3, Zenon DEF Pool!Take
  <2>3. Cardinality(LiveLeases \cup {x}) = Cardinality(LiveLeases) + 1
    BY <1>1, <2>1, FS_AddElement
  <2> QED
    BY <1>1, <2>1, <2>2, <2>3
<1>4. CASE Pool!Return
  <2>1. LiveLeases' \subseteq LiveLeases /\ ceiling' = ceiling
        /\ lost' = lost /\ overlooked' = overlooked
    BY <1>4 DEF Pool!Return
  <2>2. Cardinality(LiveLeases') <= Cardinality(LiveLeases)
    BY <1>1, <2>1, FS_Subset
  <2> QED
    BY <1>1, <2>1, <2>2
<1>c. ASSUME Pool!Kept \/ Pool!Misread
      PROVE  ceiling' >= ceiling /\ (lost => lost')
  BY <1>1, <1>c DEF Pool!Kept, Pool!Misread
<1>5. ASSUME NEW x, NEW y, Pool!HandOver(x, y)
      PROVE  Cardinality(LiveLeases') <= ceiling' \/ (lost' /\ overlooked')
  <2>1. /\ x \in LiveLeases /\ y \notin LiveLeases
        /\ LiveLeases' = (LiveLeases \ {x}) \cup {y}
        /\ overlooked' = overlooked /\ (Pool!Kept \/ Pool!Misread)
    BY <1>5 DEF Pool!HandOver
  <2>2. Cardinality(LiveLeases \ {x}) = Cardinality(LiveLeases) - 1
        /\ IsFiniteSet(LiveLeases \ {x})
    BY <1>1, <2>1, FS_RemoveElement
  <2>3. y \notin LiveLeases \ {x}
    BY <2>1
  <2>4. Cardinality(LiveLeases') = Cardinality(LiveLeases \ {x}) + 1
    BY <2>1, <2>2, <2>3, FS_AddElement
  <2> QED
    BY <1>1, <1>c, <2>1, <2>2, <2>4
<1>6. CASE Pool!Lose
  BY <1>1, <1>6, <1>c DEF Pool!Lose
<1>7. CASE Pool!Resize
  <2>1. LiveLeases' = {}
    BY <1>7 DEF Pool!Resize
  <2> QED
    BY <1>1, <2>1, FS_EmptySet
<1>8. CASE UNCHANGED <<ceiling, LiveLeases, lost, overlooked>>
  BY <1>1, <1>8
<1> QED
  BY <1>3, <1>4, <1>5, <1>6, <1>7, <1>8 DEF Pool!Next

\* While a session is open nobody starts the books afresh: what it works with
\* stays below the ceiling, and is the budget of the file unless that was lost.
LEMMA OpenKeepsBudget ==
  ASSUME TypeOK, TypeOK', SlotInv, Afresh \/ Upheld,
         NEW s \in Session, local[s].phase = "open",
         NEW e, e = local[s].effective
  PROVE  /\ budget' > 0 /\ e <= ceiling'
         /\ lost' \/ e = budget'
<1>1. Upheld
  BY OpenIsPresent DEF Afresh
<1>2. /\ budget > 0 /\ local[s].effective <= ceiling
      /\ lost \/ local[s].effective = budget
  BY DEF SlotInv
<1>3. ceiling \in Nat /\ ceiling' \in Nat /\ e \in Nat
  BY DEF TypeOK, Local
<1> QED
  BY <1>1, <1>2, <1>3 DEF Upheld

\* The file says the ceiling, as long as it was readable.
LEMMA BooksKeepCeiling ==
  ASSUME TypeOK, SlotInv, Afresh \/ Upheld
  PROVE  FileIsCeiling'
  BY DEF Afresh, Upheld, FileIsCeiling, SlotInv, WithinBudget

\* What a step that opens no session has to leave alone.
LEMMA SlotFrame ==
  ASSUME TypeOK, TypeOK', SlotInv, Afresh \/ Upheld,
         \A t \in Session : local'[t].phase = "open" =>
            /\ local[t].phase = "open" /\ t \in guard'
            /\ local'[t].effective = local[t].effective
            /\ request'[t].requested = request[t].requested,
         \A t \in guard' : local'[t].phase \in {"open", "closing"},
         AbsentHoldsNothing'
  PROVE  /\ OpenIsBacked' /\ GuardsHaveSessions' /\ AbsentHoldsNothing'
         /\ FileIsCeiling'
<1>1. ASSUME NEW t \in Session, local'[t].phase = "open"
      PROVE  /\ t \in guard' /\ request'[t].requested > 0
             /\ budget' > 0 /\ local'[t].effective <= ceiling'
             /\ lost' \/ local'[t].effective = budget'
  BY <1>1, OpenKeepsBudget DEF SlotInv
<1> QED
  BY <1>1, BooksKeepCeiling DEF OpenIsBacked, GuardsHaveSessions

\* Pruning keeps what SlotInv says of the requests.
LEMMA PruneKeeps ==
  ASSUME TypeOK, SlotInv, NEW t \in Session
  PROVE  /\ local[t].phase = "open" => PruneEntries[t] = request[t]
         /\ PruneEntries[t].requested = 0 => PruneEntries[t].tokens = {}
<1>1. Absent.tokens = {}
  BY DEF Absent
<1> QED
  BY <1>1 DEF SlotInv, PruneEntries

\* A session that opens is guarded, has a request and the resolved budget.
LEMMA OpeningKeeps ==
  ASSUME TypeOK, TypeOK', SlotInv, NEW s \in Session, local[s].phase = "new",
         NEW n \in Nat \ {0}, NEW b \in Budgets, ResolveBudget(b),
         NEW k \in Token \cup {NoToken},
         guard' = guard \cup {s},
         local' = [local EXCEPT ![s] = Opened(n, b, k)],
         request'[s].requested > 0,
         \A t \in Session \ {s} :
            request'[t].requested = PruneEntries[t].requested,
         AbsentHoldsNothing'
  PROVE  /\ OpenIsBacked' /\ GuardsHaveSessions' /\ AbsentHoldsNothing'
         /\ FileIsCeiling'
<1>1. local \in [Session -> Local] /\ s \notin guard
  BY DEF TypeOK, SlotInv
<1>2. Opened(n, b, k).phase = "open" /\ Opened(n, b, k).effective = b
  BY DEF Opened, Fresh
<1>3. local'[s].phase = "open" /\ local'[s].effective = b
      /\ \A t \in Session \ {s} : local'[t] = local[t]
  BY <1>1, <1>2
<1>4. b \in Nat \ {0} /\ budget' = b /\ b <= ceiling'
  BY ResolvedType
<1>b. Afresh \/ Upheld
  BY ResolvedBooks
<1>5. ASSUME NEW t \in Session \ {s}, local[t].phase = "open"
      PROVE  /\ t \in guard' /\ request'[t].requested > 0
             /\ budget' > 0 /\ local'[t].effective <= ceiling'
             /\ lost' \/ local'[t].effective = budget'
  <2>1. request'[t].requested = request[t].requested
    BY <1>5, PruneKeeps
  <2> QED
    BY <1>3, <1>5, <1>b, <2>1, OpenKeepsBudget DEF SlotInv
<1>6. OpenIsBacked'
  BY <1>3, <1>4, <1>5 DEF OpenIsBacked
<1>7. GuardsHaveSessions'
  BY <1>3 DEF GuardsHaveSessions, SlotInv, TypeOK
<1> QED
  BY <1>6, <1>7, <1>b, BooksKeepCeiling

\* A step that changes neither the phase nor the budget of any session.
LEMMA QuietStep ==
  ASSUME TypeOK, TypeOK', SlotInv, NEW s \in Session, NEW l,
         l.phase = local[s].phase, l.effective = local[s].effective,
         local' = [local EXCEPT ![s] = l], guard' = guard,
         Afresh \/ Upheld,
         \A t \in Session : local[t].phase = "open" =>
            request'[t].requested = request[t].requested,
         AbsentHoldsNothing'
  PROVE  /\ OpenIsBacked' /\ GuardsHaveSessions' /\ AbsentHoldsNothing'
         /\ FileIsCeiling'
<1>1. \A t \in Session : /\ local'[t].phase = local[t].phase
                         /\ local'[t].effective = local[t].effective
  BY DEF TypeOK
<1>2. \A t \in Session : local'[t].phase = "open" =>
        /\ local[t].phase = "open" /\ t \in guard'
        /\ local'[t].effective = local[t].effective
        /\ request'[t].requested = request[t].requested
  BY <1>1 DEF SlotInv
<1>3. \A t \in guard' : local'[t].phase \in {"open", "closing"}
  BY <1>1 DEF SlotInv, TypeOK
<1> QED
  BY <1>2, <1>3, SlotFrame

LEMMA SlotStep ==
  ASSUME TypeOK, TypeOK', SlotInv, [Next]_vars
  PROVE  /\ OpenIsBacked' /\ GuardsHaveSessions' /\ AbsentHoldsNothing'
         /\ FileIsCeiling'
<1> DEFINE P == PruneEntries
           Goal == /\ OpenIsBacked' /\ GuardsHaveSessions'
                   /\ AbsentHoldsNothing' /\ FileIsCeiling'
<1>0. P \in [Session -> Request] /\ request \in [Session -> Request]
      /\ local \in [Session -> Local]
  BY PruneType DEF TypeOK
<1>p. \A t \in Session :
        /\ local[t].phase = "open" => P[t] = request[t]
        /\ P[t].requested = 0 => P[t].tokens = {}
        /\ request[t].requested = 0 => request[t].tokens = {}
  BY PruneKeeps DEF SlotInv
<1>g. \A t \in Session : /\ local[t].phase = "open" => t \in guard
                         /\ t \in guard => local[t].phase \in {"open", "closing"}
  BY DEF SlotInv
<1>a. Fresh("gone").phase = "gone" /\ Fresh("closing").phase = "closing"
      /\ Absent.tokens = {}
  BY DEF Fresh, Absent
<1>d. \A d : ChildRequest(d).requested = 1
  BY DEF ChildRequest, Absent
<1>n. \A b, n : n \in Worker /\ b \in Budgets =>
        (IF n > b THEN b ELSE n) \in Nat \ {0}
  BY DEF Worker
<1>u. BooksUnchanged => Upheld
  BY DEF BooksUnchanged, Upheld, TypeOK, SlotInv, WithinBudget
<1> HIDE DEF P
<1>1. ASSUME NEW s \in Session, Create(s) PROVE Goal
  <2>1. PICK b \in Budgets, n \in Worker :
          LET capped == IF n > b THEN b ELSE n
          IN  /\ ResolveBudget(b)
              /\ request' = [P EXCEPT ![s] =
                   [Absent EXCEPT !.requested = capped]]
              /\ local' = [local EXCEPT ![s] = Opened(capped, b, NoToken)]
    BY <1>1 DEF Create, P
  <2> DEFINE c == IF n > b THEN b ELSE n
  <2>2. c \in Nat \ {0}
    BY <1>n
  <2>3. ResolveBudget(b) /\ request' = [P EXCEPT ![s] = [Absent EXCEPT !.requested = c]]
        /\ local' = [local EXCEPT ![s] = Opened(c, b, NoToken)]
    BY <2>1
  <2> HIDE DEF c
  <2>4. request'[s].requested = c /\ request'[s].tokens = {}
        /\ \A t \in Session \ {s} : request'[t] = P[t]
    BY <1>0, <2>3 DEF Absent
  <2>5. AbsentHoldsNothing'
    BY <1>p, <2>2, <2>4 DEF AbsentHoldsNothing
  <2>6. local[s].phase = "new" /\ guard' = guard \cup {s}
    BY <1>1 DEF Create
  <2>7. request'[s].requested > 0 /\ NoToken \in Token \cup {NoToken}
        /\ \A t \in Session \ {s} : request'[t].requested = P[t].requested
    BY <2>2, <2>4
  <2> QED
    BY <2>2, <2>3, <2>5, <2>6, <2>7, OpeningKeeps, Zenon DEF P
<1>2. ASSUME NEW s \in Session, Inherit(s) PROVE Goal
  <2>0. PICK p \in Session : \E d \in P[p].delegations :
          /\ request' = [P EXCEPT ![p] = Consumed(@, d), ![s] = ChildRequest(d)]
          /\ \E b \in Budgets :
               /\ ResolveBudget(b)
               /\ local' = [local EXCEPT ![s] = Opened(1, b, d.token)]
    BY <1>2 DEF Inherit, P
  <2>1. PICK d \in P[p].delegations :
          /\ request' = [P EXCEPT ![p] = Consumed(@, d), ![s] = ChildRequest(d)]
          /\ \E b \in Budgets :
               /\ ResolveBudget(b)
               /\ local' = [local EXCEPT ![s] = Opened(1, b, d.token)]
    BY <2>0
  <2>2. PICK b \in Budgets :
          ResolveBudget(b) /\ local' = [local EXCEPT ![s] = Opened(1, b, d.token)]
    BY <2>1
  <2>3. d.token \in Token
    BY <1>0 DEF Request, Delegation
  <2>4. Consumed(P[p], d).requested = P[p].requested
        /\ Consumed(P[p], d).tokens \subseteq P[p].tokens
    BY <1>0 DEF Consumed, Request
  <2>5. request'[s].requested = 1
        /\ \A t \in Session \ {s} : /\ request'[t].requested = P[t].requested
                                    /\ request'[t].tokens \subseteq P[t].tokens
    BY <1>0, <1>d, <2>1, <2>4
  <2>6. AbsentHoldsNothing'
    BY <1>p, <2>5 DEF AbsentHoldsNothing
  <2>7. local[s].phase = "new" /\ guard' = guard \cup {s}
    BY <1>2 DEF Inherit
  <2>8. 1 \in Nat \ {0} /\ request'[s].requested > 0
        /\ \A t \in Session \ {s} : request'[t].requested = P[t].requested
    BY <2>5
  <2>9. PICK n \in Nat \ {0}, k \in Token \cup {NoToken} :
          local' = [local EXCEPT ![s] = Opened(n, b, k)]
    BY <2>2, <2>3, <2>8
  <2>10. b \in Budgets /\ ResolveBudget(b)
    BY <2>2
  <2> QED
    BY <2>6, <2>7, <2>8, <2>9, <2>10, OpeningKeeps, Zenon DEF P
<1>3. ASSUME NEW s \in Session, InheritCrash(s) \/ RejectInherited(s)
      PROVE  Goal
  <2>1. /\ local[s].phase = "new" /\ guard' = guard
        /\ \E b \in Budgets : ResolveBudget(b)
        /\ local' = [local EXCEPT ![s] = Fresh("gone")]
    BY <1>3 DEF InheritCrash, RejectInherited, P
  <2>2. \A t \in Session \ {s} : request'[t] = P[t]
    BY <1>0, <1>3 DEF InheritCrash, RejectInherited, P
  <2>3. request'[s].requested = 1 \/ request'[s] = P[s]
    BY <1>0, <1>3, <1>d DEF InheritCrash, RejectInherited, P
  <2>4. AbsentHoldsNothing'
    BY <1>p, <2>2, <2>3 DEF AbsentHoldsNothing
  <2>5. s \notin guard
    BY <1>g, <2>1
  <2>6. local'[s].phase = "gone" /\ \A t \in Session \ {s} : local'[t] = local[t]
    BY <1>0, <1>a, <2>1
  <2>7. \A t \in Session : local'[t].phase = "open" =>
            /\ local[t].phase = "open" /\ t \in guard'
            /\ local'[t].effective = local[t].effective
            /\ request'[t].requested = request[t].requested
    BY <1>p, <1>g, <2>1, <2>2, <2>6
  <2>8. \A t \in guard' : local'[t].phase \in {"open", "closing"}
    BY <1>g, <2>1, <2>5, <2>6 DEF TypeOK
  <2>9. Afresh \/ Upheld
    BY <2>1, ResolvedBooks
  <2> QED
    BY <2>1, <2>4, <2>7, <2>8, <2>9, SlotFrame DEF P
<1>4. ASSUME NEW s \in Session,
             Timeout(s) \/ CancelPendingAcquire(s) \/ AcquireError(s)
      PROVE  Goal
  <2>1. \A t \in Session : \/ request'[t] = P[t]
                           \/ /\ request'[t].requested = request[t].requested
                              /\ request'[t].tokens = request[t].tokens
    <3>1. CASE request' = request \/ request' = P
      BY <3>1
    <3>2. CASE request' = [request EXCEPT ![s].ticket = 0]
      BY <1>0, <3>2 DEF Request
    <3> QED
      BY <1>4, <3>1, <3>2 DEF Timeout, CancelPendingAcquire, AcquireError, P
  <2>2. AbsentHoldsNothing'
    BY <1>p, <2>1 DEF AbsentHoldsNothing
  <2>3. \A t \in Session : local[t].phase = "open" =>
          request'[t].requested = request[t].requested
    BY <1>p, <2>1
  <2>4. PICK l \in {[local[s] EXCEPT !.acquiring = 0],
                   [local[s] EXCEPT !.persistent = FALSE]} :
          local' = [local EXCEPT ![s] = l]
    BY <1>4 DEF Timeout, CancelPendingAcquire, AcquireError
  <2>5. l.phase = local[s].phase /\ l.effective = local[s].effective
    BY <1>0 DEF Local
  <2>6. guard' = guard /\ Upheld
    BY <1>4, <1>u
    DEF BooksUnchanged, Timeout, CancelPendingAcquire, AcquireError
  <2> QED
    BY <2>2, <2>3, <2>4, <2>5, <2>6, QuietStep
<1>5. ASSUME NEW s \in Session,
             Destroy(s) \/ FreeOwnerGuard(s) \/ Crash(s)
      PROVE  Goal
  <2>1. /\ \A t \in Session \ {s} : request'[t] = request[t]
        /\ request'[s] \in {request[s], Absent}
    BY <1>0, <1>5 DEF Destroy, FreeOwnerGuard, Crash
  <2>2. AbsentHoldsNothing'
    BY <1>p, <1>a, <2>1 DEF AbsentHoldsNothing
  <2>3. /\ \A t \in Session \ {s} : local'[t] = local[t]
        /\ \/ local'[s].phase = "closing" /\ guard' = guard
           \/ local'[s].phase = "gone" /\ guard' = guard \ {s}
        /\ Upheld
    BY <1>0, <1>a, <1>5, <1>u DEF BooksUnchanged, Destroy, FreeOwnerGuard, Crash
  <2>4. \A t \in Session : local'[t].phase = "open" =>
          /\ local[t].phase = "open" /\ t \in guard'
          /\ local'[t].effective = local[t].effective
          /\ request'[t].requested = request[t].requested
    BY <1>g, <2>1, <2>3
  <2>5. \A t \in guard' : local'[t].phase \in {"open", "closing"}
    BY <1>g, <2>3 DEF TypeOK
  <2> QED
    BY <2>2, <2>3, <2>4, <2>5, SlotFrame
<1>6. ASSUME NEW s \in Session, NEW w \in Worker,
             \/ AcquireInherited(s, w)
             \/ Release(s, w)
             \/ AbandonLease(s, w)
             \/ CancelPendingDelegation(s, w)
             \/ \E children \in SUBSET Session : CreateDelegation(s, w, children)
      PROVE  Goal
  <2>1. PICK f \in {request, P} : \A t \in Session :
          /\ request'[t].requested = f[t].requested
          /\ request'[t].tokens \subseteq f[t].tokens
    <3>1. CASE request' = request \/ request' = P
      BY <3>1
    <3>2. CASE \E k : request' = [P EXCEPT ![s] = WithoutLease(@, k)]
      <4>1. \A k : /\ WithoutLease(P[s], k).requested = P[s].requested
                   /\ WithoutLease(P[s], k).tokens \subseteq P[s].tokens
        BY <1>0 DEF WithoutLease, Request
      <4> QED
        BY <1>0, <3>2, <4>1
    <3>3. CASE \E d : request' = [P EXCEPT ![s] = WithDelegation(@, d)]
      <4>1. \A d : /\ WithDelegation(P[s], d).requested = P[s].requested
                   /\ WithDelegation(P[s], d).tokens = P[s].tokens
        BY <1>0 DEF WithDelegation, Request
      <4> QED
        BY <1>0, <3>3, <4>1
    <3> QED
      BY <1>6, <3>1, <3>2, <3>3
      DEF AcquireInherited, Release, AbandonLease, CancelPendingDelegation,
          CreateDelegation, P
  <2>2. AbsentHoldsNothing'
    BY <1>p, <2>1 DEF AbsentHoldsNothing
  <2>3. \A t \in Session : local[t].phase = "open" =>
          request'[t].requested = request[t].requested
    BY <1>p, <2>1
  <2>4. guard' = guard /\ Upheld
    BY <1>6, <1>u
    DEF BooksUnchanged, AcquireInherited, Release, AbandonLease, CancelPendingDelegation,
        CreateDelegation
  <2>5. CASE AcquireInherited(s, w)
    <3>1. local' = [local EXCEPT ![s] = Held(local[s], w, local[s].inherited)]
      BY <2>5 DEF AcquireInherited
    <3>2. Held(local[s], w, local[s].inherited).phase = local[s].phase
          /\ Held(local[s], w, local[s].inherited).effective = local[s].effective
      BY <1>0, HeldKeeps
    <3> QED
      BY <2>2, <2>3, <2>4, <3>1, <3>2, QuietStep
  <2> DEFINE e == Emptied(local[s], w)
  <2>6. e \in Local /\ e.phase = local[s].phase
        /\ e.effective = local[s].effective
    BY <1>0, EmptiedType, EmptiedKeeps
  <2>7. CASE AbandonLease(s, w)
    <3>1. local' = [local EXCEPT ![s] = e]
      BY <2>7 DEF AbandonLease
    <3> QED
      BY <2>2, <2>3, <2>4, <2>6, <3>1, QuietStep
  <2>8. CASE Release(s, w)
    <3>1. PICK n, k :
            local' = [local EXCEPT ![s] =
              [e EXCEPT !.granted = n, !.inherited = k]]
      BY <2>8 DEF Release
    <3>2. [e EXCEPT !.granted = n, !.inherited = k].phase = local[s].phase
          /\ [e EXCEPT !.granted = n, !.inherited = k].effective
               = local[s].effective
      BY <2>6 DEF Local
    <3> QED
      BY <2>2, <2>3, <2>4, <3>1, <3>2, QuietStep
  <2>9. CASE CancelPendingDelegation(s, w)
    <3>1. local' = [local EXCEPT ![s] = local[s]]
      BY <1>0, <2>9 DEF CancelPendingDelegation
    <3> QED
      BY <2>2, <2>3, <2>4, <3>1, QuietStep
  <2>10. CASE \E children \in SUBSET Session : CreateDelegation(s, w, children)
    <3>1. PICK D, n :
            local' = [local EXCEPT ![s] =
              [local[s] EXCEPT !.delegated = D, !.granted = n]]
      BY <2>10 DEF CreateDelegation
    <3>2. [local[s] EXCEPT !.delegated = D, !.granted = n].phase = local[s].phase
          /\ [local[s] EXCEPT !.delegated = D, !.granted = n].effective
               = local[s].effective
      BY <1>0 DEF Local
    <3> QED
      BY <2>2, <2>3, <2>4, <3>1, <3>2, QuietStep
  <2> QED
    BY <1>6, <2>5, <2>7, <2>8, <2>9, <2>10
<1>7. ASSUME NEW s \in Session, NEW w \in Worker, NEW l \in Local,
             local[s].phase = "open",
             l.phase = local[s].phase, l.effective = local[s].effective,
             Try(s, w, l)
      PROVE  Goal
  <2>1. PICK ticket :
          \/ \E k \in Token \ InUse :
               /\ request' = [Queued(s, ticket) EXCEPT
                    ![s].tokens = @ \cup {k}, ![s].ticket = 0]
               /\ local' = [local EXCEPT ![s] =
                    [Held(@, w, k) EXCEPT !.persistent = FALSE,
                                          !.acquiring = 0]]
          \/ /\ request' = Queued(s, ticket)
             /\ local' = [local EXCEPT ![s] = l]
    BY <1>7, Zenon DEF Try
  <2>2. \A t \in Session : /\ Queued(s, ticket)[t].requested = P[t].requested
                           /\ Queued(s, ticket)[t].tokens = P[t].tokens
    BY <1>0 DEF Queued, Request, P
  <2>3. P[s] = request[s] /\ request[s].requested > 0
    BY <1>7, <1>p DEF SlotInv
  <2>4. guard' = guard
    BY <1>7 DEF Try
  <2>b. Upheld
    <3>1. budget' = budget /\ ceiling' = ceiling /\ (lost => lost')
      BY <1>7, TryBooks
    <3> QED
      BY <3>1 DEF Upheld, TypeOK, SlotInv, WithinBudget
  <2>5. CASE /\ request' = Queued(s, ticket)
             /\ local' = [local EXCEPT ![s] = l]
    <3>1. AbsentHoldsNothing'
      BY <1>p, <2>2, <2>5 DEF AbsentHoldsNothing
    <3>2. \A t \in Session : local[t].phase = "open" =>
            request'[t].requested = request[t].requested
      BY <1>p, <2>2, <2>5
    <3> QED
      BY <1>7, <2>4, <2>b, <2>5, <3>1, <3>2, QuietStep
  <2>6. ASSUME NEW k \in Token \ InUse,
               /\ request' = [Queued(s, ticket) EXCEPT
                    ![s].tokens = @ \cup {k}, ![s].ticket = 0]
               /\ local' = [local EXCEPT ![s] =
                    [Held(@, w, k) EXCEPT !.persistent = FALSE,
                                          !.acquiring = 0]]
        PROVE  Goal
    <3> DEFINE h == [Held(local[s], w, k) EXCEPT !.persistent = FALSE,
                                                 !.acquiring = 0]
               Q == Queued(s, ticket)
    <3>1. Held(local[s], w, k) \in Local
          /\ Held(local[s], w, k).phase = local[s].phase
          /\ Held(local[s], w, k).effective = local[s].effective
      BY <1>0, HeldType, HeldKeeps
    <3>2. h.phase = local[s].phase /\ h.effective = local[s].effective
      BY <3>1 DEF Local
    <3>3. local' = [local EXCEPT ![s] = h]
      BY <2>6
    <3>4. /\ DOMAIN Q = Session
          /\ Q[s] = [P[s] EXCEPT !.ticket = ticket]
          /\ \A t \in Session \ {s} : Q[t] = P[t]
      BY <1>0 DEF Queued, P
    <3>5. /\ request'[s].requested = request[s].requested
          /\ \A t \in Session \ {s} : request'[t] = P[t]
      BY <1>0, <2>3, <2>6, <3>4 DEF Queued, Request, P
    <3>6. AbsentHoldsNothing'
      BY <1>0, <1>p, <2>3, <3>5 DEF AbsentHoldsNothing, Request
    <3>7. \A t \in Session : local[t].phase = "open" =>
            request'[t].requested = request[t].requested
      BY <1>p, <3>5
    <3> HIDE DEF h
    <3> QED
      BY <2>4, <2>b, <3>2, <3>3, <3>6, <3>7, QuietStep
  <2> QED
    BY <2>1, <2>5, <2>6
<1>8. ASSUME NEW s \in Session, NEW w \in Worker,
             PollAcquire(s, w) \/ Acquire(s, w)
      PROVE  Goal
  <2>1. w \in Nat /\ local[s] \in Local
    BY <1>0 DEF Worker
  <2>2. [local[s] EXCEPT !.persistent = TRUE] \in Local
        /\ [local[s] EXCEPT !.acquiring = w] \in Local
    BY <2>1, PersistentType, AcquiringType, Zenon
  <2>3. /\ [local[s] EXCEPT !.persistent = TRUE].phase = local[s].phase
        /\ [local[s] EXCEPT !.persistent = TRUE].effective = local[s].effective
        /\ [local[s] EXCEPT !.acquiring = w].phase = local[s].phase
        /\ [local[s] EXCEPT !.acquiring = w].effective = local[s].effective
    BY <2>1 DEF Local
  <2> QED
    BY <1>7, <1>8, <2>2, <2>3, Zenon DEF PollAcquire, Acquire, MayStart
<1>9. ASSUME Snapshot \/ RepairWorkerBudget \/ UNCHANGED vars PROVE Goal
  <2>1. /\ request' \in {P, request} /\ guard' = guard /\ local' = local
        /\ BooksStep
    BY <1>9
    DEF Snapshot, RepairWorkerBudget, vars, P, BooksStep, BooksUnchanged
  <2>2. AbsentHoldsNothing'
    BY <1>p, <2>1 DEF AbsentHoldsNothing
  <2>3. \A t \in Session : local'[t].phase = "open" =>
          /\ local[t].phase = "open" /\ t \in guard'
          /\ local'[t].effective = local[t].effective
          /\ request'[t].requested = request[t].requested
    BY <1>p, <1>g, <2>1
  <2>4. \A t \in guard' : local'[t].phase \in {"open", "closing"}
    BY <1>g, <2>1 DEF TypeOK
  <2> QED
    BY <2>1, <2>2, <2>3, <2>4, BooksOfStep, SlotFrame DEF P
<1> QED
  BY <1>1, <1>2, <1>3, <1>4, <1>5, <1>6, <1>8, <1>9
  DEF Next, SessionStep, WorkerStep

\* Nothing is open, guarded or requested in an initial state.
LEMMA SlotInit == Init => SlotInv
<1> SUFFICES ASSUME Init PROVE SlotInv
  OBVIOUS
<1>1. LiveLeases = {}
  BY LiveLeasesAre DEF Init
<1>2. WithinBudget
  <2>1. Cardinality(LiveLeases) = 0
    BY <1>1, FS_EmptySet
  <2> QED
    BY <2>1 DEF Init, WithinBudget
<1>3. \A s \in Session : local[s].phase = "new" /\ request[s].tokens = {}
  BY DEF Init, Fresh, Absent
<1> QED
  BY <1>2, <1>3 DEF Init, SlotInv

LEMMA SlotInductive ==
  ASSUME TypeOK, SlotInv, [Next]_vars
  PROVE  SlotInv'
<1>1. TypeOK'
  BY TypeStep
<1>2. LeasesFit'
  BY <1>1, PoolStep, PoolKeepsBudget, SlotInvIs
<1> QED
  BY <1>1, <1>2, SlotStep, SlotInvIs

\* In every reachable state the budget of the file is the largest resolved as
\* long as the file was never unreadable beside live requests, these hold at
\* most that many leases unless a grant overlooked an unreadable request too,
\* and every open session is guarded and works with a budget so resolved.
THEOREM BudgetHolds == Spec => [](SlotInv /\ WithinBudget)
<1>1. Init => TypeOK /\ SlotInv
  BY TypeInit, SlotInit
<1>2. TypeOK /\ SlotInv /\ [Next]_vars => (TypeOK /\ SlotInv)'
  BY TypeStep, SlotInductive
<1>3. SlotInv => SlotInv /\ WithinBudget
  BY DEF SlotInv
<1> QED
  BY <1>1, <1>2, <1>3, PTL DEF Spec

\* The request directory implements the pool of slots, whose capacity is
\* replaced beside taken slots only when the budget file was unreadable.
THEOREM PoolRefinement == Spec => PoolSpec
<1>1. Init => Pool!Init
  BY LiveLeasesAre DEF Init, Pool!Init
<1>2. TypeOK /\ SlotInv /\ [Next]_vars => [Pool!Next]_<<ceiling, LiveLeases, lost, overlooked>>
  BY PoolStep
<1>3. Spec => [](TypeOK /\ SlotInv)
  BY TypeCorrect, BudgetHolds, PTL
<1> QED
  BY <1>1, <1>2, <1>3, PTL DEF Spec, PoolSpec, Pool!Spec
-----------------------------------------------------------------------------
(***************************************************************************)
(* The invariant behind the grants: who may name a token.                  *)
(***************************************************************************)

Lent(s, w) == w \in local[s].delegated

\* The workers of a session hold different leases, within its request; the
\* one inside Acquire holds none; a session that inherited has one worker.
WorkersApart ==
  \A s \in Session :
    /\ local[s].inherited # NoToken => local[s].requested = 1
    /\ \A w \in Worker : local[s].leases[w] # NoToken =>
         w <= local[s].requested
    /\ local[s].acquiring # 0 =>
         /\ local[s].acquiring \in Worker
         /\ FreeWorker(s, local[s].acquiring)
    /\ \A v, w \in Worker :
         local[s].leases[v] = local[s].leases[w] /\ local[s].leases[w] # NoToken
           => v = w

\* A token is a lease in one live request; a delegation names a lease of its
\* own request, and its token is neither a lease yet nor another's.
RequestsApart ==
  /\ \A s, t \in guard :
       s # t => request[s].tokens \cap request[t].tokens = {}
  /\ \A s \in guard : \A d \in request[s].delegations :
       /\ d.lease \in request[s].tokens
       /\ \A e \in request[s].delegations : e.lease = d.lease => e = d
       /\ \A t \in guard :
            /\ d.token \notin request[t].tokens
            /\ \A e \in request[t].delegations :
                 e.token = d.token => s = t /\ e = d

\* What a session inherited is nobody else's, and no longer pending.
InheritedApart ==
  \A s \in Session, t \in guard :
    /\ local[s].inherited \in request[t].tokens => s = t
    /\ \A d \in request[t].delegations : d.token # local[s].inherited

\* The lease of a worker that runs stands in the request, and so does the
\* inherited one unless it was handed on.
RunningBacked ==
  \A s \in Session : local[s].phase = "open" =>
    \A w \in Worker :
      local[s].leases[w] # NoToken /\ ~ Lent(s, w) =>
        local[s].leases[w] \in request[s].tokens
InheritedBacked ==
  \A s \in Session :
    local[s].phase = "open" /\ local[s].inherited # NoToken =>
      \/ local[s].inherited \in request[s].tokens
      \/ \E w \in Worker : Lent(s, w)
                           /\ local[s].leases[w] = local[s].inherited
      \/ "failed_write" \in Faults

\* A child that has not started yet was promised a lease that a worker of
\* the parent lent, or one that the parent has let go of for good.
PromisedIsLent ==
  \A s \in guard, c \in Session : \A d \in request[s].delegations :
    environment[c] = d.token =>
      \/ \E w \in Worker : Lent(s, w) /\ local[s].leases[w] = d.lease
      \/ /\ local[s].inherited # d.lease
         /\ \A w \in Worker : local[s].leases[w] # d.lease

GrantInv ==
  /\ WorkersApart
  /\ RequestsApart
  /\ InheritedApart
  /\ RunningBacked
  /\ InheritedBacked
  /\ PromisedIsLent

LEMMA FieldTypes ==
  ASSUME TypeOK
  PROVE  /\ \A s \in Session :
              /\ local[s] \in Local
              /\ local[s].leases \in [Worker -> Token \cup {NoToken}]
              /\ local[s].inherited \in Token \cup {NoToken}
              /\ local[s].delegated \subseteq Worker
              /\ environment[s] \in Token \cup {NoToken}
              /\ request[s] \in Request
              /\ request[s].tokens \subseteq Token
              /\ request[s].delegations \subseteq Delegation
              /\ \A d \in request[s].delegations :
                   d.token \in Token /\ d.lease \in Token
         /\ guard \subseteq Session
  BY DEF TypeOK, Local, Request, Delegation

LEMMA NothingHeld ==
  ASSUME NEW p
  PROVE  /\ Fresh(p).phase = p
         /\ Fresh(p).inherited = NoToken
         /\ Fresh(p).acquiring = 0
         /\ \A w \in Worker : Fresh(p).leases[w] = NoToken
  BY DEF Fresh

LEMMA OpenedFields ==
  ASSUME NEW n, NEW b, NEW k
  PROVE  /\ Opened(n, b, k).phase = "open"
         /\ Opened(n, b, k).requested = n
         /\ Opened(n, b, k).inherited = k
         /\ Opened(n, b, k).acquiring = 0
         /\ \A w \in Worker : Opened(n, b, k).leases[w] = NoToken
  BY DEF Opened, Fresh

LEMMA HeldFields ==
  ASSUME NEW l \in Local, NEW w \in Worker,
         NEW k \in Token \cup {NoToken}
  PROVE  /\ Held(l, w, k) \in Local
         /\ Held(l, w, k).leases = [l.leases EXCEPT ![w] = k]
         /\ Held(l, w, k).phase = l.phase
         /\ Held(l, w, k).requested = l.requested
         /\ Held(l, w, k).inherited = l.inherited
         /\ Held(l, w, k).acquiring = l.acquiring
         /\ Held(l, w, k).delegated = l.delegated
<1> DEFINE f == [l.leases EXCEPT ![w] = k]
           n == l.granted + 1
<1>1. Held(l, w, k) = [l EXCEPT !.leases = f, !.granted = n]
  BY DEF Held
<1> HIDE DEF f, n
<1>2. f = [l.leases EXCEPT ![w] = k] /\ n = l.granted + 1
  BY DEF f, n
<1>3. Held(l, w, k) \in Local
  BY HeldType
<1> QED
  BY <1>1, <1>2, <1>3 DEF Local

LEMMA EmptiedFields ==
  ASSUME NEW l \in Local, NEW w \in Worker
  PROVE  /\ Emptied(l, w) \in Local
         /\ Emptied(l, w).leases = [l.leases EXCEPT ![w] = NoToken]
         /\ Emptied(l, w).phase = l.phase
         /\ Emptied(l, w).requested = l.requested
         /\ Emptied(l, w).inherited = l.inherited
         /\ Emptied(l, w).acquiring = l.acquiring
         /\ Emptied(l, w).delegated = l.delegated \ {w}
<1> DEFINE f == [l.leases EXCEPT ![w] = NoToken]
           D == l.delegated \ {w}
<1>1. Emptied(l, w) = [l EXCEPT !.leases = f, !.delegated = D]
  BY DEF Emptied
<1>2. f \in [Worker -> Token \cup {NoToken}] /\ D \in SUBSET Worker
  BY DEF Local
<1> HIDE DEF f, D
<1>3. f = [l.leases EXCEPT ![w] = NoToken] /\ D = l.delegated \ {w}
  BY DEF f, D
<1> QED
  BY <1>1, <1>2, <1>3 DEF Local

\* What a drawn token is not.
LEMMA FreshToken ==
  ASSUME TypeOK, NEW k \in Token \ InUse
  PROVE  \A s \in Session :
           /\ k \notin request[s].tokens
           /\ k # environment[s] /\ k # local[s].inherited
           /\ \A w \in Worker : k # local[s].leases[w]
           /\ \A d \in request[s].delegations : k # d.token /\ k # d.lease
  BY DEF InUse

\* The sessions a transaction prunes are not those that live.
LEMMA PruneLive ==
  ASSUME TypeOK, NEW s \in Session
  PROVE  /\ s \in guard => PruneEntries[s] = request[s]
         /\ s \notin guard => /\ PruneEntries[s].tokens = {}
                              /\ PruneEntries[s].delegations = {}
  BY DEF PruneEntries, Absent, TypeOK

-----------------------------------------------------------------------------
(* Steps that hand out no token: a session keeps its workers or loses them, *)
(* a live request keeps its grants or is replaced by an empty one.          *)
KeepsWorkers(s) ==
  /\ local'[s].phase = local[s].phase
  /\ local'[s].requested = local[s].requested
  /\ local'[s].inherited = local[s].inherited
  /\ local'[s].leases = local[s].leases
  /\ local'[s].delegated = local[s].delegated
  /\ \/ local'[s].acquiring \in {0, local[s].acquiring}
     \/ /\ local'[s].acquiring \in Worker
        /\ FreeWorker(s, local'[s].acquiring)
LosesWorkers(s) ==
  /\ local'[s].inherited = NoToken
  /\ local'[s].acquiring = 0
  /\ \A w \in Worker : local'[s].leases[w] = NoToken
KeepsRequest(s) ==
  /\ s \in guard
  /\ request'[s].tokens = request[s].tokens
  /\ request'[s].delegations = request[s].delegations
EmptyRequest(s) ==
  /\ request'[s].tokens = {}
  /\ request'[s].delegations = {}
  /\ LosesWorkers(s)

LEMMA GrantFrame ==
  ASSUME TypeOK, GrantInv, guard' \subseteq Session,
         \A s \in Session : KeepsWorkers(s) \/ LosesWorkers(s),
         \A s \in guard' : KeepsRequest(s) \/ EmptyRequest(s),
         \A s \in Session : local'[s].phase = "open" => s \in guard',
         \A s \in Session : environment'[s] \in {environment[s], NoToken}
  PROVE  GrantInv'
<1> USE FieldTypes DEF GrantInv
<1>1. WorkersApart'
  <2> SUFFICES ASSUME NEW s \in Session
               PROVE  /\ local'[s].inherited # NoToken => local'[s].requested = 1
                      /\ \A w \in Worker : local'[s].leases[w] # NoToken =>
                           w <= local'[s].requested
                      /\ local'[s].acquiring # 0 =>
                           /\ local'[s].acquiring \in Worker
                           /\ FreeWorker(s, local[s].acquiring)'
                      /\ \A v, w \in Worker :
                           /\ local'[s].leases[v] = local'[s].leases[w]
                           /\ local'[s].leases[w] # NoToken
                           => v = w
    BY DEF WorkersApart
  <2>1. CASE LosesWorkers(s)
    BY <2>1 DEF LosesWorkers
  <2>2. CASE KeepsWorkers(s)
    BY <2>2 DEF KeepsWorkers, WorkersApart, FreeWorker
  <2> QED
    BY <2>1, <2>2
<1>2. RequestsApart'
  <2>1. \A s \in guard' :
          \/ KeepsRequest(s)
          \/ request'[s].tokens = {} /\ request'[s].delegations = {}
    BY DEF EmptyRequest
  <2> QED
    BY <2>1 DEF RequestsApart, KeepsRequest
<1>3. InheritedApart'
  <2> SUFFICES ASSUME NEW s \in Session, NEW t \in guard'
               PROVE  /\ local'[s].inherited \in request'[t].tokens => s = t
                      /\ \A d \in request'[t].delegations :
                           d.token # local'[s].inherited
    BY DEF InheritedApart
  <2>1. CASE request'[t].tokens = {} /\ request'[t].delegations = {}
    BY <2>1
  <2>2. CASE KeepsRequest(t)
    BY <2>2 DEF KeepsRequest, InheritedApart, KeepsWorkers, LosesWorkers
  <2> QED
    BY <2>1, <2>2 DEF EmptyRequest
<1>4. RunningBacked' /\ InheritedBacked'
  <2> SUFFICES ASSUME NEW s \in Session, local'[s].phase = "open"
               PROVE  /\ \A w \in Worker :
                           local'[s].leases[w] # NoToken /\ ~ Lent(s, w)' =>
                             local'[s].leases[w] \in request'[s].tokens
                      /\ local'[s].inherited # NoToken =>
                           \/ local'[s].inherited \in request'[s].tokens
                           \/ \E w \in Worker :
                                /\ Lent(s, w)'
                                /\ local'[s].leases[w] = local'[s].inherited
                           \/ "failed_write" \in Faults
    BY DEF RunningBacked, InheritedBacked
  <2>1. CASE LosesWorkers(s)
    BY <2>1 DEF LosesWorkers
  <2>2. CASE KeepsWorkers(s) /\ KeepsRequest(s)
    BY <2>2 DEF KeepsWorkers, KeepsRequest, RunningBacked, InheritedBacked, Lent
  <2> QED
    BY <2>1, <2>2 DEF EmptyRequest
<1>5. PromisedIsLent'
  <2> SUFFICES ASSUME NEW s \in guard', NEW c \in Session,
                      NEW d \in request'[s].delegations,
                      environment'[c] = d.token
               PROVE  \/ \E w \in Worker :
                           Lent(s, w)' /\ local'[s].leases[w] = d.lease
                      \/ /\ local'[s].inherited # d.lease
                         /\ \A w \in Worker : local'[s].leases[w] # d.lease
    BY DEF PromisedIsLent
  <2>1. KeepsRequest(s) /\ d \in request[s].delegations /\ d.lease \in Token
        /\ d.token \in Token
    BY DEF EmptyRequest, KeepsRequest
  <2>2. environment[c] = d.token
    BY <2>1
  <2>3. CASE LosesWorkers(s)
    BY <2>1, <2>3 DEF LosesWorkers
  <2>4. CASE KeepsWorkers(s)
    BY <2>1, <2>2, <2>4 DEF KeepsWorkers, KeepsRequest, PromisedIsLent, Lent
  <2> QED
    BY <2>3, <2>4
<1> QED
  BY <1>1, <1>2, <1>3, <1>4, <1>5

-----------------------------------------------------------------------------
(* A worker takes a slot: the token it draws was nobody's.                  *)
LEMMA TakingKeepsGrants ==
  ASSUME TypeOK, GrantInv, NEW s \in guard, NEW w \in Worker,
         NEW k \in Token \ InUse, FreeWorker(s, w),
         guard' = guard, environment' = environment,
         \A t \in Session \ {s} : local'[t] = local[t],
         local'[s].phase = local[s].phase,
         local'[s].requested = local[s].requested,
         local'[s].inherited = local[s].inherited,
         local'[s].delegated = local[s].delegated,
         local'[s].acquiring = 0,
         local'[s].leases = [local[s].leases EXCEPT ![w] = k],
         \A t \in guard : /\ request'[t].delegations = request[t].delegations
                          /\ t # s => request'[t].tokens = request[t].tokens,
         request'[s].tokens = request[s].tokens \cup {k},
         \A t \in Session : local[t].phase = "open" => t \in guard
  PROVE  GrantInv'
<1> USE FieldTypes, FreshToken DEF GrantInv
<1>0. /\ k # NoToken /\ local[s].leases[w] = NoToken
      /\ w <= local[s].requested /\ s \in Session
      /\ local'[s].leases[w] = k
      /\ \A v \in Worker : v # w => local'[s].leases[v] = local[s].leases[v]
  BY DEF FreeWorker
<1>1. WorkersApart'
  <2>1. \A t \in Session \ {s} : \A v \in Worker :
          FreeWorker(t, v)' = FreeWorker(t, v)
    BY DEF FreeWorker
  <2>2. \A t \in Session \ {s} : FreeWorker(t, local[t].acquiring)'
          = FreeWorker(t, local[t].acquiring)
    BY DEF FreeWorker
  <2>3. \A u, v \in Worker : local'[s].leases[u] = local'[s].leases[v]
          /\ local'[s].leases[v] # NoToken => u = v
    BY <1>0 DEF WorkersApart
  <2> QED
    BY <1>0, <2>1, <2>2, <2>3 DEF WorkersApart, FreeWorker
<1>2. RequestsApart'
  BY DEF RequestsApart
<1>3. InheritedApart'
  BY <1>0 DEF InheritedApart
<1>4. RunningBacked'
  BY <1>0 DEF RunningBacked, Lent
<1>5. InheritedBacked'
  BY <1>0 DEF InheritedBacked, Lent
<1>6. PromisedIsLent'
  BY <1>0 DEF PromisedIsLent, Lent
<1> QED
  BY <1>1, <1>2, <1>3, <1>4, <1>5, <1>6

\* The first worker of a session that inherited uses the lease it was handed.
LEMMA UsingKeepsGrants ==
  ASSUME TypeOK, GrantInv, NEW s \in guard, NEW w \in Worker,
         FreeWorker(s, w), local[s].inherited # NoToken,
         \E t \in guard : local[s].inherited \in request[t].tokens,
         guard' = guard, environment' = environment,
         local[s].acquiring = 0,
         \A t \in Session \ {s} : local'[t] = local[t],
         local'[s].phase = local[s].phase,
         local'[s].requested = local[s].requested,
         local'[s].inherited = local[s].inherited,
         local'[s].delegated = local[s].delegated,
         local'[s].acquiring = 0,
         local'[s].leases = [local[s].leases EXCEPT ![w] = local[s].inherited],
         \A t \in guard : request'[t] = request[t],
         \A t \in Session : local[t].phase = "open" => t \in guard
  PROVE  GrantInv'
<1> USE FieldTypes DEF GrantInv
<1> DEFINE k == local[s].inherited
<1>0. /\ w = 1 /\ s \in Session /\ k \in Token
      /\ \A v \in Worker : local[s].leases[v] = NoToken
      /\ local'[s].leases[w] = k
      /\ \A v \in Worker : v # w => local'[s].leases[v] = NoToken
      /\ k \in request[s].tokens
      /\ w <= local[s].requested
  BY DEF FreeWorker, WorkersApart, Worker, InheritedApart
<1>1. WorkersApart'
  <2>1. \A t \in Session \ {s} : \A v \in Worker :
          FreeWorker(t, v)' = FreeWorker(t, v)
    BY DEF FreeWorker
  <2>2. \A t \in Session \ {s} : FreeWorker(t, local[t].acquiring)'
          = FreeWorker(t, local[t].acquiring)
    BY DEF FreeWorker
  <2> QED
    BY <1>0, <2>1, <2>2 DEF WorkersApart, FreeWorker
<1>2. RequestsApart'
  BY DEF RequestsApart
<1>3. InheritedApart'
  BY <1>0 DEF InheritedApart
<1>4. RunningBacked'
  BY <1>0 DEF RunningBacked, Lent
<1>5. InheritedBacked'
  BY <1>0 DEF InheritedBacked, Lent
<1>6. PromisedIsLent'
  BY <1>0 DEF PromisedIsLent, Lent
<1> QED
  BY <1>1, <1>2, <1>3, <1>4, <1>5, <1>6

\* A worker lets its lease go, and the request forgets it or keeps it.  A
\* lease that was lent stays in the request, for the child.
LEMMA LettingGoKeepsGrants ==
  ASSUME TypeOK, GrantInv, NEW s \in guard, NEW w \in Worker,
         local[s].leases[w] # NoToken,
         guard' = guard, environment' = environment,
         \A t \in Session \ {s} : local'[t] = local[t],
         local'[s].phase = local[s].phase,
         local'[s].requested = local[s].requested,
         local'[s].acquiring = local[s].acquiring,
         local'[s].leases = [local[s].leases EXCEPT ![w] = NoToken],
         local'[s].delegated = local[s].delegated \ {w},
         local'[s].inherited = IF local[s].inherited = local[s].leases[w]
                               THEN NoToken ELSE local[s].inherited,
         \A t \in guard \ {s} : request'[t] = request[t],
         \/ /\ request'[s].tokens = request[s].tokens
            /\ request'[s].delegations = request[s].delegations
         \/ /\ request'[s].tokens = request[s].tokens \ {local[s].leases[w]}
            /\ request'[s].delegations = {d \in request[s].delegations :
                                            d.lease # local[s].leases[w]}
            /\ ~ Lent(s, w),
         \A t \in Session : local[t].phase = "open" => t \in guard
  PROVE  GrantInv'
<1> USE FieldTypes DEF GrantInv
<1> DEFINE k == local[s].leases[w]
<1>0. /\ s \in Session /\ k \in Token
      /\ local'[s].leases[w] = NoToken
      /\ \A v \in Worker : v # w => /\ local'[s].leases[v] = local[s].leases[v]
                                    /\ local[s].leases[v] # k
                                    /\ Lent(s, v)' = Lent(s, v)
  BY DEF WorkersApart, Lent
<1>r. /\ request'[s].tokens \subseteq request[s].tokens
      /\ request'[s].delegations \subseteq request[s].delegations
      /\ \A d \in request'[s].delegations :
           d.lease \in request[s].tokens => d.lease \in request'[s].tokens
      /\ \A j \in request[s].tokens : j # k => j \in request'[s].tokens
  OBVIOUS
<1>1. WorkersApart'
  <2>1. \A t \in Session \ {s} : \A v \in Worker :
          FreeWorker(t, v)' = FreeWorker(t, v)
    BY DEF FreeWorker
  <2>2. \A t \in Session \ {s} : FreeWorker(t, local[t].acquiring)'
          = FreeWorker(t, local[t].acquiring)
    BY DEF FreeWorker
  <2> QED
    BY <1>0, <2>1, <2>2 DEF WorkersApart, FreeWorker
<1>2. RequestsApart'
  BY <1>r DEF RequestsApart
<1>3. InheritedApart'
  BY <1>0, <1>r DEF InheritedApart
<1>4. RunningBacked'
  BY <1>0, <1>r DEF RunningBacked, Lent
<1>5. InheritedBacked'
  <2> SUFFICES ASSUME local'[s].phase = "open", local'[s].inherited # NoToken
               PROVE  \/ local'[s].inherited \in request'[s].tokens
                      \/ \E v \in Worker :
                           /\ Lent(s, v)'
                           /\ local'[s].leases[v] = local'[s].inherited
                      \/ "failed_write" \in Faults
    BY <1>0 DEF InheritedBacked, Lent
  <2>1. local'[s].inherited = local[s].inherited /\ local[s].inherited # k
    OBVIOUS
  <2>2. CASE local[s].inherited \in request[s].tokens
    BY <1>r, <2>1, <2>2
  <2>3. ASSUME NEW v \in Worker, Lent(s, v),
               local[s].leases[v] = local[s].inherited
        PROVE  Lent(s, v)' /\ local'[s].leases[v] = local'[s].inherited
    BY <1>0, <2>1, <2>3
  <2>4. \/ local[s].inherited \in request[s].tokens
        \/ \E v \in Worker :
             Lent(s, v) /\ local[s].leases[v] = local[s].inherited
        \/ "failed_write" \in Faults
    <3>1. local[s].phase = "open" /\ local[s].inherited # NoToken
      BY <2>1
    <3> QED
      BY <1>0, <3>1, Zenon DEF InheritedBacked
  <2> QED
    BY <2>2, <2>3, <2>4
<1>6. PromisedIsLent'
  <2> SUFFICES ASSUME NEW c \in Session, NEW d \in request'[s].delegations,
                      environment[c] = d.token
               PROVE  \/ \E v \in Worker :
                           Lent(s, v)' /\ local'[s].leases[v] = d.lease
                      \/ /\ local'[s].inherited # d.lease
                         /\ \A v \in Worker : local'[s].leases[v] # d.lease
    BY <1>0 DEF PromisedIsLent, Lent
  <2>1. CASE d.lease = k
    BY <1>0, <2>1, <1>r
  <2>2. CASE d.lease # k
    <3>1. d \in request[s].delegations
      BY <1>r
    <3>2. ASSUME NEW v \in Worker, Lent(s, v), local[s].leases[v] = d.lease
          PROVE  Lent(s, v)' /\ local'[s].leases[v] = d.lease
      BY <1>0, <2>2, <3>2
    <3>3. ASSUME local[s].inherited # d.lease,
                 \A v \in Worker : local[s].leases[v] # d.lease
          PROVE  /\ local'[s].inherited # d.lease
                 /\ \A v \in Worker : local'[s].leases[v] # d.lease
      BY <1>0, <3>1, <3>3
    <3> QED
      BY <3>1, <3>2, <3>3 DEF PromisedIsLent
  <2> QED
    BY <2>1, <2>2
<1> QED
  BY <1>1, <1>2, <1>3, <1>4, <1>5, <1>6

\* The lease object is destroyed while its transaction fails: the slot stays
\* taken, and no child waits for it.
LEMMA AbandoningKeepsGrants ==
  ASSUME TypeOK, GrantInv, NEW s \in guard, NEW w \in Worker,
         "failed_write" \in Faults, local[s].leases[w] # NoToken,
         \A d \in request[s].delegations : d.lease = local[s].leases[w] =>
           \A c \in Session : environment[c] # d.token,
         UNCHANGED <<request, guard, environment>>,
         \A t \in Session \ {s} : local'[t] = local[t],
         local'[s].phase = local[s].phase,
         local'[s].requested = local[s].requested,
         local'[s].inherited = local[s].inherited,
         local'[s].acquiring = local[s].acquiring,
         local'[s].leases = [local[s].leases EXCEPT ![w] = NoToken],
         local'[s].delegated = local[s].delegated \ {w}
  PROVE  GrantInv'
<1> USE FieldTypes DEF GrantInv
<1>0. /\ s \in Session
      /\ local'[s].leases[w] = NoToken
      /\ \A v \in Worker : v # w => /\ local'[s].leases[v] = local[s].leases[v]
                                    /\ Lent(s, v)' = Lent(s, v)
  BY DEF Lent
<1>1. WorkersApart'
  <2>1. \A t \in Session \ {s} : \A v \in Worker :
          FreeWorker(t, v)' = FreeWorker(t, v)
    BY DEF FreeWorker
  <2>2. \A t \in Session \ {s} : FreeWorker(t, local[t].acquiring)'
          = FreeWorker(t, local[t].acquiring)
    BY DEF FreeWorker
  <2> QED
    BY <1>0, <2>1, <2>2 DEF WorkersApart, FreeWorker
<1>2. RequestsApart' /\ InheritedBacked'
  BY DEF RequestsApart, InheritedBacked
<1>3. InheritedApart'
  BY <1>0 DEF InheritedApart
<1>4. RunningBacked'
  BY <1>0 DEF RunningBacked, Lent
<1>6. PromisedIsLent'
  <2> SUFFICES ASSUME NEW c \in Session, NEW d \in request[s].delegations,
                      environment[c] = d.token
               PROVE  \/ \E v \in Worker :
                           Lent(s, v)' /\ local'[s].leases[v] = d.lease
                      \/ /\ local'[s].inherited # d.lease
                         /\ \A v \in Worker : local'[s].leases[v] # d.lease
    BY <1>0 DEF PromisedIsLent, Lent
  <2>1. d.lease # local[s].leases[w] /\ d.lease \in Token
    OBVIOUS
  <2>2. ASSUME NEW v \in Worker, Lent(s, v), local[s].leases[v] = d.lease
        PROVE  Lent(s, v)' /\ local'[s].leases[v] = d.lease
    BY <1>0, <2>1, <2>2
  <2>3. ASSUME local[s].inherited # d.lease,
               \A v \in Worker : local[s].leases[v] # d.lease
        PROVE  /\ local'[s].inherited # d.lease
               /\ \A v \in Worker : local'[s].leases[v] # d.lease
    BY <1>0, <2>1, <2>3
  <2> QED
    BY <2>2, <2>3 DEF PromisedIsLent
<1> QED
  BY <1>1, <1>2, <1>3, <1>4, <1>6

\* A worker lends its lease to a child under a token that was nobody's.
LEMMA LendingKeepsGrants ==
  ASSUME TypeOK, GrantInv, NEW s \in guard, NEW w \in Worker,
         NEW k \in Token \ InUse, NEW children \in SUBSET Session,
         local[s].leases[w] # NoToken,
         local[s].leases[w] \in request[s].tokens,
         ~ HasDelegation(request[s], local[s].leases[w]),
         guard' = guard,
         \A c \in Session :
           environment'[c] = IF c \in children THEN k ELSE environment[c],
         \A t \in Session \ {s} : local'[t] = local[t],
         local'[s].phase = local[s].phase,
         local'[s].requested = local[s].requested,
         local'[s].inherited = local[s].inherited,
         local'[s].acquiring = local[s].acquiring,
         local'[s].leases = local[s].leases,
         local'[s].delegated = local[s].delegated \cup {w},
         \A t \in guard : /\ request'[t].tokens = request[t].tokens
                          /\ t # s => request'[t].delegations
                                        = request[t].delegations,
         request'[s].delegations = request[s].delegations
           \cup {[token |-> k, lease |-> local[s].leases[w]]},
         \A t \in Session : local[t].phase = "open" => t \in guard
  PROVE  GrantInv'
<1> USE FieldTypes, FreshToken DEF GrantInv
<1> DEFINE n == [token |-> k, lease |-> local[s].leases[w]]
<1>0. /\ s \in Session /\ n.token = k /\ n.lease = local[s].leases[w]
      /\ \A v \in Worker : Lent(s, v) => Lent(s, v)'
      /\ Lent(s, w)'
      /\ request'[s].delegations = request[s].delegations \cup {n}
      /\ \A d \in request[s].delegations : d.lease # n.lease
  BY DEF Lent, HasDelegation
<1> HIDE DEF n
<1>1. WorkersApart'
  <2>1. \A t \in Session : FreeWorker(t, local[t].acquiring)'
          = FreeWorker(t, local[t].acquiring)
    BY DEF FreeWorker
  <2> QED
    BY <1>0, <2>1 DEF WorkersApart
<1>2. RequestsApart'
  <2>1. ASSUME NEW t \in guard, NEW d \in request'[t].delegations
        PROVE  (t = s /\ d = n) \/ d \in request[t].delegations
    BY <1>0, <2>1
  <2>2. ASSUME NEW t \in guard, NEW d \in request[t].delegations
        PROVE  k # d.token /\ k \notin request[t].tokens
    BY <2>2
  <2>3. \A t, u \in guard :
          t # u => request'[t].tokens \cap request'[u].tokens = {}
    BY DEF RequestsApart
  <2>4. ASSUME NEW t \in guard, NEW d \in request'[t].delegations
        PROVE  /\ d.lease \in request'[t].tokens
               /\ \A e \in request'[t].delegations : e.lease = d.lease => e = d
    BY <1>0, <2>1, <2>4 DEF RequestsApart
  <2>5. ASSUME NEW t \in guard, NEW d \in request'[t].delegations,
               NEW u \in guard
        PROVE  /\ d.token \notin request'[u].tokens
               /\ \A e \in request'[u].delegations :
                    e.token = d.token => t = u /\ e = d
    <3>1. CASE d \in request[t].delegations
      BY <1>0, <2>1, <2>2, <3>1 DEF RequestsApart
    <3>2. CASE t = s /\ d = n
      BY <1>0, <2>1, <2>2, <3>2
    <3> QED
      BY <2>1, <2>5, <3>1, <3>2
  <2> QED
    BY <2>3, <2>4, <2>5 DEF RequestsApart
<1>3. InheritedApart'
  BY <1>0 DEF InheritedApart
<1>4. RunningBacked'
  BY <1>0 DEF RunningBacked, Lent
<1>5. InheritedBacked'
  BY <1>0 DEF InheritedBacked, Lent
<1>6. PromisedIsLent'
  <2> SUFFICES ASSUME NEW t \in guard, NEW c \in Session,
                      NEW d \in request'[t].delegations,
                      environment'[c] = d.token
               PROVE  \/ \E v \in Worker :
                           Lent(t, v)' /\ local'[t].leases[v] = d.lease
                      \/ /\ local'[t].inherited # d.lease
                         /\ \A v \in Worker : local'[t].leases[v] # d.lease
    BY DEF PromisedIsLent
  <2>1. CASE t = s /\ d = n
    BY <1>0, <2>1
  <2>2. CASE d \in request[t].delegations
    <3>1. environment[c] = d.token
      BY <2>2
    <3>2. \A v \in Worker : /\ Lent(t, v) => Lent(t, v)'
                            /\ local'[t].leases[v] = local[t].leases[v]
      BY <1>0 DEF Lent
    <3> QED
      BY <2>2, <3>1, <3>2 DEF PromisedIsLent
  <2> QED
    BY <1>0, <2>1, <2>2
<1> QED
  BY <1>1, <1>2, <1>3, <1>4, <1>5, <1>6

\* The parent takes back a lease that no child consumed.
LEMMA TakingBackKeepsGrants ==
  ASSUME TypeOK, GrantInv, NEW s \in guard, NEW w \in Worker,
         Lent(s, w), local[s].leases[w] # NoToken,
         UNCHANGED <<local, guard, environment>>,
         \A t \in guard \ {s} : request'[t] = request[t],
         request'[s].tokens = request[s].tokens \ {local[s].leases[w]},
         request'[s].delegations = {d \in request[s].delegations :
                                      d.lease # local[s].leases[w]},
         \A t \in Session : local[t].phase = "open" => t \in guard
  PROVE  GrantInv'
<1> USE FieldTypes DEF GrantInv
<1>1. WorkersApart'
  BY DEF WorkersApart, FreeWorker
<1>2. RequestsApart'
  BY DEF RequestsApart
<1>3. InheritedApart'
  BY DEF InheritedApart
<1>4. RunningBacked'
  BY DEF RunningBacked, Lent, WorkersApart
<1>5. InheritedBacked'
  BY DEF InheritedBacked, Lent
<1>6. PromisedIsLent'
  BY DEF PromisedIsLent, Lent
<1> QED
  BY <1>1, <1>2, <1>3, <1>4, <1>5, <1>6

\* A child takes the lease that was promised to it out of the parent's
\* request and records it in its own, under the token of the promise.
LEMMA InheritingKeepsGrants ==
  ASSUME TypeOK, GrantInv, NEW s \in Session, NEW p \in guard,
         NEW d \in request[p].delegations,
         s \notin guard, environment[s] = d.token,
         guard' = guard \cup {s},
         \A c \in Session : environment'[c] \in {environment[c], NoToken},
         environment'[s] = NoToken,
         \A t \in Session \ {s} : local'[t] = local[t],
         local'[s].requested = 1, local'[s].inherited = d.token,
         local'[s].acquiring = 0,
         \A w \in Worker : local'[s].leases[w] = NoToken,
         request'[s].tokens = {d.token}, request'[s].delegations = {},
         request'[p].tokens = request[p].tokens \ {d.lease},
         request'[p].delegations = request[p].delegations \ {d},
         \A t \in guard \ {p} : request'[t] = request[t],
         \A t \in Session : local[t].phase = "open" => t \in guard
  PROVE  GrantInv'
<1> USE FieldTypes DEF GrantInv
<1>0. /\ s # p /\ p \in Session
      /\ d.token \in Token /\ d.lease \in Token
      /\ \A t \in guard : /\ t # s
                          /\ request'[t].tokens \subseteq request[t].tokens
                          /\ request'[t].delegations
                               \subseteq request[t].delegations
                          /\ d \notin request'[t].delegations
      /\ \A t \in guard, j \in Token :
           j # d.lease => (j \in request'[t].tokens <=> j \in request[t].tokens)
  BY DEF RequestsApart
<1>l. /\ d.lease \in request[p].tokens
      /\ \A t \in guard : t # p => d.lease \notin request[t].tokens
      /\ \A t \in guard : d.token \notin request[t].tokens
      /\ \A t \in guard : \A e \in request[t].delegations :
           e.token = d.token => e = d
      /\ \A e \in request[p].delegations : e # d => e.lease # d.lease
  BY DEF RequestsApart
<1>1. WorkersApart'
  <2>1. \A t \in Session \ {s} : FreeWorker(t, local[t].acquiring)'
          = FreeWorker(t, local[t].acquiring)
    BY DEF FreeWorker
  <2> QED
    BY <2>1 DEF WorkersApart
<1>2. RequestsApart'
  <2>1. ASSUME NEW t \in guard', NEW u \in guard', t # u
        PROVE  request'[t].tokens \cap request'[u].tokens = {}
    BY <1>0, <1>l, <2>1 DEF RequestsApart
  <2>2. ASSUME NEW t \in guard', NEW e \in request'[t].delegations
        PROVE  /\ t \in guard /\ e \in request[t].delegations /\ e # d
               /\ e.lease \in request'[t].tokens
               /\ \A f \in request'[t].delegations : f.lease = e.lease => f = e
    <3>1. t \in guard /\ e \in request[t].delegations /\ e # d
      BY <1>0, <2>2
    <3>2. e.lease \in request[t].tokens
          /\ \A f \in request[t].delegations : f.lease = e.lease => f = e
      BY <3>1 DEF RequestsApart
    <3>3. e.lease # d.lease
      BY <1>l, <3>1, <3>2
    <3> QED
      BY <1>0, <3>1, <3>2, <3>3
  <2>3. ASSUME NEW t \in guard', NEW e \in request'[t].delegations,
               NEW u \in guard'
        PROVE  /\ e.token \notin request'[u].tokens
               /\ \A f \in request'[u].delegations :
                    f.token = e.token => t = u /\ f = e
    <3>1. t \in guard /\ e \in request[t].delegations /\ e # d
      BY <2>2, <2>3
    <3>2. e.token # d.token
      BY <1>l, <3>1
    <3>3. CASE u = s
      BY <3>2, <3>3
    <3>4. CASE u \in guard
      BY <1>0, <3>1, <3>4 DEF RequestsApart
    <3> QED
      BY <3>3, <3>4
  <2> QED
    BY <2>1, <2>2, <2>3 DEF RequestsApart
<1>3. InheritedApart'
  <2> SUFFICES ASSUME NEW t \in Session, NEW u \in guard'
               PROVE  /\ local'[t].inherited \in request'[u].tokens => t = u
                      /\ \A e \in request'[u].delegations :
                           e.token # local'[t].inherited
    BY DEF InheritedApart
  <2>1. CASE u = s
    BY <1>0, <2>1 DEF InheritedApart
  <2>2. CASE u \in guard /\ t = s
    BY <1>0, <1>l, <2>2
  <2>3. CASE u \in guard /\ t # s
    BY <1>0, <2>3 DEF InheritedApart
  <2> QED
    BY <2>1, <2>2, <2>3
<1>p. \A w \in Worker : Lent(p, w) \/ local[p].leases[w] # d.lease
  <2> SUFFICES ASSUME NEW w \in Worker, local[p].leases[w] = d.lease
               PROVE  Lent(p, w)
    OBVIOUS
  <2>1. PICK v \in Worker : Lent(p, v) /\ local[p].leases[v] = d.lease
    BY DEF PromisedIsLent
  <2>2. v = w
    BY <1>0, <2>1 DEF WorkersApart
  <2> QED
    BY <2>1, <2>2
<1>4. RunningBacked'
  BY <1>0, <1>l, <1>p DEF RunningBacked, Lent
<1>5. InheritedBacked'
  <2>1. local[p].inherited = d.lease =>
          \E v \in Worker : Lent(p, v) /\ local[p].leases[v] = d.lease
    BY DEF PromisedIsLent
  <2> QED
    BY <1>0, <1>l, <2>1 DEF InheritedBacked, Lent
<1>6. PromisedIsLent'
  <2> SUFFICES ASSUME NEW t \in guard', NEW c \in Session,
                      NEW e \in request'[t].delegations,
                      environment'[c] = e.token
               PROVE  \/ \E v \in Worker :
                           Lent(t, v)' /\ local'[t].leases[v] = e.lease
                      \/ /\ local'[t].inherited # e.lease
                         /\ \A v \in Worker : local'[t].leases[v] # e.lease
    BY DEF PromisedIsLent
  <2>1. /\ t \in guard /\ e \in request[t].delegations /\ t # s
        /\ environment[c] = e.token
    BY <1>0
  <2>2. local'[t] = local[t] /\ \A v \in Worker : Lent(t, v)' = Lent(t, v)
    BY <2>1 DEF Lent
  <2> QED
    BY <2>1, <2>2 DEF PromisedIsLent
<1> QED
  BY <1>1, <1>2, <1>3, <1>4, <1>5, <1>6

-----------------------------------------------------------------------------
LEMMA QuietKeepsGrants ==
  ASSUME TypeOK, SlotInv, GrantInv,
         UNCHANGED <<guard, environment>>,
         \A s \in Session : KeepsWorkers(s),
         \A s \in guard : /\ request'[s].tokens = request[s].tokens
                          /\ request'[s].delegations = request[s].delegations
  PROVE  GrantInv'
<1>1. \A s \in guard' : KeepsRequest(s)
  BY DEF KeepsRequest
<1>2. \A s \in Session : local'[s].phase = "open" => s \in guard'
  BY DEF KeepsWorkers, SlotInv
<1> QED
  BY <1>1, <1>2, GrantFrame DEF TypeOK

\* A session that begins without workers, or ends.
LEMMA EndsKeepGrants ==
  ASSUME TypeOK, SlotInv, GrantInv, NEW s \in Session, NEW l,
         local' = [local EXCEPT ![s] = l],
         LosesWorkers(s),
         guard' \subseteq guard \cup {s},
         l.phase = "open" => s \in guard',
         guard \ {s} \subseteq guard',
         \A t \in guard' \ {s} : KeepsRequest(t),
         s \in guard' => KeepsRequest(s) \/ EmptyRequest(s),
         \A c \in Session : environment'[c] \in {environment[c], NoToken}
  PROVE  GrantInv'
<1>1. local'[s] = l /\ \A t \in Session \ {s} : local'[t] = local[t]
  BY DEF TypeOK
<1>2. \A t \in Session \ {s} : KeepsWorkers(t)
  BY <1>1 DEF KeepsWorkers
<1>3. \A t \in Session : local'[t].phase = "open" => t \in guard'
  BY <1>1 DEF SlotInv
<1>4. guard' \subseteq Session
  BY DEF TypeOK
<1> QED
  BY <1>2, <1>3, <1>4, GrantFrame

LEMMA TryKeepsGrants ==
  ASSUME TypeOK, SlotInv, GrantInv, NEW s \in Session, NEW w \in Worker,
         local[s].phase = "open", FreeWorker(s, w),
         NEW l, Try(s, w, l), l.phase = local[s].phase,
         l.requested = local[s].requested, l.inherited = local[s].inherited,
         l.leases = local[s].leases, l.delegated = local[s].delegated,
         l.acquiring \in {0, local[s].acquiring, w}
  PROVE  GrantInv'
<1> DEFINE P == PruneEntries
<1>0. /\ s \in guard /\ local \in [Session -> Local]
      /\ P \in [Session -> Request]
      /\ guard' = guard /\ environment' = environment
      /\ \A t \in guard : t \in Session /\ P[t] = request[t]
      /\ \A t \in Session : local[t].phase = "open" => t \in guard
  BY PruneLive, PruneType DEF SlotInv, TypeOK, Try
<1>1. PICK ticket :
        \/ \E k \in Token \ InUse :
             /\ request' = [Queued(s, ticket) EXCEPT
                  ![s].tokens = @ \cup {k}, ![s].ticket = 0]
             /\ local' = [local EXCEPT ![s] =
                  [Held(@, w, k) EXCEPT !.persistent = FALSE,
                                        !.acquiring = 0]]
        \/ /\ request' = Queued(s, ticket)
           /\ local' = [local EXCEPT ![s] = l]
  BY Zenon DEF Try
<1> DEFINE Q == Queued(s, ticket)
<1>2. /\ DOMAIN Q = Session
      /\ Q[s] = [P[s] EXCEPT !.ticket = ticket]
      /\ \A t \in Session \ {s} : Q[t] = P[t]
  BY <1>0 DEF Queued
<1>3. /\ Q[s].tokens = request[s].tokens
      /\ Q[s].delegations = request[s].delegations
  BY <1>0, <1>2 DEF Request
<1> HIDE DEF Q, P
<1>4. CASE request' = Q /\ local' = [local EXCEPT ![s] = l]
  <2>1. local'[s] = l /\ \A t \in Session \ {s} : local'[t] = local[t]
    BY <1>0, <1>4
  <2>2. \A t \in Session : KeepsWorkers(t)
    BY <2>1 DEF KeepsWorkers
  <2>3. \A t \in guard : /\ request'[t].tokens = request[t].tokens
                         /\ request'[t].delegations = request[t].delegations
    BY <1>0, <1>2, <1>3, <1>4
  <2> QED
    BY <1>0, <2>2, <2>3, QuietKeepsGrants
<1>5. ASSUME NEW k \in Token \ InUse,
             request' = [Q EXCEPT ![s].tokens = @ \cup {k}, ![s].ticket = 0],
             local' = [local EXCEPT ![s] =
                [Held(@, w, k) EXCEPT !.persistent = FALSE, !.acquiring = 0]]
      PROVE  GrantInv'
  <2> DEFINE h == Held(local[s], w, k)
  <2>1. /\ h \in Local
        /\ h.leases = [local[s].leases EXCEPT ![w] = k]
        /\ h.phase = local[s].phase /\ h.requested = local[s].requested
        /\ h.inherited = local[s].inherited /\ h.delegated = local[s].delegated
    <3>1. local[s] \in Local /\ k \in Token \cup {NoToken}
      BY <1>0
    <3> QED
      BY <3>1, HeldFields
  <2>2. local' = [local EXCEPT ![s] =
                    [h EXCEPT !.persistent = FALSE, !.acquiring = 0]]
    BY <1>5
  <2> HIDE DEF h
  <2>3. /\ \A t \in Session \ {s} : local'[t] = local[t]
        /\ local'[s] = [h EXCEPT !.persistent = FALSE, !.acquiring = 0]
    BY <1>0, <2>2
  <2>4. /\ local'[s].phase = local[s].phase
        /\ local'[s].requested = local[s].requested
        /\ local'[s].inherited = local[s].inherited
        /\ local'[s].delegated = local[s].delegated
        /\ local'[s].acquiring = 0
        /\ local'[s].leases = [local[s].leases EXCEPT ![w] = k]
    BY <2>1, <2>3 DEF Local
  <2>5. request' = [Q EXCEPT ![s] =
                      [Q[s] EXCEPT !.tokens = Q[s].tokens \cup {k}, !.ticket = 0]]
    BY <1>2, <1>5
  <2>6. request'[s] = [Q[s] EXCEPT !.tokens = Q[s].tokens \cup {k}, !.ticket = 0]
        /\ \A t \in Session \ {s} : request'[t] = Q[t]
    BY <1>2, <2>5
  <2>7. request'[s].tokens = request[s].tokens \cup {k}
        /\ request'[s].delegations = request[s].delegations
    <3>1. P[s] \in Request
      BY <1>0
    <3> QED
      BY <1>2, <1>3, <2>6, <3>1 DEF Request
  <2>8. \A t \in guard : /\ request'[t].delegations = request[t].delegations
                         /\ t # s => request'[t].tokens = request[t].tokens
    BY <1>0, <1>2, <2>6, <2>7
  <2> QED
    BY <1>0, <2>3, <2>4, <2>7, <2>8, TakingKeepsGrants
<1> QED
  BY <1>1, <1>4, <1>5, Zenon DEF Q

LEMMA GrantStep ==
  ASSUME TypeOK, SlotInv, GrantInv, [Next]_vars PROVE GrantInv'
<1> DEFINE P == PruneEntries
<1>0. /\ local \in [Session -> Local] /\ P \in [Session -> Request]
      /\ request \in [Session -> Request] /\ guard \subseteq Session
      /\ environment \in [Session -> Token \cup {NoToken}]
      /\ \A t \in guard : P[t] = request[t]
      /\ \A t \in Session \ guard : P[t].tokens = {} /\ P[t].delegations = {}
  BY PruneType, PruneLive DEF TypeOK
<1>g. /\ \A t \in Session : local[t].phase = "open" => t \in guard
      /\ \A t \in guard : local[t].phase \in {"open", "closing"}
  BY DEF SlotInv
<1>a. Absent.tokens = {} /\ Absent.delegations = {}
  BY DEF Absent
<1> HIDE DEF P
<1>1. ASSUME NEW s \in Session, Create(s) PROVE GrantInv'
  <2>1. PICK b \in Budgets, n \in Worker :
          LET capped == IF n > b THEN b ELSE n
          IN  /\ request' = [P EXCEPT ![s] =
                   [Absent EXCEPT !.requested = capped]]
              /\ local' = [local EXCEPT ![s] = Opened(capped, b, NoToken)]
    BY <1>1 DEF Create, P
  <2> DEFINE c == IF n > b THEN b ELSE n
             l == Opened(c, b, NoToken)
  <2>2. /\ request' = [P EXCEPT ![s] = [Absent EXCEPT !.requested = c]]
        /\ local' = [local EXCEPT ![s] = l]
    BY <2>1
  <2>3. /\ guard' = guard \cup {s} /\ environment' = environment
    BY <1>1 DEF Create
  <2>4. /\ l.phase = "open" /\ l.inherited = NoToken /\ l.acquiring = 0
        /\ \A w \in Worker : l.leases[w] = NoToken
    BY OpenedFields
  <2> HIDE DEF c, l
  <2>5. LosesWorkers(s)
    BY <1>0, <2>2, <2>4 DEF LosesWorkers
  <2>6. EmptyRequest(s)
    BY <1>0, <2>2, <2>5 DEF EmptyRequest, Absent
  <2>7. \A t \in guard' \ {s} : KeepsRequest(t)
    BY <1>0, <2>2, <2>3 DEF KeepsRequest
  <2> QED
    BY <2>2, <2>3, <2>5, <2>6, <2>7, EndsKeepGrants
<1>2. ASSUME NEW s \in Session, Inherit(s) PROVE GrantInv'
  <2>0. PICK p \in Session : \E d \in P[p].delegations :
          /\ d.token = environment[s]
          /\ request' = [P EXCEPT ![p] = Consumed(@, d), ![s] = ChildRequest(d)]
          /\ \E b \in Budgets :
               local' = [local EXCEPT ![s] = Opened(1, b, d.token)]
    BY <1>2 DEF Inherit, P
  <2>1. PICK d \in P[p].delegations :
          /\ d.token = environment[s]
          /\ request' = [P EXCEPT ![p] = Consumed(@, d), ![s] = ChildRequest(d)]
          /\ \E b \in Budgets :
               local' = [local EXCEPT ![s] = Opened(1, b, d.token)]
    BY <2>0
  <2>2. PICK b : local' = [local EXCEPT ![s] = Opened(1, b, d.token)]
    BY <2>1
  <2>3. /\ p \in guard /\ d \in request[p].delegations
        /\ s \notin guard /\ s # p
        /\ guard' = guard \cup {s}
        /\ environment' = [environment EXCEPT ![s] = NoToken]
    BY <1>0, <1>2, <1>g DEF Inherit
  <2>4. /\ local'[s] = Opened(1, b, d.token)
        /\ \A t \in Session \ {s} : local'[t] = local[t]
    BY <1>0, <2>2
  <2>5. /\ local'[s].requested = 1 /\ local'[s].inherited = d.token
        /\ local'[s].acquiring = 0
        /\ \A w \in Worker : local'[s].leases[w] = NoToken
    BY <2>4, OpenedFields
  <2>6. /\ request'[s] = ChildRequest(d)
        /\ request'[p] = Consumed(P[p], d)
        /\ \A t \in Session \ {s, p} : request'[t] = P[t]
    BY <1>0, <2>1, <2>3
  <2>7. /\ request'[s].tokens = {d.token} /\ request'[s].delegations = {}
        /\ request'[p].tokens = request[p].tokens \ {d.lease}
        /\ request'[p].delegations = request[p].delegations \ {d}
    <3>1. P[p] = request[p] /\ P[p] \in Request
      BY <1>0, <2>3
    <3>2. /\ request'[p].tokens = P[p].tokens \ {d.lease}
          /\ request'[p].delegations = P[p].delegations \ {d}
      BY <2>6, <3>1 DEF Consumed, Request
    <3>3. request'[s].tokens = {d.token} /\ request'[s].delegations = {}
      BY <2>6 DEF ChildRequest, Absent
    <3> QED
      BY <3>1, <3>2, <3>3
  <2>8. \A t \in guard \ {p} : request'[t] = request[t]
    BY <1>0, <2>3, <2>6
  <2>9. /\ \A c \in Session : environment'[c] \in {environment[c], NoToken}
        /\ environment'[s] = NoToken
    BY <1>0, <2>3
  <2> QED
    BY <1>g, <2>1, <2>3, <2>4, <2>5, <2>7, <2>8, <2>9, InheritingKeepsGrants
<1>3. ASSUME NEW s \in Session, InheritCrash(s) \/ RejectInherited(s)
      PROVE  GrantInv'
  <2>1. /\ guard' = guard /\ s \notin guard
        /\ local' = [local EXCEPT ![s] = Fresh("gone")]
        /\ environment' = [environment EXCEPT ![s] = NoToken]
    BY <1>3, <1>g DEF InheritCrash, RejectInherited
  <2>2. \A t \in Session \ {s} : request'[t] = P[t]
    BY <1>0, <1>3 DEF InheritCrash, RejectInherited, P
  <2>3. LosesWorkers(s) /\ Fresh("gone").phase = "gone"
    BY <1>0, <2>1, NothingHeld DEF LosesWorkers
  <2>4. \A t \in guard' \ {s} : KeepsRequest(t)
    BY <1>0, <2>1, <2>2 DEF KeepsRequest
  <2>5. \A c \in Session : environment'[c] \in {environment[c], NoToken}
    BY <1>0, <2>1
  <2> QED
    BY <2>1, <2>3, <2>4, <2>5, EndsKeepGrants
<1>4. ASSUME NEW s \in Session,
             Timeout(s) \/ CancelPendingAcquire(s) \/ AcquireError(s)
      PROVE  GrantInv'
  <2>1. \A t \in guard : /\ request'[t].tokens = request[t].tokens
                         /\ request'[t].delegations = request[t].delegations
    <3>1. CASE request' = request \/ request' = P
      BY <1>0, <3>1
    <3>2. CASE request' = [request EXCEPT ![s].ticket = 0]
      BY <1>0, <3>2 DEF Request
    <3> QED
      BY <1>4, <3>1, <3>2 DEF Timeout, CancelPendingAcquire, AcquireError, P
  <2>2. UNCHANGED <<guard, environment>>
    BY <1>4 DEF Timeout, CancelPendingAcquire, AcquireError
  <2>3. PICK l \in {[local[s] EXCEPT !.acquiring = 0],
                    [local[s] EXCEPT !.persistent = FALSE]} :
          local' = [local EXCEPT ![s] = l]
    BY <1>4 DEF Timeout, CancelPendingAcquire, AcquireError
  <2>4. KeepsWorkers(s)
    <3>1. local[s] \in Local /\ local'[s] = l
      BY <1>0, <2>3
    <3> QED
      BY <2>3, <3>1 DEF KeepsWorkers, Local
  <2>5. \A t \in Session \ {s} : KeepsWorkers(t)
    BY <1>0, <2>3 DEF KeepsWorkers
  <2> QED
    BY <2>1, <2>2, <2>4, <2>5, QuietKeepsGrants
<1>5. ASSUME NEW s \in Session, Destroy(s) \/ FreeOwnerGuard(s) \/ Crash(s)
      PROVE  GrantInv'
  <2>1. PICK p \in {"closing", "gone"} :
          /\ local' = [local EXCEPT ![s] = Fresh(p)]
          /\ guard' = IF p = "gone" THEN guard \ {s} ELSE guard
    BY <1>5 DEF Destroy, FreeOwnerGuard, Crash
  <2>2. /\ \A t \in Session \ {s} : request'[t] = request[t]
        /\ request'[s] \in {request[s], Absent}
        /\ environment' = environment
    BY <1>0, <1>5 DEF Destroy, FreeOwnerGuard, Crash
  <2>3. LosesWorkers(s) /\ Fresh(p).phase = p
    BY <1>0, <2>1, NothingHeld DEF LosesWorkers
  <2>4. /\ \A t \in guard' \ {s} : KeepsRequest(t)
        /\ s \in guard' => KeepsRequest(s) \/ EmptyRequest(s)
    BY <1>0, <1>a, <2>1, <2>2, <2>3 DEF KeepsRequest, EmptyRequest
  <2> QED
    BY <2>1, <2>2, <2>3, <2>4, EndsKeepGrants
<1>6. ASSUME NEW s \in Session, NEW w \in Worker, AcquireInherited(s, w)
      PROVE  GrantInv'
  <2> DEFINE k == local[s].inherited
             h == Held(local[s], w, k)
  <2>1. /\ local[s].phase = "open" /\ local[s].acquiring = 0
        /\ FreeWorker(s, w) /\ k # NoToken
        /\ \E t \in Session : k \in P[t].tokens
        /\ request' = P /\ guard' = guard /\ environment' = environment
        /\ local' = [local EXCEPT ![s] = h]
    BY <1>6 DEF AcquireInherited, MayStart, P
  <2>2. /\ s \in guard /\ local[s] \in Local
        /\ \E t \in guard : k \in request[t].tokens
        /\ \A t \in guard : request'[t] = request[t]
    BY <1>0, <1>g, <2>1
  <2>3. /\ h.leases = [local[s].leases EXCEPT ![w] = k]
        /\ h.phase = local[s].phase /\ h.requested = local[s].requested
        /\ h.inherited = local[s].inherited /\ h.delegated = local[s].delegated
        /\ h.acquiring = local[s].acquiring
    <3>1. k \in Token \cup {NoToken}
      BY <2>2 DEF Local
    <3> QED
      BY <2>2, <3>1, HeldFields
  <2> HIDE DEF h
  <2>4. local'[s] = h /\ \A t \in Session \ {s} : local'[t] = local[t]
    BY <1>0, <2>1
  <2> QED
    BY <1>g, <2>1, <2>2, <2>3, <2>4, UsingKeepsGrants
<1>7. ASSUME NEW s \in Session, NEW w \in Worker,
             PollAcquire(s, w) \/ Acquire(s, w)
      PROVE  GrantInv'
  <2>1. /\ local[s].phase = "open" /\ local[s] \in Local
        /\ MayStart(s, w) \/ local[s].acquiring = w
    BY <1>0, <1>7 DEF PollAcquire, Acquire, MayStart
  <2>2. FreeWorker(s, w)
    BY <2>1 DEF MayStart, GrantInv, WorkersApart, Worker
  <2>3. CASE Try(s, w, [local[s] EXCEPT !.persistent = TRUE])
    <3> DEFINE l == [local[s] EXCEPT !.persistent = TRUE]
    <3>1. /\ l.phase = local[s].phase /\ l.requested = local[s].requested
          /\ l.inherited = local[s].inherited /\ l.leases = local[s].leases
          /\ l.delegated = local[s].delegated
          /\ l.acquiring = local[s].acquiring
      BY <2>1 DEF Local
    <3>2. PICK m : m = l
      OBVIOUS
    <3>3. Try(s, w, m)
      BY <2>3, <3>2
    <3> QED
      BY <2>1, <2>2, <3>1, <3>2, <3>3, TryKeepsGrants
  <2>4. CASE Try(s, w, [local[s] EXCEPT !.acquiring = w])
    <3> DEFINE l == [local[s] EXCEPT !.acquiring = w]
    <3>1. /\ l.phase = local[s].phase /\ l.requested = local[s].requested
          /\ l.inherited = local[s].inherited /\ l.leases = local[s].leases
          /\ l.delegated = local[s].delegated
          /\ l.acquiring = w
      BY <2>1 DEF Local
    <3>2. PICK m : m = l
      OBVIOUS
    <3>3. Try(s, w, m)
      BY <2>4, <3>2
    <3> QED
      BY <2>1, <2>2, <3>1, <3>2, <3>3, TryKeepsGrants
  <2> QED
    BY <1>7, <2>3, <2>4 DEF PollAcquire, Acquire
<1>8. ASSUME NEW s \in Session, NEW w \in Worker, Release(s, w)
      PROVE  GrantInv'
  <2> DEFINE k == local[s].leases[w]
             e == Emptied(local[s], w)
  <2>1. /\ Leased(s, w) /\ guard' = guard /\ environment' = environment
        /\ \/ request' = P
           \/ /\ ~ Delegated(s, w)
              /\ request' = [P EXCEPT ![s] = WithoutLease(P[s], k)]
    BY <1>8 DEF Release, P
  <2>2. PICK n, j :
          /\ local' = [local EXCEPT ![s] =
               [e EXCEPT !.granted = n, !.inherited = j]]
          /\ j = IF e.inherited = k THEN NoToken ELSE e.inherited
    BY <1>8 DEF Release
  <2>3. /\ s \in guard /\ local[s] \in Local /\ P[s] = request[s]
        /\ k # NoToken /\ P[s] \in Request
    BY <1>0, <1>g, <2>1 DEF Leased
  <2>4. /\ e \in Local
        /\ e.leases = [local[s].leases EXCEPT ![w] = NoToken]
        /\ e.phase = local[s].phase /\ e.requested = local[s].requested
        /\ e.inherited = local[s].inherited
        /\ e.acquiring = local[s].acquiring
        /\ e.delegated = local[s].delegated \ {w}
    BY <2>3, EmptiedFields
  <2> HIDE DEF e
  <2>5. /\ local'[s] = [e EXCEPT !.granted = n, !.inherited = j]
        /\ \A t \in Session \ {s} : local'[t] = local[t]
    BY <1>0, <2>2
  <2>6. /\ local'[s].phase = local[s].phase
        /\ local'[s].requested = local[s].requested
        /\ local'[s].acquiring = local[s].acquiring
        /\ local'[s].leases = [local[s].leases EXCEPT ![w] = NoToken]
        /\ local'[s].delegated = local[s].delegated \ {w}
        /\ local'[s].inherited = j
    BY <2>4, <2>5 DEF Local
  <2>9. local'[s].inherited = IF local[s].inherited = k
                              THEN NoToken ELSE local[s].inherited
    BY <2>2, <2>4, <2>6
  <2>7. \A t \in guard \ {s} : request'[t] = request[t]
    BY <1>0, <2>1
  <2>8. \/ /\ request'[s].tokens = request[s].tokens
           /\ request'[s].delegations = request[s].delegations
        \/ /\ request'[s].tokens = request[s].tokens \ {k}
           /\ request'[s].delegations = {d \in request[s].delegations :
                                           d.lease # k}
           /\ ~ Lent(s, w)
    <3>1. CASE request' = P
      BY <2>3, <3>1
    <3>2. CASE /\ ~ Delegated(s, w)
               /\ request' = [P EXCEPT ![s] = WithoutLease(P[s], k)]
      <4>1. request'[s] = WithoutLease(request[s], k)
        BY <1>0, <2>3, <3>2
      <4>2. request[s] \in Request
        BY <2>3
      <4> HIDE DEF k
      <4>3. /\ request'[s].tokens = request[s].tokens \ {k}
            /\ request'[s].delegations = {d \in request[s].delegations :
                                            d.lease # k}
        BY <4>1, <4>2 DEF WithoutLease, Request
      <4> QED
        BY <3>2, <4>3 DEF Delegated, Lent
    <3> QED
      BY <2>1, <3>1, <3>2
  <2> QED
    BY <1>g, <2>1, <2>3, <2>5, <2>6, <2>9, <2>7, <2>8, LettingGoKeepsGrants
<1>9. ASSUME NEW s \in Session, NEW w \in Worker, AbandonLease(s, w)
      PROVE  GrantInv'
  <2> DEFINE e == Emptied(local[s], w)
  <2>1. /\ local' = [local EXCEPT ![s] = e]
        /\ UNCHANGED <<request, guard, environment>>
        /\ "failed_write" \in Faults /\ Leased(s, w)
        /\ \A d \in request[s].delegations : d.lease = local[s].leases[w] =>
             \A c \in Session : environment[c] # d.token
    BY <1>9 DEF AbandonLease
  <2>2. s \in guard /\ local[s] \in Local /\ local[s].leases[w] # NoToken
    BY <1>0, <1>g, <2>1 DEF Leased
  <2>3. /\ e.leases = [local[s].leases EXCEPT ![w] = NoToken]
        /\ e.phase = local[s].phase /\ e.requested = local[s].requested
        /\ e.inherited = local[s].inherited
        /\ e.acquiring = local[s].acquiring
        /\ e.delegated = local[s].delegated \ {w}
    BY <2>2, EmptiedFields
  <2> HIDE DEF e
  <2>4. local'[s] = e /\ \A t \in Session \ {s} : local'[t] = local[t]
    BY <1>0, <2>1
  <2> QED
    BY <2>1, <2>2, <2>3, <2>4, AbandoningKeepsGrants
<1>10. ASSUME NEW s \in Session, NEW w \in Worker,
              NEW children \in SUBSET Session, CreateDelegation(s, w, children)
       PROVE  GrantInv'
  <2> DEFINE j == local[s].leases[w]
  <2>1. PICK k \in Token \ InUse :
          /\ request' = [P EXCEPT ![s] =
               WithDelegation(P[s], [token |-> k, lease |-> j])]
          /\ environment' = [c \in Session |->
               IF c \in children THEN k ELSE environment[c]]
    BY <1>10 DEF CreateDelegation, P
  <2>2. PICK n : local' = [local EXCEPT ![s] = [local[s] EXCEPT
                   !.delegated = local[s].delegated \cup {w}, !.granted = n]]
    BY <1>10 DEF CreateDelegation
  <2>3. /\ Leased(s, w) /\ guard' = guard
        /\ j \in P[s].tokens /\ ~ HasDelegation(P[s], j)
    BY <1>10 DEF CreateDelegation, P
  <2>4. /\ s \in guard /\ local[s] \in Local /\ P[s] = request[s]
        /\ j # NoToken /\ P[s] \in Request
    BY <1>0, <1>g, <2>3 DEF Leased
  <2>5. /\ local'[s].phase = local[s].phase
        /\ local'[s].requested = local[s].requested
        /\ local'[s].inherited = local[s].inherited
        /\ local'[s].acquiring = local[s].acquiring
        /\ local'[s].leases = local[s].leases
        /\ local'[s].delegated = local[s].delegated \cup {w}
        /\ \A t \in Session \ {s} : local'[t] = local[t]
    <3> DEFINE D == local[s].delegated \cup {w}
    <3>1. local'[s] = [local[s] EXCEPT !.delegated = D, !.granted = n]
          /\ \A t \in Session \ {s} : local'[t] = local[t]
      BY <1>0, <2>2
    <3>2. D = local[s].delegated \cup {w}
      OBVIOUS
    <3> HIDE DEF D
    <3> QED
      BY <2>4, <3>1, <3>2 DEF Local
  <2>6. /\ request'[s] = WithDelegation(request[s], [token |-> k, lease |-> j])
        /\ \A t \in Session \ {s} : request'[t] = P[t]
    BY <1>0, <2>1, <2>4
  <2>7. /\ request'[s].tokens = request[s].tokens
        /\ request'[s].delegations =
             request[s].delegations \cup {[token |-> k, lease |-> j]}
    BY <2>4, <2>6 DEF WithDelegation, Request
  <2>8. \A t \in guard : /\ request'[t].tokens = request[t].tokens
                         /\ t # s => request'[t].delegations
                                       = request[t].delegations
    BY <1>0, <2>6, <2>7
  <2>9. \A c \in Session :
          environment'[c] = IF c \in children THEN k ELSE environment[c]
    BY <2>1
  <2> QED
    BY <1>g, <2>3, <2>4, <2>5, <2>7, <2>8, <2>9, LendingKeepsGrants
<1>11. ASSUME NEW s \in Session, NEW w \in Worker,
              CancelPendingDelegation(s, w)
       PROVE  GrantInv'
  <2> DEFINE k == local[s].leases[w]
  <2>1. /\ Leased(s, w) /\ Delegated(s, w)
        /\ UNCHANGED <<local, guard, environment>>
        /\ \/ request' = P
           \/ request' = [P EXCEPT ![s] = WithoutLease(P[s], k)]
    BY <1>11 DEF CancelPendingDelegation, P
  <2>2. /\ s \in guard /\ P[s] = request[s] /\ P[s] \in Request
        /\ k # NoToken /\ Lent(s, w)
    BY <1>0, <1>g, <2>1 DEF Leased, Delegated, Lent
  <2>3. CASE request' = P
    BY <1>0, <2>1, <2>3, QuietKeepsGrants DEF KeepsWorkers
  <2>4. CASE request' = [P EXCEPT ![s] = WithoutLease(P[s], k)]
    <3>1. request'[s] = WithoutLease(request[s], k)
          /\ \A t \in guard \ {s} : request'[t] = request[t]
      BY <1>0, <2>2, <2>4
    <3> HIDE DEF k
    <3>2. /\ request'[s].tokens = request[s].tokens \ {k}
          /\ request'[s].delegations = {d \in request[s].delegations :
                                          d.lease # k}
      BY <2>2, <3>1 DEF WithoutLease, Request
    <3> QED
      BY <1>g, <2>1, <2>2, <3>1, <3>2, TakingBackKeepsGrants DEF k
  <2> QED
    BY <2>1, <2>3, <2>4
<1>12. ASSUME Snapshot \/ RepairWorkerBudget \/ UNCHANGED vars
       PROVE  GrantInv'
  <2>1. /\ request' \in {P, request}
        /\ UNCHANGED <<local, guard, environment>>
    BY <1>12 DEF Snapshot, RepairWorkerBudget, vars, P
  <2> QED
    BY <1>0, <2>1, QuietKeepsGrants DEF KeepsWorkers
<1> QED
  BY <1>1, <1>2, <1>3, <1>4, <1>5, <1>6, <1>7, <1>8, <1>9, <1>10, <1>11, <1>12
  DEF Next, SessionStep, WorkerStep

LEMMA GrantInit == Init => GrantInv
<1> SUFFICES ASSUME Init PROVE GrantInv
  OBVIOUS
<1>1. /\ guard = {}
      /\ \A s \in Session : /\ local[s].phase = "new"
                            /\ local[s].inherited = NoToken
                            /\ local[s].acquiring = 0
                            /\ \A w \in Worker : local[s].leases[w] = NoToken
  BY NothingHeld DEF Init
<1> QED
  BY <1>1 DEF GrantInv, WorkersApart, RequestsApart, InheritedApart,
     RunningBacked, InheritedBacked, PromisedIsLent

-----------------------------------------------------------------------------
(* Every worker that runs has a lease of its own in the directory, and the  *)
(* directory holds at most the budget in leases.                            *)
LEMMA LeasesOfRunning ==
  ASSUME TypeOK, SlotInv, GrantInv, NEW x \in RunningWorkers
  PROVE  <<x[1], local[x[1]].leases[x[2]]>> \in LiveLeases
<1> DEFINE s == x[1]
           w == x[2]
           k == local[s].leases[w]
<1>1. s \in Session /\ w \in Worker /\ Leased(s, w) /\ ~ Delegated(s, w)
  BY DEF RunningWorkers
<1>2. s \in guard /\ k \in request[s].tokens /\ request[s].tokens \subseteq Token
  BY <1>1, FieldTypes
  DEF Leased, Delegated, Lent, GrantInv, RunningBacked, SlotInv
<1>3. PruneEntries[s] = request[s]
  BY <1>1, <1>2, PruneLive
<1> QED
  BY <1>1, <1>2, <1>3 DEF LiveLeases, Leases

LEMMA LeasesOfRunningDiffer ==
  ASSUME TypeOK, SlotInv, GrantInv,
         NEW x \in RunningWorkers, NEW y \in RunningWorkers,
         local[x[1]].leases[x[2]] = local[y[1]].leases[y[2]]
  PROVE  x = y
<1>1. /\ x = <<x[1], x[2]>> /\ y = <<y[1], y[2]>>
      /\ x[1] \in Session /\ y[1] \in Session
      /\ x[2] \in Worker /\ y[2] \in Worker
      /\ Leased(x[1], x[2]) /\ Leased(y[1], y[2])
      /\ ~ Delegated(x[1], x[2]) /\ ~ Delegated(y[1], y[2])
  BY DEF RunningWorkers
<1>2. /\ x[1] \in guard /\ y[1] \in guard
      /\ local[x[1]].leases[x[2]] \in request[x[1]].tokens
      /\ local[y[1]].leases[y[2]] \in request[y[1]].tokens
  BY <1>1
  DEF Leased, Delegated, Lent, GrantInv, RunningBacked, SlotInv
<1>3. x[1] = y[1]
  BY <1>2 DEF GrantInv, RequestsApart
<1>4. x[2] = y[2]
  BY <1>1, <1>3 DEF GrantInv, WorkersApart, Leased
<1> QED
  BY <1>1, <1>3, <1>4

LEMMA RunningIsLeased ==
  ASSUME TypeOK, SlotInv, GrantInv PROVE RunningWithinBudget
<1> DEFINE f == [x \in RunningWorkers |->
                   <<x[1], local[x[1]].leases[x[2]]>>]
<1>1. f \in Injection(RunningWorkers, LiveLeases)
  <2>1. f \in [RunningWorkers -> LiveLeases]
    BY LeasesOfRunning
  <2>2. ASSUME NEW x \in RunningWorkers, NEW y \in RunningWorkers, f[x] = f[y]
        PROVE  x = y
    BY <2>2, LeasesOfRunningDiffer
  <2> QED
    BY <2>1, <2>2 DEF Injection, IsInjective
<1>2. IsFiniteSet(LiveLeases)
  BY LiveLeasesFinite
<1>3. IsFiniteSet(RunningWorkers)
      /\ Cardinality(RunningWorkers) <= Cardinality(LiveLeases)
  BY <1>1, <1>2, FS_Injection
<1>4. /\ Cardinality(RunningWorkers) \in Nat /\ Cardinality(LiveLeases) \in Nat
      /\ ceiling \in Nat /\ (Cardinality(LiveLeases) <= ceiling \/ Excused)
  BY <1>2, <1>3, FS_CardinalityType DEF TypeOK, SlotInv, WithinBudget
<1> QED
  BY <1>3, <1>4 DEF RunningWithinBudget

LEMMA GrantInvIsSound ==
  ASSUME TypeOK, SlotInv, GrantInv PROVE GrantsAreSound
<1>1. LeasesBacked
  BY DEF LeasesBacked, RunningWorkers, Leased, Delegated, Lent, SlotInv,
     GrantInv, RunningBacked, InheritedBacked
<1>2. TokensUnique
  <2>1. \A x, y \in RunningWorkers :
          x # y => local[x[1]].leases[x[2]] # local[y[1]].leases[y[2]]
    BY LeasesOfRunningDiffer
  <2> QED
    BY <2>1 DEF TokensUnique, GrantInv, RequestsApart
<1> QED
  BY <1>1, <1>2, RunningIsLeased DEF GrantsAreSound

\* A slot is one grant and a grant is one slot: every running worker has a
\* lease of its own in the request of its own live session, and no more of
\* them run than the largest budget in force, whatever hand-overs, crashes,
\* unreadable requests, failed writes and early releases happen: but for a grant
\* beside an unreadable request once the budget file was unreadable as well.
THEOREM GrantsHold == Spec => []GrantsAreSound
<1>1. Init => GrantInv
  BY GrantInit
<1>2. TypeOK /\ SlotInv /\ GrantInv /\ [Next]_vars => GrantInv'
  BY GrantStep
<1>3. TypeOK /\ SlotInv /\ GrantInv => GrantsAreSound
  BY GrantInvIsSound
<1>4. Spec => [](TypeOK /\ SlotInv)
  BY TypeCorrect, BudgetHolds, PTL
<1> QED
  BY <1>1, <1>2, <1>3, <1>4, PTL DEF Spec
=============================================================================
