-------------------------- MODULE EventLedgerProofs --------------------------
(***************************************************************************)
(* What is proved of the event ledger, for any agents, batches, first      *)
(* ledger and number of ingests: an event is on one line, every run        *)
(* validates between two ingests, what was reported stays, and the totals  *)
(* of a run that validates are what its streams measured.                  *)
(*                                                                         *)
(* One inductive invariant carries the first three.  Its core is what the  *)
(* agent that is writing still owes the file (Writing): the rest of its    *)
(* batch is new to the file, the file with that rest validates, and the    *)
(* two together hold the whole batch.  What other agents do without the    *)
(* lock is close() after a failed write, and that only once a write was    *)
(* cut.  The totals are a fact about the events a ledger can hold, whose   *)
(* sequence numbers put the samples of a stream in their places.           *)
(***************************************************************************)
EXTENDS EventLedger, FiniteSetTheorems, WellFoundedInduction, TLAPS

\* A set of natural numbers that is not empty has a least one.
LEMMA LeastNumber ==
  ASSUME NEW T, T \subseteq Nat, T # {}
  PROVE  \E m \in T : \A k \in T : m <= k
<1> DEFINE R == {ss \in Nat \X Nat : ss[1] < ss[2]}
<1>1. IsWellFoundedOn(R, Nat)
  BY NatLessThanWellFounded DEF OpToRel
<1> HIDE DEF R
<1>2. PICK m \in T : \A k \in T : <<k, m>> \notin R
  BY <1>1, WFMin
<1>3. \A k \in T : ~(k < m)
  BY <1>2 DEF R
<1>4. QED
  BY <1>2, <1>3


-----------------------------------------------------------------------------
\* The events there can be: those of the first ledger, and those of the inputs
\* that parse.
Event == {e \in ToSet(Legacy) \cup UNION {ToSet(input) : input \in Batch} : ValidEvent(e)}
LineRecord == [events : SUBSET Event, form : {"whole", "torn", "unterminated"}]

LedgerType ==
    /\ file \in Seq(LineRecord)
    /\ lock \in Agent \cup {NoAgent}
    /\ pc \in [Agent -> {"idle", "lock", "judge", "write", "close"}]
    /\ batch \in [Agent -> Seq(Event)]
    /\ pending \in [Agent -> Seq(Event)]
    /\ cut \in BOOLEAN /\ flushedLate \in BOOLEAN

AllValid(events) == \A e \in events : ValidRun(events, e.run, FALSE)

\* Each event of the lines once, and one content for each id.
OneLineEach(lines) ==
    \A i, k \in DOMAIN lines : \A d \in lines[i].events, e \in lines[k].events :
        Key(d) = Key(e) => i = k /\ d = e

\* Events that the lines have no id of, and each once.
NewTo(lines, events) ==
    /\ \A i \in DOMAIN events : \A d \in EventsOf(lines) : Key(d) # Key(events[i])
    /\ \A i, k \in DOMAIN events : Key(events[i]) = Key(events[k]) => i = k

\* What is to come of the batch an agent is writing.
Writing(p) ==
    /\ flushedLate \/ NewTo(file, pending[p])
    /\ ~cut => AllValid(EventsOf(file) \cup ToSet(pending[p]))
    /\ ToSet(batch[p]) \subseteq EventsOf(file) \cup ToSet(pending[p])

LockIsHeld == \A p \in Agent : pc[p] \in {"judge", "write"} <=> lock = p
LateIsCut == \A p \in Agent : pc[p] = "close" /\ pending[p] # <<>> => cut
WritersAreSound == \A p \in Agent : pc[p] = "write" => Writing(p)
QuietIsValid == ~cut /\ (\A p \in Agent : pc[p] # "write") => AllValid(EventsOf(file))
UncutIsWhole == ~cut => \A i \in DOMAIN file : file[i].form = "whole"

LedgerInv ==
    /\ LedgerType
    /\ LockIsHeld
    /\ LateIsCut
    /\ WritersAreSound
    /\ QuietIsValid
    /\ UncutIsWhole
    /\ acked \subseteq EventsOf(file)
    /\ OneLinePerEvent

-----------------------------------------------------------------------------
\* Of a batch, what is new: all of it, once.
LEMMA FreshIs ==
  ASSUME NEW S, NEW input \in Seq(S), NEW known
  PROVE  /\ Fresh(known, input) \in Seq(S)
         /\ ToSet(Fresh(known, input)) = ToSet(input) \ known
         /\ \A a, b \in DOMAIN Fresh(known, input) :
               Fresh(known, input)[a] = Fresh(known, input)[b] => a = b
<1> DEFINE new(i) == /\ input[i] \notin known
                     /\ \A k \in 1..(i - 1) : input[k] # input[i]
           places == {i \in DOMAIN input : new(i)}
           upTo(i) == {k \in places : k <= i}
           rank(i) == Cardinality(upTo(i))
           count == Cardinality(places)
           index(n) == CHOOSE i \in places : rank(i) = n
           fresh == [n \in 1..count |-> input[index(n)]]
<1>1. Fresh(known, input) = fresh
  BY DEF Fresh
<1>2. DOMAIN input = 1..Len(input) /\ Len(input) \in Nat
  OBVIOUS
<1>3. IsFiniteSet(places) /\ count \in Nat /\ places \subseteq Nat /\ places \subseteq 1..Len(input)
  <2>1. IsFiniteSet(1..Len(input))
    BY <1>2, FS_Interval
  <2>2. places \subseteq 1..Len(input)
    BY <1>2
  <2> HIDE DEF places
  <2>3. IsFiniteSet(places)
    BY <2>1, <2>2, FS_Subset
  <2>4. Cardinality(places) \in Nat
    BY <2>3, FS_CardinalityType
  <2>5. places \subseteq Nat
    BY <1>2, <2>2
  <2>6. QED
    BY <2>2, <2>3, <2>4, <2>5
<1>4. \A i, j \in places : input[i] = input[j] => i = j
  <2>1. SUFFICES ASSUME NEW i \in places, NEW j \in places, input[i] = input[j], i < j
                 PROVE  FALSE
    BY <1>3
  <2>2. i \in 1..(j - 1)
    BY <1>2, <2>1
  <2>3. QED
    BY <2>1, <2>2
<1>5. \A x \in ToSet(input) \ known : \E i \in places : input[i] = x
  <2>1. SUFFICES ASSUME NEW x \in ToSet(input) \ known
                 PROVE  \E i \in places : input[i] = x
    OBVIOUS
  <2> DEFINE T == {i \in DOMAIN input : input[i] = x}
  <2>2. T \subseteq Nat /\ T # {}
    BY <1>2, <2>1 DEF ToSet
  <2>3. PICK i \in T : \A k \in T : i <= k
    <3> HIDE DEF T
    <3>1. QED
      BY <2>2, LeastNumber
  <2>4. \A k \in 1..(i - 1) : input[k] # input[i]
    BY <1>2, <2>3
  <2>5. QED
    BY <2>1, <2>3, <2>4
<1>6. \A i \in places : input[i] \in ToSet(input) \ known
  BY DEF ToSet
<1> HIDE DEF new, places
<1>7. \A i \in places : IsFiniteSet(upTo(i)) /\ rank(i) \in Nat
  <2> TAKE i \in places
  <2>1. upTo(i) \subseteq places
    OBVIOUS
  <2> HIDE DEF upTo
  <2>2. QED
    BY <1>3, <2>1, FS_Subset, FS_CardinalityType
<1>8. \A i \in places : rank(i) \in 1..count
  <2> TAKE i \in places
  <2>1. upTo(i) \subseteq places /\ i \in upTo(i)
    BY <1>3
  <2> HIDE DEF upTo, count
  <2>2. Cardinality(upTo(i)) <= Cardinality(places)
    BY <1>3, <2>1, FS_Subset
  <2>3. Cardinality(upTo(i)) # 0
    BY <1>7, <2>1, FS_EmptySet
  <2>4. QED
    BY <1>3, <1>7, <2>2, <2>3 DEF count
<1>9. \A i, j \in places : i < j => rank(i) < rank(j)
  <2>1. SUFFICES ASSUME NEW i \in places, NEW j \in places, i < j
                 PROVE  rank(i) < rank(j)
    OBVIOUS
  <2> /\ i \in Nat /\ j \in Nat
    BY <1>3
  <2>a. j \notin upTo(i) /\ j \in upTo(j)
    BY <2>1
  <2>b. ASSUME NEW k \in upTo(i) PROVE k \in upTo(j)
    <3>1. k \in Nat /\ k \in places /\ k <= i
      BY <1>3, <2>b
    <3>2. k <= j
      BY <2>1, <3>1
    <3>3. QED
      BY <3>1, <3>2
  <2>2. j \notin upTo(i) /\ upTo(i) \cup {j} \subseteq upTo(j)
    BY <2>a, <2>b
  <2>3. IsFiniteSet(upTo(i)) /\ IsFiniteSet(upTo(j)) /\ rank(i) \in Nat /\ rank(j) \in Nat
    BY <1>7
  <2> HIDE DEF upTo
  <2>4. Cardinality(upTo(i) \cup {j}) = Cardinality(upTo(i)) + 1
    BY <2>2, <2>3, FS_AddElement
  <2>5. Cardinality(upTo(i) \cup {j}) <= Cardinality(upTo(j))
    BY <2>2, <2>3, FS_Subset
  <2>6. QED
    BY <2>3, <2>4, <2>5
<1> HIDE DEF rank, count
<1>10. \A i, j \in places : rank(i) = rank(j) => i = j
  <2>1. SUFFICES ASSUME NEW i \in places, NEW j \in places, rank(i) = rank(j), i # j
                 PROVE  FALSE
    OBVIOUS
  <2>2. i < j \/ j < i
    BY <1>3, <2>1
  <2>3. rank(i) \in Nat /\ rank(j) \in Nat
    BY <1>3, <1>8
  <2>4. QED
    BY <1>9, <2>1, <2>2, <2>3
<1>11. \A n \in 1..count : \E i \in places : rank(i) = n
  <2> DEFINE r == [i \in places |-> rank(i)]
  <2>1. r \in Injection(places, 1..count)
    BY <1>8, <1>10 DEF Injection, IsInjective
  <2>2. IsFiniteSet(1..count) /\ Cardinality(1..count) = count
    BY <1>3, FS_Interval
  <2>3. r \in Surjection(places, 1..count)
    <3> HIDE DEF r
    <3>1. QED
      BY <2>1, <2>2, FS_Injection DEF count
  <2>4. QED
    BY <2>3 DEF Surjection
<1>12. \A n \in 1..count : index(n) \in places /\ rank(index(n)) = n
  BY <1>11
<1>13. \A i \in places : index(rank(i)) = i
  BY <1>8, <1>10, <1>12
<1> HIDE DEF index
<1>14. /\ DOMAIN fresh = 1..count
       /\ \A n \in 1..count : fresh[n] = input[index(n)] /\ fresh[n] \in S
  <2>1. DOMAIN fresh = 1..count /\ \A n \in 1..count : fresh[n] = input[index(n)]
    OBVIOUS
  <2>2. ASSUME NEW n \in 1..count PROVE input[index(n)] \in S
    <3>1. index(n) \in 1..Len(input)
      BY <1>3, <1>12
    <3>2. QED
      BY <3>1
  <2> HIDE DEF fresh
  <2>3. QED
    BY <2>1, <2>2
<1>15. fresh \in Seq(S) /\ Len(fresh) = count
  BY <1>3, <1>14
<1> HIDE DEF fresh
<1>16. ToSet(fresh) = ToSet(input) \ known
  <2>1. ASSUME NEW x \in ToSet(fresh) PROVE x \in ToSet(input) \ known
    <3>1. PICK n \in 1..count : fresh[n] = x
      BY <1>14, <2>1 DEF ToSet
    <3>2. QED
      BY <1>6, <1>12, <1>14, <3>1
  <2>2. ASSUME NEW x \in ToSet(input) \ known PROVE x \in ToSet(fresh)
    <3>1. PICK i \in places : input[i] = x
      BY <1>5, <2>2
    <3>2. rank(i) \in DOMAIN fresh /\ fresh[rank(i)] = x
      BY <1>8, <1>13, <1>14, <3>1
    <3>3. QED
      BY <3>2 DEF ToSet
  <2>3. QED
    BY <2>1, <2>2
<1>17. \A a, b \in 1..count : fresh[a] = fresh[b] => a = b
  BY <1>4, <1>12, <1>14
<1>18. QED
  BY <1>1, <1>14, <1>15, <1>16, <1>17


-----------------------------------------------------------------------------
\* What a line that reaches the file does to it: its event is there too, once
\* if its key was new, and a ledger of whole lines gets one more.
LEMMA AppendIs ==
  ASSUME NEW lines \in Seq(LineRecord), NEW e \in Event,
         NEW form \in {"whole", "torn", "unterminated"}
  PROVE  LET after == AppendLine(lines, Line(e, form))
         IN  /\ after \in Seq(LineRecord)
             /\ EventsOf(after) = EventsOf(lines) \cup {e}
             /\ OneLineEach(lines) /\ (\A d \in EventsOf(lines) : Key(d) # Key(e))
                  => OneLineEach(after)
             /\ (\A i \in DOMAIN lines : lines[i].form = "whole") /\ form = "whole"
                  => \A i \in DOMAIN after : after[i].form = "whole"
<1> DEFINE line == Line(e, form)
           len == Len(lines)
           after == AppendLine(lines, line)
<1>1. line \in LineRecord /\ line.events = {e} /\ line.form = form
  BY DEF Line, LineRecord
<1>2. len \in Nat /\ DOMAIN lines = 1..len
  OBVIOUS
<1>3. \A i \in 1..len : lines[i] \in LineRecord
  BY <1>2
<1>4. \A i \in 1..len : lines[i].events \in SUBSET Event
  BY <1>3 DEF LineRecord
<1>5. CASE lines # <<>> /\ lines[len].form = "unterminated"
  <2> DEFINE last == [events |-> lines[len].events \cup line.events, form |-> "torn"]
  <2>1. after = [lines EXCEPT ![len] = last]
    BY <1>5 DEF AppendLine
  <2>2. len \in 1..len
    BY <1>2, <1>5
  <2>3. last \in LineRecord /\ last.events = lines[len].events \cup {e}
    BY <1>1, <1>4, <2>2 DEF LineRecord
  <2> HIDE DEF last, after
  <2>4. after \in Seq(LineRecord) /\ DOMAIN after = 1..len
    <3>1. DOMAIN after = 1..len /\ \A i \in 1..len : after[i] \in LineRecord
      BY <1>2, <1>3, <2>1, <2>2, <2>3
    <3>2. after = [i \in 1..len |-> after[i]]
      BY <1>2, <2>1
    <3>3. QED
      BY <1>2, <3>1, <3>2
  <2>5. /\ after[len].events = lines[len].events \cup {e}
        /\ \A i \in 1..len : i # len => after[i] = lines[i]
    BY <1>2, <2>1, <2>2, <2>3
  <2>6. EventsOf(after) = EventsOf(lines) \cup {e}
    BY <1>2, <2>2, <2>4, <2>5 DEF EventsOf
  <2>7. OneLineEach(lines) /\ (\A d \in EventsOf(lines) : Key(d) # Key(e))
          => OneLineEach(after)
    <3>1. SUFFICES ASSUME OneLineEach(lines), \A d \in EventsOf(lines) : Key(d) # Key(e),
                          NEW i \in 1..len, NEW k \in 1..len,
                          NEW d \in after[i].events, NEW f \in after[k].events,
                          Key(d) = Key(f)
                   PROVE  i = k /\ d = f
      BY <2>4 DEF OneLineEach
    <3>2. d \in lines[i].events \/ (i = len /\ d = e)
      BY <2>5
    <3>3. f \in lines[k].events \/ (k = len /\ f = e)
      BY <2>5
    <3>4. CASE d \in lines[i].events /\ f \in lines[k].events
      BY <1>2, <3>1, <3>4 DEF OneLineEach
    <3>5. CASE d \in lines[i].events /\ k = len /\ f = e
      BY <1>2, <3>1, <3>5 DEF EventsOf
    <3>6. CASE i = len /\ d = e /\ f \in lines[k].events
      BY <1>2, <3>1, <3>6 DEF EventsOf
    <3>7. QED
      BY <3>2, <3>3, <3>4, <3>5, <3>6
  <2>8. ~\A i \in DOMAIN lines : lines[i].form = "whole"
    BY <1>2, <1>5, <2>2
  <2>9. QED
    BY <2>4, <2>6, <2>7, <2>8 DEF after
<1>6. CASE ~(lines # <<>> /\ lines[len].form = "unterminated")
  <2>1. after = Append(lines, line)
    BY <1>6 DEF AppendLine
  <2> HIDE DEF line
  <2>2. /\ after \in Seq(LineRecord) /\ DOMAIN after = 1..(len + 1)
        /\ after[len + 1] = line
        /\ \A i \in 1..len : after[i] = lines[i]
    BY <1>1, <1>2, <2>1
  <2> HIDE DEF after
  <2>3. \A i \in 1..(len + 1) : i \in 1..len \/ i = len + 1
    BY <1>2
  <2>4. len + 1 \in 1..(len + 1) /\ 1..len \subseteq 1..(len + 1)
    BY <1>2
  <2>5. EventsOf(after) = EventsOf(lines) \cup {e}
    <3>1. ASSUME NEW d \in EventsOf(after) PROVE d \in EventsOf(lines) \cup {e}
      BY <1>1, <1>2, <2>2, <2>3, <3>1 DEF EventsOf
    <3>2. ASSUME NEW d \in EventsOf(lines) PROVE d \in EventsOf(after)
      <4>1. PICK i \in 1..len : d \in lines[i].events
        BY <1>2, <3>2 DEF EventsOf
      <4>2. i \in DOMAIN after /\ d \in after[i].events
        BY <2>2, <2>4, <4>1
      <4>3. QED
        BY <4>2 DEF EventsOf
    <3>3. e \in EventsOf(after)
      BY <1>1, <2>2, <2>4 DEF EventsOf
    <3>4. QED
      BY <3>1, <3>2, <3>3
  <2>6. OneLineEach(lines) /\ (\A d \in EventsOf(lines) : Key(d) # Key(e))
          => OneLineEach(after)
    <3>1. SUFFICES ASSUME OneLineEach(lines), \A d \in EventsOf(lines) : Key(d) # Key(e),
                          NEW i \in 1..(len + 1), NEW k \in 1..(len + 1),
                          NEW d \in after[i].events, NEW f \in after[k].events,
                          Key(d) = Key(f)
                   PROVE  i = k /\ d = f
      BY <2>2 DEF OneLineEach
    <3>2. (i \in 1..len /\ d \in lines[i].events) \/ (i = len + 1 /\ d = e)
      BY <1>1, <2>2, <2>3
    <3>3. (k \in 1..len /\ f \in lines[k].events) \/ (k = len + 1 /\ f = e)
      BY <1>1, <2>2, <2>3
    <3>4. CASE i \in 1..len /\ d \in lines[i].events /\ k \in 1..len /\ f \in lines[k].events
      BY <1>2, <3>1, <3>4 DEF OneLineEach
    <3>5. CASE i \in 1..len /\ d \in lines[i].events /\ f = e
      BY <1>2, <3>1, <3>5 DEF EventsOf
    <3>6. CASE d = e /\ k \in 1..len /\ f \in lines[k].events
      BY <1>2, <3>1, <3>6 DEF EventsOf
    <3>7. QED
      BY <3>2, <3>3, <3>4, <3>5, <3>6
  <2>7. (\A i \in DOMAIN lines : lines[i].form = "whole") /\ form = "whole"
          => \A i \in DOMAIN after : after[i].form = "whole"
    BY <1>1, <1>2, <2>2, <2>3
  <2>8. QED
    BY <2>2, <2>5, <2>6, <2>7 DEF after, line
<1>7. QED
  BY <1>5, <1>6

\* A run's verdict reads that run's events only.
LEMMA ValidRunReadsItsRun ==
  ASSUME NEW A, NEW B, NEW run, OfRun(A, run) = OfRun(B, run), ValidRun(A, run, FALSE)
  PROVE  ValidRun(B, run, FALSE)
BY DEF ValidRun

\* A batch that is admitted to a ledger that validates leaves one that does.
LEMMA AdmittedValidates ==
  ASSUME NEW known, NEW input, AllValid(known), Admissible(known, input)
  PROVE  AllValid(known \cup ToSet(input))
<1>1. SUFFICES ASSUME NEW e \in known \cup ToSet(input)
               PROVE  ValidRun(known \cup ToSet(input), e.run, FALSE)
  BY DEF AllValid
<1>2. CASE \E d \in ToSet(input) : d.run = e.run
  BY <1>2 DEF Admissible
<1>3. CASE ~\E d \in ToSet(input) : d.run = e.run
  <2>1. e \in known
    BY <1>1, <1>3
  <2>2. OfRun(known, e.run) = OfRun(known \cup ToSet(input), e.run)
    BY <1>3 DEF OfRun
  <2>3. QED
    BY <2>1, <2>2, ValidRunReadsItsRun DEF AllValid
<1>4. QED
  BY <1>2, <1>3

\* What is admitted is new to the ledger, each event once.
LEMMA AdmittedIsNew ==
  ASSUME NEW lines, NEW input \in Seq(Event), NoConflict(EventsOf(lines), input)
  PROVE  NewTo(lines, Fresh(EventsOf(lines), input))
<1> DEFINE known == EventsOf(lines)
           fresh == Fresh(known, input)
<1>1. /\ ToSet(fresh) = ToSet(input) \ known
      /\ \A a, b \in DOMAIN fresh : fresh[a] = fresh[b] => a = b
  BY FreshIs
<1>2. \A i \in DOMAIN fresh : fresh[i] \in ToSet(input) /\ fresh[i] \notin known
  BY <1>1 DEF ToSet
<1>3. \A d \in known \cup ToSet(input), e \in ToSet(input) : Key(d) = Key(e) => d = e
  BY DEF NoConflict
<1> HIDE DEF known, fresh
<1>4. \A i \in DOMAIN fresh : \A d \in known : Key(d) # Key(fresh[i])
  BY <1>2, <1>3
<1>5. \A i, k \in DOMAIN fresh : Key(fresh[i]) = Key(fresh[k]) => i = k
  BY <1>1, <1>2, <1>3
<1>6. QED
  BY <1>4, <1>5 DEF NewTo, known, fresh

\* The next line of what is still to be written, and the rest of it.
LEMMA FirstIs ==
  ASSUME NEW events \in Seq(Event), events # <<>>
  PROVE  /\ events[1] \in Event
         /\ Tail(events) \in Seq(Event)
         /\ ToSet(events) = {events[1]} \cup ToSet(Tail(events))
<1>1. /\ Len(events) \in Nat \ {0} /\ DOMAIN events = 1..Len(events)
      /\ Tail(events) \in Seq(Event) /\ DOMAIN Tail(events) = 1..(Len(events) - 1)
      /\ \A i \in 1..(Len(events) - 1) : Tail(events)[i] = events[i + 1]
  OBVIOUS
<1>2. ASSUME NEW e \in ToSet(events) PROVE e = events[1] \/ e \in ToSet(Tail(events))
  <2>1. PICK i \in 1..Len(events) : events[i] = e
    BY <1>1, <1>2 DEF ToSet
  <2>2. CASE i # 1
    <3>1. i - 1 \in 1..(Len(events) - 1) /\ (i - 1) + 1 = i
      BY <1>1, <2>2
    <3>2. i - 1 \in DOMAIN Tail(events) /\ Tail(events)[i - 1] = e
      BY <1>1, <2>1, <3>1
    <3>3. QED
      BY <3>2 DEF ToSet
  <2>3. QED
    BY <2>1, <2>2
<1>3. ASSUME NEW e \in ToSet(Tail(events)) PROVE e \in ToSet(events)
  <2>1. PICK i \in 1..(Len(events) - 1) : events[i + 1] = e
    BY <1>1, <1>3 DEF ToSet
  <2>2. i + 1 \in DOMAIN events
    BY <1>1, <2>1
  <2>3. QED
    BY <2>1, <2>2 DEF ToSet
<1>4. 1 \in DOMAIN events /\ events[1] \in Event /\ events[1] \in ToSet(events)
  BY <1>1 DEF ToSet
<1>5. QED
  BY <1>1, <1>2, <1>3, <1>4

\* Writing the next line keeps the rest new.
LEMMA RestIsNew ==
  ASSUME NEW lines, NEW after, NEW events \in Seq(Event), events # <<>>,
         NewTo(lines, events), EventsOf(after) = EventsOf(lines) \cup {events[1]}
  PROVE  NewTo(after, Tail(events))
<1>1. /\ Len(events) \in Nat \ {0} /\ DOMAIN events = 1..Len(events)
      /\ DOMAIN Tail(events) = 1..(Len(events) - 1)
      /\ \A i \in 1..(Len(events) - 1) : Tail(events)[i] = events[i + 1]
  OBVIOUS
<1>2. \A i \in 1..(Len(events) - 1) : i + 1 \in DOMAIN events /\ i + 1 # 1 /\ 1 \in DOMAIN events
  BY <1>1
<1>3. \A i \in 1..(Len(events) - 1) : \A d \in EventsOf(after) : Key(d) # Key(Tail(events)[i])
  BY <1>1, <1>2 DEF NewTo
<1>4. \A i, k \in 1..(Len(events) - 1) : i + 1 = k + 1 => i = k
  BY <1>1
<1>5. \A i, k \in 1..(Len(events) - 1) : Key(Tail(events)[i]) = Key(Tail(events)[k]) => i = k
  BY <1>1, <1>2, <1>4 DEF NewTo
<1>6. QED
  BY <1>1, <1>3, <1>5 DEF NewTo


-----------------------------------------------------------------------------
\* The events an input or the first ledger can bring.
LEMMA InputsAreEvents ==
  /\ \A input \in Batch : (\A i \in DOMAIN input : ValidEvent(input[i])) => input \in Seq(Event)
  /\ \A i \in DOMAIN Legacy : Legacy[i] \in Event
  /\ Legacy \in Seq(Event)
<1>1. ASSUME NEW input \in Batch, \A i \in DOMAIN input : ValidEvent(input[i])
      PROVE  input \in Seq(Event)
  <2>1. input \in Seq(ToSet(input))
    BY BatchAssumption
  <2>2. \A i \in 1..Len(input) : input[i] \in ToSet(input) /\ ValidEvent(input[i])
    BY <1>1, <2>1
  <2>3. \A i \in 1..Len(input) : input[i] \in Event
    BY <2>2 DEF Event
  <2>4. QED
    BY <2>1, <2>3
<1>2. Legacy \in Seq(ToSet(Legacy)) /\ ToSet(Legacy) \subseteq Event
  BY LegacyAssumption DEF Event
<1>3. \A i \in 1..Len(Legacy) : Legacy[i] \in Event
  BY <1>2
<1>4. QED
  BY <1>1, <1>2, <1>3

LEMMA LedgerStarts == Init => LedgerInv
<1> SUFFICES ASSUME Init PROVE LedgerInv
  OBVIOUS
<1> DEFINE len == Len(Legacy)
<1>1. Legacy \in Seq(Event) /\ len \in Nat /\ DOMAIN Legacy = 1..len
  BY InputsAreEvents
<1>2. /\ DOMAIN file = 1..len
      /\ \A i \in 1..len : /\ file[i] \in LineRecord
                           /\ file[i].events = {Legacy[i]} /\ file[i].form = "whole"
  BY <1>1, InputsAreEvents DEF Init, Line, LineRecord
<1>3. file \in Seq(LineRecord)
  <2>1. file = [i \in 1..len |-> file[i]]
    BY <1>1, <1>2 DEF Init
  <2>2. QED
    BY <1>1, <1>2, <2>1
<1>4. EventsOf(file) = ToSet(Legacy)
  <2>1. ASSUME NEW e \in EventsOf(file) PROVE e \in ToSet(Legacy)
    BY <1>1, <1>2, <2>1 DEF EventsOf, ToSet
  <2>2. ASSUME NEW e \in ToSet(Legacy) PROVE e \in EventsOf(file)
    <3>1. PICK i \in 1..len : Legacy[i] = e
      BY <1>1, <2>2 DEF ToSet
    <3>2. i \in DOMAIN file /\ e \in file[i].events
      BY <1>2, <3>1
    <3>3. QED
      BY <3>2 DEF EventsOf
  <2>3. QED
    BY <2>1, <2>2
<1>5. LedgerType
  <2>1. <<>> \in Seq(Event)
    OBVIOUS
  <2>2. batch \in [Agent -> Seq(Event)] /\ pending \in [Agent -> Seq(Event)]
    BY <2>1 DEF Init
  <2>3. lock \in Agent \cup {NoAgent} /\ pc \in [Agent -> {"idle", "lock", "judge", "write", "close"}]
    BY DEF Init
  <2>4. cut \in BOOLEAN /\ flushedLate \in BOOLEAN
    BY DEF Init
  <2>5. QED
    BY <1>3, <2>2, <2>3, <2>4 DEF LedgerType
<1>6. LockIsHeld /\ LateIsCut /\ WritersAreSound
  BY AgentAssumption DEF Init, LockIsHeld, LateIsCut, WritersAreSound
<1>7. QuietIsValid
  BY <1>4, LegacyAssumption DEF QuietIsValid, AllValid
<1>8. UncutIsWhole /\ acked \subseteq EventsOf(file)
  BY <1>2 DEF Init, UncutIsWhole
<1>9. OneLinePerEvent
  BY <1>1, <1>2, LegacyAssumption DEF OneLinePerEvent
<1>10. QED
  BY <1>5, <1>6, <1>7, <1>8, <1>9 DEF LedgerInv

\* Whatever part of its next line an agent gets into the file.
LEMMA PartIs ==
  ASSUME LedgerType, NEW p \in Agent, NEW after,
         after \in Partial(p) \cup
            (IF pending[p] = <<>> THEN {} ELSE {AppendLine(file, Line(pending[p][1], "whole"))})
  PROVE  /\ after \in Seq(LineRecord)
         /\ EventsOf(file) \subseteq EventsOf(after)
         /\ pending[p] = <<>> => after = file
         /\ OneLineEach(file) /\ NewTo(file, pending[p]) => OneLineEach(after)
<1>1. file \in Seq(LineRecord) /\ pending[p] \in Seq(Event)
  BY DEF LedgerType
<1>2. CASE after = file
  BY <1>1, <1>2
<1>3. CASE after # file
  <2>1. pending[p] # <<>>
    BY <1>3 DEF Partial
  <2>2. PICK form \in {"whole", "torn", "unterminated"} :
            after = AppendLine(file, Line(pending[p][1], form))
    BY <1>3, <2>1 DEF Partial
  <2>3. pending[p][1] \in Event /\ 1 \in DOMAIN pending[p]
    BY <1>1, <2>1
  <2>4. /\ after \in Seq(LineRecord)
        /\ EventsOf(after) = EventsOf(file) \cup {pending[p][1]}
        /\ OneLineEach(file) /\ (\A d \in EventsOf(file) : Key(d) # Key(pending[p][1]))
             => OneLineEach(after)
    BY <1>1, <2>2, <2>3, AppendIs
  <2>5. NewTo(file, pending[p]) => \A d \in EventsOf(file) : Key(d) # Key(pending[p][1])
    BY <2>3 DEF NewTo
  <2>6. QED
    BY <2>1, <2>4, <2>5
<1>4. QED
  BY <1>2, <1>3

LEMMA LedgerTypeHolds == LedgerType /\ [Next]_vars => LedgerType'
<1> SUFFICES ASSUME LedgerType, [Next]_vars PROVE LedgerType'
  OBVIOUS
<1> USE DEF LedgerType
<1>1. ASSUME NEW p \in Agent, NEW input \in Batch, Parse(p, input) PROVE LedgerType'
  <2>1. CASE \A i \in DOMAIN input : ValidEvent(input[i]) /\ input[i].version = 2
    <3>1. input \in Seq(Event)
      BY <2>1, InputsAreEvents
    <3>2. QED
      BY <1>1, <2>1, <3>1 DEF Parse, Goto, history
  <2>2. CASE ~\A i \in DOMAIN input : ValidEvent(input[i]) /\ input[i].version = 2
    BY <1>1, <2>2 DEF Parse, history
  <2>3. QED
    BY <2>1, <2>2
<1>2. ASSUME NEW p \in Agent, Lock(p) PROVE LedgerType'
  BY <1>2 DEF Lock, Goto, history
<1>3. ASSUME NEW p \in Agent, Judge(p) PROVE LedgerType'
  <2>1. Fresh(EventsOf(file), batch[p]) \in Seq(Event)
    BY FreshIs
  <2>2. CASE /\ pending' = [pending EXCEPT ![p] = Fresh(EventsOf(file), batch[p])]
             /\ Goto(p, "write")
             /\ UNCHANGED <<lock, batch>>
    BY <1>3, <2>1, <2>2 DEF Judge, Goto, history
  <2>3. CASE Goto(p, "idle") /\ Unlock(p) /\ Forget(p)
    BY <1>3, <2>3 DEF Judge, Goto, Unlock, Forget, history
  <2>4. QED
    BY <1>3, <2>2, <2>3 DEF Judge
<1>4. ASSUME NEW p \in Agent, WriteLine(p) PROVE LedgerType'
  <2>1. pending[p] \in Seq(Event) /\ pending[p] # <<>>
    BY <1>4 DEF WriteLine
  <2>2. pending[p][1] \in Event /\ Tail(pending[p]) \in Seq(Event)
    BY <2>1, FirstIs
  <2>3. file' \in Seq(LineRecord)
    BY <1>4, <2>2, AppendIs DEF WriteLine
  <2>4. QED
    BY <1>4, <2>2, <2>3 DEF WriteLine, history
<1>5. ASSUME NEW p \in Agent, Finish(p) PROVE LedgerType'
  BY <1>5 DEF Finish, Goto, Unlock, Forget
<1>6. ASSUME NEW p \in Agent, WriteFails(p) PROVE LedgerType'
  <2>1. file' \in Seq(LineRecord)
    BY <1>6, PartIs DEF WriteFails
  <2>2. cut' \in BOOLEAN /\ flushedLate' \in BOOLEAN
    BY <1>6 DEF WriteFails
  <2>3. lock' \in Agent \cup {NoAgent}
    BY <1>6 DEF WriteFails, Unlock
  <2>4. /\ pc' \in [Agent -> {"idle", "lock", "judge", "write", "close"}]
        /\ batch' \in [Agent -> Seq(Event)]
        /\ pending' \in [Agent -> Seq(Event)]
    <3>1. CASE file' = file
      BY <1>6, <3>1 DEF WriteFails, Goto
    <3>2. CASE file' # file
      <4>1. <<>> \in Seq(Event)
        OBVIOUS
      <4>2. QED
        BY <1>6, <3>2, <4>1 DEF WriteFails, Goto, Forget
    <3>3. QED
      BY <3>1, <3>2
  <2>5. QED
    BY <2>1, <2>2, <2>3, <2>4
<1>7. ASSUME NEW p \in Agent, Close(p) PROVE LedgerType'
  <2>1. file' \in Seq(LineRecord)
    BY <1>7, PartIs DEF Close
  <2>2. cut' \in BOOLEAN /\ flushedLate' \in BOOLEAN
    BY <1>7 DEF Close
  <2>3. QED
    BY <1>7, <2>1, <2>2 DEF Close, Goto, Forget
<1>8. ASSUME NEW p \in Agent, Kill(p) PROVE LedgerType'
  <2>1. file' \in Seq(LineRecord)
    BY <1>8, PartIs DEF Kill
  <2>2. cut' \in BOOLEAN /\ flushedLate' \in BOOLEAN
    BY <1>8 DEF Kill
  <2>3. QED
    BY <1>8, <2>1, <2>2 DEF Kill, Goto, Forget, Unlock
<1>9. CASE UNCHANGED vars
  BY <1>9 DEF vars
<1>10. QED
  BY <1>1, <1>2, <1>3, <1>4, <1>5, <1>6, <1>7, <1>8, <1>9 DEF Next, Step


-----------------------------------------------------------------------------
\* What does not touch the file, nor what the agents that hold the lock know,
\* keeps all but the lock's own facts.
LEMMA FileUntouched ==
  ASSUME LedgerInv, UNCHANGED <<file, acked, cut, flushedLate>>,
         \A q \in Agent : pc'[q] = "write" =>
            pc[q] = "write" /\ pending'[q] = pending[q] /\ batch'[q] = batch[q]
  PROVE  /\ WritersAreSound' /\ UncutIsWhole'
         /\ (acked \subseteq EventsOf(file))' /\ OneLinePerEvent'
<1>1. EventsOf(file)' = EventsOf(file)
  OBVIOUS
<1>2. WritersAreSound'
  <2>1. SUFFICES ASSUME NEW q \in Agent, pc'[q] = "write" PROVE Writing(q)'
    BY DEF WritersAreSound
  <2>2. Writing(q) /\ pending'[q] = pending[q] /\ batch'[q] = batch[q]
    BY <2>1 DEF LedgerInv, WritersAreSound
  <2>3. NewTo(file, pending[q])' <=> NewTo(file, pending[q])
    BY <2>2 DEF NewTo
  <2>4. QED
    BY <1>1, <2>2, <2>3 DEF Writing
<1>3. UncutIsWhole'
  BY DEF LedgerInv, UncutIsWhole
<1>4. (acked \subseteq EventsOf(file))'
  BY <1>1 DEF LedgerInv
<1>5. OneLinePerEvent'
  BY DEF LedgerInv, OneLinePerEvent
<1>6. QED
  BY <1>2, <1>3, <1>4, <1>5

LEMMA ParseKeeps ==
  ASSUME LedgerInv, NEW p \in Agent, NEW input \in Batch, Parse(p, input), LedgerType'
  PROVE  LedgerInv'
<1> USE DEF LedgerInv
<1>1. UNCHANGED <<file, lock, pending, acked, cut, flushedLate>>
  BY DEF Parse, history
<1>2. \A q \in Agent : pc'[q] # pc[q] => pc[q] = "idle" /\ pc'[q] = "lock"
  BY DEF Parse, Goto, LedgerType
<1>3. \A q \in Agent : pc'[q] = "write" => pc[q] = "write" /\ batch'[q] = batch[q]
  BY DEF Parse, Goto, LedgerType
<1>4. LockIsHeld' /\ LateIsCut'
  BY <1>1, <1>2 DEF LockIsHeld, LateIsCut
<1>5. QuietIsValid'
  BY <1>1, <1>2 DEF QuietIsValid
<1>6. QED
  BY <1>1, <1>3, <1>4, <1>5, FileUntouched

LEMMA LockKeeps ==
  ASSUME LedgerInv, NEW p \in Agent, Lock(p), LedgerType'
  PROVE  LedgerInv'
<1> USE DEF LedgerInv
<1>1. UNCHANGED <<file, batch, pending, acked, cut, flushedLate>>
  BY DEF Lock, history
<1>2. /\ pc'[p] = "judge" /\ lock' = p
      /\ \A q \in Agent \ {p} : pc'[q] = pc[q] /\ lock # q /\ lock' # q
  BY AgentAssumption DEF Lock, Goto, LedgerType
<1>3. LockIsHeld' /\ LateIsCut'
  BY <1>1, <1>2 DEF LockIsHeld, LateIsCut
<1>4. QuietIsValid'
  <2>1. \A q \in Agent : pc[q] # "write"
    BY AgentAssumption DEF Lock, LockIsHeld
  <2>2. QED
    BY <1>1, <2>1 DEF QuietIsValid
<1>5. \A q \in Agent : pc'[q] = "write" => pc[q] = "write"
  BY <1>2
<1>6. QED
  BY <1>1, <1>3, <1>4, <1>5, FileUntouched

LEMMA JudgeKeeps ==
  ASSUME LedgerInv, NEW p \in Agent, Judge(p), LedgerType'
  PROVE  LedgerInv'
<1> USE DEF LedgerInv
<1> DEFINE known == EventsOf(file)
           input == batch[p]
<1>1. UNCHANGED <<file, acked, cut, flushedLate>> /\ pc[p] = "judge" /\ lock = p
  BY DEF Judge, history, LockIsHeld
<1>2. \A q \in Agent : pc[q] # "write"
  BY <1>1 DEF LockIsHeld
<1>3. ~cut => AllValid(known)
  BY <1>2 DEF QuietIsValid
<1>4. CASE /\ Admissible(known, input)
           /\ pending' = [pending EXCEPT ![p] = Fresh(known, input)]
           /\ Goto(p, "write")
           /\ UNCHANGED <<lock, batch>>
  <2>1. /\ pc'[p] = "write" /\ pending'[p] = Fresh(known, input)
        /\ \A q \in Agent \ {p} : pc'[q] = pc[q] /\ pending'[q] = pending[q]
    BY <1>4 DEF Goto, LedgerType
  <2>2. input \in Seq(Event)
    BY DEF LedgerType
  <2>3. ToSet(Fresh(known, input)) = ToSet(input) \ known
    BY <2>2, FreshIs
  <2>4. NewTo(file, Fresh(known, input))
    BY <1>4, <2>2, AdmittedIsNew DEF Admissible
  <2>5. known \cup (ToSet(input) \ known) = known \cup ToSet(input)
    OBVIOUS
  <2>6. ~cut => AllValid(known \cup ToSet(Fresh(known, input)))
    BY <1>3, <1>4, <2>3, <2>5, AdmittedValidates
  <2>7. known' = known /\ batch'[p] = input
    BY <1>1, <1>4
  <2>8. Writing(p)'
    <3>1. NewTo(file, pending[p])'
      BY <1>1, <2>1, <2>4 DEF NewTo
    <3>2. ~cut' => AllValid(EventsOf(file)' \cup ToSet(pending'[p]))
      BY <1>1, <2>1, <2>6
    <3>3. ToSet(batch'[p]) \subseteq EventsOf(file)' \cup ToSet(pending'[p])
      BY <1>1, <2>1, <2>3, <2>7
    <3>4. QED
      BY <3>1, <3>2, <3>3 DEF Writing
  <2>9. WritersAreSound'
    BY <1>2, <2>1, <2>8 DEF WritersAreSound
  <2>10. LockIsHeld' /\ LateIsCut' /\ QuietIsValid'
    BY <1>1, <1>4, <2>1 DEF LockIsHeld, LateIsCut, QuietIsValid
  <2>11. UncutIsWhole' /\ (acked \subseteq EventsOf(file))' /\ OneLinePerEvent'
    BY <1>1 DEF UncutIsWhole, OneLinePerEvent
  <2>12. QED
    BY <2>9, <2>10, <2>11
<1>5. CASE Goto(p, "idle") /\ Unlock(p) /\ Forget(p)
  <2>1. /\ pc'[p] = "idle" /\ lock' = NoAgent
        /\ \A q \in Agent \ {p} : pc'[q] = pc[q] /\ pending'[q] = pending[q]
    BY <1>1, <1>5 DEF Goto, Unlock, Forget, LedgerType
  <2>2. LockIsHeld' /\ LateIsCut'
    BY <1>1, <2>1, AgentAssumption DEF LockIsHeld, LateIsCut
  <2>3. QuietIsValid'
    BY <1>1, <1>3 DEF QuietIsValid
  <2>4. \A q \in Agent : pc'[q] # "write"
    BY <1>2, <2>1
  <2>5. QED
    BY <1>1, <2>2, <2>3, <2>4, FileUntouched
<1>6. QED
  BY <1>4, <1>5 DEF Judge

LEMMA WriteLineKeeps ==
  ASSUME LedgerInv, NEW p \in Agent, WriteLine(p), LedgerType'
  PROVE  LedgerInv'
<1> USE DEF LedgerInv
<1> DEFINE e == pending[p][1]
<1>1. /\ UNCHANGED <<lock, pc, batch, acked, cut, flushedLate>>
      /\ pc[p] = "write" /\ pending[p] # <<>> /\ pending[p] \in Seq(Event)
      /\ file \in Seq(LineRecord) /\ file' = AppendLine(file, Line(e, "whole"))
  BY DEF WriteLine, history, LedgerType
<1>2. lock = p /\ \A q \in Agent \ {p} : pc[q] # "write"
  BY <1>1 DEF LockIsHeld
<1>3. Writing(p)
  BY <1>1 DEF WritersAreSound
<1>4. /\ e \in Event /\ ToSet(pending[p]) = {e} \cup ToSet(Tail(pending[p]))
  BY <1>1, FirstIs
<1>5. /\ EventsOf(file') = EventsOf(file) \cup {e}
      /\ OneLineEach(file) /\ (\A d \in EventsOf(file) : Key(d) # Key(e)) => OneLineEach(file')
      /\ (\A i \in DOMAIN file : file[i].form = "whole")
           => \A i \in DOMAIN file' : file'[i].form = "whole"
  BY <1>1, <1>4, AppendIs
<1>6. /\ pending'[p] = Tail(pending[p])
      /\ \A q \in Agent \ {p} : pending'[q] = pending[q]
  BY <1>1 DEF WriteLine, LedgerType
<1> HIDE DEF e
<1>7. Writing(p)'
  <2>1. flushedLate' \/ NewTo(file', pending'[p])
    BY <1>1, <1>3, <1>5, <1>6, RestIsNew DEF Writing, e
  <2>2. EventsOf(file') \cup ToSet(pending'[p]) = EventsOf(file) \cup ToSet(pending[p])
    BY <1>4, <1>5, <1>6
  <2>3. batch'[p] = batch[p] /\ cut' = cut
    BY <1>1
  <2>4. ~cut' => AllValid(EventsOf(file') \cup ToSet(pending'[p]))
    BY <1>3, <2>2, <2>3 DEF Writing
  <2>5. ToSet(batch'[p]) \subseteq EventsOf(file') \cup ToSet(pending'[p])
    BY <1>3, <2>2, <2>3 DEF Writing
  <2>6. QED
    BY <2>1, <2>4, <2>5 DEF Writing
<1>8. WritersAreSound'
  BY <1>1, <1>2, <1>7 DEF WritersAreSound
<1>9. LockIsHeld' /\ LateIsCut'
  BY <1>1, <1>6 DEF LockIsHeld, LateIsCut
<1>10. QuietIsValid'
  BY <1>1 DEF QuietIsValid
<1>11. UncutIsWhole' /\ (acked \subseteq EventsOf(file))'
  BY <1>1, <1>5 DEF UncutIsWhole
<1>12. OneLinePerEvent'
  <2>1. CASE flushedLate
    BY <1>1, <2>1 DEF OneLinePerEvent
  <2>2. CASE ~flushedLate
    <3>1. OneLineEach(file)
      BY <2>2 DEF OneLinePerEvent, OneLineEach
    <3>2. NewTo(file, pending[p]) /\ 1 \in DOMAIN pending[p]
      BY <1>1, <1>3, <2>2 DEF Writing
    <3>3. \A d \in EventsOf(file) : Key(d) # Key(e)
      BY <3>2 DEF NewTo, e
    <3>4. OneLineEach(file')
      BY <1>5, <3>1, <3>3
    <3>5. QED
      BY <3>4 DEF OneLinePerEvent, OneLineEach
  <2>3. QED
    BY <2>1, <2>2
<1>13. QED
  BY <1>8, <1>9, <1>10, <1>11, <1>12

LEMMA FinishKeeps ==
  ASSUME LedgerInv, NEW p \in Agent, Finish(p), LedgerType'
  PROVE  LedgerInv'
<1> USE DEF LedgerInv
<1>1. /\ UNCHANGED <<file, cut, flushedLate>> /\ acked' = acked \cup ToSet(batch[p])
      /\ pc[p] = "write" /\ pending[p] = <<>>
  BY DEF Finish
<1>2. /\ pc'[p] = "idle"
      /\ \A q \in Agent \ {p} : pc'[q] = pc[q] /\ pending'[q] = pending[q]
  BY DEF Finish, Goto, Forget, LedgerType
<1>3. lock = p /\ lock' = NoAgent /\ \A q \in Agent \ {p} : pc[q] # "write"
  BY <1>1 DEF Finish, Unlock, LockIsHeld
<1>4. Writing(p) /\ ToSet(pending[p]) = {}
  BY <1>1 DEF WritersAreSound, ToSet
<1>5. LockIsHeld' /\ LateIsCut' /\ WritersAreSound'
  BY <1>1, <1>2, <1>3, AgentAssumption DEF LockIsHeld, LateIsCut, WritersAreSound
<1>6. QuietIsValid'
  <2>1. EventsOf(file) \cup ToSet(pending[p]) = EventsOf(file)
    BY <1>4
  <2>2. QED
    BY <1>1, <1>4, <2>1 DEF Writing, QuietIsValid
<1>7. UncutIsWhole' /\ OneLinePerEvent'
  BY <1>1 DEF UncutIsWhole, OneLinePerEvent
<1>8. (acked \subseteq EventsOf(file))'
  BY <1>1, <1>4 DEF Writing
<1>9. QED
  BY <1>5, <1>6, <1>7, <1>8


-----------------------------------------------------------------------------
\* A write that stops where it likes, by an error or by a kill.
LEMMA CutWriteKeeps ==
  ASSUME LedgerInv, NEW p \in Agent, pc[p] = "write", LedgerType',
         file' \in Partial(p), cut' = (cut \/ pending[p] # <<>>), lock' = NoAgent,
         UNCHANGED <<acked, flushedLate>>,
         pc'[p] \in {"idle", "close"}, pc'[p] = "close" => pending'[p] = pending[p],
         \A q \in Agent \ {p} : pc'[q] = pc[q] /\ pending'[q] = pending[q]
  PROVE  LedgerInv'
<1> USE DEF LedgerInv
<1>1. lock = p /\ \A q \in Agent \ {p} : pc[q] \notin {"judge", "write"}
  BY DEF LockIsHeld
<1>2. Writing(p)
  BY DEF WritersAreSound
<1>3. /\ EventsOf(file) \subseteq EventsOf(file')
      /\ pending[p] = <<>> => file' = file
      /\ OneLineEach(file) /\ NewTo(file, pending[p]) => OneLineEach(file')
  BY PartIs
<1>4. ~cut' => ~cut /\ pending[p] = <<>> /\ file' = file
  BY <1>3
<1>5. LockIsHeld'
  BY <1>1, AgentAssumption DEF LockIsHeld
<1>6. LateIsCut'
  <2>1. SUFFICES ASSUME NEW q \in Agent, pc'[q] = "close", pending'[q] # <<>> PROVE cut'
    BY DEF LateIsCut
  <2>2. CASE q = p
    BY <2>1, <2>2
  <2>3. CASE q # p
    BY <2>1, <2>3 DEF LateIsCut
  <2>4. QED
    BY <2>2, <2>3
<1>7. WritersAreSound'
  BY <1>1 DEF WritersAreSound
<1>8. QuietIsValid'
  <2>1. SUFFICES ASSUME ~cut' PROVE AllValid(EventsOf(file'))
    BY DEF QuietIsValid
  <2>2. ToSet(pending[p]) = {}
    BY <1>4, <2>1 DEF ToSet
  <2>3. EventsOf(file) \cup ToSet(pending[p]) = EventsOf(file')
    BY <1>4, <2>1, <2>2
  <2>4. QED
    BY <1>2, <1>4, <2>1, <2>3 DEF Writing
<1>9. UncutIsWhole'
  BY <1>4 DEF UncutIsWhole
<1>10. (acked \subseteq EventsOf(file))'
  BY <1>3
<1>11. OneLinePerEvent'
  BY <1>2, <1>3 DEF Writing, OneLinePerEvent, OneLineEach
<1>12. QED
  BY <1>5, <1>6, <1>7, <1>8, <1>9, <1>10, <1>11

LEMMA WriteFailsKeeps ==
  ASSUME LedgerInv, NEW p \in Agent, WriteFails(p), LedgerType'
  PROVE  LedgerInv'
<1>1. LockIsHeld /\ LedgerType
  BY DEF LedgerInv
<1>2. lock' = NoAgent
  BY <1>1 DEF WriteFails, Unlock, LockIsHeld
<1>3. /\ pc'[p] \in {"idle", "close"} /\ (pc'[p] = "close" => pending'[p] = pending[p])
      /\ \A q \in Agent \ {p} : pc'[q] = pc[q] /\ pending'[q] = pending[q]
  <2>1. CASE file' = file
    BY <1>1, <2>1 DEF WriteFails, Goto, LedgerType
  <2>2. CASE file' # file
    BY <1>1, <2>2 DEF WriteFails, Goto, Forget, LedgerType
  <2>3. QED
    BY <2>1, <2>2
<1>4. /\ pc[p] = "write" /\ file' \in Partial(p) /\ cut' = (cut \/ pending[p] # <<>>)
      /\ UNCHANGED <<acked, flushedLate>>
  BY DEF WriteFails
<1>5. QED
  BY <1>2, <1>3, <1>4, CutWriteKeeps

LEMMA KillKeeps ==
  ASSUME LedgerInv, NEW p \in Agent, Kill(p), LedgerType'
  PROVE  LedgerInv'
<1>1. LockIsHeld /\ LedgerType
  BY DEF LedgerInv
<1>2. /\ pc'[p] = "idle" /\ UNCHANGED <<acked, flushedLate>>
      /\ lock' = IF lock = p THEN NoAgent ELSE lock
      /\ \A q \in Agent \ {p} : /\ pc'[q] = pc[q] /\ pending'[q] = pending[q]
                                /\ batch'[q] = batch[q]
  BY <1>1 DEF Kill, Goto, Unlock, Forget, LedgerType
<1>3. CASE pc[p] = "write"
  <2>1. lock' = NoAgent
    BY <1>1, <1>2, <1>3 DEF LockIsHeld
  <2>2. file' \in Partial(p) /\ cut' = (cut \/ pending[p] # <<>>)
    BY <1>3 DEF Kill
  <2>3. QED
    BY <1>2, <1>3, <2>1, <2>2, CutWriteKeeps
<1>4. CASE pc[p] # "write"
  <2>1. UNCHANGED <<file, cut>>
    BY <1>4 DEF Kill
  <2>2. \A q \in Agent : pc'[q] = "write" => q # p
    BY <1>2
  <2>3. WritersAreSound' /\ UncutIsWhole' /\ (acked \subseteq EventsOf(file))' /\ OneLinePerEvent'
    BY <1>2, <2>1, <2>2, FileUntouched
  <2>4. LockIsHeld'
    BY <1>1, <1>2, AgentAssumption DEF LockIsHeld, LedgerType
  <2>5. LateIsCut'
    BY <1>2, <2>1 DEF LedgerInv, LateIsCut
  <2>6. QuietIsValid'
    <3>1. (\A q \in Agent : pc'[q] # "write") => \A q \in Agent : pc[q] # "write"
      BY <1>2, <1>4
    <3>2. QED
      BY <2>1, <3>1 DEF LedgerInv, QuietIsValid
  <2>7. QED
    BY <2>3, <2>4, <2>5, <2>6 DEF LedgerInv
<1>5. QED
  BY <1>3, <1>4

\* What close() still writes changes the file only once a write was cut, and
\* then it is a late flush: another agent may have read the file in between.
LEMMA CloseKeeps ==
  ASSUME LedgerInv, NEW p \in Agent, Close(p), LedgerType'
  PROVE  LedgerInv'
<1> USE DEF LedgerInv
<1>1. /\ pc[p] = "close" /\ pc'[p] = "idle" /\ UNCHANGED <<lock, acked, cut>>
      /\ flushedLate' = (flushedLate \/ file' # file)
      /\ \A q \in Agent \ {p} : /\ pc'[q] = pc[q] /\ pending'[q] = pending[q]
                                /\ batch'[q] = batch[q]
  BY DEF Close, Goto, Forget, LedgerType
<1>2. /\ EventsOf(file) \subseteq EventsOf(file')
      /\ pending[p] = <<>> => file' = file
  BY PartIs DEF Close
<1>3. ~cut => file' = file
  BY <1>1, <1>2 DEF LateIsCut
<1>4. LockIsHeld' /\ LateIsCut'
  BY <1>1 DEF LockIsHeld, LateIsCut
<1>5. WritersAreSound'
  <2>1. SUFFICES ASSUME NEW q \in Agent, pc'[q] = "write" PROVE Writing(q)'
    BY DEF WritersAreSound
  <2>2. q # p /\ pc[q] = "write" /\ pending'[q] = pending[q] /\ batch'[q] = batch[q]
    BY <1>1, <2>1
  <2>3. Writing(q)
    BY <2>2 DEF WritersAreSound
  <2>4. flushedLate' \/ NewTo(file', pending'[q])
    BY <1>1, <2>2, <2>3 DEF Writing
  <2>5. ~cut' => AllValid(EventsOf(file') \cup ToSet(pending'[q]))
    BY <1>1, <1>3, <2>2, <2>3 DEF Writing
  <2>6. ToSet(batch'[q]) \subseteq EventsOf(file') \cup ToSet(pending'[q])
    BY <1>2, <2>2, <2>3 DEF Writing
  <2>7. QED
    BY <2>4, <2>5, <2>6 DEF Writing
<1>6. QuietIsValid'
  <2>1. (\A q \in Agent : pc'[q] # "write") => \A q \in Agent : pc[q] # "write"
    BY <1>1
  <2>2. QED
    BY <1>1, <1>3, <2>1 DEF QuietIsValid
<1>7. UncutIsWhole'
  BY <1>1, <1>3 DEF UncutIsWhole
<1>8. (acked \subseteq EventsOf(file))'
  BY <1>1, <1>2
<1>9. OneLinePerEvent'
  <2>1. CASE file' = file
    <3>1. flushedLate => flushedLate'
      BY <1>1
    <3>2. flushedLate \/ OneLineEach(file)
      BY DEF OneLinePerEvent, OneLineEach
    <3>3. flushedLate' \/ OneLineEach(file')
      BY <2>1, <3>1, <3>2
    <3>4. QED
      BY <3>3 DEF OneLinePerEvent, OneLineEach
  <2>2. CASE file' # file
    <3>1. flushedLate'
      BY <1>1, <2>2
    <3>2. QED
      BY <3>1 DEF OneLinePerEvent
  <2>3. QED
    BY <2>1, <2>2
<1>10. QED
  BY <1>4, <1>5, <1>6, <1>7, <1>8, <1>9

LEMMA LedgerInvHolds == Spec => []LedgerInv
<1>1. LedgerInv /\ [Next]_vars => LedgerInv'
  <2> SUFFICES ASSUME LedgerInv, [Next]_vars PROVE LedgerInv'
    OBVIOUS
  <2>1. LedgerType'
    BY LedgerTypeHolds DEF LedgerInv
  <2>2. CASE UNCHANGED vars
    <3>1. \A q \in Agent : pc'[q] = pc[q] /\ pending'[q] = pending[q] /\ batch'[q] = batch[q]
      BY <2>2 DEF vars
    <3>2. UNCHANGED <<file, acked, cut, flushedLate, lock>>
      BY <2>2 DEF vars
    <3>3. WritersAreSound' /\ UncutIsWhole' /\ (acked \subseteq EventsOf(file))' /\ OneLinePerEvent'
      BY <3>1, <3>2, FileUntouched
    <3>4. LockIsHeld' /\ LateIsCut' /\ QuietIsValid'
      BY <3>1, <3>2 DEF LedgerInv, LockIsHeld, LateIsCut, QuietIsValid
    <3>5. QED
      BY <2>1, <3>3, <3>4 DEF LedgerInv
  <2>3. ASSUME NEW p \in Agent, NEW input \in Batch, Parse(p, input) PROVE LedgerInv'
    BY <2>1, <2>3, ParseKeeps
  <2>4. ASSUME NEW p \in Agent, Step(p) PROVE LedgerInv'
    BY <2>1, <2>4, LockKeeps, JudgeKeeps, WriteLineKeeps, FinishKeeps, WriteFailsKeeps,
       CloseKeeps DEF Step
  <2>5. ASSUME NEW p \in Agent, Kill(p) PROVE LedgerInv'
    BY <2>1, <2>5, KillKeeps
  <2>6. QED
    BY <2>2, <2>3, <2>4, <2>5 DEF Next
<1>2. QED
  BY <1>1, LedgerStarts, PTL DEF Spec

-----------------------------------------------------------------------------
\* ingest_events under the flock: an event is in the ledger once and an id has
\* one content, for any agents, batches and kills, unless a failed write went on
\* after its lock was released.
THEOREM EventsAreOnce == Spec => []OneLinePerEvent
<1>1. LedgerInv => OneLinePerEvent
  BY DEF LedgerInv
<1>2. QED
  BY <1>1, LedgerInvHolds, PTL

\* ingest_events validates each run of a batch with all the ledger holds of it:
\* between two ingests every run of the ledger validates, for any batches and
\* whatever validate_event lets through, unless a write was cut short.
THEOREM LedgersValidate == Spec => []LedgerValidates
<1>1. LedgerInv => LedgerValidates
  <2>1. SUFFICES ASSUME LedgerInv, lock = NoAgent, ~cut
                 PROVE  /\ Readable(file)
                        /\ \A e \in EventsOf(file) : ValidRun(EventsOf(file), e.run, FALSE)
    BY DEF LedgerValidates
  <2>2. \A p \in Agent : pc[p] # "write"
    BY <2>1, AgentAssumption DEF LedgerInv, LockIsHeld
  <2>3. AllValid(EventsOf(file))
    BY <2>1, <2>2 DEF LedgerInv, QuietIsValid
  <2>4. Readable(file)
    BY <2>1 DEF LedgerInv, UncutIsWhole, Readable
  <2>5. QED
    BY <2>3, <2>4 DEF AllValid
<1>2. QED
  BY <1>1, LedgerInvHolds, PTL

\* What ingest_events reports, as ingested or as a duplicate, is in the file
\* from then on, whoever appends to it or is killed at it.
THEOREM ReportsStay == Spec => []ReportedStays
<1>1. LedgerInv => ReportedStays
  <2>1. SUFFICES ASSUME LedgerInv, NEW e \in acked
                 PROVE  \E i \in DOMAIN file :
                           e \in file[i].events /\ (cut \/ file[i].form = "whole")
    BY DEF ReportedStays
  <2>2. PICK i \in DOMAIN file : e \in file[i].events
    BY <2>1 DEF LedgerInv, EventsOf
  <2>3. cut \/ file[i].form = "whole"
    BY <2>1 DEF LedgerInv, UncutIsWhole
  <2>4. QED
    BY <2>2, <2>3
<1>2. QED
  BY <1>1, LedgerInvHolds, PTL
-----------------------------------------------------------------------------
(* Sums of natural numbers over finite sets: SumFunctionOnSet takes the      *)
(* elements one after another, and which one first does not matter.          *)

Total(w, S) == SumFunctionOnSet(w, S)
Picked(s) == CHOOSE x \in s : TRUE
Adds(w, S, g) ==
  g = [s \in SUBSET S |-> IF s = {} THEN 0 ELSE w[Picked(s)] + g[s \ {Picked(s)}]]

LEMMA TotalIs == \A w, S : Total(w, S) = (CHOOSE g : Adds(w, S, g))[S]
  BY DEF Total, SumFunctionOnSet, FoldFunctionOnSet, MapThenFoldSet, Adds, Picked

LEMMA SmallestSet ==
  ASSUME NEW F, F # {}, \A s \in F : IsFiniteSet(s)
  PROVE  \E s \in F : \A t \in F : Cardinality(s) <= Cardinality(t)
<1> DEFINE T == {Cardinality(s) : s \in F}
<1>1. T \subseteq Nat /\ T # {}
  BY FS_CardinalityType
<1>2. PICK m \in T : \A k \in T : m <= k
  <2> HIDE DEF T
  <2>1. QED
    BY <1>1, LeastNumber
<1>3. QED
  BY <1>2

\* Taking an element out of a finite set.
LEMMA OneLess ==
  ASSUME NEW s, IsFiniteSet(s), NEW x \in s
  PROVE  /\ IsFiniteSet(s \ {x}) /\ Cardinality(s) \in Nat /\ Cardinality(s) >= 1
         /\ Cardinality(s \ {x}) = Cardinality(s) - 1
<1>1. Cardinality(s) \in Nat /\ Cardinality(s) # 0
  BY FS_CardinalityType, FS_EmptySet
<1>2. IsFiniteSet(s \ {x}) /\ Cardinality(s \ {x}) = Cardinality(s) - 1
  BY FS_RemoveElement
<1>3. QED
  BY <1>1, <1>2

LEMMA PickedIs == \A s : s # {} => Picked(s) \in s
  BY DEF Picked

LEMMA AddsExists ==
  ASSUME NEW S, IsFiniteSet(S), NEW w, \A x \in S : w[x] \in Nat
  PROVE  \E g : Adds(w, S, g) /\ \A s \in SUBSET S : g[s] \in Nat
<1> DEFINE Small(n) == {s \in SUBSET S : Cardinality(s) <= n}
           UpTo(n, g) ==
             /\ g = [s \in Small(n) |->
                       IF s = {} THEN 0 ELSE w[Picked(s)] + g[s \ {Picked(s)}]]
             /\ \A s \in Small(n) : g[s] \in Nat
           T == {n \in Nat : ~\E g : UpTo(n, g)}
<1>1. \A s \in SUBSET S : IsFiniteSet(s) /\ Cardinality(s) \in Nat
  BY FS_Subset, FS_CardinalityType
<1>2. ASSUME T # {} PROVE FALSE
  <2>1. PICK m \in T : \A k \in T : m <= k
    BY <1>2, LeastNumber
  <2>2. m \in Nat /\ ~\E g : UpTo(m, g)
    BY <2>1
  <2>3. CASE m = 0
    <3> DEFINE g == [s \in Small(0) |-> 0]
    <3>1. \A s \in Small(0) : s = {}
      BY <1>1, FS_EmptySet
    <3>2. UpTo(0, g)
      BY <3>1
    <3>3. QED
      BY <2>2, <2>3, <3>2
  <2>4. CASE m # 0
    <3>1. m - 1 \in Nat /\ ~(m <= m - 1)
      BY <2>2, <2>4
    <3>2. m - 1 \notin T
      BY <2>1, <3>1
    <3>3. PICK f : UpTo(m - 1, f)
      BY <3>1, <3>2
    <3> DEFINE g == [s \in Small(m) |->
                       IF s = {} THEN 0 ELSE w[Picked(s)] + f[s \ {Picked(s)}]]
    <3>4. \A s \in Small(m - 1) : s \in Small(m)
      BY <1>1, <2>2
    <3>5. \A s \in Small(m - 1) :
             f[s] = IF s = {} THEN 0 ELSE w[Picked(s)] + f[s \ {Picked(s)}]
      BY <3>3
    <3>6. \A s \in Small(m - 1) : g[s] = f[s] /\ f[s] \in Nat
      BY <3>3, <3>4, <3>5
    <3>7. ASSUME NEW s \in Small(m), s # {}
          PROVE  s \ {Picked(s)} \in Small(m - 1) /\ w[Picked(s)] \in Nat
      <4>1. Picked(s) \in s /\ s \in SUBSET S
        BY <3>7, PickedIs
      <4>2. Cardinality(s \ {Picked(s)}) = Cardinality(s) - 1
        BY <1>1, <4>1, OneLess
      <4>3. Cardinality(s) \in Nat /\ Cardinality(s) <= m
        BY <1>1, <4>1
      <4>4. QED
        BY <2>2, <4>1, <4>2, <4>3
    <3>8. g = [s \in Small(m) |->
                 IF s = {} THEN 0 ELSE w[Picked(s)] + g[s \ {Picked(s)}]]
      <4> DEFINE h == [s \in Small(m) |->
                         IF s = {} THEN 0 ELSE w[Picked(s)] + g[s \ {Picked(s)}]]
      <4>1. \A s \in Small(m) : g[s] = h[s]
        <5>1. SUFFICES ASSUME NEW s \in Small(m) PROVE g[s] = h[s]
          OBVIOUS
        <5>2. CASE s = {}
          BY <5>2
        <5>3. CASE s # {}
          <6>1. g[s \ {Picked(s)}] = f[s \ {Picked(s)}]
            BY <3>6, <3>7, <5>3
          <6>2. g[s] = w[Picked(s)] + f[s \ {Picked(s)}]
            BY <5>3
          <6>3. h[s] = w[Picked(s)] + g[s \ {Picked(s)}]
            BY <5>3
          <6>4. QED
            BY <6>1, <6>2, <6>3
        <5>4. QED
          BY <5>2, <5>3
      <4>2. g = h
        BY <4>1
      <4>3. QED
        BY <4>2
    <3>9. ASSUME NEW s \in Small(m) PROVE g[s] \in Nat
      <4>1. CASE s = {}
        BY <4>1
      <4>2. CASE s # {}
        <5>1. w[Picked(s)] \in Nat /\ f[s \ {Picked(s)}] \in Nat
          BY <3>6, <3>7, <4>2
        <5>2. g[s] = w[Picked(s)] + f[s \ {Picked(s)}]
          BY <4>2
        <5> HIDE DEF g, Small
        <5>3. QED
          BY <5>1, <5>2
      <4>3. QED
        BY <4>1, <4>2
    <3>10. UpTo(m, g)
      <4> HIDE DEF g
      <4>1. QED
        BY <3>8, <3>9
    <3>11. QED
      BY <2>2, <3>10
  <2>5. QED
    BY <2>3, <2>4
<1>3. Cardinality(S) \in Nat
  BY <1>1
<1>4. PICK g : UpTo(Cardinality(S), g)
  BY <1>2, <1>3
<1>5. Small(Cardinality(S)) = SUBSET S
  <2>1. \A s \in SUBSET S : Cardinality(s) <= Cardinality(S)
    BY FS_Subset
  <2>2. QED
    BY <2>1
<1>6. QED
  BY <1>4, <1>5 DEF Adds

LEMMA AddsIsOne ==
  ASSUME NEW S, IsFiniteSet(S), NEW R \in SUBSET S, NEW w, NEW g, NEW h,
         Adds(w, S, g), Adds(w, R, h)
  PROVE  \A s \in SUBSET R : g[s] = h[s]
<1> DEFINE F == {s \in SUBSET R : g[s] # h[s]}
<1>1. SUFFICES ASSUME F # {} PROVE FALSE
  OBVIOUS
<1>2. \A s \in SUBSET S : IsFiniteSet(s) /\ Cardinality(s) \in Nat
  BY FS_Subset, FS_CardinalityType
<1>3. PICK s \in F : \A t \in F : Cardinality(s) <= Cardinality(t)
  BY <1>1, <1>2, SmallestSet
<1>4. s \in SUBSET R /\ s \in SUBSET S /\ g[s] # h[s]
  BY <1>3
<1>5. /\ g[s] = IF s = {} THEN 0 ELSE w[Picked(s)] + g[s \ {Picked(s)}]
      /\ h[s] = IF s = {} THEN 0 ELSE w[Picked(s)] + h[s \ {Picked(s)}]
  BY <1>4 DEF Adds
<1>6. s # {}
  BY <1>4, <1>5
<1>7. Picked(s) \in s
  BY <1>6, PickedIs
<1>8. Cardinality(s \ {Picked(s)}) = Cardinality(s) - 1 /\ Cardinality(s) \in Nat
  BY <1>2, <1>4, <1>7, OneLess
<1>9. s \ {Picked(s)} \notin F
  BY <1>3, <1>8
<1>10. g[s \ {Picked(s)}] = h[s \ {Picked(s)}]
  BY <1>4, <1>9
<1>11. QED
  BY <1>4, <1>5, <1>10

\* The sum by the element that is picked first.
LEMMA TotalByPicked ==
  ASSUME NEW S, IsFiniteSet(S), NEW w, \A x \in S : w[x] \in Nat
  PROVE  /\ Total(w, S) \in Nat
         /\ S = {} => Total(w, S) = 0
         /\ S # {} => Total(w, S) = w[Picked(S)] + Total(w, S \ {Picked(S)})
<1> DEFINE g == CHOOSE gg : Adds(w, S, gg)
           R == S \ {Picked(S)}
           h == CHOOSE hh : Adds(w, R, hh)
<1>1. PICK a : Adds(w, S, a) /\ \A s \in SUBSET S : a[s] \in Nat
  BY AddsExists
<1>2. R \in SUBSET S /\ IsFiniteSet(R) /\ \A x \in R : w[x] \in Nat
  BY FS_Subset
<1>3. PICK b : Adds(w, R, b)
  <2> HIDE DEF R
  <2>1. QED
    BY <1>2, AddsExists
<1>4. Adds(w, S, g) /\ Adds(w, R, h)
  BY <1>1, <1>3
<1> HIDE DEF g, h
<1>5. g[S] = a[S]
  BY <1>1, <1>4, AddsIsOne
<1>6. Total(w, S) = g[S] /\ Total(w, R) = h[R]
  BY TotalIs DEF g, h
<1>7. g[S] = IF S = {} THEN 0 ELSE w[Picked(S)] + g[R]
  BY <1>4 DEF Adds
<1>8. g[R] = h[R]
  <2> HIDE DEF R
  <2>1. QED
    BY <1>2, <1>4, AddsIsOne
<1>9. QED
  BY <1>1, <1>5, <1>6, <1>7, <1>8

\* The sum by any element.
LEMMA TotalByElement ==
  ASSUME NEW S, IsFiniteSet(S), NEW w, \A x \in S : w[x] \in Nat, NEW x \in S
  PROVE  /\ Total(w, S) = w[x] + Total(w, S \ {x})
         /\ Total(w, S) \in Nat /\ Total(w, S \ {x}) \in Nat
<1> DEFINE F == {s \in SUBSET S : \E y \in s : Total(w, s) # w[y] + Total(w, s \ {y})}
<1>1. \A s \in SUBSET S : /\ IsFiniteSet(s) /\ Cardinality(s) \in Nat
                          /\ \A y \in s : w[y] \in Nat
  BY FS_Subset, FS_CardinalityType
<1>2. \A s \in SUBSET S : Total(w, s) \in Nat
  BY <1>1, TotalByPicked
<1>3. ASSUME F # {} PROVE FALSE
  <2>1. PICK s \in F : \A t \in F : Cardinality(s) <= Cardinality(t)
    BY <1>1, <1>3, SmallestSet
  <2>2. PICK y \in s : Total(w, s) # w[y] + Total(w, s \ {y})
    BY <2>1
  <2> DEFINE z == Picked(s)
             both == s \ {y, z}
  <2>3. s \in SUBSET S /\ z \in s
    BY <2>1, <2>2, PickedIs
  <2>4. Total(w, s) = w[z] + Total(w, s \ {z})
    BY <1>1, <2>2, <2>3, TotalByPicked
  <2>5. y # z
    BY <2>2, <2>4
  <2>6. /\ Cardinality(s \ {y}) = Cardinality(s) - 1
        /\ Cardinality(s \ {z}) = Cardinality(s) - 1
        /\ Cardinality(s) \in Nat
    BY <1>1, <2>2, <2>3, OneLess
  <2> HIDE DEF z
  <2>7. s \ {y} \notin F /\ s \ {z} \notin F
    BY <2>1, <2>6
  <2>8. (s \ {y}) \ {z} = both /\ (s \ {z}) \ {y} = both
    OBVIOUS
  <2>9. Total(w, s \ {y}) = w[z] + Total(w, both)
    BY <2>3, <2>5, <2>7, <2>8
  <2>10. Total(w, s \ {z}) = w[y] + Total(w, both)
    BY <2>2, <2>3, <2>5, <2>7, <2>8
  <2>11. w[y] \in Nat /\ w[z] \in Nat /\ Total(w, both) \in Nat
    <3>1. both \in SUBSET S
      BY <2>3
    <3>2. QED
      BY <1>1, <1>2, <2>2, <2>3, <3>1
  <2> HIDE DEF both, F
  <2>12. QED
    BY <2>2, <2>4, <2>9, <2>10, <2>11
<1>4. S \in SUBSET S /\ S \ {x} \in SUBSET S
  OBVIOUS
<1>5. QED
  BY <1>2, <1>3, <1>4

LEMMA TotalOfMore ==
  ASSUME NEW S, IsFiniteSet(S), NEW w, \A y \in S : w[y] \in Nat,
         NEW x, x \notin S, w[x] \in Nat
  PROVE  Total(w, S \cup {x}) = Total(w, S) + w[x] /\ Total(w, S) \in Nat
<1>1. IsFiniteSet(S \cup {x}) /\ \A y \in S \cup {x} : w[y] \in Nat
  BY FS_AddElement
<1>2. (S \cup {x}) \ {x} = S /\ x \in S \cup {x}
  OBVIOUS
<1>3. Total(w, S \cup {x}) = w[x] + Total(w, S) /\ Total(w, S) \in Nat
  <2> DEFINE more == S \cup {x}
  <2>1. IsFiniteSet(more) /\ (\A y \in more : w[y] \in Nat) /\ x \in more /\ more \ {x} = S
    BY <1>1, <1>2
  <2> HIDE DEF more
  <2>2. Total(w, more) = w[x] + Total(w, more \ {x}) /\ Total(w, more \ {x}) \in Nat
    BY <2>1, TotalByElement
  <2>3. QED
    BY <2>1, <2>2 DEF more
<1>4. QED
  BY <1>3

LEMMA TotalOfSame ==
  ASSUME NEW S, IsFiniteSet(S), NEW w, \A x \in S : w[x] \in Nat,
         NEW v, \A x \in S : v[x] = w[x]
  PROVE  Total(v, S) = Total(w, S)
<1> DEFINE F == {s \in SUBSET S : Total(v, s) # Total(w, s)}
<1>1. \A s \in SUBSET S : /\ IsFiniteSet(s) /\ Cardinality(s) \in Nat
                          /\ \A y \in s : w[y] \in Nat /\ v[y] \in Nat /\ v[y] = w[y]
  BY FS_Subset, FS_CardinalityType
<1>2. ASSUME F # {} PROVE FALSE
  <2>1. PICK s \in F : \A t \in F : Cardinality(s) <= Cardinality(t)
    BY <1>1, <1>2, SmallestSet
  <2>2. s \in SUBSET S /\ Total(v, s) # Total(w, s)
    BY <2>1
  <2>3. IsFiniteSet(s) /\ \A y \in s : w[y] \in Nat /\ v[y] \in Nat
    BY <1>1, <2>2
  <2>4. s # {}
    BY <2>2, <2>3, TotalByPicked
  <2>5. Picked(s) \in s
    BY <2>4, PickedIs
  <2>6. Total(w, s) = w[Picked(s)] + Total(w, s \ {Picked(s)})
    BY <2>3, <2>4, TotalByPicked
  <2>7. Total(v, s) = v[Picked(s)] + Total(v, s \ {Picked(s)})
    BY <2>3, <2>4, TotalByPicked
  <2>8. Cardinality(s \ {Picked(s)}) = Cardinality(s) - 1 /\ Cardinality(s) \in Nat
    BY <1>1, <2>2, <2>5, OneLess
  <2>9. s \ {Picked(s)} \notin F
    BY <2>1, <2>8
  <2>10. QED
    BY <1>1, <2>2, <2>5, <2>6, <2>7, <2>9
<1>3. QED
  BY <1>2

LEMMA TotalOfNone == \A w : Total(w, {}) = 0
<1>1. SUFFICES ASSUME NEW w PROVE Total(w, {}) = 0
  OBVIOUS
<1>2. IsFiniteSet({})
  BY FS_EmptySet
<1>3. QED
  BY <1>2, TotalByPicked

\* Sums add up.
LEMMA TotalOfBoth ==
  ASSUME NEW S, IsFiniteSet(S), NEW u, NEW v, NEW w,
         \A x \in S : v[x] \in Nat /\ w[x] \in Nat /\ u[x] = v[x] + w[x]
  PROVE  Total(u, S) = Total(v, S) + Total(w, S)
<1> DEFINE F == {s \in SUBSET S : Total(u, s) # Total(v, s) + Total(w, s)}
<1>1. \A s \in SUBSET S :
         /\ IsFiniteSet(s) /\ Cardinality(s) \in Nat
         /\ \A x \in s : v[x] \in Nat /\ w[x] \in Nat /\ u[x] \in Nat /\ u[x] = v[x] + w[x]
  BY FS_Subset, FS_CardinalityType
<1>2. ASSUME F # {} PROVE FALSE
  <2>1. PICK s \in F : \A t \in F : Cardinality(s) <= Cardinality(t)
    BY <1>1, <1>2, SmallestSet
  <2>2. s \in SUBSET S /\ Total(u, s) # Total(v, s) + Total(w, s)
    BY <2>1
  <2>3. CASE s = {}
    BY <2>2, <2>3, TotalOfNone
  <2>4. CASE s # {}
    <3>1. PICK x \in s : TRUE
      BY <2>4
    <3>2. /\ Total(u, s) = u[x] + Total(u, s \ {x})
          /\ Total(v, s) = v[x] + Total(v, s \ {x}) /\ Total(v, s \ {x}) \in Nat
          /\ Total(w, s) = w[x] + Total(w, s \ {x}) /\ Total(w, s \ {x}) \in Nat
      <4>1. /\ IsFiniteSet(s)
            /\ \A y \in s : u[y] \in Nat
            /\ \A y \in s : v[y] \in Nat
            /\ \A y \in s : w[y] \in Nat
        BY <1>1, <2>2
      <4>2. Total(u, s) = u[x] + Total(u, s \ {x})
        BY <3>1, <4>1, TotalByElement
      <4>3. Total(v, s) = v[x] + Total(v, s \ {x}) /\ Total(v, s \ {x}) \in Nat
        BY <3>1, <4>1, TotalByElement
      <4>4. Total(w, s) = w[x] + Total(w, s \ {x}) /\ Total(w, s \ {x}) \in Nat
        BY <3>1, <4>1, TotalByElement
      <4>5. QED
        BY <4>2, <4>3, <4>4
    <3>3. Cardinality(s \ {x}) = Cardinality(s) - 1 /\ Cardinality(s) \in Nat
      BY <1>1, <2>2, <3>1, OneLess
    <3>4. s \ {x} \notin F
      BY <2>1, <3>3
    <3>5. Total(u, s \ {x}) = Total(v, s \ {x}) + Total(w, s \ {x})
      BY <2>2, <3>4
    <3>6. v[x] \in Nat /\ w[x] \in Nat /\ u[x] = v[x] + w[x]
      BY <1>1, <2>2, <3>1
    <3> HIDE DEF F
    <3>7. QED
      BY <2>2, <3>2, <3>5, <3>6
  <2>5. QED
    BY <2>3, <2>4
<1>3. QED
  BY <1>2

LEMMA TotalOfZeros ==
  ASSUME NEW S, IsFiniteSet(S), NEW w, \A x \in S : w[x] = 0
  PROVE  Total(w, S) = 0
<1>1. \A x \in S : w[x] \in Nat /\ w[x] = w[x] + w[x]
  OBVIOUS
<1>2. Total(w, S) = Total(w, S) + Total(w, S)
  BY <1>1, TotalOfBoth
<1>3. Total(w, S) \in Nat
  BY <1>1, TotalByPicked
<1>4. \A n \in Nat : n = n + n => n = 0
  OBVIOUS
<1>5. QED
  BY <1>2, <1>3, <1>4

\* A sum over an interval by its last element.
LEMMA TotalUpTo ==
  ASSUME NEW n \in Nat, NEW w, \A i \in 1..n : w[i] \in Nat, NEW k \in 1..n
  PROVE  /\ Total(w, 1..k) = Total(w, 1..(k - 1)) + w[k]
         /\ Total(w, 1..(k - 1)) \in Nat
<1>1. IsFiniteSet(1..(k - 1)) /\ k - 1 \in Nat
  BY FS_Interval
<1>2. \A i \in 1..(k - 1) : w[i] \in Nat
  OBVIOUS
<1>3. k \notin 1..(k - 1) /\ w[k] \in Nat /\ 1..k = 1..(k - 1) \cup {k}
  OBVIOUS
<1>4. QED
  BY <1>1, <1>2, <1>3, TotalOfMore

-----------------------------------------------------------------------------
(* The samples of one stream of a run that validates, and their order.       *)

StreamSamples(samples) ==
    /\ IsFiniteSet(samples) /\ samples # {}
    /\ StreamOK(samples)
    /\ \A e \in samples : /\ e.mode \in {"delta", "snapshot"}
                          /\ e.baseline \in {"zero", "start"} \/ e.mode = "delta"
                          /\ \A counter \in Counter : e.values[counter] \in Nat \cup {None}

\* A set of places that is not empty has a last one.
LEMMA LastPlace ==
  ASSUME NEW n \in Nat, NEW places, places \subseteq 1..n, places # {}
  PROVE  Max(places) \in places /\ \A i \in places : i <= Max(places)
<1> DEFINE T == {k \in 0..n : n - k \in places}
<1>1. PICK i \in places : TRUE
  OBVIOUS
<1>2. i \in 1..n /\ n - i \in 0..n /\ n - (n - i) = i
  BY <1>1
<1>3. T \subseteq Nat /\ T # {}
  <2>1. n - i \in T
    BY <1>1, <1>2
  <2>2. T \subseteq 0..n /\ 0..n \subseteq Nat
    OBVIOUS
  <2>3. QED
    BY <2>1, <2>2
<1>4. PICK m \in T : \A k \in T : m <= k
  BY <1>3, LeastNumber
<1>5. m \in 0..n /\ n - m \in places
  BY <1>4
<1>6. ASSUME NEW k \in places PROVE n - m >= k
  <2>1. k \in 1..n /\ n - k \in 0..n /\ n - (n - k) = k
    BY <1>6
  <2>2. n - k \in T
    BY <1>6, <2>1
  <2>3. m <= n - k
    BY <1>4, <2>2
  <2>4. QED
    BY <1>5, <2>1, <2>3
<1>7. \E x \in places : \A y \in places : x >= y
  BY <1>5, <1>6
<1>8. Max(places) \in places /\ \A y \in places : Max(places) >= y
  BY <1>7 DEF Max
<1>9. QED
  BY <1>8

\* The sequence numbers are 0, 1, 2...: so the samples stand in their places.
LEMMA InOrderIs ==
  ASSUME NEW samples, StreamSamples(samples)
  PROVE  LET n == Cardinality(samples)
             ordered == InOrder(samples)
         IN  /\ n \in Nat \ {0}
             /\ ordered \in [1..n -> samples]
             /\ \A i \in 1..n : ordered[i].seq = i - 1
             /\ \A e \in samples : \E i \in 1..n : ordered[i] = e
<1> DEFINE n == Cardinality(samples)
           ordered == InOrder(samples)
           Rises(o) == \A i, k \in DOMAIN o : i < k => o[i].seq < o[k].seq
<1>1. n \in Nat \ {0}
  BY FS_CardinalityType, FS_EmptySet DEF StreamSamples
<1>2. /\ {e.seq : e \in samples} = 0..(n - 1)
      /\ \A d, e \in samples : d.seq = e.seq => d = e
  BY DEF StreamSamples, StreamOK
<1> HIDE DEF n
<1>3. \E o \in [1..n -> samples] : Rises(o)
  <2> DEFINE h == [i \in 1..n |-> CHOOSE e \in samples : e.seq = i - 1]
  <2>1. \A i \in 1..n : h[i] \in samples /\ h[i].seq = i - 1
    <3>1. SUFFICES ASSUME NEW i \in 1..n
                   PROVE  \E e \in samples : e.seq = i - 1
      OBVIOUS
    <3>2. i - 1 \in 0..(n - 1)
      BY <1>1
    <3>3. QED
      BY <1>2, <3>2
  <2>2. h \in [1..n -> samples] /\ DOMAIN h = 1..n
    BY <2>1
  <2> HIDE DEF h
  <2>3. Rises(h)
    BY <1>1, <2>1, <2>2
  <2>4. QED
    BY <2>2, <2>3
<1>4. ordered \in [1..n -> samples] /\ Rises(ordered)
  BY <1>3 DEF InOrder, n
<1> HIDE DEF ordered
<1>5. \A i \in 1..n : ordered[i] \in samples /\ ordered[i].seq \in 0..(n - 1)
  BY <1>2, <1>4
<1>6. \A i, k \in 1..n : i < k => ordered[i].seq < ordered[k].seq
  BY <1>4
<1>7. \A i \in 1..n : ordered[i].seq >= i - 1
  <2> DEFINE T == {i \in 1..n : ~(ordered[i].seq >= i - 1)}
  <2>1. SUFFICES ASSUME T # {} PROVE FALSE
    OBVIOUS
  <2>2. T \subseteq Nat
    BY <1>1
  <2>3. PICK m \in T : \A k \in T : m <= k
    BY <2>1, <2>2, LeastNumber
  <2>4. m \in 1..n /\ ~(ordered[m].seq >= m - 1) /\ ordered[m].seq \in 0..(n - 1)
    BY <1>5, <2>3
  <2>5. m # 1
    BY <1>1, <2>4
  <2>6. m - 1 \in 1..n /\ ~(m <= m - 1) /\ m - 1 < m
    BY <1>1, <2>4, <2>5
  <2>7. ordered[m - 1].seq >= (m - 1) - 1 /\ ordered[m - 1].seq \in 0..(n - 1)
    BY <1>5, <2>3, <2>6
  <2>8. ordered[m - 1].seq < ordered[m].seq
    BY <1>6, <2>4, <2>6
  <2>9. QED
    BY <1>1, <2>4, <2>6, <2>7, <2>8
<1>8. \A i \in 1..n : ordered[i].seq <= i - 1
  <2> DEFINE T == {k \in 0..(n - 1) : ~(ordered[n - k].seq <= n - k - 1)}
  <2>1. ASSUME T # {} PROVE FALSE
    <3>1. T \subseteq Nat
      BY <1>1
    <3>2. PICK m \in T : \A k \in T : m <= k
      BY <2>1, <3>1, LeastNumber
    <3>3. /\ m \in 0..(n - 1) /\ n - m \in 1..n
          /\ ~(ordered[n - m].seq <= n - m - 1) /\ ordered[n - m].seq \in 0..(n - 1)
      <4>1. m \in 0..(n - 1) /\ n - m \in 1..n
        BY <1>1, <3>2
      <4>2. QED
        BY <1>5, <3>2, <4>1
    <3>4. m # 0
      BY <1>1, <3>3
    <3>5. m - 1 \in 0..(n - 1) /\ ~(m <= m - 1) /\ n - (m - 1) \in 1..n /\ n - m < n - (m - 1)
      BY <1>1, <3>3, <3>4
    <3>6. /\ ordered[n - (m - 1)].seq <= n - (m - 1) - 1
          /\ ordered[n - (m - 1)].seq \in 0..(n - 1)
      BY <1>5, <3>2, <3>5
    <3>7. ordered[n - m].seq < ordered[n - (m - 1)].seq
      BY <1>6, <3>3, <3>5
    <3> HIDE DEF T
    <3>8. QED
      BY <1>1, <3>3, <3>5, <3>6, <3>7
  <2>2. SUFFICES ASSUME NEW i \in 1..n PROVE ordered[i].seq <= i - 1
    OBVIOUS
  <2>3. n - i \in 0..(n - 1) /\ n - (n - i) = i
    BY <1>1
  <2>4. n - i \notin T
    BY <2>1
  <2>5. QED
    BY <2>3, <2>4
<1>9. \A i \in 1..n : ordered[i].seq = i - 1
  BY <1>1, <1>5, <1>7, <1>8
<1>10. ASSUME NEW e \in samples PROVE \E i \in 1..n : ordered[i] = e
  <2>1. e.seq \in 0..(n - 1)
    BY <1>2
  <2>2. e.seq + 1 \in 1..n /\ (e.seq + 1) - 1 = e.seq
    BY <1>1, <2>1
  <2>3. ordered[e.seq + 1].seq = e.seq /\ ordered[e.seq + 1] \in samples
    BY <1>5, <1>9, <2>2
  <2>4. QED
    BY <1>2, <2>2, <2>3
<1>11. QED
  BY <1>1, <1>4, <1>9, <1>10 DEF n, ordered

-----------------------------------------------------------------------------
(* What a stream contributes: nothing negative, and in all its reference.    *)

\* The contribution of each sample of a stream to a counter, by its place.
Contributions(samples, counter) ==
    [i \in 1..Cardinality(samples) |-> Contribution(InOrder(samples), i, counter)]
ValueAt(samples, i, counter) == InOrder(samples)[i].values[counter]
KnownUpTo(samples, k, counter) == {i \in 1..k : ValueAt(samples, i, counter) # None}

\* The order of a stream's samples: their mode, baseline and values, the values
\* of a snapshot counter rising and, with a baseline at its start, begun there.
LEMMA StreamIs ==
  ASSUME NEW samples, StreamSamples(samples), NEW counter \in Counter
  PROVE  LET n == Cardinality(samples)
             o == InOrder(samples)
         IN  /\ n \in Nat \ {0} /\ o \in [1..n -> samples]
             /\ \A i \in 1..n : o[i].mode = o[1].mode /\ o[i].baseline = o[1].baseline
             /\ o[1].mode \in {"delta", "snapshot"}
             /\ \A i \in 1..n : ValueAt(samples, i, counter) \in Nat \cup {None}
             /\ o[1].mode = "snapshot" =>
                   /\ o[1].baseline \in {"zero", "start"}
                   /\ \A i, k \in 1..n :
                         /\ ValueAt(samples, i, counter) # None
                         /\ ValueAt(samples, k, counter) # None
                         /\ i < k
                         => ValueAt(samples, i, counter) <= ValueAt(samples, k, counter)
                   /\ \A i \in 1..n :
                         ValueAt(samples, i, counter) # None /\ o[1].baseline = "start"
                           => ValueAt(samples, 1, counter) # None
<1> DEFINE n == Cardinality(samples)
           o == InOrder(samples)
<1>1. /\ n \in Nat \ {0} /\ o \in [1..n -> samples]
      /\ \A i \in 1..n : o[i].seq = i - 1
  BY InOrderIs
<1>2. /\ \A e \in samples : /\ e.mode \in {"delta", "snapshot"}
                            /\ e.baseline \in {"zero", "start"} \/ e.mode = "delta"
                            /\ e.values[counter] \in Nat \cup {None}
      /\ \A d, e \in samples : d.mode = e.mode /\ d.baseline = e.baseline
      /\ \A d, e \in samples :
            d.mode = "snapshot" /\ e.values[counter] # None =>
              /\ d.baseline = "start" /\ d.seq = 0 => d.values[counter] # None
              /\ d.values[counter] # None /\ d.seq < e.seq =>
                    d.values[counter] <= e.values[counter]
  BY DEF StreamSamples, StreamOK
<1>3. \A i \in 1..n : ValueAt(samples, i, counter) = o[i].values[counter]
  BY DEF ValueAt
<1> HIDE DEF n, o
<1>4. 1 \in 1..n /\ o[1].seq = 0 /\ \A i \in 1..n : o[i] \in samples
  BY <1>1
<1>5. \A i, k \in 1..n : i < k => o[i].seq < o[k].seq
  BY <1>1
<1>6. o[1].mode = "snapshot" => \A i \in 1..n : o[i].mode = "snapshot"
  BY <1>2, <1>4
<1>7. ASSUME o[1].mode = "snapshot", NEW i \in 1..n, NEW k \in 1..n,
             ValueAt(samples, i, counter) # None, ValueAt(samples, k, counter) # None, i < k
      PROVE  ValueAt(samples, i, counter) <= ValueAt(samples, k, counter)
  BY <1>2, <1>3, <1>4, <1>5, <1>6, <1>7
<1>8. ASSUME o[1].mode = "snapshot", NEW i \in 1..n,
             ValueAt(samples, i, counter) # None, o[1].baseline = "start"
      PROVE  ValueAt(samples, 1, counter) # None
  BY <1>2, <1>3, <1>4, <1>8
<1>9. /\ \A i \in 1..n : o[i].mode = o[1].mode /\ o[i].baseline = o[1].baseline
      /\ o[1].mode \in {"delta", "snapshot"}
      /\ \A i \in 1..n : ValueAt(samples, i, counter) \in Nat \cup {None}
      /\ o[1].mode = "snapshot" => o[1].baseline \in {"zero", "start"}
  BY <1>2, <1>3, <1>4
<1>10. QED
  BY <1>1, <1>7, <1>8, <1>9 DEF n, o

\* A contribution, in the terms of the values and the places before it.
LEMMA ContributionIs ==
  ASSUME NEW samples, StreamSamples(samples), NEW counter \in Counter,
         NEW i \in 1..Cardinality(samples)
  PROVE  LET value(k) == ValueAt(samples, k, counter)
             earlier == KnownUpTo(samples, i - 1, counter)
         IN  Contributions(samples, counter)[i] =
               IF value(i) = None THEN 0
               ELSE IF InOrder(samples)[1].mode = "delta" THEN value(i)
               ELSE IF earlier = {}
                    THEN IF InOrder(samples)[1].baseline = "zero" THEN value(i) ELSE 0
               ELSE value(i) - value(Max(earlier))
<1> DEFINE n == Cardinality(samples)
           o == InOrder(samples)
<1>1. n \in Nat \ {0} /\ DOMAIN o = 1..n
  BY StreamIs
<1>2. {k \in Known(o, counter) : k < i} = KnownUpTo(samples, i - 1, counter)
  <2>1. \A k : k \in 1..n /\ k < i <=> k \in 1..(i - 1)
    BY <1>1
  <2>2. QED
    BY <1>1, <2>1 DEF Known, KnownUpTo, ValueAt
<1>3. Contributions(samples, counter)[i] = Contribution(o, i, counter)
  BY DEF Contributions
<1>4. QED
  BY <1>2, <1>3 DEF Contribution, ValueAt

LEMMA ContributionsAre ==
  ASSUME NEW samples, StreamSamples(samples), NEW counter \in Counter
  PROVE  \A i \in 1..Cardinality(samples) : Contributions(samples, counter)[i] \in Nat
<1> DEFINE n == Cardinality(samples)
           o == InOrder(samples)
           value(k) == ValueAt(samples, k, counter)
<1>1. SUFFICES ASSUME NEW i \in 1..n PROVE Contributions(samples, counter)[i] \in Nat
  OBVIOUS
<1> DEFINE earlier == KnownUpTo(samples, i - 1, counter)
<1>2. Contributions(samples, counter)[i] =
        IF value(i) = None THEN 0
        ELSE IF o[1].mode = "delta" THEN value(i)
        ELSE IF earlier = {} THEN IF o[1].baseline = "zero" THEN value(i) ELSE 0
        ELSE value(i) - value(Max(earlier))
  BY ContributionIs
<1>3. /\ n \in Nat \ {0} /\ o[1].mode \in {"delta", "snapshot"}
      /\ \A k \in 1..n : value(k) \in Nat \cup {None}
      /\ o[1].mode = "snapshot" =>
            \A k, l \in 1..n : value(k) # None /\ value(l) # None /\ k < l => value(k) <= value(l)
  BY StreamIs
<1>4. earlier \subseteq 1..(i - 1) /\ i - 1 \in Nat /\ \A k \in earlier : value(k) # None
  BY <1>1, <1>3 DEF KnownUpTo
<1>5. earlier # {} => Max(earlier) \in earlier
  <2> HIDE DEF earlier
  <2>1. QED
    BY <1>4, LastPlace
<1> HIDE DEF n, o, value, earlier
<1>6. CASE value(i) = None \/ o[1].mode = "delta" \/ earlier = {}
  <2>1. value(i) \in Nat \cup {None}
    BY <1>3
  <2>2. QED
    BY <1>2, <1>6, <2>1
<1>7. CASE ~(value(i) = None \/ o[1].mode = "delta" \/ earlier = {})
  <2> DEFINE last == Max(earlier)
  <2>1. Contributions(samples, counter)[i] = value(i) - value(last)
    BY <1>2, <1>7
  <2>2. last \in 1..n /\ last < i /\ value(last) # None
    <3>1. last \in earlier
      BY <1>5, <1>7
    <3> HIDE DEF last
    <3>2. last \in 1..(i - 1) /\ value(last) # None
      BY <1>4, <3>1
    <3>3. QED
      BY <1>3, <3>2
  <2> HIDE DEF last
  <2>3. value(last) <= value(i) /\ value(last) \in Nat /\ value(i) \in Nat
    BY <1>3, <1>7, <2>2
  <2>4. QED
    BY <2>1, <2>3
<1>8. QED
  BY <1>6, <1>7

\* Deltas: the sum in order is the sum.
LEMMA DeltasAddUp ==
  ASSUME NEW samples, StreamSamples(samples), NEW counter \in Counter,
         \A e \in samples : e.mode = "delta"
  PROVE  Total(Contributions(samples, counter), 1..Cardinality(samples))
           = SumFunction([e \in samples |->
                 IF e.values[counter] = None THEN 0 ELSE e.values[counter]])
<1> DEFINE n == Cardinality(samples)
           o == InOrder(samples)
           c == Contributions(samples, counter)
           v == [e \in samples |-> IF e.values[counter] = None THEN 0 ELSE e.values[counter]]
           upTo(k) == {o[i] : i \in 1..k}
           T == {k \in 0..n : Total(c, 1..k) # Total(v, upTo(k))}
<1>1. /\ n \in Nat \ {0} /\ o \in [1..n -> samples]
      /\ \A i \in 1..n : o[i].seq = i - 1
      /\ \A e \in samples : \E i \in 1..n : o[i] = e
  BY InOrderIs
<1>2. \A i \in 1..n : c[i] \in Nat /\ c[i] = v[o[i]] /\ o[i] \in samples
  <2>1. \A i \in 1..n : c[i] \in Nat
    BY ContributionsAre
  <2>2. 1 \in 1..n /\ \A i \in 1..n : o[i] \in samples /\ o[i].mode = "delta"
    BY <1>1
  <2>3. ASSUME NEW i \in 1..n PROVE c[i] = v[o[i]]
    <3>1. o[1].mode = "delta" /\ o[i] \in samples
      BY <2>2
    <3>2. c[i] = IF ValueAt(samples, i, counter) = None THEN 0
                 ELSE ValueAt(samples, i, counter)
      BY <3>1, ContributionIs
    <3>3. QED
      BY <3>1, <3>2 DEF ValueAt
  <2>4. QED
    BY <2>1, <2>2, <2>3
<1>3. \A e \in samples : v[e] \in Nat
  BY DEF StreamSamples
<1>4. IsFiniteSet(samples)
  BY DEF StreamSamples
<1> HIDE DEF n, o, c, v
<1>5. ASSUME T # {} PROVE FALSE
  <2>1. T \subseteq Nat
    BY <1>1
  <2>2. PICK m \in T : \A k \in T : m <= k
    BY <1>5, <2>1, LeastNumber
  <2>3. m \in 0..n /\ Total(c, 1..m) # Total(v, upTo(m))
    BY <2>2
  <2>4. CASE m = 0
    <3>1. 1..m = {} /\ upTo(m) = {}
      BY <2>4
    <3>2. QED
      BY <2>3, <3>1, TotalOfNone
  <2>5. CASE m # 0
    <3>1. m \in 1..n /\ m - 1 \in 0..n /\ ~(m <= m - 1)
      BY <1>1, <2>3, <2>5
    <3>2. Total(c, 1..(m - 1)) = Total(v, upTo(m - 1))
      BY <2>2, <3>1
    <3>3. Total(c, 1..m) = Total(c, 1..(m - 1)) + c[m] /\ Total(c, 1..(m - 1)) \in Nat
      BY <1>1, <1>2, <3>1, TotalUpTo
    <3>4. upTo(m) = upTo(m - 1) \cup {o[m]}
      BY <1>1, <3>1
    <3>5. o[m] \notin upTo(m - 1)
      <4>1. \A i \in 1..(m - 1) : i \in 1..n /\ i - 1 # m - 1
        BY <1>1, <3>1
      <4>2. \A i \in 1..(m - 1) : o[i].seq # o[m].seq
        BY <1>1, <3>1, <4>1
      <4>3. QED
        BY <4>2
    <3>6. upTo(m - 1) \subseteq samples
      BY <1>1, <3>1
    <3>7. IsFiniteSet(upTo(m - 1)) /\ \A e \in upTo(m - 1) : v[e] \in Nat
      BY <1>3, <1>4, <3>6, FS_Subset
    <3> HIDE DEF upTo
    <3>8. Total(v, upTo(m)) = Total(v, upTo(m - 1)) + v[o[m]]
      BY <1>2, <1>3, <3>1, <3>4, <3>5, <3>7, TotalOfMore
    <3>9. c[m] = v[o[m]]
      BY <1>2, <3>1
    <3>10. QED
      BY <2>3, <3>2, <3>3, <3>8, <3>9
  <2>6. QED
    BY <2>4, <2>5
<1>6. n \notin T /\ n \in 0..n
  <2>1. T = {}
    BY <1>5
  <2>2. n \in 0..n
    BY <1>1
  <2> HIDE DEF T
  <2>3. QED
    BY <2>1, <2>2
<1>7. upTo(n) = samples
  BY <1>1
<1>8. Total(c, 1..n) = Total(v, samples)
  BY <1>6, <1>7
<1>9. SumFunction(v) = Total(v, samples)
  BY DEF SumFunction, Total, v
<1>10. QED
  BY <1>8, <1>9 DEF n, c, v

\* Snapshots: what each adds to the last one before it that is not null adds up
\* to the last one.
LEMMA SnapshotsAddUp ==
  ASSUME NEW samples, StreamSamples(samples), NEW counter \in Counter,
         InOrder(samples)[1].mode = "snapshot"
  PROVE  LET n == Cardinality(samples)
             known == KnownUpTo(samples, n, counter)
             start == IF InOrder(samples)[1].baseline = "zero" THEN 0
                      ELSE ValueAt(samples, 1, counter)
         IN  Total(Contributions(samples, counter), 1..n)
               = IF known = {} THEN 0 ELSE ValueAt(samples, Max(known), counter) - start
<1> DEFINE n == Cardinality(samples)
           o == InOrder(samples)
           c == Contributions(samples, counter)
           value(k) == ValueAt(samples, k, counter)
           known(k) == KnownUpTo(samples, k, counter)
           start == IF o[1].baseline = "zero" THEN 0 ELSE value(1)
           Reached(k) == IF known(k) = {} THEN 0 ELSE value(Max(known(k))) - start
           T == {k \in 0..n : Total(c, 1..k) # Reached(k)}
<1>1. /\ n \in Nat \ {0} /\ o[1].mode = "snapshot" /\ o[1].baseline \in {"zero", "start"}
      /\ \A i \in 1..n : value(i) \in Nat \cup {None}
      /\ \A i \in 1..n : value(i) # None /\ o[1].baseline = "start" => value(1) # None
  BY StreamIs
<1>2. \A i \in 1..n : c[i] \in Nat
  BY ContributionsAre
<1>3. \A i \in 1..n :
        c[i] = IF value(i) = None THEN 0
               ELSE IF known(i - 1) = {} THEN IF o[1].baseline = "zero" THEN value(i) ELSE 0
               ELSE value(i) - value(Max(known(i - 1)))
  BY <1>1, ContributionIs
<1>4. \A k : known(k) = {i \in 1..k : value(i) # None}
  BY DEF KnownUpTo
<1>5. None \notin Nat /\ "zero" # "start"
  BY ValueAssumption
<1> HIDE DEF n, o, c, value, known
<1>6. \A k \in 0..n : known(k) # {} =>
         /\ Max(known(k)) \in known(k) /\ \A i \in known(k) : i <= Max(known(k))
         /\ value(Max(known(k))) \in Nat /\ start \in Nat
  <2>1. SUFFICES ASSUME NEW k \in 0..n, known(k) # {}
                 PROVE  /\ Max(known(k)) \in known(k) /\ \A i \in known(k) : i <= Max(known(k))
                        /\ value(Max(known(k))) \in Nat /\ start \in Nat
    OBVIOUS
  <2>2. k \in Nat /\ known(k) \subseteq 1..k /\ 1..k \subseteq 1..n
    BY <1>1, <1>4
  <2>3. Max(known(k)) \in known(k) /\ \A i \in known(k) : i <= Max(known(k))
    BY <2>1, <2>2, LastPlace
  <2>4. \A i \in known(k) : i \in 1..n /\ value(i) # None
    BY <1>4, <2>2
  <2>5. value(Max(known(k))) \in Nat
    BY <1>1, <2>3, <2>4
  <2>6. start \in Nat
    <3>1. 1 \in 1..n
      BY <1>1
    <3>2. CASE o[1].baseline = "zero"
      BY <3>2
    <3>3. CASE o[1].baseline = "start"
      <4>1. value(1) # None
        BY <1>1, <2>3, <2>4, <3>3
      <4>2. QED
        BY <1>1, <1>5, <3>1, <3>3, <4>1
    <3>4. QED
      BY <1>1, <3>2, <3>3
  <2>7. QED
    BY <2>3, <2>5, <2>6
<1>7. ASSUME T # {} PROVE FALSE
  <2>1. T \subseteq Nat
    BY <1>1
  <2>2. PICK m \in T : \A k \in T : m <= k
    BY <1>7, <2>1, LeastNumber
  <2>3. m \in 0..n /\ Total(c, 1..m) # Reached(m)
    BY <2>2
  <2>4. CASE m = 0
    <3>1. 1..m = {} /\ known(m) = {}
      BY <1>4, <2>4
    <3>2. Reached(m) = 0
      BY <3>1
    <3>3. QED
      BY <2>3, <3>1, <3>2, TotalOfNone
  <2>5. CASE m # 0
    <3>1. m \in 1..n /\ m - 1 \in 0..n /\ ~(m <= m - 1)
      BY <1>1, <2>3, <2>5
    <3>2. Total(c, 1..(m - 1)) = Reached(m - 1)
      BY <2>2, <3>1
    <3>3. Total(c, 1..m) = Total(c, 1..(m - 1)) + c[m] /\ Total(c, 1..(m - 1)) \in Nat
      BY <1>1, <1>2, <3>1, TotalUpTo
    <3>4. 1..m = 1..(m - 1) \cup {m}
      BY <1>1, <3>1
    <3>5. CASE value(m) = None
      <4>1. known(m) = known(m - 1)
        BY <1>4, <3>4, <3>5
      <4>2. c[m] = 0
        BY <1>3, <3>1, <3>5
      <4>3. Reached(m) = Reached(m - 1)
        BY <4>1
      <4> HIDE DEF Reached
      <4>4. QED
        BY <2>3, <3>2, <3>3, <4>2, <4>3
    <3>6. CASE value(m) # None
      <4>1. known(m) = known(m - 1) \cup {m} /\ m \in known(m)
        BY <1>4, <3>4, <3>6
      <4>2. Max(known(m)) = m
        <5>1. Max(known(m)) \in known(m) /\ m <= Max(known(m))
          BY <1>6, <3>1, <4>1
        <5>2. Max(known(m)) \in 1..m
          BY <1>4, <5>1
        <5>3. QED
          BY <3>1, <5>1, <5>2
      <4>3. Reached(m) = value(m) - start /\ value(m) \in Nat /\ start \in Nat
        BY <1>6, <3>1, <4>1, <4>2
      <4>4. CASE known(m - 1) = {}
        <5>1. Total(c, 1..(m - 1)) = 0
          BY <3>2, <4>4
        <5>2. c[m] = IF o[1].baseline = "zero" THEN value(m) ELSE 0
          BY <1>3, <3>1, <3>6, <4>4
        <5>3. CASE o[1].baseline = "zero"
          BY <2>3, <3>3, <4>3, <5>1, <5>2, <5>3
        <5>4. CASE o[1].baseline = "start"
          <6>1. value(1) # None
            BY <1>1, <3>1, <3>6, <5>4
          <6>2. m = 1
            <7>1. 1 \notin 1..(m - 1)
              BY <1>4, <4>4, <6>1
            <7>2. QED
              BY <3>1, <7>1
          <6>3. start = value(m)
            BY <1>5, <5>4, <6>2
          <6> HIDE DEF start, Reached
          <6>4. c[m] = 0
            BY <1>5, <5>2, <5>4
          <6>5. QED
            BY <2>3, <3>3, <4>3, <5>1, <6>3, <6>4
        <5>5. QED
          BY <1>1, <5>3, <5>4
      <4>5. CASE known(m - 1) # {}
        <5> DEFINE last == value(Max(known(m - 1)))
        <5>1. last \in Nat
          BY <1>6, <3>1, <4>5
        <5>2. Total(c, 1..(m - 1)) = last - start
          BY <3>2, <4>5
        <5>3. c[m] = value(m) - last
          BY <1>3, <3>1, <3>6, <4>5
        <5> HIDE DEF last, start, Reached
        <5>4. QED
          BY <2>3, <3>3, <4>3, <5>1, <5>2, <5>3
      <4>6. QED
        BY <4>4, <4>5
    <3>7. QED
      BY <3>5, <3>6
  <2>6. QED
    BY <2>4, <2>5
<1>8. n \in 0..n /\ n \notin T
  <2>1. n \in 0..n
    BY <1>1
  <2>2. T = {}
    BY <1>7
  <2> HIDE DEF T
  <2>3. QED
    BY <2>1, <2>2
<1>9. Total(c, 1..n) = Reached(n)
  BY <1>8
<1>10. QED
  BY <1>9 DEF n, o, c, value, known

\* Of the snapshots that are not null the last is the greatest, and the first of
\* all the least.
LEMMA SnapshotsRange ==
  ASSUME NEW samples, StreamSamples(samples), NEW counter \in Counter,
         InOrder(samples)[1].mode = "snapshot"
  PROVE  LET values == {e.values[counter] : e \in samples} \ {None}
             known == KnownUpTo(samples, Cardinality(samples), counter)
         IN  /\ values = {} <=> known = {}
             /\ known # {} => /\ Max(values) = ValueAt(samples, Max(known), counter)
                              /\ Max(values) \in Nat
             /\ known # {} /\ InOrder(samples)[1].baseline = "start" =>
                   Min(values) = ValueAt(samples, 1, counter)
<1> DEFINE n == Cardinality(samples)
           o == InOrder(samples)
           value(k) == ValueAt(samples, k, counter)
           values == {e.values[counter] : e \in samples} \ {None}
           known == KnownUpTo(samples, n, counter)
<1>1. /\ n \in Nat \ {0} /\ o \in [1..n -> samples]
      /\ \A e \in samples : \E i \in 1..n : o[i] = e
  BY InOrderIs
<1>2. /\ \A i \in 1..n : value(i) \in Nat \cup {None}
      /\ \A i, k \in 1..n : value(i) # None /\ value(k) # None /\ i < k => value(i) <= value(k)
      /\ \A i \in 1..n : value(i) # None /\ o[1].baseline = "start" => value(1) # None
  BY StreamIs
<1>3. \A i \in 1..n : value(i) = o[i].values[counter] /\ o[i] \in samples
  BY <1>1 DEF ValueAt
<1>4. known = {i \in 1..n : value(i) # None}
  BY DEF KnownUpTo
<1> HIDE DEF n, o, value, known
<1>5. values = {value(i) : i \in known}
  <2>1. ASSUME NEW x \in values PROVE \E i \in known : value(i) = x
    <3>1. PICK e \in samples : x = e.values[counter] /\ x # None
      OBVIOUS
    <3>2. PICK i \in 1..n : o[i] = e
      BY <1>1
    <3>3. QED
      BY <1>3, <1>4, <3>1, <3>2
  <2>2. ASSUME NEW i \in known PROVE value(i) \in values
    BY <1>3, <1>4, <2>2
  <2>3. QED
    BY <2>1, <2>2
<1> HIDE DEF values
<1>6. values = {} <=> known = {}
  BY <1>5
<1>7. values \subseteq Nat /\ known \subseteq 1..n
  BY <1>2, <1>4, <1>5
<1>8. \A i, k \in known : i <= k => value(i) <= value(k)
  <2>1. SUFFICES ASSUME NEW i \in known, NEW k \in known, i <= k PROVE value(i) <= value(k)
    OBVIOUS
  <2>2. i \in 1..n /\ k \in 1..n /\ value(i) # None /\ value(k) # None
    BY <1>4
  <2>3. i < k \/ i = k
    BY <1>1, <2>1, <2>2
  <2>4. value(i) \in Nat
    BY <1>2, <2>2
  <2>5. QED
    BY <1>2, <2>2, <2>3, <2>4
<1>9. ASSUME known # {}
      PROVE  Max(values) = value(Max(known)) /\ Max(values) \in Nat
  <2> DEFINE last == Max(known)
  <2>1. last \in known /\ \A i \in known : i <= last
    BY <1>1, <1>7, <1>9, LastPlace
  <2> HIDE DEF last
  <2>2. value(last) \in values /\ \A x \in values : x <= value(last)
    BY <1>5, <1>8, <2>1
  <2>3. \E x \in values : \A y \in values : x >= y
    BY <1>7, <2>2
  <2>4. Max(values) \in values /\ \A y \in values : Max(values) >= y
    BY <2>3 DEF Max
  <2>5. /\ Max(values) \in Nat /\ value(last) \in Nat
        /\ Max(values) >= value(last) /\ Max(values) <= value(last)
    BY <1>7, <2>2, <2>4
  <2>6. QED
    BY <2>5 DEF last
<1>10. ASSUME known # {}, o[1].baseline = "start" PROVE Min(values) = value(1)
  <2>1. 1 \in known
    <3>1. \A i \in known : i \in 1..n /\ value(i) # None
      BY <1>4
    <3>2. value(1) # None /\ 1 \in 1..n
      BY <1>1, <1>2, <1>10, <3>1
    <3>3. QED
      BY <1>4, <3>2
  <2>2. \A i \in known : 1 <= i
    BY <1>1, <1>7
  <2>3. value(1) \in values /\ \A x \in values : value(1) <= x
    BY <1>5, <1>8, <2>1, <2>2
  <2>4. \E x \in values : \A y \in values : x <= y
    BY <2>3
  <2>5. Min(values) \in values /\ \A y \in values : Min(values) <= y
    BY <2>4 DEF Min
  <2>6. /\ Min(values) \in Nat /\ value(1) \in Nat
        /\ Min(values) >= value(1) /\ Min(values) <= value(1)
    BY <1>7, <2>3, <2>5
  <2>7. QED
    BY <2>6
<1>11. QED
  BY <1>6, <1>9, <1>10 DEF n, o, value, values, known

LEMMA StreamAddsUp ==
  ASSUME NEW samples, StreamSamples(samples), NEW counter \in Counter
  PROVE  Total(Contributions(samples, counter), 1..Cardinality(samples))
           = ReferenceOfStream(samples, counter)
<1> DEFINE sample == CHOOSE e \in samples : TRUE
           n == Cardinality(samples)
           o == InOrder(samples)
           values == {e.values[counter] : e \in samples} \ {None}
           known == KnownUpTo(samples, n, counter)
           total == Total(Contributions(samples, counter), 1..n)
           last == ValueAt(samples, Max(known), counter)
<1>1. sample \in samples
  BY DEF StreamSamples
<1> HIDE DEF sample
<1>2. \A d \in samples : d.mode = sample.mode /\ d.baseline = sample.baseline
  BY <1>1 DEF StreamSamples, StreamOK
<1>3. sample.mode \in {"delta", "snapshot"}
  BY <1>1 DEF StreamSamples
<1>4. n \in Nat \ {0} /\ o \in [1..n -> samples]
  BY InOrderIs
<1>5. o[1] \in samples
  <2> HIDE DEF n, o
  <2>1. QED
    BY <1>4
<1>6. o[1].mode = sample.mode /\ o[1].baseline = sample.baseline
  BY <1>2, <1>5
<1>7. ReferenceOfStream(samples, counter) =
        IF sample.mode = "delta"
        THEN SumFunction([e \in samples |->
                 IF e.values[counter] = None THEN 0 ELSE e.values[counter]])
        ELSE IF values = {} THEN 0
        ELSE IF sample.baseline = "zero" THEN Max(values)
        ELSE Max(values) - Min(values)
  BY DEF ReferenceOfStream, sample
<1>8. CASE sample.mode = "delta"
  <2>1. total = SumFunction([e \in samples |->
                    IF e.values[counter] = None THEN 0 ELSE e.values[counter]])
    BY <1>2, <1>8, DeltasAddUp
  <2>2. QED
    BY <1>7, <1>8, <2>1
<1>9. CASE sample.mode = "snapshot"
  <2> DEFINE start == IF o[1].baseline = "zero" THEN 0 ELSE ValueAt(samples, 1, counter)
  <2>1. total = IF known = {} THEN 0 ELSE last - start
    BY <1>6, <1>9, SnapshotsAddUp
  <2>2. /\ values = {} <=> known = {}
        /\ known # {} => Max(values) = last /\ Max(values) \in Nat
        /\ known # {} /\ o[1].baseline = "start" => Min(values) = ValueAt(samples, 1, counter)
    BY <1>6, <1>9, SnapshotsRange
  <2>3. o[1].baseline \in {"zero", "start"}
    BY <1>6, <1>9, StreamIs
  <2> HIDE DEF total, values, known, last, o
  <2>4. ReferenceOfStream(samples, counter) =
          IF values = {} THEN 0
          ELSE IF sample.baseline = "zero" THEN Max(values)
          ELSE Max(values) - Min(values)
    BY <1>7, <1>9
  <2>5. CASE known = {}
    BY <2>1, <2>2, <2>4, <2>5 DEF total
  <2>6. CASE known # {} /\ o[1].baseline = "zero"
    <3>1. total = last - 0 /\ Max(values) = last /\ last \in Nat
      BY <2>1, <2>2, <2>6
    <3>2. total = Max(values)
      BY <3>1
    <3>3. QED
      BY <1>6, <2>2, <2>4, <2>6, <3>2 DEF total
  <2>7. CASE known # {} /\ o[1].baseline = "start"
    <3>1. o[1].baseline # "zero"
      BY <2>7
    <3>2. total = Max(values) - Min(values)
      BY <2>1, <2>2, <2>7, <3>1
    <3>3. QED
      BY <1>6, <2>2, <2>4, <2>7, <3>1, <3>2 DEF total
  <2>8. QED
    BY <2>3, <2>5, <2>6, <2>7
<1>10. QED
  BY <1>3, <1>8, <1>9

-----------------------------------------------------------------------------
(* What a set of tools is counted for.                                       *)

Share(samples, tools, counter) ==
    LET ordered == InOrder(samples)
    IN  [i \in DOMAIN ordered |->
            IF ordered[i].tool \in tools THEN Contribution(ordered, i, counter) ELSE 0]

LEMMA ShareIs ==
  ASSUME NEW samples, StreamSamples(samples), NEW counter \in Counter, NEW tools
  PROVE  LET n == Cardinality(samples)
         IN  /\ IsFiniteSet(1..n) /\ 1..n # {}
             /\ CountedInStream(samples, tools, counter) = Total(Share(samples, tools, counter), 1..n)
             /\ \A i \in 1..n :
                   /\ Share(samples, tools, counter)[i] \in Nat
                   /\ Share(samples, tools, counter)[i] =
                        IF InOrder(samples)[i].tool \in tools
                        THEN Contributions(samples, counter)[i] ELSE 0
                   /\ InOrder(samples)[i] \in samples
                   /\ Contributions(samples, counter)[i] \in Nat
<1> DEFINE n == Cardinality(samples)
           o == InOrder(samples)
<1>1. n \in Nat \ {0} /\ o \in [1..n -> samples] /\ DOMAIN o = 1..n
  BY InOrderIs
<1>2. \A i \in 1..n : Contributions(samples, counter)[i] \in Nat
  BY ContributionsAre
<1>3. \A i \in 1..n : Contributions(samples, counter)[i] = Contribution(o, i, counter)
  BY DEF Contributions
<1> HIDE DEF n
<1>4. IsFiniteSet(1..n) /\ 1..n # {}
  <2>1. n \in Int /\ 1 \in 1..n
    BY <1>1
  <2>2. IsFiniteSet(1..n)
    BY <2>1, FS_Interval
  <2>3. QED
    BY <2>1, <2>2
<1>5. DOMAIN Share(samples, tools, counter) = 1..n
  BY <1>1 DEF Share
<1>6. CountedInStream(samples, tools, counter) = SumFunction(Share(samples, tools, counter))
  BY DEF CountedInStream, Share
<1>7. CountedInStream(samples, tools, counter) = Total(Share(samples, tools, counter), 1..n)
  BY <1>5, <1>6 DEF SumFunction, Total
<1>8. \A i \in 1..n :
         Share(samples, tools, counter)[i] =
           IF InOrder(samples)[i].tool \in tools THEN Contributions(samples, counter)[i] ELSE 0
  BY <1>1, <1>3 DEF Share
<1>9. QED
  BY <1>1, <1>2, <1>4, <1>7, <1>8 DEF n

\* All tools are counted for everything.
LEMMA StreamOfAllTools ==
  ASSUME NEW samples, StreamSamples(samples), NEW counter \in Counter,
         NEW tools, \A e \in samples : e.tool \in tools
  PROVE  CountedInStream(samples, tools, counter) = ReferenceOfStream(samples, counter)
<1> DEFINE n == Cardinality(samples)
<1>1. /\ IsFiniteSet(1..n)
      /\ CountedInStream(samples, tools, counter) = Total(Share(samples, tools, counter), 1..n)
      /\ \A i \in 1..n : /\ Share(samples, tools, counter)[i] = Contributions(samples, counter)[i]
                         /\ Contributions(samples, counter)[i] \in Nat
  BY ShareIs
<1>2. Total(Share(samples, tools, counter), 1..n) = Total(Contributions(samples, counter), 1..n)
  <2> HIDE DEF n
  <2>1. QED
    BY <1>1, TotalOfSame
<1>3. QED
  BY <1>1, <1>2, StreamAddsUp

\* No tools are counted for nothing, and one more for what it did.
LEMMA StreamOfTools ==
  ASSUME NEW samples, StreamSamples(samples), NEW counter \in Counter
  PROVE  /\ CountedInStream(samples, {}, counter) = 0
         /\ \A tools : CountedInStream(samples, tools, counter) \in Nat
         /\ \A tools, tool : tool \notin tools =>
               CountedInStream(samples, tools \cup {tool}, counter)
                 = CountedInStream(samples, tools, counter) + CountedInStream(samples, {tool}, counter)
<1> DEFINE n == Cardinality(samples)
<1>1. IsFiniteSet(1..n)
  BY ShareIs
<1>2. CountedInStream(samples, {}, counter) = 0
  <2>1. /\ CountedInStream(samples, {}, counter) = Total(Share(samples, {}, counter), 1..n)
        /\ \A i \in 1..n : Share(samples, {}, counter)[i] = 0
    BY ShareIs
  <2> HIDE DEF n
  <2>2. QED
    BY <1>1, <2>1, TotalOfZeros
<1>3. ASSUME NEW tools PROVE CountedInStream(samples, tools, counter) \in Nat
  <2>1. /\ CountedInStream(samples, tools, counter) = Total(Share(samples, tools, counter), 1..n)
        /\ \A i \in 1..n : Share(samples, tools, counter)[i] \in Nat
    BY ShareIs
  <2> HIDE DEF n
  <2>2. QED
    BY <1>1, <2>1, TotalByPicked
<1>4. ASSUME NEW tools, NEW tool, tool \notin tools
      PROVE  CountedInStream(samples, tools \cup {tool}, counter)
               = CountedInStream(samples, tools, counter) + CountedInStream(samples, {tool}, counter)
  <2> DEFINE u == Share(samples, tools \cup {tool}, counter)
             v == Share(samples, tools, counter)
             w == Share(samples, {tool}, counter)
             of(i) == InOrder(samples)[i].tool
             c == Contributions(samples, counter)
             places == 1..n
  <2>1. /\ CountedInStream(samples, tools \cup {tool}, counter) = Total(u, places)
        /\ \A i \in places : u[i] = IF of(i) \in tools \cup {tool} THEN c[i] ELSE 0
    BY ShareIs
  <2>2. /\ CountedInStream(samples, tools, counter) = Total(v, places)
        /\ \A i \in places : v[i] = IF of(i) \in tools THEN c[i] ELSE 0
    BY ShareIs
  <2>3. /\ CountedInStream(samples, {tool}, counter) = Total(w, places)
        /\ \A i \in places : w[i] = IF of(i) \in {tool} THEN c[i] ELSE 0
    BY ShareIs
  <2>4. \A i \in places : c[i] \in Nat
    BY ShareIs
  <2>5. IsFiniteSet(places)
    BY <1>1
  <2> HIDE DEF u, v, w, of, c, places
  <2>6. \A i \in places : v[i] \in Nat /\ w[i] \in Nat /\ u[i] = v[i] + w[i]
    <3>1. SUFFICES ASSUME NEW i \in places
                   PROVE  v[i] \in Nat /\ w[i] \in Nat /\ u[i] = v[i] + w[i]
      OBVIOUS
    <3>2. c[i] \in Nat
      BY <2>4
    <3>3. CASE of(i) \in tools
      <4>1. v[i] = c[i] /\ w[i] = 0 /\ u[i] = c[i]
        BY <1>4, <2>1, <2>2, <2>3, <3>3
      <4>2. QED
        BY <3>2, <4>1
    <3>4. CASE of(i) = tool
      <4>1. v[i] = 0 /\ w[i] = c[i] /\ u[i] = c[i]
        BY <1>4, <2>1, <2>2, <2>3, <3>4
      <4>2. QED
        BY <3>2, <4>1
    <3>5. CASE of(i) \notin tools /\ of(i) # tool
      <4>1. v[i] = 0 /\ w[i] = 0 /\ u[i] = 0
        BY <2>1, <2>2, <2>3, <3>5
      <4>2. QED
        BY <4>1
    <3>6. QED
      BY <3>3, <3>4, <3>5
  <2>7. Total(u, places) = Total(v, places) + Total(w, places)
    BY <2>5, <2>6, TotalOfBoth
  <2>8. QED
    BY <2>1, <2>2, <2>3, <2>7
<1>5. QED
  BY <1>2, <1>3, <1>4

-----------------------------------------------------------------------------
(* The totals of a run that validates.                                       *)

\* What a run's streams are, in a ledger of valid events.
LEMMA StreamsAre ==
  ASSUME NEW events \in SUBSET Event, IsFiniteSet(events), NEW run,
         ValidRun(events, run, TRUE)
  PROVE  LET selected == OfRun(events, run)
         IN  /\ IsFiniteSet(StreamsOf(selected))
             /\ \A stream \in StreamsOf(selected) :
                   /\ StreamSamples(OfStream(selected, stream))
                   /\ OfStream(selected, stream) \subseteq events
<1> DEFINE selected == OfRun(events, run)
           streams == StreamsOf(selected)
           measured == Measured(selected)
<1>1. selected \subseteq events /\ measured \subseteq selected
  BY DEF OfRun, Measured
<1>2. IsFiniteSet(measured)
  BY <1>1, FS_Subset
<1>3. IsFiniteSet(streams)
  <2> DEFINE f == [e \in measured |-> e.stream]
  <2>1. f \in Surjection(measured, streams)
    BY DEF StreamsOf, Surjection
  <2> HIDE DEF f, streams, measured
  <2>2. QED
    BY <1>2, <2>1, FS_Surjection
<1>4. ASSUME NEW stream \in streams
      PROVE  /\ StreamSamples(OfStream(selected, stream))
             /\ OfStream(selected, stream) \subseteq events
  <2> DEFINE samples == OfStream(selected, stream)
  <2>1. samples \subseteq measured
    BY DEF OfStream
  <2>2. samples # {}
    BY DEF StreamsOf, OfStream
  <2>3. StreamOK(samples)
    BY DEF ValidRun
  <2>4. \A e \in samples :
           /\ e.mode \in {"delta", "snapshot"}
           /\ e.baseline \in {"zero", "start"} \/ e.mode = "delta"
           /\ \A counter \in Counter : e.values[counter] \in Nat \cup {None}
    <3>1. SUFFICES ASSUME NEW e \in samples
                   PROVE  /\ e.mode \in {"delta", "snapshot"}
                          /\ e.baseline \in {"zero", "start"} \/ e.mode = "delta"
                          /\ \A counter \in Counter : e.values[counter] \in Nat \cup {None}
      OBVIOUS
    <3>2. e \in Event /\ e.version = 2 /\ e.stream # None
      BY <1>1, <2>1 DEF Measured
    <3>3. ValidEvent(e) /\ e \in ToSet(Legacy) \cup UNION {ToSet(input) : input \in Batch}
      BY <3>2 DEF Event
    <3>4. /\ e.mode \in {"delta", "snapshot"}
          /\ e.baseline \in {"zero", "start"} \/ e.mode = "delta"
      BY <3>2, <3>3 DEF ValidEvent
    <3>5. e.values \in [Field -> Nat \cup {None}]
      BY <3>3, ValueAssumption
    <3>6. \A counter \in Counter : e.values[counter] \in Nat \cup {None}
      BY <3>5 DEF Field
    <3>7. QED
      BY <3>4, <3>6
  <2>5. IsFiniteSet(samples)
    BY <1>2, <2>1, FS_Subset
  <2>6. QED
    BY <1>1, <2>1, <2>2, <2>3, <2>4, <2>5 DEF StreamSamples
<1>5. QED
  BY <1>3, <1>4

\* What each stream of a run counts for some tools.
OfStreams(events, run, tools, counter) ==
    [stream \in StreamsOf(OfRun(events, run)) |->
        CountedInStream(OfStream(OfRun(events, run), stream), tools, counter)]

LEMMA CountedForIs ==
  \A events, run, tools, counter :
     /\ CountedFor(events, run, tools, counter)
          = Total(OfStreams(events, run, tools, counter), StreamsOf(OfRun(events, run)))
     /\ \A stream \in StreamsOf(OfRun(events, run)) :
           OfStreams(events, run, tools, counter)[stream]
             = CountedInStream(OfStream(OfRun(events, run), stream), tools, counter)
<1>1. SUFFICES ASSUME NEW events, NEW run, NEW tools, NEW counter
      PROVE  /\ CountedFor(events, run, tools, counter)
                  = Total(OfStreams(events, run, tools, counter), StreamsOf(OfRun(events, run)))
             /\ \A stream \in StreamsOf(OfRun(events, run)) :
                   OfStreams(events, run, tools, counter)[stream]
                     = CountedInStream(OfStream(OfRun(events, run), stream), tools, counter)
  OBVIOUS
<1>2. CountedFor(events, run, tools, counter) = SumFunction(OfStreams(events, run, tools, counter))
  BY DEF CountedFor, OfStreams
<1>3. DOMAIN OfStreams(events, run, tools, counter) = StreamsOf(OfRun(events, run))
  BY DEF OfStreams
<1>4. QED
  BY <1>2, <1>3 DEF SumFunction, Total, OfStreams

\* All tools together are counted for what the streams measured.
LEMMA RunOfAllTools ==
  ASSUME NEW events \in SUBSET Event, IsFiniteSet(events), NEW run,
         ValidRun(events, run, TRUE), NEW counter \in Counter,
         NEW tools, \A e \in events : e.tool \in tools
  PROVE  CountedFor(events, run, tools, counter) = Reference(events, run, counter)
<1> DEFINE selected == OfRun(events, run)
<1>1. \A stream \in StreamsOf(selected) :
         CountedInStream(OfStream(selected, stream), tools, counter)
           = ReferenceOfStream(OfStream(selected, stream), counter)
  <2>1. SUFFICES ASSUME NEW stream \in StreamsOf(selected)
                 PROVE  CountedInStream(OfStream(selected, stream), tools, counter)
                          = ReferenceOfStream(OfStream(selected, stream), counter)
    OBVIOUS
  <2>2. StreamSamples(OfStream(selected, stream)) /\ OfStream(selected, stream) \subseteq events
    BY StreamsAre
  <2> HIDE DEF selected
  <2>3. QED
    BY <2>2, StreamOfAllTools
<1>2. [stream \in StreamsOf(selected) |-> CountedInStream(OfStream(selected, stream), tools, counter)]
        = [stream \in StreamsOf(selected) |-> ReferenceOfStream(OfStream(selected, stream), counter)]
  BY <1>1
<1>3. QED
  BY <1>2 DEF CountedFor, Reference

\* One tool more is counted for what it did besides.
LEMMA RunOfTools ==
  ASSUME NEW events \in SUBSET Event, IsFiniteSet(events), NEW run,
         ValidRun(events, run, TRUE), NEW counter \in Counter
  PROVE  /\ CountedFor(events, run, {}, counter) = 0
         /\ \A tools : CountedFor(events, run, tools, counter) \in Nat
         /\ \A tools, tool : tool \notin tools =>
               CountedFor(events, run, tools \cup {tool}, counter)
                 = CountedFor(events, run, tools, counter) + CountedFor(events, run, {tool}, counter)
<1> DEFINE selected == OfRun(events, run)
           streams == StreamsOf(selected)
           of(stream) == OfStream(selected, stream)
<1>1. IsFiniteSet(streams) /\ \A stream \in streams : StreamSamples(of(stream))
  BY StreamsAre
<1>2. \A tools : /\ CountedFor(events, run, tools, counter) = Total(OfStreams(events, run, tools, counter), streams)
                 /\ \A stream \in streams : OfStreams(events, run, tools, counter)[stream]
                                              = CountedInStream(of(stream), tools, counter)
  BY CountedForIs
<1> HIDE DEF streams, of, selected
<1>3. \A stream \in streams : \A tools : CountedInStream(of(stream), tools, counter) \in Nat
  BY <1>1, StreamOfTools
<1>4. CountedFor(events, run, {}, counter) = 0
  <2>1. \A stream \in streams : OfStreams(events, run, {}, counter)[stream] = 0
    BY <1>1, <1>2, StreamOfTools
  <2>2. QED
    BY <1>1, <1>2, <2>1, TotalOfZeros
<1>5. ASSUME NEW tools PROVE CountedFor(events, run, tools, counter) \in Nat
  <2>1. \A stream \in streams : OfStreams(events, run, tools, counter)[stream] \in Nat
    BY <1>2, <1>3
  <2>2. QED
    BY <1>1, <1>2, <2>1, TotalByPicked
<1>6. ASSUME NEW tools, NEW tool, tool \notin tools
      PROVE  CountedFor(events, run, tools \cup {tool}, counter)
               = CountedFor(events, run, tools, counter) + CountedFor(events, run, {tool}, counter)
  <2> DEFINE u == OfStreams(events, run, tools \cup {tool}, counter)
             v == OfStreams(events, run, tools, counter)
             w == OfStreams(events, run, {tool}, counter)
  <2>1. \A stream \in streams :
           /\ v[stream] = CountedInStream(of(stream), tools, counter)
           /\ w[stream] = CountedInStream(of(stream), {tool}, counter)
           /\ u[stream] = CountedInStream(of(stream), tools \cup {tool}, counter)
    BY <1>2
  <2>2. \A stream \in streams :
           CountedInStream(of(stream), tools \cup {tool}, counter)
             = CountedInStream(of(stream), tools, counter) + CountedInStream(of(stream), {tool}, counter)
    BY <1>1, <1>6, StreamOfTools
  <2>3. /\ CountedFor(events, run, tools \cup {tool}, counter) = Total(u, streams)
        /\ CountedFor(events, run, tools, counter) = Total(v, streams)
        /\ CountedFor(events, run, {tool}, counter) = Total(w, streams)
    BY <1>2
  <2> HIDE DEF u, v, w
  <2>4. \A stream \in streams :
           v[stream] \in Nat /\ w[stream] \in Nat /\ u[stream] = v[stream] + w[stream]
    BY <1>3, <2>1, <2>2
  <2>5. Total(u, streams) = Total(v, streams) + Total(w, streams)
    BY <1>1, <2>4, TotalOfBoth
  <2>6. QED
    BY <2>3, <2>5
<1>7. QED
  BY <1>4, <1>5, <1>6

\* The tools' shares add up.
LEMMA SharesAddUp ==
  ASSUME NEW events \in SUBSET Event, IsFiniteSet(events), NEW run,
         ValidRun(events, run, TRUE), NEW counter \in Counter,
         NEW tools, IsFiniteSet(tools)
  PROVE  SumFunction([tool \in tools |-> CountedFor(events, run, {tool}, counter)])
           = CountedFor(events, run, tools, counter)
<1> DEFINE w == [tool \in tools |-> CountedFor(events, run, {tool}, counter)]
           counted(s) == CountedFor(events, run, s, counter)
           F == {s \in SUBSET tools : Total(w, s) # counted(s)}
<1>1. /\ counted({}) = 0
      /\ \A s : counted(s) \in Nat
      /\ \A s, tool : tool \notin s => counted(s \cup {tool}) = counted(s) + counted({tool})
  BY RunOfTools
<1>2. \A tool \in tools : w[tool] = counted({tool}) /\ w[tool] \in Nat
  BY <1>1
<1>3. SumFunction(w) = Total(w, tools)
  BY DEF SumFunction, Total
<1>4. \A s \in SUBSET tools : IsFiniteSet(s)
  BY FS_Subset
<1> HIDE DEF w, counted
<1>5. ASSUME F # {} PROVE FALSE
  <2>1. PICK s \in F : \A t \in F : Cardinality(s) <= Cardinality(t)
    BY <1>4, <1>5, SmallestSet
  <2>2. s \in SUBSET tools /\ Total(w, s) # counted(s)
    BY <2>1
  <2>3. PICK tool \in s : TRUE
    BY <1>1, <2>2, TotalOfNone
  <2>4. Cardinality(s \ {tool}) = Cardinality(s) - 1 /\ Cardinality(s) \in Nat
    BY <1>4, <2>2, <2>3, OneLess
  <2>5. s \ {tool} \notin F
    BY <2>1, <2>4
  <2>6. Total(w, s \ {tool}) = counted(s \ {tool})
    BY <2>2, <2>5
  <2>7. \A x \in s : w[x] \in Nat
    BY <1>2, <2>2
  <2>8. Total(w, s) = w[tool] + Total(w, s \ {tool})
    BY <1>4, <2>2, <2>3, <2>7, TotalByElement
  <2>9. (s \ {tool}) \cup {tool} = s /\ tool \notin s \ {tool}
    BY <2>3
  <2>10. counted(s) = counted(s \ {tool}) + counted({tool})
    BY <1>1, <2>9
  <2>11. /\ w[tool] = counted({tool})
         /\ counted({tool}) \in Nat /\ counted(s \ {tool}) \in Nat
    BY <1>1, <1>2, <2>2, <2>3
  <2>12. QED
    BY <2>2, <2>6, <2>8, <2>10, <2>11
<1>6. Total(w, tools) = counted(tools)
  BY <1>5
<1>7. QED
  BY <1>3, <1>6 DEF w, counted

-----------------------------------------------------------------------------
(* The ledger holds finitely many events at any time.                        *)

HoldsFinitely == IsFiniteSet(EventsOf(file))

LEMMA FinitelyAtFirst == Init => HoldsFinitely
<1> SUFFICES ASSUME Init PROVE IsFiniteSet(EventsOf(file))
  BY DEF HoldsFinitely
<1> DEFINE len == Len(Legacy)
           f == [i \in 1..len |-> Legacy[i]]
<1>1. len \in Nat /\ DOMAIN Legacy = 1..len
  BY LegacyAssumption
<1>2. DOMAIN file = 1..len /\ \A i \in 1..len : file[i].events = {Legacy[i]}
  BY <1>1 DEF Init, Line
<1>3. EventsOf(file) = {Legacy[i] : i \in 1..len}
  BY <1>2 DEF EventsOf
<1>4. f \in Surjection(1..len, {Legacy[i] : i \in 1..len})
  BY DEF Surjection
<1>5. IsFiniteSet(1..len)
  BY <1>1, FS_Interval
<1> HIDE DEF f
<1>6. IsFiniteSet({Legacy[i] : i \in 1..len})
  BY <1>4, <1>5, FS_Surjection
<1>7. QED
  BY <1>3, <1>6

\* A step adds one event at most.
LEMMA OneMoreAtMost ==
  ASSUME LedgerType, [Next]_vars
  PROVE  EventsOf(file') = EventsOf(file) \/ \E e \in Event : EventsOf(file') = EventsOf(file) \cup {e}
<1>1. ASSUME NEW p \in Agent, pending[p] # <<>>, NEW form \in {"whole", "torn", "unterminated"},
             file' = AppendLine(file, Line(pending[p][1], form))
      PROVE  \E e \in Event : EventsOf(file') = EventsOf(file) \cup {e}
  <2>1. pending[p][1] \in Event
    BY <1>1, FirstIs DEF LedgerType
  <2>2. file \in Seq(LineRecord)
    BY DEF LedgerType
  <2>3. EventsOf(file') = EventsOf(file) \cup {pending[p][1]}
    BY <1>1, <2>1, <2>2, AppendIs
  <2>4. QED
    BY <2>1, <2>3
<1>2. ASSUME NEW p \in Agent,
             file' \in Partial(p) \cup
               (IF pending[p] = <<>> THEN {} ELSE {AppendLine(file, Line(pending[p][1], "whole"))}),
             file' # file
      PROVE  \E e \in Event : EventsOf(file') = EventsOf(file) \cup {e}
  <2>1. pending[p] # <<>>
    BY <1>2 DEF Partial
  <2>2. PICK form \in {"whole", "torn", "unterminated"} :
            file' = AppendLine(file, Line(pending[p][1], form))
    BY <1>2, <2>1 DEF Partial
  <2>3. QED
    BY <1>1, <2>1, <2>2
<1>3. ASSUME NEW p \in Agent, NEW input \in Batch, Parse(p, input) PROVE file' = file
  BY <1>3 DEF Parse
<1>4. ASSUME NEW p \in Agent, Lock(p) \/ Judge(p) \/ Finish(p) PROVE file' = file
  BY <1>4 DEF Lock, Judge, Finish
<1>5. ASSUME NEW p \in Agent, WriteLine(p)
      PROVE  \E e \in Event : EventsOf(file') = EventsOf(file) \cup {e}
  BY <1>1, <1>5 DEF WriteLine
<1>6. ASSUME NEW p \in Agent, WriteFails(p) \/ Close(p) \/ Kill(p), file' # file
      PROVE  \E e \in Event : EventsOf(file') = EventsOf(file) \cup {e}
  BY <1>2, <1>6 DEF WriteFails, Close, Kill
<1>7. CASE UNCHANGED vars
  BY <1>7 DEF vars
<1>8. QED
  BY <1>3, <1>4, <1>5, <1>6, <1>7 DEF Next, Step

LEMMA AlwaysFinitely == Spec => []HoldsFinitely
<1>1. LedgerType /\ HoldsFinitely /\ [Next]_vars => HoldsFinitely'
  <2>1. SUFFICES ASSUME LedgerType, IsFiniteSet(EventsOf(file)), [Next]_vars
                 PROVE  IsFiniteSet(EventsOf(file'))
    BY DEF HoldsFinitely, EventsOf
  <2>2. QED
    BY <2>1, OneMoreAtMost, FS_AddElement
<1>2. LedgerInv => LedgerType
  BY DEF LedgerInv
<1>3. QED
  BY <1>1, <1>2, FinitelyAtFirst, LedgerInvHolds, PTL DEF Spec

\* summarize_run, on whatever the ledger holds: in a run that validates as a
\* closed one, the deltas and the differences of snapshots add up to what each
\* counter went through, whichever values are null, and the tools' shares to that
\* but for what the samples without a tool added; for any batches and in whatever
\* order the samples came.
THEOREM TotalsAreSound == Spec => []TotalsAreWhatWasMeasured
<1>1. LedgerInv /\ HoldsFinitely => TotalsAreWhatWasMeasured
  <2> DEFINE events == EventsOf(file)
             named == {e.tool : e \in events}
             tools == named \ {None}
  <2>1. SUFFICES ASSUME LedgerInv, HoldsFinitely, NEW run, NEW counter \in Counter,
                        ValidRun(events, run, TRUE)
                 PROVE  /\ CountedFor(events, run, tools \cup {None}, counter)
                             = Reference(events, run, counter)
                        /\ SumFunction([tool \in tools |-> CountedFor(events, run, {tool}, counter)])
                             + CountedFor(events, run, {None}, counter)
                             = CountedFor(events, run, tools \cup {None}, counter)
    BY DEF TotalsAreWhatWasMeasured
  <2>2. IsFiniteSet(events)
    BY <2>1 DEF HoldsFinitely
  <2>3. events \in SUBSET Event
    <3>1. file \in Seq(LineRecord)
      BY <2>1 DEF LedgerInv, LedgerType
    <3>2. \A i \in DOMAIN file : file[i] \in LineRecord
      BY <3>1
    <3>3. \A i \in DOMAIN file : file[i].events \subseteq Event
      BY <3>2 DEF LineRecord
    <3>4. QED
      BY <3>3 DEF EventsOf
  <2>4. IsFiniteSet(tools)
    <3> DEFINE f == [e \in events |-> e.tool]
    <3>1. f \in Surjection(events, named)
      BY DEF Surjection
    <3> HIDE DEF f, events, named
    <3>2. IsFiniteSet(named)
      BY <2>2, <3>1, FS_Surjection
    <3>3. QED
      BY <3>2, FS_Subset
  <2>5. None \notin tools /\ \A e \in events : e.tool \in tools \cup {None}
    OBVIOUS
  <2> HIDE DEF events, tools
  <2>6. CountedFor(events, run, tools \cup {None}, counter) = Reference(events, run, counter)
    BY <2>1, <2>2, <2>3, <2>5, RunOfAllTools
  <2>7. SumFunction([tool \in tools |-> CountedFor(events, run, {tool}, counter)])
          = CountedFor(events, run, tools, counter)
    BY <2>1, <2>2, <2>3, <2>4, SharesAddUp
  <2>8. CountedFor(events, run, tools \cup {None}, counter)
          = CountedFor(events, run, tools, counter) + CountedFor(events, run, {None}, counter)
    <3>1. \A these, tool : tool \notin these =>
             CountedFor(events, run, these \cup {tool}, counter)
               = CountedFor(events, run, these, counter) + CountedFor(events, run, {tool}, counter)
      BY <2>1, <2>2, <2>3, RunOfTools
    <3>2. QED
      BY <2>5, <3>1
  <2>9. QED
    BY <2>6, <2>7, <2>8
<1>2. QED
  BY <1>1, LedgerInvHolds, AlwaysFinitely, PTL
=============================================================================
