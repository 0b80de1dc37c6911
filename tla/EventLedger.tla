----------------------------- MODULE EventLedger -----------------------------
(***************************************************************************)
(* The event ledger of a milestone rush,                                   *)
(* .agents/skills/milestone-rush/scripts/event_ledger.py: agents ingest    *)
(* batches of events into one JSON-lines file under an exclusive flock;    *)
(* validate and summarize read the file without the lock.                  *)
(*                                                                         *)
(* An event keeps the fields that decide something: its run and id, its    *)
(* type, span, result, blocker and time, its measurement, and what it      *)
(* measured: a value or null of each counter and of the gauge.  "tool" is  *)
(* the toolName of its identity, and "identity" the rest of that with the  *)
(* kind of the span; models and waits get shares as tools do.  The text is *)
(* written in one buffered write, which a kill or an error cuts anywhere:  *)
(* between two lines, inside one, or between a line and its newline.       *)
(***************************************************************************)
EXTENDS Naturals, Integers, Sequences, FiniteSets, SequencesExt, FiniteSetsExt

CONSTANTS
    Agent, NoAgent,
    Batch,          \* the inputs there are: sequences of events
    Legacy,         \* the events the ledger holds at first
    Counter,        \* the paths of the counters
    None,           \* null
    MaxIngests      \* bound on the invocations

ASSUME AgentAssumption == NoAgent \notin Agent
ASSUME BatchAssumption == \A input \in Batch : input \in Seq(ToSet(input))

Field == Counter \cup {"effectiveWorkers"}

ASSUME ValueAssumption ==
    /\ None \notin Nat
    /\ \A input \in Batch \cup {Legacy} : \A e \in ToSet(input) :
          e.values \in [Field -> Nat \cup {None}]

VARIABLES
    file,           \* the lines of the ledger
    lock,           \* who holds the flock
    pc,             \* what each agent does next
    batch,          \* the parsed input
    pending,        \* the lines still to be written
    ingests,        \* invocations so far
    acked,          \* history: the events some ingest has reported
    cut,            \* history: a write was cut short
    flushedLate     \* history: a failed write went on after the lock was gone

vars == <<file, lock, pc, batch, pending, ingests, acked, cut, flushedLate>>
history == <<acked, cut, flushedLate>>

Key(e) == <<e.run, e.id>>
Line(e, form) == [events |-> {e}, form |-> form]
EventsOf(lines) == UNION {lines[i].events : i \in DOMAIN lines}

-----------------------------------------------------------------------------
\* validate_metric_group: null exactly what is declared unavailable.
MetricGroupOK(e) == e.unavailable = {field \in Field : e.values[field] = None}

\* validate_event.
ValidEvent(e) ==
    /\ MetricGroupOK(e)
    /\ e.type = "span_started" => e.result = "started"
    /\ e.type = "span_finished" => e.result \notin {"started", "pending"}
    /\ e.version = 2 =>
        /\ e.type = "tool_sample" => e.tool # None
        /\ IF e.stream = None THEN e.unavailable = Field
           ELSE /\ e.unavailable # Field
                /\ e.mode \in {"delta", "snapshot"}
                /\ IF e.mode = "delta" THEN e.baseline = None
                   ELSE e.baseline \in {"zero", "start"}

-----------------------------------------------------------------------------
\* validate_run, on the set of a run's events: the file's order is not looked at.
OfRun(events, run) == {e \in events : e.run = run}
Measured(events) == {e \in events : e.version = 2 /\ e.stream # None}
StreamsOf(events) == {e.stream : e \in Measured(events)}
OfStream(events, stream) == {e \in Measured(events) : e.stream = stream}
OfType(events, type) == {e \in events : e.type = type}
Spans(events) == {e.span : e \in events}

SpansOK(events) ==
    LET started == OfType(events, "span_started")
        finished == OfType(events, "span_finished")
    IN  /\ \A group \in {started, finished} : \A d, e \in group :
              /\ d.span # None
              /\ d.span = e.span => d = e
        /\ Spans(finished) \subseteq Spans(started)
        /\ \A s \in started, f \in finished :
              s.span = f.span =>
                  s.identity = f.identity /\ s.tool = f.tool /\ s.time <= f.time
        /\ None \notin Spans(OfType(events, "work_superseded"))

\* No counter of a snapshot stream decreases, nulls aside, and one that is to be
\* counted from its start has a first value.
StreamOK(samples) ==
    /\ \A d, e \in samples : d.mode = e.mode /\ d.baseline = e.baseline
    /\ \A d, e \in samples : d.seq = e.seq => d = e
    /\ {e.seq : e \in samples} = 0..(Cardinality(samples) - 1)
    /\ \A counter \in Counter : \A d, e \in samples :
          d.mode = "snapshot" /\ e.values[counter] # None =>
              /\ d.baseline = "start" /\ d.seq = 0 => d.values[counter] # None
              /\ d.values[counter] # None /\ d.seq < e.seq =>
                    d.values[counter] <= e.values[counter]

\* What only a closed run has: every span finished, superseded work too, and
\* cancelled or blocked.
ClosureOK(events) ==
    LET finished == OfType(events, "span_finished")
        superseded == OfType(events, "work_superseded")
    IN  /\ Spans(OfType(events, "span_started")) \subseteq Spans(finished)
        /\ Spans(superseded) \subseteq Spans(OfType(events, "span_started"))
        /\ \A w \in superseded :
              \/ \E v \in superseded : v.span = w.span /\ v.blocker
              \/ \E f \in finished : f.span = w.span /\ (f.result = "cancelled" \/ f.blocker)

ValidRun(events, run, closure) ==
    LET selected == OfRun(events, run)
    IN  /\ selected # {}
        /\ \A d, e \in selected : d.id = e.id => d = e
        /\ SpansOK(selected)
        /\ \A stream \in StreamsOf(selected) : StreamOK(OfStream(selected, stream))
        /\ closure => ClosureOK(selected)

\* summarize_run: samples in the order of their sequence numbers, each counted
\* as what it adds.
InOrder(samples) ==
    CHOOSE ordered \in [1..Cardinality(samples) -> samples] :
        \A i, k \in DOMAIN ordered : i < k => ordered[i].seq < ordered[k].seq

\* The samples that measured the counter.
Known(ordered, counter) == {i \in DOMAIN ordered : ordered[i].values[counter] # None}

\* Seeded fault: a snapshot counter always starts from zero.
ContributionFromZero(ordered, i, counter) ==
    LET value(k) == ordered[k].values[counter]
        earlier == {k \in Known(ordered, counter) : k < i}
    IN  IF value(i) = None THEN 0
        ELSE IF ordered[1].mode = "delta" \/ earlier = {} THEN value(i)
        ELSE value(i) - value(Max(earlier))

\* What a sample adds to a counter: nothing when it is null there; a snapshot
\* what it is above the one before it that is not.
Contribution(ordered, i, counter) ==
    LET value(k) == ordered[k].values[counter]
        earlier == {k \in Known(ordered, counter) : k < i}
    IN  IF value(i) = None THEN 0
        ELSE IF ordered[1].mode = "delta" THEN value(i)
        ELSE IF earlier = {} THEN (IF ordered[1].baseline = "zero" THEN value(i) ELSE 0)
        ELSE value(i) - value(Max(earlier))

\* The contributions to a counter of the samples that name one of the tools, or
\* no tool (None).
CountedInStream(samples, tools, counter) ==
    LET ordered == InOrder(samples)
    IN  SumFunction([i \in DOMAIN ordered |->
            IF ordered[i].tool \in tools THEN Contribution(ordered, i, counter) ELSE 0])

CountedFor(events, run, tools, counter) ==
    LET selected == OfRun(events, run)
    IN  SumFunction([stream \in StreamsOf(selected) |->
            CountedInStream(OfStream(selected, stream), tools, counter)])

-----------------------------------------------------------------------------
\* What the ledger holds at first is what an ingest leaves: valid events of one
\* id each, of runs that validate.
ASSUME LegacyAssumption ==
    /\ Legacy \in Seq(ToSet(Legacy))
    /\ \A i, k \in DOMAIN Legacy : Key(Legacy[i]) = Key(Legacy[k]) => i = k
    /\ \A e \in ToSet(Legacy) : ValidEvent(e) /\ ValidRun(ToSet(Legacy), e.run, FALSE)

Init ==
    /\ file = [i \in DOMAIN Legacy |-> Line(Legacy[i], "whole")]
    /\ lock = NoAgent
    /\ pc = [p \in Agent |-> "idle"]
    /\ batch = [p \in Agent |-> <<>>]
    /\ pending = [p \in Agent |-> <<>>]
    /\ ingests = 0
    /\ acked = {} /\ cut = FALSE /\ flushedLate = FALSE

Goto(p, step) == pc' = [pc EXCEPT ![p] = step]
Unlock(p) == lock' = IF lock = p THEN NoAgent ELSE lock
Forget(p) ==
    /\ batch' = [batch EXCEPT ![p] = <<>>]
    /\ pending' = [pending EXCEPT ![p] = <<>>]

\* The input is parsed before the lock; one bad event refuses all of it.
Parse(p, input) ==
    /\ pc[p] = "idle" /\ ingests < MaxIngests
    /\ ingests' = ingests + 1
    /\ IF \A i \in DOMAIN input : ValidEvent(input[i]) /\ input[i].version = 2
       THEN Goto(p, "lock") /\ batch' = [batch EXCEPT ![p] = input]
       ELSE UNCHANGED <<pc, batch>>
    /\ UNCHANGED <<file, lock, pending, history>>

\* Seeded fault: the file is not locked.
LockNothing(p) ==
    /\ pc[p] = "lock"
    /\ lock' = p
    /\ Goto(p, "judge")
    /\ UNCHANGED <<file, batch, pending, ingests, history>>

Lock(p) ==
    /\ pc[p] = "lock" /\ lock = NoAgent
    /\ lock' = p
    /\ Goto(p, "judge")
    /\ UNCHANGED <<file, batch, pending, ingests, history>>

\* events_from_locked_stream: a line that is no JSON is an error.
Readable(lines) == \A i \in DOMAIN lines : lines[i].form # "torn"

\* Seeded fault: an id that another run has used counts as a duplicate.
FreshById(known, input) ==
    SelectSeq(input, LAMBDA e : \A d \in known \cup ToSet(input) : d.id = e.id => d = e)

\* The events of the batch that the ledger does not have, each once.
Fresh(known, input) ==
    LET new(i) == /\ input[i] \notin known
                  /\ \A k \in 1..(i - 1) : input[k] # input[i]
        places == {i \in DOMAIN input : new(i)}
    IN  [n \in 1..Cardinality(places) |->
            input[CHOOSE i \in places : Cardinality({k \in places : k <= i}) = n]]

NoConflict(known, input) ==
    \A d, e \in known \cup ToSet(input) :
        e \in ToSet(input) /\ Key(d) = Key(e) => d = e

\* Seeded fault: each run of the batch is validated by itself.
AdmissibleAlone(known, input) ==
    /\ NoConflict(known, input)
    /\ \A e \in ToSet(input) : ValidRun(ToSet(input), e.run, FALSE)

Admissible(known, input) ==
    /\ NoConflict(known, input)
    /\ \A e \in ToSet(input) : ValidRun(known \cup ToSet(input), e.run, FALSE)

\* One pass over what is in the file: duplicates are dropped, a conflict or a
\* run that would not validate refuses the batch before anything is written.
Judge(p) ==
    /\ pc[p] = "judge"
    /\ \/ /\ Readable(file) /\ Admissible(EventsOf(file), batch[p])
          /\ pending' = [pending EXCEPT ![p] = Fresh(EventsOf(file), batch[p])]
          /\ Goto(p, "write")
          /\ UNCHANGED <<lock, batch>>
       \/ /\ ~(Readable(file) /\ Admissible(EventsOf(file), batch[p]))
          /\ Goto(p, "idle") /\ Unlock(p) /\ Forget(p)
    /\ UNCHANGED <<file, ingests, history>>

\* A line after one without a newline makes one unreadable line of both.
AppendLine(lines, line) ==
    IF lines # <<>> /\ lines[Len(lines)].form = "unterminated"
    THEN [lines EXCEPT ![Len(lines)] =
             [events |-> lines[Len(lines)].events \cup line.events, form |-> "torn"]]
    ELSE Append(lines, line)

\* The next line reaches the file.
WriteLine(p) ==
    /\ pc[p] = "write" /\ pending[p] # <<>>
    /\ file' = AppendLine(file, Line(pending[p][1], "whole"))
    /\ pending' = [pending EXCEPT ![p] = Tail(pending[p])]
    /\ UNCHANGED <<lock, pc, batch, ingests, history>>

\* fsync, the unlock and the report.
Finish(p) ==
    /\ pc[p] = "write" /\ pending[p] = <<>>
    /\ acked' = acked \cup ToSet(batch[p])
    /\ Goto(p, "idle") /\ Unlock(p) /\ Forget(p)
    /\ UNCHANGED <<file, ingests, cut, flushedLate>>

\* What a write that stops in the middle of its next line leaves.
Partial(p) ==
    IF pending[p] = <<>> THEN {file}
    ELSE {file} \cup {AppendLine(file, Line(pending[p][1], form)) :
                        form \in {"torn", "unterminated"}}

\* The write or the fsync fails: the lock is released, and then close() writes
\* what is still buffered, if it can.
WriteFails(p) ==
    /\ pc[p] = "write"
    /\ file' \in Partial(p)
    /\ cut' = (cut \/ pending[p] # <<>>)
    /\ Unlock(p)
    /\ IF file' = file THEN Goto(p, "close") /\ UNCHANGED <<batch, pending>>
                       ELSE Goto(p, "idle") /\ Forget(p)
    /\ UNCHANGED <<ingests, acked, flushedLate>>

Close(p) ==
    /\ pc[p] = "close"
    /\ file' \in Partial(p) \cup
            (IF pending[p] = <<>> THEN {} ELSE {AppendLine(file, Line(pending[p][1], "whole"))})
    /\ flushedLate' = (flushedLate \/ file' # file)
    /\ Goto(p, "idle") /\ Forget(p)
    /\ UNCHANGED <<lock, ingests, acked, cut>>

\* A killed agent loses its lock with its descriptor.  (A kill that cuts the
\* write of close() leaves what a failure of it leaves.)
Kill(p) ==
    /\ pc[p] # "idle"
    /\ IF pc[p] = "write"
       THEN file' \in Partial(p) /\ cut' = (cut \/ pending[p] # <<>>)
       ELSE UNCHANGED <<file, cut>>
    /\ Goto(p, "idle") /\ Unlock(p) /\ Forget(p)
    /\ UNCHANGED <<ingests, acked, flushedLate>>

Step(p) == Lock(p) \/ Judge(p) \/ WriteLine(p) \/ Finish(p) \/ WriteFails(p) \/ Close(p)

Next == \E p \in Agent : (\E input \in Batch : Parse(p, input)) \/ Step(p) \/ Kill(p)

Spec == Init /\ [][Next]_vars

-----------------------------------------------------------------------------
\* No event is in the ledger twice and no id has two contents, whatever the
\* agents send again or at once and wherever a kill cuts a write: unless a
\* failed write went on after its lock was released.
OneLinePerEvent ==
    flushedLate \/
    \A i, k \in DOMAIN file : \A d \in file[i].events, e \in file[k].events :
        Key(d) = Key(e) => i = k /\ d = e

\* Between two ingests the whole ledger validates as an open run, whoever wrote
\* which part of it: each batch was judged against all that precedes it.  Only
\* a write that was cut short can leave something else.
LedgerValidates ==
    lock = NoAgent /\ ~cut =>
        /\ Readable(file)
        /\ \A e \in EventsOf(file) : ValidRun(EventsOf(file), e.run, FALSE)

\* What an ingest has reported, as new or as a duplicate, is in the ledger for
\* good, and readable as long as no write was cut short.
ReportedStays == \A e \in acked :
    \E i \in DOMAIN file : e \in file[i].events /\ (cut \/ file[i].form = "whole")

\* The totals of a run that validates are what its counters went through, by
\* whatever batches and in whatever order the samples came, whichever of their
\* values are null; and the shares of its tools add up to them but for what the
\* samples that name no tool have added.
ReferenceOfStream(samples, counter) ==
    LET sample == CHOOSE e \in samples : TRUE
        values == {e.values[counter] : e \in samples} \ {None}
    IN  IF sample.mode = "delta"
        THEN SumFunction([e \in samples |->
                 IF e.values[counter] = None THEN 0 ELSE e.values[counter]])
        ELSE IF values = {} THEN 0
        ELSE IF sample.baseline = "zero" THEN Max(values)
        ELSE Max(values) - Min(values)

Reference(events, run, counter) ==
    LET selected == OfRun(events, run)
    IN  SumFunction([stream \in StreamsOf(selected) |->
            ReferenceOfStream(OfStream(selected, stream), counter)])

TotalsAreWhatWasMeasured ==
    LET events == EventsOf(file)
        tools == {e.tool : e \in events} \ {None}
    IN  \A run \in {e.run : e \in events} : \A counter \in Counter :
            Readable(file) /\ ValidRun(events, run, TRUE) =>
                LET total == CountedFor(events, run, tools \cup {None}, counter)
                    share == [tool \in tools |-> CountedFor(events, run, {tool}, counter)]
                IN  /\ total = Reference(events, run, counter)
                    /\ SumFunction(share) + CountedFor(events, run, {None}, counter) = total
=============================================================================
