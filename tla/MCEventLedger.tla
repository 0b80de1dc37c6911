---------------------------- MODULE MCEventLedger ----------------------------
(***************************************************************************)
(* EventLedger for TLC: the events of one small run and one of a second    *)
(* run, and the batches that agents make of them, some of which repeat,    *)
(* contradict or precede others.                                           *)
(***************************************************************************)
EXTENDS EventLedger, TLC

CONSTANTS g1, g2

MCAgent == {g1, g2}
MCSymmetry == Permutations(MCAgent)

MCCounter == {"inputTokens", "toolCalls"}
Values(inputTokens, toolCalls) ==
    [field \in Field |-> CASE field = "inputTokens" -> inputTokens
                           [] field = "toolCalls" -> toolCalls
                           [] OTHER -> None]
Nulls(values) == {field \in Field : values[field] = None}

Plain == [run |-> "r1", version |-> 2, type |-> "note", span |-> None, result |-> "succeeded",
          blocker |-> FALSE, time |-> 1, identity |-> "i", unavailable |-> Field,
          stream |-> None, mode |-> None, baseline |-> None, seq |-> None,
          values |-> Values(None, None), tool |-> None, id |-> "n"]

Span(id, type, result, time) ==
    [Plain EXCEPT !.id = id, !.type = type, !.span = "a", !.result = result, !.time = time]
Sample(id, stream, mode, baseline, seq, values, tool) ==
    [Plain EXCEPT !.id = id, !.stream = stream, !.mode = mode, !.baseline = baseline,
                  !.seq = seq, !.values = values, !.unavailable = Nulls(values), !.tool = tool]

Started == Span("s", "span_started", "started", 2)
Again == [Started EXCEPT !.id = "s2"]
Finished == Span("f", "span_finished", "succeeded", 3)
Cancelled == Span("f", "span_finished", "cancelled", 3)
Early == Span("e", "span_finished", "succeeded", 1)
Superseded == Span("w", "work_superseded", "succeeded", 3)
Delta0 == Sample("d0", "a", "delta", None, 0, Values(2, 1), "x")
Delta1 == Sample("d1", "a", "delta", None, 1, Values(3, None), None)
Total0 == Sample("t0", "b", "snapshot", "start", 0, Values(4, 0), "x")
Total1 == Sample("t1", "b", "snapshot", "start", 1, Values(None, 2), "x")
Total2 == Sample("t2", "b", "snapshot", "start", 2, Values(10, 2), "y")
Lower == Sample("t3", "b", "snapshot", "start", 2, Values(3, 2), "y")
Zero0 == Sample("z0", "c", "snapshot", "zero", 0, Values(None, 1), None)
Zero1 == Sample("z1", "c", "snapshot", "zero", 1, Values(5, 3), "x")
Unstarted0 == Sample("u0", "d", "snapshot", "start", 0, Values(None, 1), "x")
Unstarted1 == Sample("u1", "d", "snapshot", "start", 1, Values(5, 3), "x")
Silent == [Delta0 EXCEPT !.id = "q", !.values = Values(None, 1)]
Unnamed == [Delta0 EXCEPT !.id = "h", !.type = "tool_sample", !.tool = None]
Other == [Plain EXCEPT !.run = "r2", !.id = "d0"]
Old == [Delta0 EXCEPT !.id = "v1", !.version = 1]

MCLegacy == <<Old>>
MCBatch == {
    <<Started>>, <<Again>>, <<Finished, Started>>, <<Cancelled, Superseded>>, <<Early>>,
    <<Delta0, Delta0>>, <<Delta1, Other, Delta0>>,
    <<Total1, Total0>>, <<Total2>>, <<Lower>>,
    <<Zero1, Zero0>>, <<Unstarted0, Unstarted1>>,
    <<Silent>>, <<Unnamed>>, <<Old>>}
=============================================================================
