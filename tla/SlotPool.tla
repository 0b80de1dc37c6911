------------------------------ MODULE SlotPool ------------------------------
(***************************************************************************)
(* What a pool of worker slots promises, whoever keeps it: at most         *)
(* capacity slots are taken at any time, a slot is taken one at a time and *)
(* only while one is free, a hand-over frees one slot for the one it       *)
(* takes, and the capacity changes only while no slot is taken.            *)
(*                                                                         *)
(* The promise is kept by two records, and either can fail to be read.  A  *)
(* lost capacity may be replaced while slots are taken, and only a larger  *)
(* one then counts; a slot beyond the capacity is taken only when, besides,*)
(* the slots of some owner were overlooked.  An empty pool starts afresh.  *)
(***************************************************************************)
EXTENDS Naturals, FiniteSets

CONSTANTS Slot, Capacities

VARIABLES
  capacity,     \* the number of slots, the largest since the pool was empty
  taken,        \* the slots that are taken
  lost,         \* the record of the capacity was unreadable since then
  overlooked    \* a slot was taken while another owner's were unreadable

Init == capacity = 0 /\ taken = {} /\ ~ lost /\ ~ overlooked

Kept == UNCHANGED <<capacity, lost>>

Misread ==
  /\ lost'
  /\ capacity' \in Capacities \cup {capacity}
  /\ capacity' >= capacity

Take(x) ==
  /\ UNCHANGED capacity
  /\ lost => lost'
  /\ overlooked => overlooked'
  /\ Cardinality(taken) < capacity \/ (lost' /\ overlooked')
  /\ x \in Slot \ taken
  /\ taken' = taken \cup {x}

\* One owner returns a slot, or an owner that dies returns all of its own.
Return ==
  /\ UNCHANGED <<capacity, lost, overlooked>>
  /\ taken' \subseteq taken

HandOver(x, y) ==
  /\ x \in taken
  /\ y \in Slot \ taken
  /\ taken' = (taken \ {x}) \cup {y}
  /\ Kept \/ Misread
  /\ UNCHANGED overlooked

Lose ==
  /\ Misread
  /\ UNCHANGED <<taken, overlooked>>

Resize ==
  /\ taken = {}
  /\ capacity' \in Capacities
  /\ ~ lost' /\ ~ overlooked'
  /\ UNCHANGED taken

\* The slots of a step are read off the step.
Next ==
  \/ Return
  \/ \E x \in taken' \ taken :
       Take(x) \/ \E y \in taken \ taken' : HandOver(y, x)
  \/ Lose
  \/ Resize

Spec == Init /\ [][Next]_<<capacity, taken, lost, overlooked>>
=============================================================================
