---------------------------- MODULE StackSnapshot ----------------------------
(***************************************************************************)
(* The stack wait, .agents/skills/address-feedback/scripts/stack_state.py: *)
(* stack_snapshot reads the stack, the sha of its base branch, the stack   *)
(* again and the sha again, and accepts them only when both pairs agree;   *)
(* compare_snapshots says how it differs from the expected snapshot and    *)
(* from which position on evidence about the members is void.              *)
(*                                                                         *)
(* A sha is a version number: heads and the base only move forward.  The   *)
(* stack's own identity is left out, as is a change of state or draft that *)
(* moves no head but is a change all the same ("touched").                 *)
(***************************************************************************)
EXTENDS TransitionWait, Sequences, FiniteSets, SequencesExt

CONSTANTS
    PullRequest,
    Packet,         \* the expected stack's members, from the bottom
    MaxMoves        \* bound on the changes to the stack and its base

ASSUME PacketAssumption == Packet \in Seq(PullRequest)

VARIABLES
    stack,          \* GitHub: the members, from the bottom
    base,           \* GitHub: the sha of the base branch
    moves,          \* changes so far
    firstStack,     \* the first read of the stack
    firstBase,      \* the first read of the base
    nextStack,      \* the second read of the stack
    stackInstant,   \* history: the stack and base when the base was first read
    comings         \* history: members that came or left since the first read

stackVars == <<stack, base, moves, firstStack, firstBase, nextStack, stackInstant,
               comings>>

Member(pr, head, touched) == [pr |-> pr, head |-> head, touched |-> touched]
Expected == [base |-> 0, members |-> [i \in DOMAIN Packet |-> Member(Packet[i], 0, FALSE)]]
NoSnapshot == [base |-> 0, members |-> <<>>]

StackInit ==
    /\ stack = Expected.members
    /\ base = 0
    /\ moves = 0
    /\ firstStack = <<>> /\ firstBase = 0 /\ nextStack = <<>>
    /\ stackInstant = NoSnapshot
    /\ comings = 0

\* compare_snapshots.  The members hold evidence by pull request and head.
Holds(before, after) == before.pr = after.pr /\ before.head = after.head

FirstInvalidated(expected, current) ==
    LET short == IF Len(current.members) < Len(expected.members)
                 THEN Len(current.members) ELSE Len(expected.members)
        differing == {i \in 1..short : ~Holds(expected.members[i], current.members[i])}
    IN  IF expected.base # current.base THEN {1}
        ELSE IF differing # {} THEN {i \in differing : \A k \in differing : i <= k}
        ELSE IF Len(current.members) < Len(expected.members) THEN {Len(current.members) + 1}
        ELSE {}

\* wait_classification: "identical" is no transition.
StackVerdict(current) ==
    IF current = Expected THEN "waiting"
    ELSE IF FirstInvalidated(Expected, current) # {} THEN "invalidated"
    ELSE "changed"

-----------------------------------------------------------------------------
StartStackWait(t) ==
    /\ StartWait(t)
    /\ UNCHANGED stackVars

Reads(from, to) ==
    /\ step = from
    /\ step' = to
    /\ UNCHANGED <<target, prior, checkpoint, seen, late, stopped, result, waits,
                   known, killed>>
    /\ UNCHANGED <<stack, base, moves>>

\* parse_stack: fewer members than two are an error.
Parses == Len(stack) >= 2

ReadStack ==
    /\ Reads("observe", "base")
    /\ Parses
    /\ firstStack' = stack
    /\ comings' = 0
    /\ UNCHANGED <<firstBase, nextStack, stackInstant>>

ReadBase ==
    /\ Reads("base", "stack again")
    /\ firstBase' = base
    /\ stackInstant' = [base |-> base, members |-> stack]
    /\ UNCHANGED <<firstStack, nextStack, comings>>

RereadStack ==
    /\ Reads("stack again", "base again")
    /\ Parses
    /\ nextStack' = stack
    /\ UNCHANGED <<firstStack, firstBase, stackInstant, comings>>

ForgetReads ==
    /\ firstStack' = <<>> /\ firstBase' = 0 /\ nextStack' = <<>>
    /\ stackInstant' = NoSnapshot
    /\ comings' = 0

\* Seeded fault: only the base is compared.
RereadBaseOnly ==
    /\ step = "base again"
    /\ \/ /\ firstBase = base
          /\ LET snapshot == [base |-> base, members |-> nextStack]
             IN  Observed(StackVerdict(snapshot), snapshot,
                          [instant |-> stackInstant, comings |-> comings])
       \/ firstBase # base /\ ObserveFails("pending")
    /\ ForgetReads
    /\ UNCHANGED <<stack, base, moves>>

\* Both pairs agree, or the snapshot is a transient failure.
RereadBase ==
    /\ step = "base again"
    /\ \/ /\ firstStack = nextStack /\ firstBase = base
          /\ LET snapshot == [base |-> base, members |-> nextStack]
             IN  Observed(StackVerdict(snapshot), snapshot,
                          [instant |-> stackInstant, comings |-> comings])
       \/ /\ ~(firstStack = nextStack /\ firstBase = base)
          /\ ObserveFails("pending")
    /\ ForgetReads
    /\ UNCHANGED <<stack, base, moves>>

ReadingStack == step \in {"observe", "base", "stack again", "base again"}

StackReadFails ==
    /\ ReadingStack
    /\ ObserveFails("pending") \/ ObserveRefused
    /\ ForgetReads
    /\ UNCHANGED <<stack, base, moves>>

ReadStackState == ReadStack \/ ReadBase \/ RereadStack \/ RereadBase

-----------------------------------------------------------------------------
\* GitHub: the base advances; a member gets a new head, changes state, or
\* leaves; a new one is added on top or below the others.
Moves ==
    /\ moves < MaxMoves
    /\ moves' = moves + 1
    /\ UNCHANGED <<waitVars, firstStack, firstBase, nextStack, stackInstant>>

AdvanceBase ==
    /\ Moves
    /\ base' = base + 1
    /\ UNCHANGED <<stack, comings>>

ChangeMember ==
    /\ Moves
    /\ \E i \in DOMAIN stack :
        \/ stack' = [stack EXCEPT ![i].head = stack[i].head + 1]
        \/ ~stack[i].touched /\ stack' = [stack EXCEPT ![i].touched = TRUE]
    /\ UNCHANGED <<base, comings>>

RemoveMember ==
    /\ Moves
    /\ stack # <<>>
    /\ \E i \in DOMAIN stack : stack' = RemoveAt(stack, i)
    /\ comings' = IF ReadingStack THEN comings + 1 ELSE comings
    /\ UNCHANGED base

AddMember ==
    /\ Moves
    /\ \E pr \in PullRequest, i \in 1..(Len(stack) + 1) :
        /\ \A k \in DOMAIN stack : stack[k].pr # pr
        /\ stack' = InsertAt(stack, i, Member(pr, 0, FALSE))
    /\ comings' = IF ReadingStack THEN comings + 1 ELSE comings
    /\ UNCHANGED base

GitHubStack == AdvanceBase \/ ChangeMember \/ RemoveMember \/ AddMember

-----------------------------------------------------------------------------
\* The four reads are one snapshot: what is accepted is what the stack and its
\* base were together at one instant, unless members came and left while they
\* were made.
SnapshotWasTrue ==
    seen # NoSeen => seen.key = seen.basis.instant \/ seen.basis.comings > 1

\* A wait that does not call the evidence invalid leaves every expected member
\* in its place with its head on the same base; one that does names the first
\* position where that fails, and every position below it still holds.
EvidenceBelowStillHolds ==
    seen # NoSeen =>
        LET snapshot == seen.key
            first == FirstInvalidated(Expected, snapshot)
            kept == {i \in DOMAIN Expected.members :
                        \A k \in 1..i : /\ k \in DOMAIN snapshot.members
                                        /\ Holds(Expected.members[k], snapshot.members[k])}
        IN  IF snapshot.base # Expected.base THEN first = {1}
            ELSE /\ first = {} <=> kept = DOMAIN Expected.members
                 /\ \A i \in first : kept = 1..(i - 1)
=============================================================================
