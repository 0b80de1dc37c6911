---------------------------- MODULE MCPublication ----------------------------
(***************************************************************************)
(* Both guards of a publication for TLC.  They share no state, so that a   *)
(* behaviour is one of the two, beside the other as it is at first.        *)
(***************************************************************************)
EXTENDS PublicationGuard, StackPush

VARIABLE part

vars == <<guardVars, pushVars, part>>

MCVisibility == [r \in Repo |-> IF r = "pair" THEN "missing" ELSE "private"]

MCWritten == (Repo \X {"link"}) \cup {<<"pair", "bare">>}
Symmetry == Permutations(Worktree) \cup Permutations(Push)

Init ==
    /\ GuardInit /\ PushInit
    /\ \/ part = "push"
       \/ part = "guard" /\ ~hooked /\ local = remote[url]

Next ==
    \/ part = "guard" /\ GuardNext /\ UNCHANGED <<pushVars, part>>
    \/ part = "push" /\ PushNext /\ UNCHANGED <<guardVars, part>>

Spec == Init /\ [][Next]_vars
=============================================================================
