---------------------------- MODULE MCReviewReply ----------------------------
(***************************************************************************)
(* ReviewReply for TLC: three invocations, two bodies.                     *)
(***************************************************************************)
EXTENDS ReviewReply, TLC

CONSTANTS p1, p2, p3, b1, b2

MCProcess == {p1, p2, p3}
MCBody == {b1, b2}

\* Invocations and bodies are interchangeable.
MCSymmetry == Permutations(MCProcess) \cup Permutations(MCBody)
=============================================================================
