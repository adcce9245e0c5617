----------------------------- MODULE MCRotation -----------------------------
(* Two calls over two bindings of one session, which share its artifact. *)
EXTENDS Rotation, TLC

CONSTANTS p1, p2, b1, b2, c1

MCProcess == {p1, p2}
MCBinding == {b1, b2}
MCContent == {c1}

Symmetry == Permutations(MCProcess) \cup Permutations(MCBinding)

=============================================================================
