-------------------------- MODULE MCIdentityRebind --------------------------
(* Two processes and three cycles of one component.  `beta` is an update nobody reviewed. *)
EXTENDS IdentityRebind, TLC

CONSTANTS p1, p2, q1, c1, c2, c3, old, beta

MCProcess == {p1, p2}
MCCall == {q1}
MCCycle == {c1, c2, c3}
MCProgram == {old, beta}
MCReviewed == {old}
MCVersion == [x \in MCProgram |-> IF x = old THEN 1 ELSE 2]

Symmetry == Permutations(MCProcess) \cup Permutations(MCCycle)

=============================================================================
