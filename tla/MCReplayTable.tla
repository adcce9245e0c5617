--------------------------- MODULE MCReplayTable ---------------------------
(* Small instances of ReplayTable for TLC. *)
EXTENDS ReplayTable, TLC

CONSTANTS r1, r2, r3, s1, s2, w1, w2

MCRequest == {r1, r2, r3}
MCSlot == {s1, s2}
MCWorker == {w1, w2}

\* Probing picks any remaining slot, so slots are interchangeable too.
Symmetry == Permutations(MCRequest) \cup Permutations(MCSlot) \cup Permutations(MCWorker)
=============================================================================
