---------------------------- MODULE MCActivityLedger ----------------------------
(***************************************************************************)
(* Segments of three events or four bytes, so that both limits rotate and  *)
(* an event that is too large may be followed by one that fits.            *)
(***************************************************************************)
EXTENDS ActivityLedger, TLC

CONSTANTS c1, c2, c3, c4

MCCall == {c1, c2, c3, c4}
MCSize == {1, 2}

Oldest == Entry(3, 0, 1, 1)
Numbered(n) == [k \in 1 .. n |-> Entry(k, k - 1, k, k)]

\* None, two that are whole, one too long for a segment and one too large to be read, a
\* torn one and one whose chain is broken.
MCLegacy ==
  {Lines(<<>>), Lines(<<Oldest>>), Lines(<<Oldest, Entry(4, 1, 2, 3)>>),
   Lines(Numbered(MaxEvents + 1)), Lines(<<Entry(1, 0, 1, MaxBytes + 1)>>),
   [events |-> <<Oldest>>, torn |-> TRUE], Lines(<<Oldest, Entry(5, 1, 2, 2)>>)}

Symmetry == Permutations(MCCall)
=============================================================================
