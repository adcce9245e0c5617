----------------------- MODULE MCSessionEnumeration -----------------------
(***************************************************************************)
(* Three calls suffice for a first page and two rivals for the next one,   *)
(* and for a snapshot, its successor under the same request, and a stale   *)
(* cursor.                                                                 *)
(***************************************************************************)
EXTENDS SessionEnumeration, TLC

CONSTANTS i1, i2, i3, x, y, z

MCCaller == {i1, i2, i3}
MCRequest == {x, y, z}
MCLimit == {1, 2}

Symmetry == Permutations(MCCaller) \cup Permutations(MCRequest)
=============================================================================
