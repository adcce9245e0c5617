---------------------------- MODULE MCQuotaRefresh ----------------------------
(***************************************************************************)
(* Three processes suffice for one that dies with descendants left, one    *)
(* that settles its request, and one that reconciles it or refreshes the   *)
(* credential under another request.                                       *)
(***************************************************************************)
EXTENDS QuotaRefresh, TLC

CONSTANTS i1, i2, i3, x, y, m, n

MCInvocation == {i1, i2, i3}
MCTwoInvocations == {i1, i2}
MCRequest == {x, y}
MCInput == {m, n}

Symmetry == Permutations(MCInvocation) \cup Permutations(MCRequest) \cup Permutations(MCInput)
=============================================================================
