-------------------------- MODULE MCSettingsStore --------------------------
(* Two processes and two calls, whose request ids may be the same. *)
EXTENDS SettingsStore, TLC

CONSTANTS p1, p2, c1, c2, n1, n2, u1, u2, u3

MCProcess == {p1, p2}
MCCall == {c1, c2}
MCName == {n1, n2}
MCCaller == {u1, u2, u3}

Symmetry ==
  Permutations(MCProcess) \cup Permutations(MCCall) \cup Permutations(MCName)
    \cup Permutations(MCCaller)

=============================================================================
