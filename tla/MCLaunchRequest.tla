--------------------------- MODULE MCLaunchRequest ---------------------------
(* Small instances of LaunchRequest for TLC. *)
EXTENDS LaunchRequest, TLC

CONSTANTS p1, p2, p3, new, other, resume

MCInvocation == {p1, p2, p3}
MCInput == {new, other, resume}
MCResume == {resume}

\* Invocations are interchangeable: no action or property names one.
Symmetry == Permutations(MCInvocation)
=============================================================================
