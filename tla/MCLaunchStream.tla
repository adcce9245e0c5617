--------------------------- MODULE MCLaunchStream ---------------------------
(* A new session, and a resumed one with and without a deadline.           *)
EXTENDS LaunchStream

MCRequests ==
  {r \in Request : r.wanted = (r.resume => ~r.deadline) /\ (r.resume \/ r.deadline)}
=============================================================================
