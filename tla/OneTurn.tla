------------------------------ MODULE OneTurn ------------------------------
(***************************************************************************)
(* What a launch request promises its host, without any file, lock or      *)
(* crash: one native group at a time, started only while the request's     *)
(* single turn is still open; a turn, once taken, stays taken until the    *)
(* request itself is forgotten, which never happens under a live group.    *)
(***************************************************************************)
CONSTANTS Invocation, None

VARIABLES live,   \* the invocation whose native group may act, or None
          turn    \* "open" until the native turn exists, then "taken"

vars == <<live, turn>>

Init == live = None /\ turn = "open"

Begin(p) == live = None /\ turn = "open" /\ live' = p /\ UNCHANGED turn

Take == live # None /\ turn = "open" /\ turn' = "taken" /\ UNCHANGED live

End == live # None /\ live' = None /\ UNCHANGED turn

Forget == live = None /\ turn' = "open" /\ UNCHANGED live

Next == (\E p \in Invocation : Begin(p)) \/ Take \/ End \/ Forget

Spec == Init /\ [][Next]_vars
=============================================================================
