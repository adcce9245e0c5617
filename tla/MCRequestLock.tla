--------------------------- MODULE MCRequestLock ---------------------------
(***************************************************************************)
(* Two callers and one cleaner suffice for the interleaving that matters:  *)
(* one caller opens the lock file before a cleaner unlinks it, the other   *)
(* after.                                                                  *)
(***************************************************************************)
EXTENDS RequestLock

CONSTANTS c1, c2, reaper, i1, i2, i3, i4

MCCaller == {c1, c2}
MCReaper == {reaper}
MCEvictor == {}
MCInode == {i1, i2, i3, i4}
=============================================================================
