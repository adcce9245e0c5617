---------------------------- MODULE ReplayTable ----------------------------
(***************************************************************************)
(* The bounded replay table shared by all launch requests                  *)
(* (src/request_custody.rs, the distributed policy used by launch).        *)
(*                                                                         *)
(* A finished request leaves its active marker for one of the slots of the *)
(* table; if all are taken it displaces an older request.  A placement is  *)
(* a chain of durable writes: the slot's reservation, the request's owner  *)
(* record, the slot itself, the removal of the displaced request, and only *)
(* then of the active marker.  A step below is one such write, so a worker *)
(* (an operating-system process) can stop between any two of them.         *)
(*                                                                         *)
(* Two locks protect the chain: the slot's flock, and the flock of the     *)
(* request being displaced.  The lock of the request being PLACED is held  *)
(* when an exact retry resumes a handoff, but not by the invocation that   *)
(* has just finished the request: it drops its guard first, and until it   *)
(* has retired the marker any process may take that lock.  Exposed = TRUE  *)
(* is the code; FALSE restricts it to the executions in which nobody takes *)
(* the lock in that interval, to tell what depends on it.                  *)
(*                                                                         *)
(* In this policy the sequence of a placement IS its slot number, so a     *)
(* slot's content is a request and an owner's sequence is a slot.          *)
(***************************************************************************)
EXTENDS FiniteSets, Naturals

CONSTANTS Request, Slot, Worker, None, Exposed

ASSUME ConstantsOK ==
  /\ None \notin Request \cup Slot \cup Worker
  /\ IsFiniteSet(Slot) /\ Exposed \in BOOLEAN

VARIABLES
  rec,       \* the request's state file: "none", "active" or "settled"
  marked,    \* requests with an active marker
  owner,     \* owners/<stem>.json: the slot and what it displaces, or NoOwner
  slot,      \* the request each slot names, or None
  reserved,  \* the slot's reservation, or NoReservation
  reqLock,   \* holder of each request lock
  slotLock,  \* holder of each slot lock
  at         \* where each worker is, and what it has read

files == <<rec, marked, owner, slot, reserved>>
vars  == <<files, reqLock, slotLock, at>>

Owner == [slot : Slot, displaced : Request \cup {None}]
NoOwner == [slot |-> None, displaced |-> None]

Reservation == [req : Request, displaced : Request \cup {None}]
NoReservation == [req |-> None, displaced |-> None]

Step == {"idle", "supervise", "start", "owned", "complete", "recheck", "probe",
         "reserve", "own", "write_slot", "retire", "retire_owner", "clear",
         "unreserve", "unmark", "fault"}

Local == [pc    : Step,
          req   : Request \cup {None},           \* the request it places
          mine  : Owner \cup {NoOwner},          \* the owner record it believes in
          todo  : SUBSET Slot,                   \* slots still to be probed
          full  : SUBSET Slot,                   \* occupied slots seen so far
          evict : BOOLEAN]                       \* second pass: may displace

Idle == [pc |-> "idle", req |-> None, mine |-> NoOwner,
         todo |-> {}, full |-> {}, evict |-> FALSE]

Init ==
  /\ rec = [r \in Request |-> "none"]
  /\ marked = {}
  /\ owner = [r \in Request |-> NoOwner]
  /\ slot = [s \in Slot |-> None]
  /\ reserved = [s \in Slot |-> NoReservation]
  /\ reqLock = [r \in Request |-> None]
  /\ slotLock = [s \in Slot |-> None]
  /\ at = [w \in Worker |-> Idle]

At(w, l) == at[w].pc = l

Move(w, l) == at' = [at EXCEPT ![w].pc = l]

Without(locks, w) == [x \in DOMAIN locks |-> IF locks[x] = w THEN None ELSE locks[x]]

\* The function returned, failed, or its process died: every flock is released.
Leave(w) ==
  /\ at' = [at EXCEPT ![w] = Idle]
  /\ reqLock' = Without(reqLock, w)
  /\ slotLock' = Without(slotLock, w)

\* A CustodyError::Invalid: the table contradicts what the code asserts.
Fault(w) ==
  /\ at' = [at EXCEPT ![w] = [Idle EXCEPT !.pc = "fault", !.req = at[w].req]]
  /\ reqLock' = Without(reqLock, w)
  /\ slotLock' = Without(slotLock, w)

Unlocked == UNCHANGED <<reqLock, slotLock>>

-----------------------------------------------------------------------------
(***************************************************************************)
(* The life of a request around the table                                  *)
(***************************************************************************)

\* A fresh id: admission marks it active and records it, under its lock.
Admit(w, r) ==
  /\ At(w, "idle") /\ reqLock[r] = None
  /\ rec[r] = "none" /\ owner[r] = NoOwner
  /\ marked' = marked \cup {r}
  /\ rec' = [rec EXCEPT ![r] = "active"]
  /\ reqLock' = [reqLock EXCEPT ![r] = w]
  /\ at' = [at EXCEPT ![w] = [Idle EXCEPT !.pc = "supervise", !.req = r]]
  /\ UNCHANGED <<owner, slot, reserved, slotLock>>

\* finalize_launch_actor_and_replay: settle, drop the guard, then publish.
Finalize(w) ==
  LET r == at[w].req IN
  /\ At(w, "supervise")
  /\ rec' = [rec EXCEPT ![r] = "settled"]
  /\ Move(w, "start")
  /\ reqLock' = IF Exposed THEN Without(reqLock, w) ELSE reqLock
  /\ UNCHANGED <<marked, owner, slot, reserved, slotLock>>

\* An exact retry settles what a dead invocation left active.
Reconcile(r) ==
  /\ rec[r] = "active" /\ reqLock[r] = None
  /\ rec' = [rec EXCEPT ![r] = "settled"]
  /\ UNCHANGED <<marked, owner, slot, reserved, reqLock, slotLock, at>>

\* An exact retry of a settled request resumes its handoff, under its lock.
Retry(w, r) ==
  /\ At(w, "idle") /\ reqLock[r] = None
  /\ rec[r] = "settled" /\ (owner[r] # NoOwner \/ r \in marked)
  /\ reqLock' = [reqLock EXCEPT ![r] = w]
  /\ at' = [at EXCEPT ![w] = [Idle EXCEPT !.pc = "start", !.req = r]]
  /\ UNCHANGED <<files, slotLock>>

Crash(w) ==
  /\ ~At(w, "idle") /\ ~At(w, "fault")
  /\ Leave(w)
  /\ UNCHANGED files

-----------------------------------------------------------------------------
(***************************************************************************)
(* publish_sharded_replay_and_retire_active: with or without an owner      *)
(***************************************************************************)
\* Seeded fault: an owner record is taken as proof of placement.
StartTrustsOwner(w) ==
  LET o == owner[at[w].req] IN
  /\ At(w, "start")
  /\ at' = [at EXCEPT ![w].pc = IF o = NoOwner THEN "probe" ELSE "unmark", ![w].todo = Slot]
  /\ UNCHANGED <<files, reqLock, slotLock>>

Start(w) ==
  LET o == owner[at[w].req] IN
  /\ At(w, "start")
  /\ at' = [at EXCEPT ![w].pc = IF o = NoOwner THEN "probe" ELSE "owned",
                      ![w].mine = o,
                      ![w].todo = IF o = NoOwner THEN Slot ELSE {}]
  /\ UNCHANGED <<files, reqLock, slotLock>>

LockOwned(w) ==
  LET s == at[w].mine.slot IN
  /\ At(w, "owned")
  /\ \/ /\ slotLock[s] = None
        /\ slotLock' = [slotLock EXCEPT ![s] = w]
        /\ Move(w, "complete")
        /\ UNCHANGED reqLock
     \/ slotLock[s] # None /\ Leave(w)
  /\ UNCHANGED files

(***************************************************************************)
(* complete_replay_placement: finish a placement that already has an owner *)
(***************************************************************************)
Published(w) == slot[at[w].mine.slot] = at[w].req

Reserves(w) == reserved[at[w].mine.slot].req = at[w].req

\* The slot went to another request: give up this incomplete owner.
Forfeit(w) ==
  /\ owner' = [owner EXCEPT ![at[w].req] = NoOwner]
  /\ Leave(w)
  /\ UNCHANGED <<rec, marked, slot, reserved>>

Complete(w) ==
  LET m == at[w].mine
      r == at[w].req
      res == reserved[m.slot]
  IN
  /\ At(w, "complete")
  /\ \/ /\ Published(w) /\ m.displaced = None
        /\ Move(w, "unreserve")
        /\ UNCHANGED <<files, reqLock, slotLock>>
     \/ /\ ~(Published(w) /\ m.displaced = None)
        /\ Reserves(w)
        /\ Move(w, "recheck")
        /\ UNCHANGED <<files, reqLock, slotLock>>
     \/ /\ res # NoReservation /\ ~Reserves(w)
        /\ Published(w) /\ m.displaced # None
        /\ Move(w, "unmark")
        /\ UNCHANGED <<files, reqLock, slotLock>>
     \/ /\ ~Published(w) /\ ~Reserves(w)
        /\ res # NoReservation \/ slot[m.slot] # m.displaced
        /\ Forfeit(w)
     \/ /\ res = NoReservation
        /\ Published(w) => m.displaced # None
        /\ Published(w) \/ slot[m.slot] = m.displaced
        /\ reserved' = [reserved EXCEPT ![m.slot] = [req |-> r, displaced |-> m.displaced]]
        /\ Move(w, "recheck")
        /\ UNCHANGED <<rec, marked, owner, slot, reqLock, slotLock>>

\* Take the displaced request's lock; another holder of it defers the handoff.
Recheck(w) ==
  LET m == at[w].mine
      v == m.displaced
  IN
  /\ At(w, "recheck")
  /\ \/ /\ ~Published(w) /\ slot[m.slot] # v
        /\ Fault(w)
     \/ /\ Published(w) \/ slot[m.slot] = v
        /\ \/ v # None /\ reqLock[v] # None /\ Leave(w)
           \/ /\ v = None
              /\ Move(w, "write_slot") /\ Unlocked
           \/ /\ v # None /\ reqLock[v] = None
              /\ reqLock' = [reqLock EXCEPT ![v] = w]
              /\ Move(w, "write_slot")
              /\ UNCHANGED slotLock
  /\ UNCHANGED files

(***************************************************************************)
(* try_publish_sharded_replay_slot: one probe of one slot                  *)
(***************************************************************************)

\* A reservation counts only while the owner it announces is durable.
Stale(s) ==
  /\ reserved[s] # NoReservation
  /\ owner[reserved[s].req] # [slot |-> s, displaced |-> reserved[s].displaced]

Excluded(s) == slotLock[s] # None \/ (reserved[s] # NoReservation /\ ~Stale(s))

Reclaim(s) == reserved' = IF Stale(s) THEN [reserved EXCEPT ![s] = NoReservation] ELSE reserved

\* The slot is locked, or belongs to another request's unfinished placement.
Skip(w, s) ==
  /\ Excluded(s)
  /\ at' = [at EXCEPT ![w].todo = @ \ {s}]
  /\ UNCHANGED <<files, reqLock, slotLock>>

\* The slot names this very request, which has no owner.
Orphaned(w, s) ==
  /\ ~Excluded(s) /\ slot[s] = at[w].req
  /\ Reclaim(s)
  /\ Fault(w)
  /\ UNCHANGED <<rec, marked, owner, slot>>

\* First pass: only note the occupied slot.
Occupied(w, s) ==
  /\ ~Excluded(s) /\ slot[s] \notin {None, at[w].req} /\ ~at[w].evict
  /\ Reclaim(s)
  /\ at' = [at EXCEPT ![w].todo = @ \ {s}, ![w].full = @ \cup {s}]
  /\ UNCHANGED <<rec, marked, owner, slot, reqLock, slotLock>>

\* Second pass, but the occupant is pinned or in use.
Busy(w, s) ==
  /\ ~Excluded(s) /\ slot[s] \notin {None, at[w].req} /\ at[w].evict
  /\ reqLock[slot[s]] # None
  /\ Reclaim(s)
  /\ at' = [at EXCEPT ![w].todo = @ \ {s}]
  /\ UNCHANGED <<rec, marked, owner, slot, reqLock, slotLock>>

Claim(w, s) ==
  /\ ~Excluded(s) /\ slot[s] # at[w].req
  /\ slot[s] # None => at[w].evict /\ reqLock[slot[s]] = None
  /\ Reclaim(s)
  /\ slotLock' = [slotLock EXCEPT ![s] = w]
  /\ reqLock' = IF slot[s] = None THEN reqLock ELSE [reqLock EXCEPT ![slot[s]] = w]
  /\ at' = [at EXCEPT ![w].pc = "reserve", ![w].mine = [slot |-> s, displaced |-> slot[s]]]
  /\ UNCHANGED <<rec, marked, owner, slot>>

Probe(w) ==
  /\ At(w, "probe")
  /\ \E s \in at[w].todo :
       Skip(w, s) \/ Orphaned(w, s) \/ Occupied(w, s) \/ Busy(w, s) \/ Claim(w, s)

\* After the first pass the occupied slots may be displaced; then give up.
NextPass(w) ==
  /\ At(w, "probe") /\ at[w].todo = {}
  /\ \/ /\ at[w].full # {}
        /\ at' = [at EXCEPT ![w].todo = at[w].full, ![w].full = {}, ![w].evict = TRUE]
        /\ Unlocked
     \/ at[w].full = {} /\ Leave(w)
  /\ UNCHANGED files

Reserve(w) ==
  LET m == at[w].mine IN
  /\ At(w, "reserve")
  /\ reserved' = [reserved EXCEPT ![m.slot] = [req |-> at[w].req, displaced |-> m.displaced]]
  /\ Move(w, "own")
  /\ UNCHANGED <<rec, marked, owner, slot, reqLock, slotLock>>

\* Seeded faults: the owner record omits what it displaces; the displaced
\* request is retired before its slot has been taken.
OwnPartially(w) ==
  /\ At(w, "own")
  /\ owner' = [owner EXCEPT ![at[w].req] = [slot |-> at[w].mine.slot]]
  /\ Move(w, "write_slot")
  /\ UNCHANGED <<rec, marked, slot, reserved, reqLock, slotLock>>

OwnThenRetire(w) ==
  /\ At(w, "own")
  /\ owner' = [owner EXCEPT ![at[w].req] = at[w].mine]
  /\ Move(w, IF at[w].mine.displaced = None THEN "write_slot" ELSE "retire")
  /\ UNCHANGED <<rec, marked, slot, reserved, reqLock, slotLock>>

Own(w) ==
  /\ At(w, "own")
  /\ owner' = [owner EXCEPT ![at[w].req] = at[w].mine]
  /\ Move(w, "write_slot")
  /\ UNCHANGED <<rec, marked, slot, reserved, reqLock, slotLock>>

(***************************************************************************)
(* publish_replay_placement and retire_replay_displacement                 *)
(***************************************************************************)
WriteSlot(w) ==
  LET m == at[w].mine IN
  /\ At(w, "write_slot")
  /\ \/ /\ ~Published(w) /\ slot[m.slot] # m.displaced
        /\ Fault(w)
        /\ UNCHANGED slot
     \/ /\ Published(w) \/ slot[m.slot] = m.displaced
        /\ slot' = [slot EXCEPT ![m.slot] = at[w].req]
        /\ Move(w, IF m.displaced = None THEN "unreserve" ELSE "retire")
        /\ Unlocked
  /\ UNCHANGED <<rec, marked, owner, reserved>>

Drop(w, v) == reqLock' = [reqLock EXCEPT ![v] = None]

\* The displaced request loses its record, unless it is owned elsewhere or
\* active again: then at most its owner of this slot.
Retire(w) ==
  LET v == at[w].mine.displaced
      elsewhere == owner[v] # NoOwner /\ owner[v].slot # at[w].mine.slot
  IN
  /\ At(w, "retire")
  /\ \/ /\ elsewhere \/ v \in marked
        /\ owner' = IF elsewhere THEN owner ELSE [owner EXCEPT ![v] = NoOwner]
        /\ Drop(w, v)
        /\ Move(w, "clear")
        /\ UNCHANGED rec
     \/ /\ ~elsewhere /\ v \notin marked
        /\ rec' = [rec EXCEPT ![v] = "none"]
        /\ Move(w, "retire_owner")
        /\ UNCHANGED <<owner, reqLock>>
  /\ UNCHANGED <<marked, slot, reserved, slotLock>>

RetireOwner(w) ==
  LET v == at[w].mine.displaced IN
  /\ At(w, "retire_owner")
  /\ owner' = [owner EXCEPT ![v] = NoOwner]
  /\ Drop(w, v)
  /\ Move(w, "clear")
  /\ UNCHANGED <<rec, marked, slot, reserved, slotLock>>

Clear(w) ==
  /\ At(w, "clear")
  /\ owner' = [owner EXCEPT ![at[w].req] = [slot |-> at[w].mine.slot, displaced |-> None]]
  /\ Move(w, "unreserve")
  /\ UNCHANGED <<rec, marked, slot, reserved, reqLock, slotLock>>

\* A probing publisher lets the slot go before it retires its active marker.
Unreserve(w) ==
  LET s == at[w].mine.slot IN
  /\ At(w, "unreserve")
  /\ reserved' = IF Reserves(w) THEN [reserved EXCEPT ![s] = NoReservation] ELSE reserved
  /\ slotLock' = IF at[w].todo = {} THEN slotLock ELSE [slotLock EXCEPT ![s] = None]
  /\ Move(w, "unmark")
  /\ UNCHANGED <<rec, marked, owner, slot, reqLock>>

Unmark(w) ==
  /\ At(w, "unmark")
  /\ marked' = marked \ {at[w].req}
  /\ Leave(w)
  /\ UNCHANGED <<rec, owner, slot, reserved>>

-----------------------------------------------------------------------------
Publication(w) ==
  \/ Start(w) \/ LockOwned(w) \/ Complete(w) \/ Recheck(w) \/ Probe(w) \/ NextPass(w)
  \/ Reserve(w) \/ Own(w) \/ WriteSlot(w) \/ Retire(w) \/ RetireOwner(w) \/ Clear(w)
  \/ Unreserve(w) \/ Unmark(w)

Next ==
  \/ \E r \in Request : Reconcile(r)
  \/ \E w \in Worker :
       \/ \E r \in Request : Admit(w, r) \/ Retry(w, r)
       \/ Finalize(w) \/ Publication(w) \/ Crash(w)

Spec == Init /\ [][Next]_vars

-----------------------------------------------------------------------------
(***************************************************************************)
(* Properties                                                              *)
(***************************************************************************)
TypeOK ==
  /\ rec \in [Request -> {"none", "active", "settled"}]
  /\ marked \subseteq Request
  /\ owner \in [Request -> Owner \cup {NoOwner}]
  /\ slot \in [Slot -> Request \cup {None}]
  /\ reserved \in [Slot -> Reservation \cup {NoReservation}]
  /\ reqLock \in [Request -> Worker \cup {None}]
  /\ slotLock \in [Slot -> Worker \cup {None}]
  /\ at \in [Worker -> Local]

\* No leak: every record is reachable from a bounded index, as an active
\* request, as the occupant of a slot, or as what an unfinished placement
\* still has to retire; otherwise nothing would ever remove it.
NoLeak ==
  \A r \in Request : rec[r] # "none" =>
    \/ r \in marked
    \/ \E s \in Slot : slot[s] = r
    \/ \E q \in Request : owner[q].displaced = r

\* No request occupies two slots.
PlacedOnce ==
  \A s, t \in Slot : slot[s] = slot[t] /\ slot[s] # None => s = t

\* The table never contradicts what the code asserts about it.
NoFault == \A w \in Worker : ~At(w, "fault")

\* A reservation whose owner is durable keeps the slot for that request until
\* its placement has been completed, whoever crashes and whoever resumes it.
Exclusive ==
  \A s \in Slot :
    reserved[s] # NoReservation /\ ~Stale(s) =>
      slot[s] \in {reserved[s].req, reserved[s].displaced}

\* Retention is bounded: history beyond the table is at most one record per
\* placement under way.
Bounded ==
  Cardinality({r \in Request : rec[r] # "none" /\ r \notin marked})
    <= Cardinality(Slot) + Cardinality({s \in Slot : reserved[s] # NoReservation})

\* The table stays consistent under stopped and resumed placements: every record is within
\* reach of a bounded index, a request is in one slot, a durable owner keeps its slot,
\* history stays within the ring, and no writer meets a state the code reports as broken.
Consistent == NoLeak /\ PlacedOnce /\ Exclusive /\ Bounded /\ NoFault

\* A record is removed only after its successor is durable in its slot, and
\* never while it is active.
SuccessorFirst ==
  [][ \A r \in Request : rec[r] # "none" /\ rec'[r] = "none" =>
        /\ rec[r] = "settled" /\ r \notin marked
        /\ \E q \in Request \ {r} :
             /\ owner[q].displaced = r
             /\ slot[owner[q].slot] = q ]_vars

=============================================================================
