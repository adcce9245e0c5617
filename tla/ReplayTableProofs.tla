--------------------------- MODULE ReplayTableProofs ---------------------------
(***************************************************************************)
(* Proofs, for any number of requests, slots and workers, of what          *)
(* ReplayTable says of stopped and resumed placements.  They hold under    *)
(* one assumption: nobody takes a request's lock between the settlement    *)
(* and the retirement of its active marker (Undisturbed); without it they  *)
(* fail, as the runs with Exposed = TRUE show.                             *)
(***************************************************************************)
EXTENDS ReplayTable, FiniteSetTheorems, FunctionTheorems, TLAPS

Undisturbed == ~Exposed

(***************************************************************************)
(* The inductive invariant                                                 *)
(***************************************************************************)

\* Between its first lock and its return a worker holds the lock of the request it places;
\* while it writes a slot, the slot's; until it has retired it, the displaced request's.
Active == Step \ {"idle", "fault"}

InSlot == {"complete", "recheck", "reserve", "own", "write_slot", "retire", "retire_owner",
           "clear", "unreserve"}

InVictim == {"reserve", "own", "write_slot", "retire", "retire_owner"}

Placing == {"owned", "complete", "recheck", "write_slot", "retire", "retire_owner", "clear"}

Holds(w) ==
  /\ at[w].pc # "fault"
  /\ at[w].pc \in Active => at[w].req \in Request /\ reqLock[at[w].req] = w
  /\ at[w].pc \in InSlot \cup {"owned", "unmark"} => at[w].mine \in Owner
  /\ at[w].pc \in InSlot => slotLock[at[w].mine.slot] = w
  /\ at[w].pc \in InVictim /\ at[w].mine.displaced # None =>
       at[w].mine.displaced # at[w].req /\ reqLock[at[w].mine.displaced] = w

\* What the worker w, which places r into s and displaces v, knows of the files.
Knows(w, r, s, v) ==
  /\ at[w].pc = "supervise" => r \in marked
  /\ at[w].pc \in Active \ {"supervise"} => rec[r] = "settled"
  /\ at[w].pc = "start" => owner[r] # NoOwner \/ r \in marked
  /\ at[w].pc \in {"probe", "reserve", "own"} => owner[r] = NoOwner /\ r \in marked
  /\ at[w].pc \in Placing => owner[r] = [slot |-> s, displaced |-> v]
  /\ at[w].pc \in {"reserve", "own"} => slot[s] = v
  /\ at[w].pc = "reserve" => reserved[s] = NoReservation
  /\ at[w].pc \in {"own", "recheck", "write_slot", "retire", "retire_owner", "clear"} =>
       reserved[s] = [req |-> r, displaced |-> v]
  /\ at[w].pc \in {"retire", "retire_owner", "clear", "unreserve", "unmark"} => slot[s] = r
  /\ at[w].pc \in {"retire", "retire_owner", "clear"} => v # None
  /\ at[w].pc = "retire_owner" => rec[v] = "none" /\ owner[v].slot \in {None, s}
  /\ at[w].pc = "clear" => owner[v].slot # s
  /\ at[w].pc = "unreserve" => owner[r] = [slot |-> s, displaced |-> None]

Located == \A w \in Worker :
  Holds(w) /\ Knows(w, at[w].req, at[w].mine.slot, at[w].mine.displaced)

\* An active request is marked, and a marked one has its record.
Recorded ==
  \A r \in Request : /\ rec[r] = "active" => r \in marked
                     /\ r \in marked => rec[r] # "none"

\* A slot names a request whose owner names the slot.
Owned == \A s \in Slot : slot[s] # None => owner[slot[s]].slot = s

\* An owner that still has to retire another request has its reservation; one that has not
\* is placed, or reserves a free slot.
Reserving ==
  \A q \in Request : owner[q] # NoOwner =>
    LET s == owner[q].slot
        v == owner[q].displaced
    IN  /\ v # q
        /\ v # None => reserved[s] = [req |-> q, displaced |-> v]
        /\ v = None /\ reserved[s].req = q => reserved[s].displaced = None \/ slot[s] = q

\* The placement of q has yet to retire r.
Pending(q, r) ==
  /\ owner[q].displaced = r
  /\ \A w \in Worker : At(w, "clear") => at[w].req # q

\* A settled request without a marker is in its slot, or is displaced from it, or has lost
\* its owner and is yet to be retired.
Reached ==
  \A r \in Request : rec[r] # "none" /\ r \notin marked =>
    IF owner[r] = NoOwner THEN \E q \in Request : Pending(q, r)
    ELSE \/ slot[owner[r].slot] = r
         \/ \E q \in Request : owner[q] = [slot |-> owner[r].slot, displaced |-> r]

Files == Recorded /\ Owned /\ Reserving /\ Exclusive /\ Reached

IInv == TypeOK /\ Located /\ Files
-----------------------------------------------------------------------------
(***************************************************************************)
(* Frames                                                                  *)
(***************************************************************************)

\* A worker writes only what its locks cover or what nobody has locked, and takes a slot
\* only from a request it has locked, for an owner of a slot it has locked.
Guarded(w) ==
  /\ \A x \in Worker : x # w => at'[x] = at[x]
  /\ \A r \in Request : reqLock[r] \notin {w, None} =>
       /\ reqLock'[r] = reqLock[r] /\ rec'[r] = rec[r] /\ owner'[r] = owner[r]
       /\ r \in marked => r \in marked'
  /\ \A s \in Slot : slotLock[s] \notin {w, None} =>
       slotLock'[s] = slotLock[s] /\ slot'[s] = slot[s] /\ reserved'[s] = reserved[s]
  /\ \A s \in Slot : slot'[s] # slot[s] => slot[s] = None \/ reqLock[slot[s]] = w
  /\ \A r \in Request : owner'[r] # owner[r] =>
       owner'[r] = NoOwner \/ slotLock[owner'[r].slot] = w

\* What the others know stays true, as their locks cover it.
LEMMA OthersKnow ==
  ASSUME TypeOK, Located, NEW w, Guarded(w), NEW x \in Worker, x # w
  PROVE  Holds(x)' /\ Knows(x, at[x].req, at[x].mine.slot, at[x].mine.displaced)'
<1> PICK r, s, v : r = at[x].req /\ s = at[x].mine.slot /\ v = at[x].mine.displaced
  OBVIOUS
<1>1. at'[x] = at[x]
  BY DEF Guarded
<1>2. Holds(x) /\ Knows(x, r, s, v)
  BY DEF Located
<1>3. x # None
  BY ConstantsOK
<1>4. at[x].pc \in Active => r \in Request /\ reqLock[r] = x
  BY <1>2 DEF Holds
<1>5. at[x].pc \in Active =>
        /\ reqLock'[r] = x /\ rec'[r] = rec[r] /\ owner'[r] = owner[r]
        /\ r \in marked => r \in marked'
  BY <1>3, <1>4 DEF Guarded
<1>6. at[x].pc \in InSlot => s \in Slot /\ slotLock[s] = x
  BY <1>2 DEF Holds, Owner
<1>7. at[x].pc \in InSlot =>
        slotLock'[s] = x /\ slot'[s] = slot[s] /\ reserved'[s] = reserved[s]
  BY <1>3, <1>6 DEF Guarded
<1>8. at[x].pc \in InSlot /\ v # None => v \in Request
  BY <1>2 DEF Holds, Owner
<1>9. at[x].pc \in InVictim /\ v # None =>
        v # r /\ reqLock[v] = x /\ reqLock'[v] = x /\ rec'[v] = rec[v] /\ owner'[v] = owner[v]
  BY <1>2, <1>3, <1>8 DEF Holds, Guarded, InVictim, InSlot
<1>10. Holds(x)'
  BY <1>1, <1>2, <1>5, <1>7, <1>9 DEF Holds
<1>11. at[x].pc = "unmark" => slot'[s] = r
  <2> SUFFICES ASSUME at[x].pc = "unmark" PROVE slot'[s] = r
    OBVIOUS
  <2>1. slot[s] = r /\ s \in Slot /\ r \in Request /\ reqLock[r] = x
    BY <1>2, <1>4 DEF Knows, Holds, Active, Step, Owner
  <2> QED BY <2>1, ConstantsOK DEF Guarded
<1>12. at[x].pc = "clear" => owner'[v].slot # s
  <2> SUFFICES ASSUME at[x].pc = "clear" PROVE owner'[v].slot # s
    OBVIOUS
  <2>1. owner[v].slot # s /\ v \in Request /\ s \in Slot /\ slotLock[s] = x
    BY <1>2, <1>6, <1>8 DEF Knows, InSlot
  <2>2. NoOwner.slot # s
    BY <2>1, ConstantsOK DEF NoOwner
  <2> QED BY <2>1, <2>2 DEF Guarded
<1>13. Knows(x, r, s, v)'
  BY <1>1, <1>2, <1>5, <1>7, <1>9, <1>11, <1>12
     DEF Knows, Active, Step, InSlot, InVictim, Placing
<1>14. at'[x].req = r /\ at'[x].mine.slot = s /\ at'[x].mine.displaced = v
  BY <1>1
<1> QED BY <1>10, <1>13, <1>14 DEF Knows

\* A step of one worker keeps the invariant if it suits that worker and the files.
LEMMA WorkerStep ==
  ASSUME IInv, NEW w \in Worker, Guarded(w), TypeOK', Files',
         Holds(w)', Knows(w, at[w].req, at[w].mine.slot, at[w].mine.displaced)'
  PROVE  IInv'
<1>1. \A x \in Worker : x # w =>
        Holds(x)' /\ Knows(x, at[x].req, at[x].mine.slot, at[x].mine.displaced)'
  BY OthersKnow DEF IInv
<1>2. Located'
  BY <1>1 DEF Located
<1> QED BY <1>2 DEF IInv

\* What the invariant says of the files does not change with a step that writes none.
LEMMA QuietFiles ==
  ASSUME Files, NEW w, UNCHANGED files, \A x \in Worker : x # w => at'[x] = at[x],
         at'[w].pc # "clear"
  PROVE  Files'
<1>1. Recorded' /\ Owned' /\ Reserving' /\ Exclusive'
  BY DEF Files, files, Recorded, Owned, Reserving, Exclusive, Stale
<1>2. ASSUME NEW q \in Request, NEW r \in Request, Pending(q, r)
      PROVE  Pending(q, r)'
  BY <1>2 DEF Pending, At, files
<1>3. Reached'
  BY <1>2 DEF Files, Reached, files
<1> QED BY <1>1, <1>3 DEF Files

\* Where a worker is and what it has read, after it moves.
LEMMA Moved ==
  ASSUME TypeOK, NEW w \in Worker, NEW l \in Step, Move(w, l)
  PROVE  /\ at' \in [Worker -> Local] /\ at'[w].pc = l /\ at'[w].req = at[w].req
         /\ at'[w].mine = at[w].mine /\ at'[w].todo = at[w].todo
         /\ \A x \in Worker : x # w => at'[x] = at[x]
<1>1. at'[w] = [at[w] EXCEPT !.pc = l] /\ \A x \in Worker : x # w => at'[x] = at[x]
  BY DEF Move, TypeOK
<1>2. at[w] \in Local
  BY DEF TypeOK
<1>3. at'[w] \in Local
  BY <1>1, <1>2 DEF Local
<1>4. at' = [at EXCEPT ![w] = at'[w]]
  BY <1>1 DEF Move, TypeOK
<1>5. at' \in [Worker -> Local]
  BY <1>3, <1>4 DEF TypeOK
<1> QED BY <1>1, <1>2, <1>5 DEF Local

\* A worker that returns or dies holds nothing and knows nothing.
LEMMA Left ==
  ASSUME TypeOK, NEW w \in Worker, Leave(w)
  PROVE  /\ at' \in [Worker -> Local] /\ at'[w] = Idle
         /\ \A x \in Worker : x # w => at'[x] = at[x]
         /\ reqLock' \in [Request -> Worker \cup {None}]
         /\ slotLock' \in [Slot -> Worker \cup {None}]
         /\ \A r \in Request : reqLock[r] \notin {w, None} => reqLock'[r] = reqLock[r]
         /\ \A s \in Slot : slotLock[s] \notin {w, None} => slotLock'[s] = slotLock[s]
         /\ Holds(w)' /\ Knows(w, at[w].req, at[w].mine.slot, at[w].mine.displaced)'
<1>1. Idle \in Local
  BY DEF Idle, Local, Step, NoOwner
<1>2. at' = [at EXCEPT ![w] = Idle]
  BY DEF Leave
<1>3. at' \in [Worker -> Local] /\ at'[w] = Idle /\ \A x \in Worker : x # w => at'[x] = at[x]
  BY <1>1, <1>2 DEF TypeOK
<1>4. /\ reqLock' \in [Request -> Worker \cup {None}]
      /\ slotLock' \in [Slot -> Worker \cup {None}]
      /\ \A r \in Request : reqLock[r] \notin {w, None} => reqLock'[r] = reqLock[r]
      /\ \A s \in Slot : slotLock[s] \notin {w, None} => slotLock'[s] = slotLock[s]
  BY DEF Leave, Without, TypeOK
<1>5. Idle.pc = "idle"
  BY DEF Idle
<1>6. Holds(w)'
  BY <1>3, <1>5 DEF Holds, Active, InSlot, InVictim
<1>7. Knows(w, at[w].req, at[w].mine.slot, at[w].mine.displaced)'
  BY <1>3, <1>5 DEF Knows, Active, Placing
<1> QED BY <1>3, <1>4, <1>6, <1>7

\* To return with the files as they are is always possible.
LEMMA LeaveStep ==
  ASSUME IInv, NEW w \in Worker, Leave(w), UNCHANGED files
  PROVE  IInv'
<1>1. TypeOK'
  BY Left DEF IInv, TypeOK, files
<1>2. Guarded(w)
  BY Left DEF IInv, Guarded, files
<1>3. Idle.pc # "clear"
  BY DEF Idle
<1>4. Files'
  BY <1>3, Left, QuietFiles DEF IInv
<1> QED BY <1>1, <1>2, <1>4, Left, WorkerStep DEF IInv

\* A step that writes no file needs only suit its worker.
LEMMA QuietStep ==
  ASSUME IInv, NEW w \in Worker, UNCHANGED files,
         at' \in [Worker -> Local], \A x \in Worker : x # w => at'[x] = at[x],
         at'[w].pc # "clear",
         reqLock' \in [Request -> Worker \cup {None}],
         slotLock' \in [Slot -> Worker \cup {None}],
         \A r \in Request : reqLock[r] \notin {w, None} => reqLock'[r] = reqLock[r],
         \A s \in Slot : slotLock[s] \notin {w, None} => slotLock'[s] = slotLock[s],
         Holds(w)', Knows(w, at[w].req, at[w].mine.slot, at[w].mine.displaced)'
  PROVE  IInv'
<1>1. TypeOK'
  BY DEF IInv, TypeOK, files
<1>2. Guarded(w)
  BY DEF Guarded, files
<1>3. Files'
  BY QuietFiles DEF IInv
<1> QED BY <1>1, <1>2, <1>3, WorkerStep

\* What a worker under way has locked and read.
LEMMA Standing ==
  ASSUME IInv, NEW w \in Worker, at[w].pc \in Active
  PROVE  /\ Holds(w) /\ Knows(w, at[w].req, at[w].mine.slot, at[w].mine.displaced)
         /\ at[w] \in Local /\ at[w].req \in Request /\ reqLock[at[w].req] = w
         /\ at[w].mine \in Owner \cup {NoOwner}
         /\ at[w].pc \in InSlot \cup {"owned", "unmark"} =>
              /\ at[w].mine \in Owner
              /\ at[w].mine.slot \in Slot /\ at[w].mine.displaced \in Request \cup {None}
         /\ w # None
<1>1. at[w] \in Local /\ at[w].mine \in Owner \cup {NoOwner}
  BY DEF IInv, TypeOK, Local
<1>2. Holds(w) /\ Knows(w, at[w].req, at[w].mine.slot, at[w].mine.displaced)
  BY DEF IInv, Located
<1>3. at[w].mine \in Owner =>
        at[w].mine.slot \in Slot /\ at[w].mine.displaced \in Request \cup {None}
  BY DEF Owner
<1> QED BY <1>1, <1>2, <1>3, ConstantsOK DEF Holds

LEMMA StartStep ==
  ASSUME IInv, NEW w \in Worker, Start(w)
  PROVE  IInv'
<1> PICK r : r = at[w].req
  OBVIOUS
<1> PICK o : o = owner[r]
  OBVIOUS
<1>1. at[w].pc = "start"
  BY DEF Start, At
<1>2. /\ Knows(w, r, at[w].mine.slot, at[w].mine.displaced)
      /\ at[w] \in Local /\ r \in Request /\ reqLock[r] = w
  BY <1>1, Standing DEF Active, Step
<1>3. o \in Owner \cup {NoOwner} /\ NoOwner \notin Owner
  BY <1>2, ConstantsOK DEF IInv, TypeOK, Owner, NoOwner
<1>4. rec[r] = "settled" /\ (o = NoOwner => r \in marked)
  BY <1>1, <1>2 DEF Knows, Active, Step
<1>5. /\ at'[w] = [at[w] EXCEPT !.pc = IF o = NoOwner THEN "probe" ELSE "owned",
                                !.mine = o, !.todo = IF o = NoOwner THEN Slot ELSE {}]
      /\ at' = [at EXCEPT ![w] = at'[w]]
      /\ \A x \in Worker : x # w => at'[x] = at[x]
  BY DEF Start, IInv, TypeOK
<1>6. at'[w] \in Local
  BY <1>2, <1>3, <1>5 DEF Local, Step
<1>7. at' \in [Worker -> Local]
  BY <1>5, <1>6 DEF IInv, TypeOK
<1>8. /\ at'[w].pc = IF o = NoOwner THEN "probe" ELSE "owned"
      /\ at'[w].req = r /\ at'[w].mine = o
  BY <1>2, <1>5 DEF Local
<1>9. UNCHANGED <<files, reqLock, slotLock>>
  BY DEF Start
<1>10. Holds(w)'
  BY <1>2, <1>3, <1>8, <1>9 DEF Holds, Active, InSlot, InVictim
<1>11. o # NoOwner => o = [slot |-> o.slot, displaced |-> o.displaced]
  BY <1>3 DEF Owner
<1>12. Knows(w, at[w].req, at[w].mine.slot, at[w].mine.displaced)'
  BY <1>4, <1>8, <1>9, <1>11 DEF Knows, Active, Placing, files
<1> QED BY <1>5, <1>7, <1>8, <1>9, <1>10, <1>12, QuietStep DEF IInv, TypeOK

LEMMA LockOwnedStep ==
  ASSUME IInv, NEW w \in Worker, LockOwned(w)
  PROVE  IInv'
<1> PICK r, s, v : r = at[w].req /\ s = at[w].mine.slot /\ v = at[w].mine.displaced
  OBVIOUS
<1>1. at[w].pc = "owned" /\ UNCHANGED files
  BY DEF LockOwned, At
<1>2. /\ Holds(w) /\ Knows(w, r, s, v) /\ r \in Request /\ reqLock[r] = w
      /\ at[w].mine \in Owner /\ s \in Slot
  BY <1>1, Standing DEF Active, Step
<1>3. CASE Leave(w)
  BY <1>1, <1>3, LeaveStep
<1>4. CASE /\ slotLock[s] = None /\ slotLock' = [slotLock EXCEPT ![s] = w]
           /\ Move(w, "complete") /\ UNCHANGED reqLock
  <2>1. /\ at' \in [Worker -> Local] /\ at'[w].pc = "complete" /\ at'[w].req = r
        /\ at'[w].mine = at[w].mine /\ \A x \in Worker : x # w => at'[x] = at[x]
    BY <1>4, Moved DEF IInv, Step
  <2>2. /\ slotLock' \in [Slot -> Worker \cup {None}] /\ slotLock'[s] = w
        /\ \A t \in Slot : slotLock[t] \notin {w, None} => slotLock'[t] = slotLock[t]
    BY <1>2, <1>4 DEF IInv, TypeOK
  <2>3. Holds(w)'
    BY <1>2, <1>4, <2>1, <2>2 DEF Holds, Active, InSlot, InVictim
  <2>4. Knows(w, at[w].req, at[w].mine.slot, at[w].mine.displaced)'
    BY <1>1, <1>2, <2>1 DEF Knows, Active, Step, Placing, files
  <2> QED BY <1>1, <1>4, <2>1, <2>2, <2>3, <2>4, QuietStep DEF IInv, TypeOK
<1> QED BY <1>3, <1>4 DEF LockOwned

LEMMA NextPassStep ==
  ASSUME IInv, NEW w \in Worker, NextPass(w)
  PROVE  IInv'
<1> PICK r : r = at[w].req
  OBVIOUS
<1>1. at[w].pc = "probe" /\ UNCHANGED files
  BY DEF NextPass, At
<1>2. /\ Holds(w) /\ Knows(w, r, at[w].mine.slot, at[w].mine.displaced)
      /\ at[w] \in Local /\ r \in Request /\ reqLock[r] = w
  BY <1>1, Standing DEF Active, Step
<1>3. CASE Leave(w)
  BY <1>1, <1>3, LeaveStep
<1>4. CASE /\ at' = [at EXCEPT ![w].todo = at[w].full, ![w].full = {}, ![w].evict = TRUE]
           /\ Unlocked
  <2>1. /\ at'[w] = [at[w] EXCEPT !.todo = at[w].full, !.full = {}, !.evict = TRUE]
        /\ at' = [at EXCEPT ![w] = at'[w]]
        /\ \A x \in Worker : x # w => at'[x] = at[x]
    BY <1>4 DEF IInv, TypeOK
  <2>2. at'[w] \in Local /\ at'[w].pc = "probe" /\ at'[w].req = r
    BY <1>1, <1>2, <2>1 DEF Local
  <2>3. at' \in [Worker -> Local]
    BY <2>1, <2>2 DEF IInv, TypeOK
  <2>4. Holds(w)'
    BY <1>2, <1>4, <2>2 DEF Holds, Active, InSlot, InVictim, Unlocked
  <2>5. Knows(w, at[w].req, at[w].mine.slot, at[w].mine.displaced)'
    BY <1>1, <1>2, <2>2 DEF Knows, Active, Step, Placing, files
  <2> QED BY <1>1, <1>4, <2>1, <2>2, <2>3, <2>4, <2>5, QuietStep
          DEF IInv, TypeOK, Unlocked
<1> QED BY <1>3, <1>4 DEF NextPass

LEMMA RetryStep ==
  ASSUME IInv, NEW w \in Worker, NEW r \in Request, Retry(w, r)
  PROVE  IInv'
<1>1. /\ reqLock[r] = None /\ rec[r] = "settled" /\ (owner[r] # NoOwner \/ r \in marked)
      /\ UNCHANGED files /\ UNCHANGED slotLock
  BY DEF Retry
<1>2. /\ at'[w] = [Idle EXCEPT !.pc = "start", !.req = r]
      /\ at' = [at EXCEPT ![w] = at'[w]]
      /\ \A x \in Worker : x # w => at'[x] = at[x]
  BY DEF Retry, IInv, TypeOK
<1>3. at'[w] \in Local /\ at'[w].pc = "start" /\ at'[w].req = r
  BY <1>2 DEF Idle, Local, Step, NoOwner
<1>4. at' \in [Worker -> Local]
  BY <1>2, <1>3 DEF IInv, TypeOK
<1>5. /\ reqLock' \in [Request -> Worker \cup {None}] /\ reqLock'[r] = w
      /\ \A q \in Request : reqLock[q] \notin {w, None} => reqLock'[q] = reqLock[q]
  BY <1>1 DEF Retry, IInv, TypeOK
<1>6. Holds(w)'
  BY <1>3, <1>5 DEF Holds, Active, InSlot, InVictim
<1>7. Knows(w, at[w].req, at[w].mine.slot, at[w].mine.displaced)'
  BY <1>1, <1>3 DEF Knows, Active, Placing, files
<1> QED BY <1>1, <1>2, <1>3, <1>4, <1>5, <1>6, <1>7, QuietStep DEF IInv, TypeOK

-----------------------------------------------------------------------------
(***************************************************************************)
(* The life of a request                                                   *)
(***************************************************************************)

LEMMA AdmitStep ==
  ASSUME IInv, NEW w \in Worker, NEW r \in Request, Admit(w, r)
  PROVE  IInv'
<1>1. /\ reqLock[r] = None /\ rec[r] = "none" /\ marked' = marked \cup {r}
      /\ rec' = [rec EXCEPT ![r] = "active"]
      /\ UNCHANGED <<owner, slot, reserved, slotLock>>
  BY DEF Admit
<1>2. /\ at'[w] = [Idle EXCEPT !.pc = "supervise", !.req = r]
      /\ at' = [at EXCEPT ![w] = at'[w]]
      /\ \A x \in Worker : x # w => at'[x] = at[x]
  BY DEF Admit, IInv, TypeOK
<1>3. at'[w] \in Local /\ at'[w].pc = "supervise" /\ at'[w].req = r
  BY <1>2 DEF Idle, Local, Step, NoOwner
<1>4. at' \in [Worker -> Local]
  BY <1>2, <1>3 DEF IInv, TypeOK
<1>5. /\ reqLock' \in [Request -> Worker \cup {None}] /\ reqLock'[r] = w
      /\ \A q \in Request : reqLock[q] \notin {w, None} => reqLock'[q] = reqLock[q]
  BY DEF Admit, IInv, TypeOK
<1>6. /\ rec' \in [Request -> {"none", "active", "settled"}]
      /\ rec'[r] = "active" /\ \A q \in Request : q # r => rec'[q] = rec[q]
  BY <1>1 DEF IInv, TypeOK
<1>7. TypeOK'
  BY <1>1, <1>4, <1>5, <1>6 DEF IInv, TypeOK
<1>8. Guarded(w)
  BY <1>1, <1>2, <1>5, <1>6 DEF Guarded
<1>9. Holds(w)'
  BY <1>3, <1>5 DEF Holds, Active, InSlot, InVictim
<1>10. Knows(w, at[w].req, at[w].mine.slot, at[w].mine.displaced)'
  BY <1>1, <1>3 DEF Knows, Active, Placing
<1>11. Recorded' /\ Owned' /\ Reserving' /\ Exclusive'
  BY <1>1, <1>6 DEF IInv, Files, Recorded, Owned, Reserving, Exclusive, Stale
<1>12. ASSUME NEW q \in Request, NEW p \in Request, Pending(q, p)
       PROVE  Pending(q, p)'
  BY <1>1, <1>2, <1>3, <1>12 DEF Pending, At
<1>13. Reached'
  BY <1>1, <1>6, <1>12 DEF IInv, Files, Reached
<1> QED BY <1>7, <1>8, <1>9, <1>10, <1>11, <1>13, WorkerStep DEF Files

LEMMA FinalizeStep ==
  ASSUME Undisturbed, IInv, NEW w \in Worker, Finalize(w)
  PROVE  IInv'
<1> PICK r : r = at[w].req
  OBVIOUS
<1>1. /\ at[w].pc = "supervise" /\ rec' = [rec EXCEPT ![r] = "settled"]
      /\ Move(w, "start") /\ reqLock' = reqLock
      /\ UNCHANGED <<marked, owner, slot, reserved, slotLock>>
  BY DEF Finalize, At, Undisturbed
<1>2. /\ Holds(w) /\ Knows(w, r, at[w].mine.slot, at[w].mine.displaced)
      /\ r \in Request /\ reqLock[r] = w
  BY <1>1, Standing DEF Active, Step
<1>3. /\ at' \in [Worker -> Local] /\ at'[w].pc = "start" /\ at'[w].req = r
      /\ \A x \in Worker : x # w => at'[x] = at[x]
  BY <1>1, Moved DEF IInv, Step
<1>4. /\ rec' \in [Request -> {"none", "active", "settled"}]
      /\ rec'[r] = "settled" /\ \A q \in Request : q # r => rec'[q] = rec[q]
  BY <1>1, <1>2 DEF IInv, TypeOK
<1>5. r \in marked
  BY <1>1, <1>2 DEF Knows
<1>6. TypeOK'
  BY <1>1, <1>3, <1>4 DEF IInv, TypeOK
<1>7. Guarded(w)
  BY <1>1, <1>2, <1>3, <1>4 DEF Guarded
<1>8. Holds(w)'
  BY <1>1, <1>2, <1>3 DEF Holds, Active, Step, InSlot, InVictim
<1>9. Knows(w, at[w].req, at[w].mine.slot, at[w].mine.displaced)'
  BY <1>1, <1>3, <1>4, <1>5 DEF Knows, Active, Placing
<1>10. Recorded' /\ Owned' /\ Reserving' /\ Exclusive'
  BY <1>1, <1>4, <1>5 DEF IInv, Files, Recorded, Owned, Reserving, Exclusive, Stale
<1>11. ASSUME NEW q \in Request, NEW p \in Request, Pending(q, p)
       PROVE  Pending(q, p)'
  BY <1>1, <1>3, <1>11 DEF Pending, At
<1>12. Reached'
  BY <1>1, <1>4, <1>5, <1>11 DEF IInv, Files, Reached
<1> QED BY <1>6, <1>7, <1>8, <1>9, <1>10, <1>12, WorkerStep DEF Files

\* A retry settles only what no worker under way has locked.
LEMMA ReconcileStep ==
  ASSUME IInv, NEW r \in Request, Reconcile(r)
  PROVE  IInv'
<1>1. /\ rec[r] = "active" /\ reqLock[r] = None /\ rec' = [rec EXCEPT ![r] = "settled"]
      /\ UNCHANGED <<marked, owner, slot, reserved, reqLock, slotLock, at>>
  BY DEF Reconcile
<1>2. /\ rec' \in [Request -> {"none", "active", "settled"}]
      /\ rec'[r] = "settled" /\ \A q \in Request : q # r => rec'[q] = rec[q]
  BY <1>1 DEF IInv, TypeOK
<1>3. TypeOK'
  BY <1>1, <1>2 DEF IInv, TypeOK
<1>4. ASSUME NEW w \in Worker
      PROVE  Holds(w)' /\ Knows(w, at[w].req, at[w].mine.slot, at[w].mine.displaced)'
  <2> PICK q, s, v : q = at[w].req /\ s = at[w].mine.slot /\ v = at[w].mine.displaced
    OBVIOUS
  <2>1. Holds(w) /\ Knows(w, q, s, v) /\ w # None
    BY ConstantsOK DEF IInv, Located
  <2>2. Holds(w)'
    BY <1>1, <2>1 DEF Holds
  <2>3. at[w].pc \in Active => rec'[q] = rec[q]
    BY <1>1, <1>2, <2>1 DEF Holds
  <2>4. at[w].pc = "retire_owner" => rec'[v] = "none"
    <3> SUFFICES ASSUME at[w].pc = "retire_owner" PROVE rec'[v] = "none"
      OBVIOUS
    <3>1. v \in Request /\ rec[v] = "none"
      BY <2>1 DEF Knows, Holds, InSlot, Owner
    <3> QED BY <1>1, <1>2, <3>1
  <2>5. Knows(w, q, s, v)'
    BY <1>1, <2>1, <2>3, <2>4 DEF Knows
  <2> QED BY <1>1, <2>2, <2>5 DEF Knows
<1>5. Located'
  BY <1>4 DEF Located
<1>6. Recorded' /\ Owned' /\ Reserving' /\ Exclusive'
  BY <1>1, <1>2 DEF IInv, Files, Recorded, Owned, Reserving, Exclusive, Stale
<1>7. r \in marked
  BY <1>1 DEF IInv, Files, Recorded
<1>8. Reached'
  BY <1>1, <1>2, <1>7 DEF IInv, Files, Reached, Pending, At
<1> QED BY <1>3, <1>5, <1>6, <1>8 DEF IInv, Files

LEMMA CrashStep ==
  ASSUME IInv, NEW w \in Worker, Crash(w)
  PROVE  IInv'
BY LeaveStep DEF Crash

-----------------------------------------------------------------------------
(***************************************************************************)
(* Completing a placement that has an owner                                *)
(***************************************************************************)

\* A worker that has reserved a slot for its durable owner finds in it itself or what it
\* displaces.
LEMMA Reserved ==
  ASSUME IInv, NEW w \in Worker, NEW r \in Request, NEW s \in Slot, NEW v,
         owner[r] = [slot |-> s, displaced |-> v],
         reserved[s] = [req |-> r, displaced |-> v]
  PROVE  slot[s] \in {r, v}
<1>1. reserved[s] # NoReservation
  BY ConstantsOK DEF NoReservation
<1>2. ~Stale(s)
  BY DEF Stale
<1> QED BY <1>1, <1>2 DEF IInv, Files, Exclusive

\* In Complete, the branches that would contradict the table are never taken.
LEMMA Completing ==
  ASSUME IInv, NEW w \in Worker, at[w].pc = "complete",
         NEW r, NEW s, NEW v,
         r = at[w].req, s = at[w].mine.slot, v = at[w].mine.displaced
  PROVE  /\ Holds(w) /\ Knows(w, r, s, v) /\ r \in Request /\ reqLock[r] = w
         /\ at[w].mine \in Owner /\ s \in Slot /\ v \in Request \cup {None}
         /\ slotLock[s] = w /\ rec[r] = "settled"
         /\ owner[r] = [slot |-> s, displaced |-> v] /\ v # r
         /\ reserved[s] \in Reservation \cup {NoReservation}
         /\ v # None => reserved[s] = [req |-> r, displaced |-> v]
         /\ slot[s] # r /\ reserved[s].req = r => reserved[s] = [req |-> r, displaced |-> v]
<1>1. /\ Holds(w) /\ Knows(w, r, s, v) /\ r \in Request /\ reqLock[r] = w
      /\ at[w].mine \in Owner /\ s \in Slot /\ v \in Request \cup {None}
  BY Standing DEF Active, Step, InSlot
<1>2. slotLock[s] = w /\ rec[r] = "settled" /\ owner[r] = [slot |-> s, displaced |-> v]
  BY <1>1 DEF Holds, Knows, Active, Step, InSlot, Placing
<1>3. owner[r] # NoOwner
  BY <1>1, <1>2, ConstantsOK DEF NoOwner
<1>4. /\ v # r
      /\ v # None => reserved[s] = [req |-> r, displaced |-> v]
      /\ v = None /\ reserved[s].req = r => reserved[s].displaced = None \/ slot[s] = r
  BY <1>1, <1>2, <1>3 DEF IInv, Files, Reserving
<1>5. reserved[s] \in Reservation \cup {NoReservation}
  BY <1>1 DEF IInv, TypeOK
<1>6. slot[s] # r /\ reserved[s].req = r => reserved[s] = [req |-> r, displaced |-> v]
  <2> SUFFICES ASSUME slot[s] # r, reserved[s].req = r
               PROVE  reserved[s] = [req |-> r, displaced |-> v]
    OBVIOUS
  <2>1. reserved[s] \in Reservation
    BY <1>1, <1>5, ConstantsOK DEF NoReservation
  <2>2. reserved[s] = [req |-> reserved[s].req, displaced |-> reserved[s].displaced]
    BY <2>1 DEF Reservation
  <2> QED BY <1>4, <2>2
<1> QED BY <1>1, <1>2, <1>4, <1>5, <1>6

\* To move on with the files as they are, the locks being kept.
LEMMA MoveStep ==
  ASSUME IInv, NEW w \in Worker, NEW l \in Active \ {"clear"}, Move(w, l),
         UNCHANGED <<files, reqLock, slotLock>>, at[w].pc \in Active,
         l \in InSlot \cup {"owned", "unmark"} => at[w].pc \in InSlot \cup {"owned", "unmark"},
         l \in InSlot => at[w].pc \in InSlot,
         l \in InVictim /\ at[w].mine.displaced # None =>
           /\ at[w].mine.displaced # at[w].req
           /\ reqLock[at[w].mine.displaced] = w,
         Knows(w, at[w].req, at[w].mine.slot, at[w].mine.displaced)'
  PROVE  IInv'
<1>1. /\ at' \in [Worker -> Local] /\ at'[w].pc = l /\ at'[w].req = at[w].req
      /\ at'[w].mine = at[w].mine /\ \A x \in Worker : x # w => at'[x] = at[x]
  BY Moved DEF IInv, Active
<1>2. Holds(w)
  BY DEF IInv, Located
<1>3. Holds(w)'
  BY <1>1, <1>2 DEF Holds, Active
<1> QED BY <1>1, <1>3, QuietStep DEF IInv, TypeOK

\* Forfeit: the slot went to another request, so nothing of this placement is left.
LEMMA ForfeitStep ==
  ASSUME IInv, NEW w \in Worker, at[w].pc = "complete", ~Published(w), ~Reserves(w),
         Forfeit(w)
  PROVE  IInv'
<1> PICK r, s, v : r = at[w].req /\ s = at[w].mine.slot /\ v = at[w].mine.displaced
  OBVIOUS
<1>1. /\ r \in Request /\ reqLock[r] = w /\ s \in Slot /\ v = None /\ slot[s] # r
      /\ owner[r] = [slot |-> s, displaced |-> None] /\ rec[r] = "settled"
  <2>1. slot[s] # r /\ reserved[s].req # r
    BY DEF Published, Reserves
  <2>2. /\ r \in Request /\ reqLock[r] = w /\ s \in Slot /\ rec[r] = "settled"
        /\ owner[r] = [slot |-> s, displaced |-> v]
        /\ v # None => reserved[s] = [req |-> r, displaced |-> v]
    BY Completing
  <2>3. v = None
    BY <2>1, <2>2
  <2> QED BY <2>1, <2>2, <2>3
<1>2. /\ owner' = [owner EXCEPT ![r] = NoOwner] /\ Leave(w)
      /\ UNCHANGED <<rec, marked, slot, reserved>>
  BY DEF Forfeit
<1>3. /\ owner' \in [Request -> Owner \cup {NoOwner}] /\ owner'[r] = NoOwner
      /\ \A q \in Request : q # r => owner'[q] = owner[q]
  BY <1>1, <1>2 DEF IInv, TypeOK
<1>4. TypeOK'
  BY <1>2, <1>3, Left DEF IInv, TypeOK
<1>5. Guarded(w)
  BY <1>1, <1>2, <1>3, Left DEF IInv, Guarded
<1>6. Recorded' /\ Reserving'
  BY <1>2, <1>3 DEF IInv, Files, Recorded, Reserving
<1>7. Owned'
  <2> SUFFICES ASSUME NEW t \in Slot, slot[t] # None PROVE owner'[slot[t]].slot = t
    BY <1>2 DEF Owned
  <2>1. owner[slot[t]].slot = t /\ slot[t] \in Request
    BY DEF IInv, Files, Owned, TypeOK
  <2>2. slot[t] # r
    BY <1>1, <2>1
  <2> QED BY <1>3, <2>1, <2>2
<1>8. Exclusive'
  <2> SUFFICES ASSUME NEW t \in Slot, reserved[t] # NoReservation, ~Stale(t)'
               PROVE  slot[t] \in {reserved[t].req, reserved[t].displaced}
    BY <1>2 DEF Exclusive
  <2>1. /\ reserved[t] \in Reservation /\ reserved[t].req \in Request
        /\ owner'[reserved[t].req] = [slot |-> t, displaced |-> reserved[t].displaced]
    BY <1>2 DEF Stale, IInv, TypeOK, Reservation
  <2>2. reserved[t].req # r
    BY <1>3, <2>1, ConstantsOK DEF NoOwner
  <2>3. ~Stale(t)
    BY <1>3, <2>1, <2>2 DEF Stale
  <2> QED BY <2>3 DEF IInv, Files, Exclusive
<1>9. ASSUME NEW q \in Request, NEW p \in Request, Pending(q, p)
      PROVE  Pending(q, p)'
  <2>1. q # r
    BY <1>1, <1>9, ConstantsOK DEF Pending
  <2>2. at'[w].pc # "clear" /\ \A x \in Worker : x # w => at'[x] = at[x]
    BY <1>2, Left DEF IInv, Idle
  <2> QED BY <1>3, <1>9, <2>1, <2>2 DEF Pending, At
<1>10. Reached'
  <2> SUFFICES ASSUME NEW p \in Request, rec[p] # "none", p \notin marked
               PROVE  IF owner'[p] = NoOwner THEN \E q \in Request : Pending(q, p)'
                      ELSE \/ slot[owner'[p].slot] = p
                           \/ \E q \in Request : owner'[q] = [slot |-> owner'[p].slot,
                                                             displaced |-> p]
    BY <1>2 DEF Reached
  <2>1. IF owner[p] = NoOwner THEN \E q \in Request : Pending(q, p)
        ELSE \/ slot[owner[p].slot] = p
             \/ \E q \in Request : owner[q] = [slot |-> owner[p].slot, displaced |-> p]
    BY DEF IInv, Files, Reached
  <2>2. CASE p = r
    <3>1. owner[r] # NoOwner
      BY <1>1, ConstantsOK DEF NoOwner
    <3>2. PICK q \in Request : owner[q] = [slot |-> s, displaced |-> r]
      BY <1>1, <2>1, <2>2, <3>1
    <3>3. ASSUME NEW x \in Worker, At(x, "clear"), at[x].req = q PROVE FALSE
      <4> PICK t, u : t = at[x].mine.slot /\ u = at[x].mine.displaced
        OBVIOUS
      <4>1. Knows(x, q, t, u)
        BY <3>3 DEF IInv, Located
      <4>2. owner[q] = [slot |-> t, displaced |-> u] /\ owner[u].slot # t
        BY <3>3, <4>1 DEF Knows, At, Placing
      <4> QED BY <1>1, <3>2, <4>2
    <3>4. Pending(q, r)
      BY <3>2, <3>3 DEF Pending
    <3> QED BY <1>3, <1>9, <2>2, <3>4
  <2>3. CASE p # r
    <3>1. owner'[p] = owner[p]
      BY <1>3, <2>3
    <3>2. ASSUME NEW q \in Request, owner[q] = [slot |-> owner[p].slot, displaced |-> p]
          PROVE  owner'[q] = owner[q]
      BY <1>1, <1>3, <3>2, ConstantsOK
    <3> QED BY <1>9, <2>1, <3>1, <3>2
  <2> QED BY <2>2, <2>3
<1>11. Holds(w)' /\ Knows(w, at[w].req, at[w].mine.slot, at[w].mine.displaced)'
  BY <1>2, Left DEF IInv
<1> QED BY <1>4, <1>5, <1>6, <1>7, <1>8, <1>10, <1>11, WorkerStep DEF Files

\* To reserve the slot again, which is free, for the durable owner.
LEMMA ReserveAgain ==
  ASSUME IInv, NEW w \in Worker, At(w, "complete"),
         reserved[at[w].mine.slot] = NoReservation,
         ~(Published(w) /\ at[w].mine.displaced = None),
         Published(w) \/ slot[at[w].mine.slot] = at[w].mine.displaced,
         reserved' = [reserved EXCEPT ![at[w].mine.slot] =
                        [req |-> at[w].req, displaced |-> at[w].mine.displaced]],
         Move(w, "recheck"),
         UNCHANGED <<rec, marked, owner, slot, reqLock, slotLock>>
  PROVE  IInv'
<1> PICK r, s, v : r = at[w].req /\ s = at[w].mine.slot /\ v = at[w].mine.displaced
  OBVIOUS
<1>1. /\ Holds(w) /\ r \in Request /\ reqLock[r] = w /\ s \in Slot /\ slotLock[s] = w
      /\ owner[r] = [slot |-> s, displaced |-> v] /\ rec[r] = "settled"
      /\ v # None => reserved[s] = [req |-> r, displaced |-> v]
      /\ at[w].mine \in Owner /\ v \in Request \cup {None}
  BY Completing DEF At
<1>2. v = None
  BY <1>1, ConstantsOK DEF NoReservation
<1>3. slot[s] = None
  BY <1>2 DEF Published
<1>4. /\ at' \in [Worker -> Local] /\ at'[w].pc = "recheck" /\ at'[w].req = r
      /\ at'[w].mine = at[w].mine /\ \A x \in Worker : x # w => at'[x] = at[x]
  BY Moved DEF IInv, Step
<1>5. /\ reserved' \in [Slot -> Reservation \cup {NoReservation}]
      /\ reserved'[s] = [req |-> r, displaced |-> None]
      /\ \A t \in Slot : t # s => reserved'[t] = reserved[t]
  BY <1>1, <1>2 DEF IInv, TypeOK, Reservation
<1>6. TypeOK'
  BY <1>4, <1>5 DEF IInv, TypeOK
<1>7. Guarded(w)
  BY <1>1, <1>4, <1>5 DEF Guarded
<1>8. Holds(w)'
  BY <1>1, <1>4, at[w].pc = "complete" DEF Holds, Active, Step, InSlot, InVictim, At
<1>9. Knows(w, at[w].req, at[w].mine.slot, at[w].mine.displaced)'
  BY <1>1, <1>2, <1>4, <1>5 DEF Knows, Active, Placing
<1>10. Recorded' /\ Owned'
  BY DEF IInv, Files, Recorded, Owned
<1>11. Reserving'
  <2> SUFFICES ASSUME NEW q \in Request, owner[q] # NoOwner, NEW t, NEW u,
                      t = owner[q].slot, u = owner[q].displaced
               PROVE  /\ u # q
                      /\ u # None => reserved'[t] = [req |-> q, displaced |-> u]
                      /\ u = None /\ reserved'[t].req = q =>
                           reserved'[t].displaced = None \/ slot[t] = q
    BY DEF Reserving
  <2>1. /\ u # q
        /\ u # None => reserved[t] = [req |-> q, displaced |-> u]
        /\ u = None /\ reserved[t].req = q => reserved[t].displaced = None \/ slot[t] = q
    BY DEF IInv, Files, Reserving
  <2>2. t \in Slot
    BY DEF IInv, TypeOK, Owner
  <2>3. CASE t = s
    BY <1>5, <2>1, <2>3, ConstantsOK DEF NoReservation
  <2>4. CASE t # s
    BY <1>5, <2>1, <2>2, <2>4
  <2> QED BY <2>3, <2>4
<1>12. Exclusive'
  BY <1>3, <1>5 DEF IInv, Files, Exclusive, Stale
<1>13. ASSUME NEW q \in Request, NEW p \in Request, Pending(q, p)
       PROVE  Pending(q, p)'
  BY <1>4, <1>13 DEF Pending, At
<1>14. Reached'
  BY <1>13 DEF IInv, Files, Reached
<1> QED BY <1>6, <1>7, <1>8, <1>9, <1>10, <1>11, <1>12, <1>14, WorkerStep DEF Files

LEMMA CompleteStep ==
  ASSUME IInv, NEW w \in Worker, Complete(w)
  PROVE  IInv'
<1> PICK r, s, v : r = at[w].req /\ s = at[w].mine.slot /\ v = at[w].mine.displaced
  OBVIOUS
<1>1. at[w].pc = "complete"
  BY DEF Complete, At
<1>2. /\ Holds(w) /\ Knows(w, r, s, v) /\ r \in Request /\ reqLock[r] = w
      /\ at[w].mine \in Owner /\ s \in Slot /\ v \in Request \cup {None}
      /\ slotLock[s] = w /\ rec[r] = "settled"
      /\ owner[r] = [slot |-> s, displaced |-> v] /\ v # r
      /\ v # None => reserved[s] = [req |-> r, displaced |-> v]
      /\ slot[s] # r /\ reserved[s].req = r => reserved[s] = [req |-> r, displaced |-> v]
  BY <1>1, Completing
<1>3. CASE /\ Published(w) /\ v = None /\ Move(w, "unreserve")
           /\ UNCHANGED <<files, reqLock, slotLock>>
  <2>1. slot[s] = r
    BY <1>3 DEF Published
  <2>2. at'[w].pc = "unreserve" /\ at'[w].req = r /\ at'[w].mine = at[w].mine
    BY <1>3, Moved DEF IInv, Step
  <2>3. Knows(w, at[w].req, at[w].mine.slot, at[w].mine.displaced)'
    BY <1>2, <1>3, <2>1, <2>2 DEF Knows, Active, Placing, files
  <2> QED BY <1>1, <1>3, <2>3, MoveStep DEF Active, Step, InSlot, InVictim
<1>4. CASE /\ ~(Published(w) /\ v = None) /\ Reserves(w) /\ Move(w, "recheck")
           /\ UNCHANGED <<files, reqLock, slotLock>>
  <2>1. reserved[s] = [req |-> r, displaced |-> v]
    BY <1>2, <1>4 DEF Published, Reserves
  <2>2. at'[w].pc = "recheck" /\ at'[w].req = r /\ at'[w].mine = at[w].mine
    BY <1>4, Moved DEF IInv, Step
  <2>3. Knows(w, at[w].req, at[w].mine.slot, at[w].mine.displaced)'
    BY <1>2, <1>4, <2>1, <2>2 DEF Knows, Active, Placing, files
  <2> QED BY <1>1, <1>4, <2>3, MoveStep DEF Active, Step, InSlot, InVictim
<1>5. CASE ~Reserves(w) /\ v # None
  BY <1>2, <1>5 DEF Reserves
<1>6. CASE ~Published(w) /\ ~Reserves(w) /\ Forfeit(w)
  BY <1>1, <1>6, ForfeitStep
<1>7. CASE /\ reserved[s] = NoReservation
           /\ Published(w) => v # None
           /\ Published(w) \/ slot[s] = v
           /\ reserved' = [reserved EXCEPT ![s] = [req |-> r, displaced |-> v]]
           /\ Move(w, "recheck")
           /\ UNCHANGED <<rec, marked, owner, slot, reqLock, slotLock>>
  BY <1>1, <1>7, ReserveAgain DEF At
<1> QED BY <1>3, <1>4, <1>5, <1>6, <1>7 DEF Complete

LEMMA RecheckStep ==
  ASSUME IInv, NEW w \in Worker, Recheck(w)
  PROVE  IInv'
<1> PICK r, s, v : r = at[w].req /\ s = at[w].mine.slot /\ v = at[w].mine.displaced
  OBVIOUS
<1>1. at[w].pc = "recheck" /\ UNCHANGED files
  BY DEF Recheck, At
<1>2. /\ Holds(w) /\ Knows(w, r, s, v) /\ r \in Request /\ reqLock[r] = w
      /\ at[w].mine \in Owner /\ s \in Slot /\ v \in Request \cup {None} /\ w # None
  BY <1>1, Standing DEF Active, Step, InSlot
<1>3. /\ owner[r] = [slot |-> s, displaced |-> v] /\ rec[r] = "settled"
      /\ reserved[s] = [req |-> r, displaced |-> v] /\ slotLock[s] = w
  BY <1>1, <1>2 DEF Knows, Holds, Active, Step, InSlot, Placing
<1>4. Published(w) \/ slot[s] = v
  BY <1>2, <1>3, Reserved DEF Published
<1>5. CASE Leave(w)
  BY <1>1, <1>5, LeaveStep
<1>6. ASSUME Move(w, "write_slot")
      PROVE  /\ at' \in [Worker -> Local] /\ at'[w].pc = "write_slot" /\ at'[w].req = r
             /\ at'[w].mine = at[w].mine /\ \A x \in Worker : x # w => at'[x] = at[x]
             /\ Knows(w, at[w].req, at[w].mine.slot, at[w].mine.displaced)'
  <2>1. /\ at' \in [Worker -> Local] /\ at'[w].pc = "write_slot" /\ at'[w].req = r
        /\ at'[w].mine = at[w].mine /\ \A x \in Worker : x # w => at'[x] = at[x]
    BY <1>6, Moved DEF IInv, Step
  <2>2. Knows(w, at[w].req, at[w].mine.slot, at[w].mine.displaced)'
    BY <1>1, <1>3, <2>1 DEF Knows, Active, Placing, files
  <2> QED BY <2>1, <2>2
<1>7. CASE v = None /\ Move(w, "write_slot") /\ Unlocked
  <2>1. Holds(w)'
    BY <1>2, <1>3, <1>6, <1>7 DEF Holds, Unlocked
  <2> QED BY <1>1, <1>6, <1>7, <2>1, QuietStep DEF IInv, TypeOK, Unlocked
<1>8. CASE /\ v # None /\ reqLock[v] = None /\ reqLock' = [reqLock EXCEPT ![v] = w]
           /\ Move(w, "write_slot") /\ UNCHANGED slotLock
  <2>1. /\ v \in Request /\ v # r /\ reqLock'[v] = w /\ reqLock'[r] = w
        /\ reqLock' \in [Request -> Worker \cup {None}]
        /\ \A q \in Request : reqLock[q] \notin {w, None} => reqLock'[q] = reqLock[q]
    BY <1>2, <1>8 DEF IInv, TypeOK
  <2>2. Holds(w)'
    BY <1>2, <1>3, <1>6, <1>8, <2>1 DEF Holds
  <2> QED BY <1>1, <1>6, <1>8, <2>1, <2>2, QuietStep DEF IInv, TypeOK
<1> QED BY <1>4, <1>5, <1>7, <1>8 DEF Recheck

-----------------------------------------------------------------------------
(***************************************************************************)
(* Probing for a slot                                                      *)
(***************************************************************************)

\* Withdrawing a stale reservation of a slot nobody has locked disturbs nothing.
LEMMA Reclaiming ==
  ASSUME IInv, NEW s \in Slot, ~Excluded(s), Reclaim(s),
         UNCHANGED <<rec, marked, owner, slot>>, NEW w \in Worker,
         \A x \in Worker : x # w => at'[x] = at[x], at'[w].pc # "clear"
  PROVE  /\ slotLock[s] = None /\ reserved'[s] = NoReservation
         /\ \A t \in Slot : t # s => reserved'[t] = reserved[t]
         /\ reserved' \in [Slot -> Reservation \cup {NoReservation}]
         /\ Files'
<1>1. slotLock[s] = None
  BY DEF Excluded
<1>2. /\ reserved'[s] = NoReservation
      /\ \A t \in Slot : t # s => reserved'[t] = reserved[t]
      /\ reserved' \in [Slot -> Reservation \cup {NoReservation}]
  <2>1. CASE Stale(s)
    BY <2>1 DEF Reclaim, IInv, TypeOK
  <2>2. CASE ~Stale(s)
    BY <2>2 DEF Reclaim, Excluded, IInv, TypeOK
  <2> QED BY <2>1, <2>2
<1>3. Recorded' /\ Owned'
  BY DEF IInv, Files, Recorded, Owned
<1>4. Reserving'
  <2> SUFFICES ASSUME NEW q \in Request, owner[q] # NoOwner, NEW t, NEW u,
                      t = owner[q].slot, u = owner[q].displaced
               PROVE  /\ u # q
                      /\ u # None => reserved'[t] = [req |-> q, displaced |-> u]
                      /\ u = None /\ reserved'[t].req = q =>
                           reserved'[t].displaced = None \/ slot[t] = q
    BY DEF Reserving
  <2>1. /\ u # q
        /\ u # None => reserved[t] = [req |-> q, displaced |-> u]
        /\ u = None /\ reserved[t].req = q => reserved[t].displaced = None \/ slot[t] = q
    BY DEF IInv, Files, Reserving
  <2>2. t \in Slot /\ owner[q] = [slot |-> t, displaced |-> u]
    BY DEF IInv, TypeOK, Owner
  <2>3. CASE t = s
    <3>1. u = None
      <4> SUFFICES ASSUME u # None PROVE FALSE
        OBVIOUS
      <4>1. reserved[s] = [req |-> q, displaced |-> u]
        BY <2>1, <2>3
      <4>2. reserved[s] # NoReservation
        BY <4>1, ConstantsOK DEF NoReservation
      <4>3. reserved[s].req = q /\ reserved[s].displaced = u
        BY <4>1
      <4>4. ~Stale(s)
        BY <2>2, <2>3, <4>3 DEF Stale
      <4> QED BY <4>2, <4>4 DEF Excluded
    <3>2. reserved'[t].req # q
      BY <1>2, <2>3, ConstantsOK DEF NoReservation
    <3> QED BY <2>1, <3>1, <3>2
  <2>4. CASE t # s
    BY <1>2, <2>1, <2>2, <2>4
  <2> QED BY <2>3, <2>4
<1>5. Exclusive'
  <2> SUFFICES ASSUME NEW t \in Slot, reserved'[t] # NoReservation, ~Stale(t)'
               PROVE  slot[t] \in {reserved'[t].req, reserved'[t].displaced}
    BY DEF Exclusive
  <2>1. t # s
    BY <1>2
  <2>2. reserved'[t] = reserved[t] /\ ~Stale(t)
    BY <1>2, <2>1 DEF Stale
  <2> QED BY <2>2 DEF IInv, Files, Exclusive
<1>6. ASSUME NEW q \in Request, NEW p \in Request, Pending(q, p)
      PROVE  Pending(q, p)'
  BY <1>6 DEF Pending, At
<1>7. Reached'
  BY <1>6 DEF IInv, Files, Reached
<1> QED BY <1>1, <1>2, <1>3, <1>4, <1>5, <1>7 DEF Files

\* Another probe, after noting what the last one saw.
LEMMA ProbeAgain ==
  ASSUME IInv, NEW w \in Worker, at[w].pc = "probe", NEW s \in Slot,
         ~Excluded(s), Reclaim(s),
         UNCHANGED <<rec, marked, owner, slot, reqLock, slotLock>>,
         at' \in [Worker -> Local], \A x \in Worker : x # w => at'[x] = at[x],
         at'[w].pc = "probe", at'[w].req = at[w].req
  PROVE  IInv'
<1> PICK r : r = at[w].req
  OBVIOUS
<1>1. /\ Holds(w) /\ Knows(w, r, at[w].mine.slot, at[w].mine.displaced)
      /\ r \in Request /\ reqLock[r] = w
  BY Standing DEF Active, Step
<1>2. /\ slotLock[s] = None /\ \A t \in Slot : t # s => reserved'[t] = reserved[t]
      /\ reserved' \in [Slot -> Reservation \cup {NoReservation}] /\ Files'
  BY Reclaiming
<1>3. TypeOK'
  BY <1>2 DEF IInv, TypeOK
<1>4. Guarded(w)
  BY <1>2 DEF Guarded
<1>5. Holds(w)'
  BY <1>1 DEF Holds, InSlot, InVictim
<1>6. Knows(w, at[w].req, at[w].mine.slot, at[w].mine.displaced)'
  BY <1>1 DEF Knows, Active, Step, Placing
<1> QED BY <1>2, <1>3, <1>4, <1>5, <1>6, WorkerStep

LEMMA SkipStep ==
  ASSUME IInv, NEW w \in Worker, at[w].pc = "probe", NEW s \in Slot, Skip(w, s)
  PROVE  IInv'
<1> PICK r : r = at[w].req
  OBVIOUS
<1>1. /\ Holds(w) /\ Knows(w, r, at[w].mine.slot, at[w].mine.displaced)
      /\ at[w] \in Local /\ r \in Request /\ reqLock[r] = w
  BY Standing DEF Active, Step
<1>2. UNCHANGED <<files, reqLock, slotLock>>
  BY DEF Skip
<1>3. /\ at'[w] = [at[w] EXCEPT !.todo = @ \ {s}]
      /\ at' = [at EXCEPT ![w] = at'[w]]
      /\ \A x \in Worker : x # w => at'[x] = at[x]
  BY DEF Skip, IInv, TypeOK
<1>4. at'[w] \in Local /\ at'[w].pc = "probe" /\ at'[w].req = r
  BY <1>1, <1>3 DEF Local
<1>5. at' \in [Worker -> Local]
  BY <1>3, <1>4 DEF IInv, TypeOK
<1>6. Holds(w)'
  BY <1>1, <1>2, <1>4 DEF Holds, InSlot, InVictim
<1>7. Knows(w, at[w].req, at[w].mine.slot, at[w].mine.displaced)'
  BY <1>1, <1>2, <1>4 DEF Knows, Active, Step, Placing, files
<1> QED BY <1>2, <1>3, <1>4, <1>5, <1>6, <1>7, QuietStep DEF IInv, TypeOK

\* A request without an owner is in no slot.
LEMMA OwnerlessIsNowhere ==
  ASSUME IInv, NEW r \in Request, owner[r] = NoOwner, NEW s \in Slot
  PROVE  slot[s] # r
BY ConstantsOK DEF IInv, Files, Owned, NoOwner

LEMMA ProbeStep ==
  ASSUME IInv, NEW w \in Worker, Probe(w)
  PROVE  IInv'
<1> PICK r : r = at[w].req
  OBVIOUS
<1>1. at[w].pc = "probe"
  BY DEF Probe, At
<1>2. /\ Holds(w) /\ Knows(w, r, at[w].mine.slot, at[w].mine.displaced)
      /\ at[w] \in Local /\ r \in Request /\ reqLock[r] = w /\ w # None
  BY <1>1, Standing DEF Active, Step
<1>3. owner[r] = NoOwner /\ r \in marked /\ rec[r] = "settled"
  BY <1>1, <1>2 DEF Knows, Active, Step
<1>4. at[w].todo \subseteq Slot
  BY <1>2 DEF Local
<1>5. PICK s \in Slot : \/ Skip(w, s) \/ Orphaned(w, s) \/ Occupied(w, s)
                        \/ Busy(w, s) \/ Claim(w, s)
  BY <1>4 DEF Probe
<1>6. CASE Skip(w, s)
  BY <1>1, <1>6, SkipStep
<1>7. CASE Orphaned(w, s)
  BY <1>2, <1>3, <1>7, OwnerlessIsNowhere DEF Orphaned
<1>8. CASE Occupied(w, s)
  <2>1. /\ at'[w] = [at[w] EXCEPT !.todo = @ \ {s}, !.full = @ \cup {s}]
        /\ at' = [at EXCEPT ![w] = at'[w]]
        /\ \A x \in Worker : x # w => at'[x] = at[x]
    BY <1>8 DEF Occupied, IInv, TypeOK
  <2> PICK todo, full : todo = at[w].todo \ {s} /\ full = at[w].full \cup {s}
    OBVIOUS
  <2>2. /\ todo \in SUBSET Slot /\ full \in SUBSET Slot
        /\ at'[w] = [at[w] EXCEPT !.todo = todo, !.full = full]
    BY <1>2, <2>1 DEF Local
  <2>3. at'[w] \in Local /\ at'[w].pc = "probe" /\ at'[w].req = r
    BY <1>1, <1>2, <2>2 DEF Local
  <2>4. at' \in [Worker -> Local]
    BY <2>1, <2>3 DEF IInv, TypeOK
  <2> QED BY <1>1, <1>8, <2>1, <2>3, <2>4, ProbeAgain DEF Occupied
<1>9. CASE Busy(w, s)
  <2>1. /\ at'[w] = [at[w] EXCEPT !.todo = @ \ {s}]
        /\ at' = [at EXCEPT ![w] = at'[w]]
        /\ \A x \in Worker : x # w => at'[x] = at[x]
    BY <1>9 DEF Busy, IInv, TypeOK
  <2>2. at'[w] \in Local /\ at'[w].pc = "probe" /\ at'[w].req = r
    BY <1>1, <1>2, <2>1 DEF Local
  <2>3. at' \in [Worker -> Local]
    BY <2>1, <2>2 DEF IInv, TypeOK
  <2> QED BY <1>1, <1>9, <2>1, <2>2, <2>3, ProbeAgain DEF Busy
<1>10. CASE Claim(w, s)
  <2> PICK v : v = slot[s]
    OBVIOUS
  <2>1. /\ ~Excluded(s) /\ v # r /\ (v # None => reqLock[v] = None) /\ Reclaim(s)
        /\ slotLock' = [slotLock EXCEPT ![s] = w]
        /\ reqLock' = IF v = None THEN reqLock ELSE [reqLock EXCEPT ![v] = w]
        /\ UNCHANGED <<rec, marked, owner, slot>>
    BY <1>10 DEF Claim
  <2>2. v \in Request \cup {None}
    BY DEF IInv, TypeOK
  <2>3. /\ at'[w] = [at[w] EXCEPT !.pc = "reserve", !.mine = [slot |-> s, displaced |-> v]]
        /\ at' = [at EXCEPT ![w] = at'[w]]
        /\ \A x \in Worker : x # w => at'[x] = at[x]
    BY <1>10 DEF Claim, IInv, TypeOK
  <2>4. /\ at'[w] \in Local /\ at'[w].pc = "reserve" /\ at'[w].req = r
        /\ at'[w].mine = [slot |-> s, displaced |-> v] /\ at'[w].mine \in Owner
    <3> PICK m : m = [slot |-> s, displaced |-> v]
      OBVIOUS
    <3>1. m \in Owner
      BY <2>2 DEF Owner
    <3>2. at'[w] = [at[w] EXCEPT !.pc = "reserve", !.mine = m]
      BY <2>3
    <3>3. at'[w] \in Local /\ at'[w].pc = "reserve" /\ at'[w].req = r /\ at'[w].mine = m
      BY <1>2, <3>1, <3>2 DEF Local, Step
    <3> QED BY <3>1, <3>3
  <2>5. at' \in [Worker -> Local]
    BY <2>3, <2>4 DEF IInv, TypeOK
  <2>6. /\ slotLock[s] = None /\ reserved'[s] = NoReservation
        /\ \A t \in Slot : t # s => reserved'[t] = reserved[t]
        /\ reserved' \in [Slot -> Reservation \cup {NoReservation}] /\ Files'
    BY <2>1, <2>3, <2>4, Reclaiming
  <2>7. /\ slotLock' \in [Slot -> Worker \cup {None}] /\ slotLock'[s] = w
        /\ \A t \in Slot : t # s => slotLock'[t] = slotLock[t]
    BY <2>1 DEF IInv, TypeOK
  <2>8. /\ reqLock' \in [Request -> Worker \cup {None}]
        /\ reqLock'[r] = w /\ (v # None => reqLock'[v] = w)
        /\ \A q \in Request : reqLock[q] \notin {w, None} => reqLock'[q] = reqLock[q]
    BY <1>2, <2>1, <2>2 DEF IInv, TypeOK
  <2>9. TypeOK'
    BY <2>1, <2>5, <2>6, <2>7, <2>8 DEF IInv, TypeOK
  <2>10. Guarded(w)
    BY <2>1, <2>3, <2>6, <2>7, <2>8 DEF Guarded
  <2>11. Holds(w)'
    BY <1>2, <2>1, <2>4, <2>7, <2>8 DEF Holds
  <2>12. Knows(w, at[w].req, at[w].mine.slot, at[w].mine.displaced)'
    BY <1>3, <2>1, <2>4, <2>6 DEF Knows, Active, Placing
  <2> QED BY <2>6, <2>9, <2>10, <2>11, <2>12, WorkerStep
<1> QED BY <1>5, <1>6, <1>7, <1>8, <1>9, <1>10

LEMMA ReserveStep ==
  ASSUME IInv, NEW w \in Worker, Reserve(w)
  PROVE  IInv'
<1> PICK r, s, v : r = at[w].req /\ s = at[w].mine.slot /\ v = at[w].mine.displaced
  OBVIOUS
<1>1. /\ at[w].pc = "reserve"
      /\ reserved' = [reserved EXCEPT ![s] = [req |-> r, displaced |-> v]]
      /\ Move(w, "own") /\ UNCHANGED <<rec, marked, owner, slot, reqLock, slotLock>>
  BY DEF Reserve, At
<1>2. /\ Holds(w) /\ Knows(w, r, s, v) /\ r \in Request /\ reqLock[r] = w
      /\ s \in Slot /\ v \in Request \cup {None}
  BY <1>1, Standing DEF Active, Step, InSlot
<1>3. /\ owner[r] = NoOwner /\ r \in marked /\ rec[r] = "settled" /\ slot[s] = v
      /\ reserved[s] = NoReservation /\ slotLock[s] = w
  BY <1>1, <1>2 DEF Knows, Holds, Active, Step, InSlot
<1>4. /\ at' \in [Worker -> Local] /\ at'[w].pc = "own" /\ at'[w].req = r
      /\ at'[w].mine = at[w].mine /\ \A x \in Worker : x # w => at'[x] = at[x]
  BY <1>1, Moved DEF IInv, Step
<1>5. /\ reserved' \in [Slot -> Reservation \cup {NoReservation}]
      /\ reserved'[s] = [req |-> r, displaced |-> v]
      /\ \A t \in Slot : t # s => reserved'[t] = reserved[t]
  BY <1>1, <1>2 DEF IInv, TypeOK, Reservation
<1>6. TypeOK'
  BY <1>1, <1>4, <1>5 DEF IInv, TypeOK
<1>7. Guarded(w)
  BY <1>1, <1>3, <1>4, <1>5 DEF Guarded
<1>8. Holds(w)'
  BY <1>1, <1>2, <1>4 DEF Holds, Active, Step, InSlot, InVictim
<1>9. Knows(w, at[w].req, at[w].mine.slot, at[w].mine.displaced)'
  BY <1>1, <1>3, <1>4, <1>5 DEF Knows, Active, Placing
<1>10. Recorded' /\ Owned'
  BY <1>1 DEF IInv, Files, Recorded, Owned
<1>11. Reserving'
  <2> SUFFICES ASSUME NEW q \in Request, owner[q] # NoOwner, NEW t, NEW u,
                      t = owner[q].slot, u = owner[q].displaced
               PROVE  /\ u # q
                      /\ u # None => reserved'[t] = [req |-> q, displaced |-> u]
                      /\ u = None /\ reserved'[t].req = q =>
                           reserved'[t].displaced = None \/ slot[t] = q
    BY <1>1 DEF Reserving
  <2>1. /\ u # q
        /\ u # None => reserved[t] = [req |-> q, displaced |-> u]
        /\ u = None /\ reserved[t].req = q => reserved[t].displaced = None \/ slot[t] = q
    BY DEF IInv, Files, Reserving
  <2>2. t \in Slot
    BY DEF IInv, TypeOK, Owner
  <2>3. CASE t = s
    <3>1. u = None
      BY <1>3, <2>1, <2>3, ConstantsOK DEF NoReservation
    <3>2. reserved'[t].req # q
      BY <1>3, <1>5, <2>3
    <3> QED BY <2>1, <3>1, <3>2
  <2>4. CASE t # s
    BY <1>5, <2>1, <2>2, <2>4
  <2> QED BY <2>3, <2>4
<1>12. Exclusive'
  BY <1>1, <1>3, <1>5 DEF IInv, Files, Exclusive, Stale
<1>13. ASSUME NEW q \in Request, NEW p \in Request, Pending(q, p)
       PROVE  Pending(q, p)'
  BY <1>1, <1>4, <1>13 DEF Pending, At
<1>14. Reached'
  BY <1>1, <1>13 DEF IInv, Files, Reached
<1> QED BY <1>6, <1>7, <1>8, <1>9, <1>10, <1>11, <1>12, <1>14, WorkerStep DEF Files

-----------------------------------------------------------------------------
(***************************************************************************)
(* Placing a request                                                       *)
(***************************************************************************)

LEMMA OwnStep ==
  ASSUME IInv, NEW w \in Worker, Own(w)
  PROVE  IInv'
<1> PICK r, s, v : r = at[w].req /\ s = at[w].mine.slot /\ v = at[w].mine.displaced
  OBVIOUS
<1>1. /\ at[w].pc = "own" /\ owner' = [owner EXCEPT ![r] = at[w].mine]
      /\ Move(w, "write_slot") /\ UNCHANGED <<rec, marked, slot, reserved, reqLock, slotLock>>
  BY DEF Own, At
<1>2. /\ Holds(w) /\ Knows(w, r, s, v) /\ r \in Request /\ reqLock[r] = w
      /\ at[w].mine \in Owner /\ s \in Slot /\ v \in Request \cup {None}
  BY <1>1, Standing DEF Active, Step, InSlot
<1>3. /\ owner[r] = NoOwner /\ r \in marked /\ rec[r] = "settled" /\ slot[s] = v
      /\ reserved[s] = [req |-> r, displaced |-> v] /\ slotLock[s] = w
      /\ v # None => v # r /\ reqLock[v] = w
  BY <1>1, <1>2 DEF Knows, Holds, Active, Step, InSlot, InVictim
<1>4. /\ at' \in [Worker -> Local] /\ at'[w].pc = "write_slot" /\ at'[w].req = r
      /\ at'[w].mine = at[w].mine /\ \A x \in Worker : x # w => at'[x] = at[x]
  BY <1>1, Moved DEF IInv, Step
<1>5. /\ at[w].mine = [slot |-> s, displaced |-> v]
      /\ owner' \in [Request -> Owner \cup {NoOwner}]
      /\ owner'[r] = [slot |-> s, displaced |-> v]
      /\ \A q \in Request : q # r => owner'[q] = owner[q]
  BY <1>1, <1>2 DEF IInv, TypeOK, Owner
<1>6. TypeOK'
  BY <1>1, <1>4, <1>5 DEF IInv, TypeOK
<1>7. Guarded(w)
  BY <1>1, <1>2, <1>3, <1>4, <1>5 DEF Guarded
<1>8. Holds(w)'
  BY <1>1, <1>2, <1>3, <1>4 DEF Holds, Active, InSlot, InVictim
<1>9. Knows(w, at[w].req, at[w].mine.slot, at[w].mine.displaced)'
  BY <1>1, <1>3, <1>4, <1>5 DEF Knows, Active, Placing
<1>10. Recorded'
  BY <1>1 DEF IInv, Files, Recorded
<1>11. Owned'
  <2> SUFFICES ASSUME NEW t \in Slot, slot[t] # None PROVE owner'[slot[t]].slot = t
    BY <1>1 DEF Owned
  <2>1. slot[t] # r /\ slot[t] \in Request
    BY <1>2, <1>3, OwnerlessIsNowhere DEF IInv, TypeOK
  <2> QED BY <1>5, <2>1 DEF IInv, Files, Owned
<1>12. Reserving'
  <2> SUFFICES ASSUME NEW q \in Request, owner'[q] # NoOwner, NEW t, NEW u,
                      t = owner'[q].slot, u = owner'[q].displaced
               PROVE  /\ u # q
                      /\ u # None => reserved[t] = [req |-> q, displaced |-> u]
                      /\ u = None /\ reserved[t].req = q =>
                           reserved[t].displaced = None \/ slot[t] = q
    BY <1>1 DEF Reserving
  <2>1. CASE q = r
    BY <1>2, <1>3, <1>5, <2>1, ConstantsOK
  <2>2. CASE q # r
    BY <1>5, <2>2 DEF IInv, Files, Reserving
  <2> QED BY <2>1, <2>2
<1>13. Exclusive'
  <2> SUFFICES ASSUME NEW t \in Slot, reserved[t] # NoReservation, ~Stale(t)'
               PROVE  slot[t] \in {reserved[t].req, reserved[t].displaced}
    BY <1>1 DEF Exclusive
  <2>1. /\ reserved[t].req \in Request
        /\ owner'[reserved[t].req] = [slot |-> t, displaced |-> reserved[t].displaced]
    BY <1>1 DEF Stale, IInv, TypeOK, Reservation
  <2>2. CASE reserved[t].req = r
    BY <1>3, <1>5, <2>1, <2>2
  <2>3. CASE reserved[t].req # r
    <3>1. ~Stale(t)
      BY <1>5, <2>1, <2>3 DEF Stale
    <3> QED BY <3>1 DEF IInv, Files, Exclusive
  <2> QED BY <2>2, <2>3
<1>14. ASSUME NEW q \in Request, NEW p \in Request, owner[q].displaced = p
       PROVE  owner'[q] = owner[q]
  BY <1>3, <1>5, <1>14, ConstantsOK DEF NoOwner
<1>15. ASSUME NEW q \in Request, NEW p \in Request, Pending(q, p)
       PROVE  Pending(q, p)'
  BY <1>4, <1>14, <1>15 DEF Pending, At
<1>16. Reached'
  <2> SUFFICES ASSUME NEW p \in Request, rec[p] # "none", p \notin marked
               PROVE  IF owner'[p] = NoOwner THEN \E q \in Request : Pending(q, p)'
                      ELSE \/ slot[owner'[p].slot] = p
                           \/ \E q \in Request : owner'[q] = [slot |-> owner'[p].slot,
                                                             displaced |-> p]
    BY <1>1 DEF Reached
  <2>1. owner'[p] = owner[p]
    BY <1>3, <1>5
  <2>2. ASSUME NEW q \in Request, owner[q] = [slot |-> owner[p].slot, displaced |-> p]
        PROVE  owner'[q] = owner[q]
    BY <1>14, <2>2
  <2> QED BY <1>15, <2>1, <2>2 DEF IInv, Files, Reached
<1> QED BY <1>6, <1>7, <1>8, <1>9, <1>10, <1>11, <1>12, <1>13, <1>16, WorkerStep DEF Files

LEMMA WriteSlotStep ==
  ASSUME IInv, NEW w \in Worker, WriteSlot(w)
  PROVE  IInv'
<1> PICK r, s, v : r = at[w].req /\ s = at[w].mine.slot /\ v = at[w].mine.displaced
  OBVIOUS
<1>1. at[w].pc = "write_slot" /\ UNCHANGED <<rec, marked, owner, reserved>>
  BY DEF WriteSlot, At
<1>2. /\ Holds(w) /\ Knows(w, r, s, v) /\ r \in Request /\ reqLock[r] = w
      /\ at[w].mine \in Owner /\ s \in Slot /\ v \in Request \cup {None}
  BY <1>1, Standing DEF Active, Step, InSlot
<1>3. /\ owner[r] = [slot |-> s, displaced |-> v] /\ rec[r] = "settled"
      /\ reserved[s] = [req |-> r, displaced |-> v] /\ slotLock[s] = w
      /\ v # None => v # r /\ reqLock[v] = w
  BY <1>1, <1>2 DEF Knows, Holds, Active, Step, InSlot, InVictim, Placing
<1>4. slot[s] \in {r, v}
  BY <1>2, <1>3, Reserved
<1> PICK l : l = IF v = None THEN "unreserve" ELSE "retire"
  OBVIOUS
<1>5. /\ slot' = [slot EXCEPT ![s] = r] /\ Move(w, l) /\ Unlocked
  BY <1>4 DEF WriteSlot, Published
<1>6. /\ at' \in [Worker -> Local] /\ at'[w].pc = l /\ at'[w].req = r
      /\ at'[w].mine = at[w].mine /\ \A x \in Worker : x # w => at'[x] = at[x]
  BY <1>5, Moved DEF IInv, Step
<1>7. /\ slot' \in [Slot -> Request \cup {None}] /\ slot'[s] = r
      /\ \A t \in Slot : t # s => slot'[t] = slot[t]
  BY <1>2, <1>5 DEF IInv, TypeOK
<1>8. TypeOK'
  BY <1>1, <1>5, <1>6, <1>7 DEF IInv, TypeOK, Unlocked
<1>9. Guarded(w)
  BY <1>1, <1>2, <1>3, <1>4, <1>5, <1>6, <1>7 DEF Guarded, Unlocked
<1>10. Holds(w)'
  BY <1>2, <1>3, <1>5, <1>6 DEF Holds, Active, InSlot, InVictim, Unlocked
<1>11. Knows(w, at[w].req, at[w].mine.slot, at[w].mine.displaced)'
  BY <1>1, <1>3, <1>6, <1>7 DEF Knows, Active, Placing
<1>12. Recorded' /\ Owned'
  BY <1>1, <1>3, <1>7 DEF IInv, Files, Recorded, Owned
<1>13. Reserving'
  <2> SUFFICES ASSUME NEW q \in Request, owner[q] # NoOwner, NEW t, NEW u,
                      t = owner[q].slot, u = owner[q].displaced
               PROVE  /\ u # q
                      /\ u # None => reserved[t] = [req |-> q, displaced |-> u]
                      /\ u = None /\ reserved[t].req = q =>
                           reserved[t].displaced = None \/ slot'[t] = q
    BY <1>1 DEF Reserving
  <2>1. /\ u # q
        /\ u # None => reserved[t] = [req |-> q, displaced |-> u]
        /\ u = None /\ reserved[t].req = q => reserved[t].displaced = None \/ slot[t] = q
    BY DEF IInv, Files, Reserving
  <2>2. t \in Slot
    BY DEF IInv, TypeOK, Owner
  <2> QED BY <1>3, <1>7, <2>1, <2>2
<1>14. Exclusive'
  <2> SUFFICES ASSUME NEW t \in Slot, reserved[t] # NoReservation, ~Stale(t)
               PROVE  slot'[t] \in {reserved[t].req, reserved[t].displaced}
    BY <1>1 DEF Exclusive, Stale
  <2> QED BY <1>3, <1>7 DEF IInv, Files, Exclusive
<1>15. ASSUME NEW q \in Request, NEW p \in Request, Pending(q, p)
       PROVE  Pending(q, p)'
  BY <1>1, <1>6, <1>15 DEF Pending, At
<1>16. Reached'
  <2> SUFFICES ASSUME NEW p \in Request, rec[p] # "none", p \notin marked
               PROVE  IF owner[p] = NoOwner THEN \E q \in Request : Pending(q, p)'
                      ELSE \/ slot'[owner[p].slot] = p
                           \/ \E q \in Request : owner[q] = [slot |-> owner[p].slot,
                                                             displaced |-> p]
    BY <1>1 DEF Reached
  <2>1. IF owner[p] = NoOwner THEN \E q \in Request : Pending(q, p)
        ELSE \/ slot[owner[p].slot] = p
             \/ \E q \in Request : owner[q] = [slot |-> owner[p].slot, displaced |-> p]
    BY DEF IInv, Files, Reached
  <2>2. CASE owner[p] = NoOwner
    BY <1>15, <2>1, <2>2
  <2>3. CASE owner[p] # NoOwner /\ slot[owner[p].slot] = p
    <3> PICK t : t = owner[p].slot
      OBVIOUS
    <3>1. t \in Slot
      BY <2>3 DEF IInv, TypeOK, Owner
    <3>2. CASE t # s
      BY <1>7, <2>3, <3>1, <3>2
    <3>3. CASE t = s
      BY <1>2, <1>3, <1>4, <1>7, <2>3, <3>3
    <3> QED BY <3>2, <3>3
  <2> QED BY <2>1, <2>2, <2>3
<1> QED BY <1>8, <1>9, <1>10, <1>11, <1>12, <1>13, <1>14, <1>16, WorkerStep DEF Files

-----------------------------------------------------------------------------
(***************************************************************************)
(* Retiring the displaced request                                          *)
(***************************************************************************)

\* The displaced request, which has another owner, or a marker, or no record any more, loses
\* at most its owner of the slot.
LEMMA Dropped ==
  ASSUME IInv, NEW w \in Worker, at[w].pc \in {"retire", "retire_owner"},
         NEW v, v = at[w].mine.displaced,
         \/ owner' = owner /\ owner[v] # NoOwner /\ owner[v].slot # at[w].mine.slot
         \/ /\ owner' = [owner EXCEPT ![v] = NoOwner]
            /\ owner[v].slot \in {None, at[w].mine.slot}
            /\ v \in marked \/ rec[v] = "none",
         Drop(w, v), Move(w, "clear"), UNCHANGED <<rec, marked, slot, reserved, slotLock>>
  PROVE  IInv'
<1> PICK r, s : r = at[w].req /\ s = at[w].mine.slot
  OBVIOUS
<1>1. /\ Holds(w) /\ Knows(w, r, s, v) /\ r \in Request /\ reqLock[r] = w
      /\ at[w].mine \in Owner /\ s \in Slot /\ v \in Request \cup {None}
  BY Standing DEF Active, Step, InSlot
<1>2. /\ owner[r] = [slot |-> s, displaced |-> v] /\ rec[r] = "settled" /\ slot[s] = r
      /\ reserved[s] = [req |-> r, displaced |-> v] /\ slotLock[s] = w
      /\ v \in Request /\ v # r /\ reqLock[v] = w /\ v # None
  BY <1>1 DEF Knows, Holds, Active, Step, InSlot, InVictim, Placing
<1>3. /\ at' \in [Worker -> Local] /\ at'[w].pc = "clear" /\ at'[w].req = r
      /\ at'[w].mine = at[w].mine /\ \A x \in Worker : x # w => at'[x] = at[x]
  BY Moved DEF IInv, Step
<1>4. /\ owner' \in [Request -> Owner \cup {NoOwner}]
      /\ \A q \in Request : q # v => owner'[q] = owner[q]
      /\ owner'[v] \in {owner[v], NoOwner}
  BY <1>2 DEF IInv, TypeOK
<1>5. /\ reqLock' \in [Request -> Worker \cup {None}]
      /\ \A q \in Request : q # v => reqLock'[q] = reqLock[q]
  BY DEF Drop, IInv, TypeOK
<1>6. TypeOK'
  BY <1>3, <1>4, <1>5 DEF IInv, TypeOK
<1>7. Guarded(w)
  BY <1>2, <1>3, <1>4, <1>5 DEF Guarded
<1>8. Holds(w)'
  BY <1>1, <1>2, <1>3, <1>5 DEF Holds, Active, InSlot, InVictim
<1>9. owner'[v].slot # s
  <2>1. NoOwner.slot # s
    BY <1>1, ConstantsOK DEF NoOwner
  <2> QED BY <1>2, <2>1 DEF IInv, TypeOK
<1>10. Knows(w, at[w].req, at[w].mine.slot, at[w].mine.displaced)'
  BY <1>1, <1>2, <1>3, <1>4, <1>9 DEF Knows, Active, Placing
<1>11. Recorded'
  BY DEF IInv, Files, Recorded
<1>12. Owned'
  <2> SUFFICES ASSUME NEW t \in Slot, slot[t] # None PROVE owner'[slot[t]].slot = t
    BY DEF Owned
  <2>1. slot[t] \in Request /\ owner[slot[t]].slot = t
    BY DEF IInv, TypeOK, Files, Owned
  <2>2. CASE slot[t] # v
    BY <1>4, <2>1, <2>2
  <2>3. CASE slot[t] = v
    <3>1. t # s /\ t # None
      BY <1>2, <2>3, ConstantsOK
    <3> QED BY <2>1, <2>3, <3>1
  <2> QED BY <2>2, <2>3
<1>13. Reserving'
  <2> SUFFICES ASSUME NEW q \in Request, owner'[q] # NoOwner, NEW t, NEW u,
                      t = owner'[q].slot, u = owner'[q].displaced
               PROVE  /\ u # q
                      /\ u # None => reserved[t] = [req |-> q, displaced |-> u]
                      /\ u = None /\ reserved[t].req = q =>
                           reserved[t].displaced = None \/ slot[t] = q
    BY DEF Reserving
  <2>1. owner'[q] = owner[q]
    BY <1>4
  <2> QED BY <2>1 DEF IInv, Files, Reserving
<1>14. Exclusive'
  <2> SUFFICES ASSUME NEW t \in Slot, reserved[t] # NoReservation, ~Stale(t)'
               PROVE  slot[t] \in {reserved[t].req, reserved[t].displaced}
    BY DEF Exclusive
  <2>1. /\ reserved[t].req \in Request
        /\ owner'[reserved[t].req] = [slot |-> t, displaced |-> reserved[t].displaced]
    BY DEF Stale, IInv, TypeOK, Reservation
  <2>2. owner'[reserved[t].req] # NoOwner
    BY <2>1, ConstantsOK DEF NoOwner
  <2>3. owner'[reserved[t].req] = owner[reserved[t].req]
    BY <1>4, <2>1, <2>2
  <2>4. ~Stale(t)
    BY <2>1, <2>3 DEF Stale
  <2> QED BY <2>4 DEF IInv, Files, Exclusive
\* If v loses an owner, that owner had nothing to retire: its slot is reserved for r.
<1>15. ASSUME NEW q \in Request, NEW p \in Request, owner[q].displaced = p
       PROVE  owner'[q] = owner[q]
  <2>1. CASE q # v
    BY <1>4, <2>1
  <2>2. CASE q = v
    <3>1. owner[v] # NoOwner
      BY <1>15, <2>2, ConstantsOK DEF NoOwner
    <3>2. owner[v].slot \in Slot /\ reserved[owner[v].slot] = [req |-> v, displaced |-> p]
      BY <1>2, <1>15, <2>2, <3>1, ConstantsOK DEF IInv, TypeOK, Files, Reserving, Owner
    <3>3. owner[v].slot \notin {None, s}
      BY <1>2, <3>2, ConstantsOK
    <3> QED BY <2>2, <3>3
  <2> QED BY <2>1, <2>2
<1>16. ASSUME NEW q \in Request, NEW p \in Request, p # v, Pending(q, p)
       PROVE  Pending(q, p)'
  <2>1. owner'[q].displaced = p
    BY <1>15, <1>16 DEF Pending
  <2>2. q # r
    BY <1>2, <1>16 DEF Pending
  <2> QED BY <1>3, <1>16, <2>1, <2>2 DEF Pending, At
<1>17. Reached'
  <2> SUFFICES ASSUME NEW p \in Request, rec[p] # "none", p \notin marked
               PROVE  IF owner'[p] = NoOwner THEN \E q \in Request : Pending(q, p)'
                      ELSE \/ slot[owner'[p].slot] = p
                           \/ \E q \in Request : owner'[q] = [slot |-> owner'[p].slot,
                                                             displaced |-> p]
    BY DEF Reached
  <2>1. IF owner[p] = NoOwner THEN \E q \in Request : Pending(q, p)
        ELSE \/ slot[owner[p].slot] = p
             \/ \E q \in Request : owner[q] = [slot |-> owner[p].slot, displaced |-> p]
    BY DEF IInv, Files, Reached
  <2>2. owner'[p] = owner[p] /\ (p = v => owner[p] # NoOwner)
    BY <1>4
  <2>3. ASSUME NEW q \in Request, owner[q] = [slot |-> owner[p].slot, displaced |-> p]
        PROVE  owner'[q] = owner[q]
    BY <1>15, <2>3
  <2> QED BY <1>16, <2>1, <2>2, <2>3
<1> QED BY <1>6, <1>7, <1>8, <1>10, <1>11, <1>12, <1>13, <1>14, <1>17, WorkerStep DEF Files

LEMMA RetireStep ==
  ASSUME IInv, NEW w \in Worker, Retire(w)
  PROVE  IInv'
<1> PICK r, s, v : r = at[w].req /\ s = at[w].mine.slot /\ v = at[w].mine.displaced
  OBVIOUS
<1>1. at[w].pc = "retire" /\ UNCHANGED <<marked, slot, reserved, slotLock>>
  BY DEF Retire, At
<1>2. /\ Holds(w) /\ Knows(w, r, s, v) /\ r \in Request /\ reqLock[r] = w
      /\ at[w].mine \in Owner /\ s \in Slot /\ v \in Request \cup {None} /\ w # None
  BY <1>1, Standing DEF Active, Step, InSlot
<1>3. /\ owner[r] = [slot |-> s, displaced |-> v] /\ rec[r] = "settled" /\ slot[s] = r
      /\ reserved[s] = [req |-> r, displaced |-> v] /\ slotLock[s] = w
      /\ v \in Request /\ v # r /\ reqLock[v] = w /\ v # None
  BY <1>1, <1>2 DEF Knows, Holds, Active, Step, InSlot, InVictim, Placing
<1>4. owner[v] \in Owner \cup {NoOwner}
  BY <1>3 DEF IInv, TypeOK
<1>5. ~(owner[v] # NoOwner /\ owner[v].slot # s) => owner[v].slot \in {None, s}
  BY DEF NoOwner
<1>6. CASE /\ (owner[v] # NoOwner /\ owner[v].slot # s) \/ v \in marked
           /\ owner' = IF owner[v] # NoOwner /\ owner[v].slot # s
                       THEN owner ELSE [owner EXCEPT ![v] = NoOwner]
           /\ Drop(w, v) /\ Move(w, "clear") /\ UNCHANGED rec
  <2>1. CASE owner[v] # NoOwner /\ owner[v].slot # s
    BY <1>1, <1>6, <2>1, Dropped
  <2>2. CASE ~(owner[v] # NoOwner /\ owner[v].slot # s)
    BY <1>1, <1>5, <1>6, <2>2, Dropped
  <2> QED BY <2>1, <2>2
<1>7. CASE /\ ~(owner[v] # NoOwner /\ owner[v].slot # s) /\ v \notin marked
           /\ rec' = [rec EXCEPT ![v] = "none"] /\ Move(w, "retire_owner")
           /\ UNCHANGED <<owner, reqLock>>
  <2>1. /\ at' \in [Worker -> Local] /\ at'[w].pc = "retire_owner" /\ at'[w].req = r
        /\ at'[w].mine = at[w].mine /\ \A x \in Worker : x # w => at'[x] = at[x]
    BY <1>7, Moved DEF IInv, Step
  <2>2. /\ rec' \in [Request -> {"none", "active", "settled"}] /\ rec'[v] = "none"
        /\ \A q \in Request : q # v => rec'[q] = rec[q]
    BY <1>3, <1>7 DEF IInv, TypeOK
  <2>3. TypeOK'
    BY <1>1, <1>7, <2>1, <2>2 DEF IInv, TypeOK
  <2>4. Guarded(w)
    BY <1>1, <1>3, <1>7, <2>1, <2>2 DEF Guarded
  <2>5. Holds(w)'
    BY <1>1, <1>2, <1>3, <1>7, <2>1 DEF Holds, Active, InSlot, InVictim
  <2>6. Knows(w, at[w].req, at[w].mine.slot, at[w].mine.displaced)'
    BY <1>1, <1>3, <1>5, <1>7, <2>1, <2>2 DEF Knows, Active, Placing
  <2>7. Recorded' /\ Owned' /\ Reserving' /\ Exclusive'
    BY <1>1, <1>7, <2>2 DEF IInv, Files, Recorded, Owned, Reserving, Exclusive, Stale
  <2>8. ASSUME NEW q \in Request, NEW p \in Request, Pending(q, p)
        PROVE  Pending(q, p)'
    BY <1>7, <2>1, <2>8 DEF Pending, At
  <2>9. Reached'
    BY <1>1, <1>7, <2>2, <2>8 DEF IInv, Files, Reached
  <2> QED BY <2>3, <2>4, <2>5, <2>6, <2>7, <2>9, WorkerStep DEF Files
<1> QED BY <1>6, <1>7 DEF Retire

LEMMA RetireOwnerStep ==
  ASSUME IInv, NEW w \in Worker, RetireOwner(w)
  PROVE  IInv'
<1> PICK r, s, v : r = at[w].req /\ s = at[w].mine.slot /\ v = at[w].mine.displaced
  OBVIOUS
<1>1. at[w].pc = "retire_owner"
  BY DEF RetireOwner, At
<1>2. Knows(w, r, s, v)
  BY <1>1, Standing DEF Active, Step
<1>3. rec[v] = "none" /\ owner[v].slot \in {None, s}
  BY <1>1, <1>2 DEF Knows
<1>4. /\ owner' = [owner EXCEPT ![v] = NoOwner] /\ Drop(w, v) /\ Move(w, "clear")
      /\ UNCHANGED <<rec, marked, slot, reserved, slotLock>>
  BY DEF RetireOwner
<1> QED BY <1>1, <1>3, <1>4, Dropped

LEMMA ClearStep ==
  ASSUME IInv, NEW w \in Worker, Clear(w)
  PROVE  IInv'
<1> PICK r, s, v : r = at[w].req /\ s = at[w].mine.slot /\ v = at[w].mine.displaced
  OBVIOUS
<1>1. /\ at[w].pc = "clear" /\ owner' = [owner EXCEPT ![r] = [slot |-> s, displaced |-> None]]
      /\ Move(w, "unreserve") /\ UNCHANGED <<rec, marked, slot, reserved, reqLock, slotLock>>
  BY DEF Clear, At
<1>2. /\ Holds(w) /\ Knows(w, r, s, v) /\ r \in Request /\ reqLock[r] = w
      /\ at[w].mine \in Owner /\ s \in Slot /\ v \in Request \cup {None} /\ w # None
  BY <1>1, Standing DEF Active, Step, InSlot
<1>3. /\ owner[r] = [slot |-> s, displaced |-> v] /\ rec[r] = "settled" /\ slot[s] = r
      /\ reserved[s] = [req |-> r, displaced |-> v] /\ slotLock[s] = w
      /\ v # None /\ owner[v].slot # s
  BY <1>1, <1>2 DEF Knows, Holds, Active, Step, InSlot, Placing
<1>4. /\ at' \in [Worker -> Local] /\ at'[w].pc = "unreserve" /\ at'[w].req = r
      /\ at'[w].mine = at[w].mine /\ \A x \in Worker : x # w => at'[x] = at[x]
  BY <1>1, Moved DEF IInv, Step
<1>5. /\ owner' \in [Request -> Owner \cup {NoOwner}]
      /\ owner'[r] = [slot |-> s, displaced |-> None]
      /\ \A q \in Request : q # r => owner'[q] = owner[q]
  BY <1>1, <1>2 DEF IInv, TypeOK, Owner
<1>6. TypeOK'
  BY <1>1, <1>4, <1>5 DEF IInv, TypeOK
<1>7. Guarded(w)
  BY <1>1, <1>2, <1>3, <1>4, <1>5 DEF Guarded
<1>8. Holds(w)'
  BY <1>1, <1>2, <1>3, <1>4 DEF Holds, Active, InSlot, InVictim
<1>9. Knows(w, at[w].req, at[w].mine.slot, at[w].mine.displaced)'
  BY <1>1, <1>3, <1>4, <1>5 DEF Knows, Active, Placing
<1>10. Recorded'
  BY <1>1 DEF IInv, Files, Recorded
<1>11. Owned'
  BY <1>1, <1>3, <1>5 DEF IInv, TypeOK, Files, Owned
<1>12. Reserving'
  <2> SUFFICES ASSUME NEW q \in Request, owner'[q] # NoOwner, NEW t, NEW u,
                      t = owner'[q].slot, u = owner'[q].displaced
               PROVE  /\ u # q
                      /\ u # None => reserved[t] = [req |-> q, displaced |-> u]
                      /\ u = None /\ reserved[t].req = q =>
                           reserved[t].displaced = None \/ slot[t] = q
    BY <1>1 DEF Reserving
  <2>1. CASE q = r
    BY <1>2, <1>3, <1>5, <2>1, ConstantsOK
  <2>2. CASE q # r
    BY <1>5, <2>2 DEF IInv, Files, Reserving
  <2> QED BY <2>1, <2>2
<1>13. Exclusive'
  <2> SUFFICES ASSUME NEW t \in Slot, reserved[t] # NoReservation, ~Stale(t)'
               PROVE  slot[t] \in {reserved[t].req, reserved[t].displaced}
    BY <1>1 DEF Exclusive
  <2>1. /\ reserved[t].req \in Request
        /\ owner'[reserved[t].req] = [slot |-> t, displaced |-> reserved[t].displaced]
    BY <1>1 DEF Stale, IInv, TypeOK, Reservation
  <2>2. CASE reserved[t].req = r
    BY <1>3, <1>5, <2>1, <2>2
  <2>3. CASE reserved[t].req # r
    <3>1. ~Stale(t)
      BY <1>5, <2>1, <2>3 DEF Stale
    <3> QED BY <3>1 DEF IInv, Files, Exclusive
  <2> QED BY <2>2, <2>3
<1>14. ASSUME NEW q \in Request, NEW p \in Request, Pending(q, p)
       PROVE  Pending(q, p)'
  <2>1. q # r
    BY <1>1, <1>14 DEF Pending, At
  <2> QED BY <1>4, <1>5, <1>14, <2>1 DEF Pending, At
<1>15. Reached'
  <2> SUFFICES ASSUME NEW p \in Request, rec[p] # "none", p \notin marked
               PROVE  IF owner'[p] = NoOwner THEN \E q \in Request : Pending(q, p)'
                      ELSE \/ slot[owner'[p].slot] = p
                           \/ \E q \in Request : owner'[q] = [slot |-> owner'[p].slot,
                                                             displaced |-> p]
    BY <1>1 DEF Reached
  <2>1. IF owner[p] = NoOwner THEN \E q \in Request : Pending(q, p)
        ELSE \/ slot[owner[p].slot] = p
             \/ \E q \in Request : owner[q] = [slot |-> owner[p].slot, displaced |-> p]
    BY DEF IInv, Files, Reached
  <2>2. CASE p = r
    <3>1. owner'[p] # NoOwner
      BY <1>2, <1>5, <2>2, ConstantsOK DEF NoOwner
    <3> QED BY <1>3, <1>5, <2>2, <3>1
  <2>3. CASE p # r
    <3>1. owner'[p] = owner[p]
      BY <1>5, <2>3
    <3>2. ASSUME NEW q \in Request, owner[q] = [slot |-> owner[p].slot, displaced |-> p]
          PROVE  owner'[q] = owner[q]
      <4>1. q # r
        BY <1>3, <3>2
      <4> QED BY <1>5, <4>1
    <3> QED BY <1>14, <2>1, <3>1, <3>2
  <2> QED BY <2>2, <2>3
<1> QED BY <1>6, <1>7, <1>8, <1>9, <1>10, <1>11, <1>12, <1>13, <1>15, WorkerStep DEF Files

LEMMA UnreserveStep ==
  ASSUME IInv, NEW w \in Worker, Unreserve(w)
  PROVE  IInv'
<1> PICK r, s, v : r = at[w].req /\ s = at[w].mine.slot /\ v = at[w].mine.displaced
  OBVIOUS
<1>1. /\ at[w].pc = "unreserve" /\ Move(w, "unmark")
      /\ reserved' = IF reserved[s].req = r THEN [reserved EXCEPT ![s] = NoReservation]
                     ELSE reserved
      /\ slotLock' = IF at[w].todo = {} THEN slotLock ELSE [slotLock EXCEPT ![s] = None]
      /\ UNCHANGED <<rec, marked, owner, slot, reqLock>>
  BY DEF Unreserve, At, Reserves
<1>2. /\ Holds(w) /\ Knows(w, r, s, v) /\ r \in Request /\ reqLock[r] = w
      /\ at[w].mine \in Owner /\ s \in Slot /\ w # None
  BY <1>1, Standing DEF Active, Step, InSlot
<1>3. /\ owner[r] = [slot |-> s, displaced |-> None] /\ rec[r] = "settled" /\ slot[s] = r
      /\ slotLock[s] = w
  BY <1>1, <1>2 DEF Knows, Holds, Active, Step, InSlot
<1>4. /\ at' \in [Worker -> Local] /\ at'[w].pc = "unmark" /\ at'[w].req = r
      /\ at'[w].mine = at[w].mine /\ \A x \in Worker : x # w => at'[x] = at[x]
  BY <1>1, Moved DEF IInv, Step
<1>5. /\ reserved' \in [Slot -> Reservation \cup {NoReservation}]
      /\ \A t \in Slot : t # s => reserved'[t] = reserved[t]
      /\ reserved'[s] = IF reserved[s].req = r THEN NoReservation ELSE reserved[s]
  BY <1>1, <1>2 DEF IInv, TypeOK
<1>6. /\ slotLock' \in [Slot -> Worker \cup {None}]
      /\ \A t \in Slot : t # s => slotLock'[t] = slotLock[t]
  BY <1>1 DEF IInv, TypeOK
<1>7. TypeOK'
  BY <1>1, <1>4, <1>5, <1>6 DEF IInv, TypeOK
<1>8. Guarded(w)
  BY <1>1, <1>3, <1>4, <1>5, <1>6 DEF Guarded
<1>9. Holds(w)'
  BY <1>1, <1>2, <1>4 DEF Holds, Active, InSlot, InVictim
<1>10. Knows(w, at[w].req, at[w].mine.slot, at[w].mine.displaced)'
  BY <1>1, <1>3, <1>4 DEF Knows, Active, Placing
<1>11. Recorded' /\ Owned'
  BY <1>1 DEF IInv, Files, Recorded, Owned
<1>12. Reserving'
  <2> SUFFICES ASSUME NEW q \in Request, owner[q] # NoOwner, NEW t, NEW u,
                      t = owner[q].slot, u = owner[q].displaced
               PROVE  /\ u # q
                      /\ u # None => reserved'[t] = [req |-> q, displaced |-> u]
                      /\ u = None /\ reserved'[t].req = q =>
                           reserved'[t].displaced = None \/ slot[t] = q
    BY <1>1 DEF Reserving
  <2>1. /\ u # q
        /\ u # None => reserved[t] = [req |-> q, displaced |-> u]
        /\ u = None /\ reserved[t].req = q => reserved[t].displaced = None \/ slot[t] = q
    BY DEF IInv, Files, Reserving
  <2>2. t \in Slot
    BY DEF IInv, TypeOK, Owner
  <2>3. CASE t = s /\ reserved[s].req = r
    <3>1. u = None
      BY <1>3, <2>1, <2>3
    <3>2. reserved'[t].req # q
      BY <1>5, <2>3, ConstantsOK DEF NoReservation
    <3> QED BY <2>1, <3>1, <3>2
  <2>4. CASE ~(t = s /\ reserved[s].req = r)
    BY <1>5, <2>1, <2>2, <2>4
  <2> QED BY <2>3, <2>4
<1>13. Exclusive'
  <2> SUFFICES ASSUME NEW t \in Slot, reserved'[t] # NoReservation, ~Stale(t)'
               PROVE  slot[t] \in {reserved'[t].req, reserved'[t].displaced}
    BY <1>1 DEF Exclusive
  <2>1. reserved'[t] = reserved[t]
    BY <1>5
  <2>2. ~Stale(t)
    BY <1>1, <2>1 DEF Stale
  <2> QED BY <2>1, <2>2 DEF IInv, Files, Exclusive
<1>14. ASSUME NEW q \in Request, NEW p \in Request, Pending(q, p)
       PROVE  Pending(q, p)'
  BY <1>1, <1>4, <1>14 DEF Pending, At
<1>15. Reached'
  BY <1>1, <1>14 DEF IInv, Files, Reached
<1> QED BY <1>7, <1>8, <1>9, <1>10, <1>11, <1>12, <1>13, <1>15, WorkerStep DEF Files

LEMMA UnmarkStep ==
  ASSUME IInv, NEW w \in Worker, Unmark(w)
  PROVE  IInv'
<1> PICK r, s : r = at[w].req /\ s = at[w].mine.slot
  OBVIOUS
<1>1. /\ at[w].pc = "unmark" /\ marked' = marked \ {r} /\ Leave(w)
      /\ UNCHANGED <<rec, owner, slot, reserved>>
  BY DEF Unmark, At
<1>2. /\ Knows(w, r, s, at[w].mine.displaced) /\ r \in Request /\ reqLock[r] = w /\ s \in Slot
  BY <1>1, Standing DEF Active, Step
<1>3. rec[r] = "settled" /\ slot[s] = r /\ w # None
  BY <1>1, <1>2, ConstantsOK DEF Knows, Active, Step
<1>4. TypeOK'
  BY <1>1, Left DEF IInv, TypeOK
<1>5. Guarded(w)
  BY <1>1, <1>2, Left DEF IInv, Guarded
<1>6. Recorded' /\ Owned' /\ Reserving' /\ Exclusive'
  BY <1>1, <1>3 DEF IInv, Files, Recorded, Owned, Reserving, Exclusive, Stale
<1>7. ASSUME NEW q \in Request, NEW p \in Request, Pending(q, p)
      PROVE  Pending(q, p)'
  <2>1. at'[w].pc # "clear" /\ \A x \in Worker : x # w => at'[x] = at[x]
    BY <1>1, Left DEF IInv, Idle
  <2> QED BY <1>1, <1>7, <2>1 DEF Pending, At
<1>8. owner[r] # NoOwner /\ slot[owner[r].slot] = r
  <2>1. owner[r].slot = s
    BY <1>2, <1>3, ConstantsOK DEF IInv, Files, Owned
  <2> QED BY <1>2, <1>3, <2>1, ConstantsOK DEF NoOwner
<1>9. Reached'
  BY <1>1, <1>7, <1>8 DEF IInv, Files, Reached
<1>10. Holds(w)' /\ Knows(w, at[w].req, at[w].mine.slot, at[w].mine.displaced)'
  BY <1>1, Left DEF IInv
<1> QED BY <1>4, <1>5, <1>6, <1>9, <1>10, WorkerStep DEF Files

-----------------------------------------------------------------------------
(***************************************************************************)
(* The theorems                                                            *)
(***************************************************************************)

LEMMA Initially == Init => IInv
<1> SUFFICES ASSUME Init PROVE IInv
  OBVIOUS
<1>1. Idle \in Local /\ Idle.pc = "idle"
  BY DEF Idle, Local, Step, NoOwner
<1>2. TypeOK
  BY <1>1 DEF Init, TypeOK
<1>3. Located
  BY <1>1 DEF Init, Located, Holds, Knows, Active, InSlot, InVictim, Placing
<1>4. Recorded /\ Owned /\ Reserving /\ Exclusive /\ Reached
  BY DEF Init, Recorded, Owned, Reserving, Exclusive, Reached
<1> QED BY <1>2, <1>3, <1>4 DEF IInv, Files

LEMMA NextStep ==
  ASSUME Undisturbed, IInv, [Next]_vars
  PROVE  IInv'
<1>1. ASSUME NEW r \in Request, Reconcile(r) PROVE IInv'
  BY <1>1, ReconcileStep
<1>2. ASSUME NEW w \in Worker, NEW r \in Request, Admit(w, r) \/ Retry(w, r) PROVE IInv'
  BY <1>2, AdmitStep, RetryStep
<1>3. ASSUME NEW w \in Worker, Finalize(w) \/ Crash(w) PROVE IInv'
  BY <1>3, FinalizeStep, CrashStep
<1>4. ASSUME NEW w \in Worker, Publication(w) PROVE IInv'
  BY <1>4, StartStep, LockOwnedStep, CompleteStep, RecheckStep, ProbeStep, NextPassStep,
     ReserveStep, OwnStep, WriteSlotStep, RetireStep, RetireOwnerStep, ClearStep,
     UnreserveStep, UnmarkStep
     DEF Publication
<1>5. CASE UNCHANGED vars
  <2>1. TypeOK'
    BY <1>5 DEF IInv, TypeOK, vars, files
  <2>2. Located'
    BY <1>5 DEF IInv, Located, Holds, Knows, vars, files
  <2>3. Files'
    BY <1>5 DEF IInv, Files, Recorded, Owned, Reserving, Exclusive, Stale, Reached,
                Pending, At, vars, files
  <2> QED BY <2>1, <2>2, <2>3 DEF IInv
<1> QED BY <1>1, <1>2, <1>3, <1>4, <1>5 DEF Next

\* If nobody takes the lock of a settled request before its marker is retired, every worker
\* is where its locks and the files say, and the owners, slots, reservations and records
\* belong together, whoever stops and whoever resumes.
THEOREM Invariant ==
  ASSUME Undisturbed
  PROVE  Spec => []IInv
<1>1. Init => IInv
  BY Initially
<1>2. IInv /\ [Next]_vars => IInv'
  BY NextStep
<1> QED BY <1>1, <1>2, PTL DEF Spec

\* Under that assumption every file and every worker's memory keeps its type: no placement
\* writes half an owner record.
THEOREM TypeCorrect ==
  ASSUME Undisturbed
  PROVE  Spec => []TypeOK
<1>1. IInv => TypeOK
  BY DEF IInv
<1> QED BY <1>1, Invariant, PTL

\* A settled request without a marker is in its slot, or another placement names it.
LEMMA Named ==
  ASSUME IInv, NEW r \in Request, rec[r] # "none", r \notin marked
  PROVE  \/ owner[r] # NoOwner /\ slot[owner[r].slot] = r
         \/ \E q \in Request : owner[q].displaced = r
<1>1. CASE owner[r] = NoOwner
  BY <1>1 DEF IInv, Files, Reached, Pending
<1>2. CASE owner[r] # NoOwner
  <2> PICK t : t = owner[r].slot
    OBVIOUS
  <2>1. slot[t] = r \/ \E q \in Request : owner[q] = [slot |-> t, displaced |-> r]
    BY <1>2 DEF IInv, Files, Reached
  <2> QED BY <1>2, <2>1
<1> QED BY <1>1, <1>2

\* History is no more than the occupants of the slots and what the reservations displace.
LEMMA History ==
  ASSUME IInv
  PROVE  Bounded
<1> PICK S, R : /\ S = {r \in Request : rec[r] # "none" /\ r \notin marked}
                /\ R = {s \in Slot : reserved[s] # NoReservation}
  OBVIOUS
<1> PICK f : f = slot
  OBVIOUS
<1> DEFINE h == [s \in R |-> reserved[s].displaced]
<1>0. h \in [R -> Request \cup {None}]
  <2>1. \A s \in R : reserved[s].displaced \in Request \cup {None}
    BY DEF IInv, TypeOK, Reservation
  <2> QED BY <2>1
<1> PICK g \in [R -> Request \cup {None}] : \A s \in R : g[s] = reserved[s].displaced
  BY <1>0
<1>1. f \in [Slot -> Request \cup {None}] /\ g \in [R -> Request \cup {None}]
  BY DEF IInv, TypeOK
<1>2. IsFiniteSet(Slot) /\ IsFiniteSet(R)
  BY ConstantsOK, FS_Subset
<1>3. IsFiniteSet(Range(f)) /\ Cardinality(Range(f)) <= Cardinality(Slot)
  <2>1. f \in Surjection(Slot, Range(f))
    BY <1>1, Fun_RangeProperties
  <2> QED BY <1>2, <2>1, FS_Surjection
<1>4. IsFiniteSet(Range(g)) /\ Cardinality(Range(g)) <= Cardinality(R)
  <2>1. g \in Surjection(R, Range(g))
    BY <1>1, Fun_RangeProperties
  <2> QED BY <1>2, <2>1, FS_Surjection
<1>5. S \subseteq Range(f) \cup Range(g)
  <2> SUFFICES ASSUME NEW r \in S PROVE r \in Range(f) \cup Range(g)
    OBVIOUS
  <2>1. r \in Request /\ rec[r] # "none" /\ r \notin marked
    OBVIOUS
  <2>2. \/ owner[r] # NoOwner /\ slot[owner[r].slot] = r
        \/ \E q \in Request : owner[q].displaced = r
    BY <2>1, Named
  <2>3. CASE owner[r] # NoOwner /\ slot[owner[r].slot] = r
    <3>1. owner[r].slot \in Slot
      BY <2>1, <2>3 DEF IInv, TypeOK, Owner
    <3> QED BY <1>1, <2>3, <3>1 DEF Range
  <2>4. ASSUME NEW q \in Request, owner[q].displaced = r PROVE r \in Range(g)
    <3> PICK s : s = owner[q].slot
      OBVIOUS
    <3>1. owner[q] # NoOwner
      BY <2>1, <2>4, ConstantsOK DEF NoOwner
    <3>2. s \in Slot /\ reserved[s] = [req |-> q, displaced |-> r]
      BY <2>1, <2>4, <3>1, ConstantsOK DEF IInv, TypeOK, Files, Reserving, Owner
    <3>3. s \in R /\ g[s] = r
      BY <3>2, ConstantsOK DEF NoReservation
    <3> QED BY <1>1, <3>3 DEF Range
  <2> QED BY <2>2, <2>3, <2>4
<1> PICK U, V : U = Range(f) /\ V = Range(g)
  OBVIOUS
<1>6. /\ Cardinality(U) \in Nat /\ Cardinality(V) \in Nat /\ Cardinality(U \cap V) \in Nat
      /\ Cardinality(Slot) \in Nat /\ Cardinality(R) \in Nat
  BY <1>2, <1>3, <1>4, FS_CardinalityType, FS_Subset
<1>7. /\ IsFiniteSet(U \cup V)
      /\ Cardinality(U \cup V) = Cardinality(U) + Cardinality(V) - Cardinality(U \cap V)
  BY <1>3, <1>4, FS_Union
<1>8. Cardinality(S) <= Cardinality(U \cup V) /\ Cardinality(S) \in Nat
  BY <1>5, <1>7, FS_Subset, FS_CardinalityType
<1>9. Cardinality(S) <= Cardinality(Slot) + Cardinality(R)
  BY <1>3, <1>4, <1>6, <1>7, <1>8
<1> QED BY <1>9 DEF Bounded

\* Under that assumption the table never contradicts itself: every record is reached by a
\* bounded index, a request has one slot, a durable owner keeps its slot, history is bounded
\* by the ring and the placements under way, and no assertion of the code fails.
THEOREM TableIsConsistent ==
  ASSUME Undisturbed
  PROVE  Spec => []Consistent
<1>1. ASSUME IInv PROVE NoLeak
  <2> SUFFICES ASSUME NEW r \in Request, rec[r] # "none", r \notin marked
               PROVE  \/ \E s \in Slot : slot[s] = r
                      \/ \E q \in Request : owner[q].displaced = r
    BY DEF NoLeak
  <2>1. CASE owner[r] # NoOwner /\ slot[owner[r].slot] = r
    <3>1. owner[r].slot \in Slot
      BY <1>1, <2>1 DEF IInv, TypeOK, Owner
    <3> QED BY <2>1, <3>1
  <2> QED BY <1>1, <2>1, Named
<1>2. ASSUME IInv PROVE PlacedOnce
  BY <1>2 DEF IInv, Files, Owned, PlacedOnce
<1>3. ASSUME IInv PROVE NoFault
  BY <1>3 DEF IInv, Located, Holds, NoFault, At
<1>4. IInv => Consistent
  BY <1>1, <1>2, <1>3, History DEF IInv, Files, Consistent
<1> QED BY <1>4, Invariant, PTL

\* Under that assumption a record is removed only when its successor is in its slot and
\* names it, and never while it is active.
THEOREM SuccessorIsFirst ==
  ASSUME Undisturbed
  PROVE  Spec => SuccessorFirst
<1>1. ASSUME IInv, [Next]_vars, NEW p \in Request, rec[p] # "none", rec'[p] = "none"
      PROVE  /\ rec[p] = "settled" /\ p \notin marked
             /\ \E q \in Request \ {p} : /\ owner[q].displaced = p
                                         /\ slot[owner[q].slot] = q
  <2>1. PICK w \in Worker : Retire(w)
    <3>1. ASSUME NEW r \in Request, Reconcile(r) PROVE FALSE
      BY <1>1, <3>1 DEF Reconcile, IInv, TypeOK
    <3>2. ASSUME NEW w \in Worker, NEW r \in Request, Admit(w, r) \/ Retry(w, r)
          PROVE  FALSE
      BY <1>1, <3>2 DEF Admit, Retry, files, IInv, TypeOK
    <3>3. ASSUME NEW w \in Worker, Finalize(w) \/ Crash(w) PROVE FALSE
      BY <1>1, <3>3 DEF Finalize, Crash, files, IInv, TypeOK
    <3>4. ASSUME NEW w \in Worker, Publication(w) PROVE Retire(w)
      <4>1. CASE Start(w) \/ LockOwned(w) \/ Recheck(w) \/ NextPass(w)
        BY <1>1, <4>1 DEF Start, LockOwned, Recheck, NextPass, files
      <4>2. CASE Complete(w)
        BY <1>1, <4>2 DEF Complete, Forfeit, files
      <4>3. CASE Probe(w)
        BY <1>1, <4>3 DEF Probe, Skip, Orphaned, Occupied, Busy, Claim, files
      <4>4. CASE \/ Reserve(w) \/ Own(w) \/ WriteSlot(w) \/ RetireOwner(w) \/ Clear(w)
                 \/ Unreserve(w) \/ Unmark(w)
        BY <1>1, <4>4
           DEF Reserve, Own, WriteSlot, RetireOwner, Clear, Unreserve, Unmark
      <4> QED BY <3>4, <4>1, <4>2, <4>3, <4>4 DEF Publication
    <3>5. CASE UNCHANGED vars
      BY <1>1, <3>5 DEF vars, files
    <3> QED BY <1>1, <3>1, <3>2, <3>3, <3>4, <3>5 DEF Next
  <2> PICK r, s, v : r = at[w].req /\ s = at[w].mine.slot /\ v = at[w].mine.displaced
    OBVIOUS
  <2>2. at[w].pc = "retire" /\ rec' = [rec EXCEPT ![v] = "none"] /\ v \notin marked
    BY <1>1, <2>1 DEF Retire, At
  <2>3. p = v
    BY <1>1, <2>2 DEF IInv, TypeOK
  <2>4. Holds(w) /\ Knows(w, r, s, v) /\ r \in Request
    BY <1>1, <2>2, Standing DEF Active, Step
  <2>5. /\ owner[r] = [slot |-> s, displaced |-> v] /\ slot[s] = r
        /\ v # r
    BY <1>1, <2>2, <2>4 DEF Knows, Holds, InVictim, Placing
  <2>6. rec[p] = "settled"
    BY <1>1, <2>2, <2>3 DEF IInv, TypeOK, Files, Recorded
  <2> QED BY <2>2, <2>3, <2>4, <2>5, <2>6
<1>2. IInv /\ [Next]_vars =>
        [\A r \in Request : rec[r] # "none" /\ rec'[r] = "none" =>
           /\ rec[r] = "settled" /\ r \notin marked
           /\ \E q \in Request \ {r} :
                /\ owner[q].displaced = r
                /\ slot[owner[q].slot] = q]_vars
  BY <1>1
<1> QED BY <1>2, Invariant, PTL DEF Spec, SuccessorFirst

=============================================================================
