-------------------------- MODULE QuotaRefreshProofs --------------------------
(***************************************************************************)
(* Proofs, for every number of processes, requests, inputs and contents,   *)
(* of the safety properties of QuotaRefresh.                               *)
(***************************************************************************)
EXTENDS QuotaRefresh, TLAPS

(***************************************************************************)
(* The inductive invariant                                                 *)
(***************************************************************************)

\* Each lock is held by the process that stands where it is needed.
Locks ==
  /\ \A r \in Request, p \in Invocation :
       lock[r] = p <=> pc[p] \in UnderLock /\ Req(p) = r
  /\ \A p \in Invocation : effect = p <=> pc[p] \in InEffect

\* A process under way was given a request and an input.
Asked ==
  \A p \in Invocation :
    /\ pc[p] # "idle" => Req(p) \in Request
    /\ pc[p] \notin {"idle", "done"} => call[p].input \in Input

\* The locations of a process whose record names its group.
InTurn == {"gate", "observe", "settle_own", "snapshot", "conclude"}

\* Where a process stands tells what its own group may be doing.
Supervised ==
  \A p \in Invocation :
    /\ native[p] = "gated" <=> pc[p] \in {"publish", "gate"}
    /\ Ran(p) => pc[p] \in (InTurn \ {"gate"}) \cup {"done"}
    /\ Live(p) => pc[p] \notin {"snapshot", "conclude"}

\* What the record of a lock holder's request is, at each of its locations.
At(p) ==
  /\ pc[p] \in {"settle", "settle_write"} => Mine(p).phase = "native_effect_admitted"
  /\ pc[p] = "settle_write" => ~Live(Mine(p).actor)
  /\ pc[p] \in {"effect_lock", "spawn", "publish"} => Mine(p).phase = "prepared"
  /\ pc[p] \in {"reconcile", "accept"} =>
       Mine(p).phase = "reconciliation_required" /\ call[p].digest # NoDigest
  /\ pc[p] \in InTurn => Mine(p).phase = "native_effect_admitted" /\ Mine(p).actor = p

Located == \A p \in Invocation : At(p)

\* A recorded actor was published by a process with the same request.
ActorPast ==
  \A r \in Request :
    op[r].actor # None => Req(op[r].actor) = r /\ pc[op[r].actor] \in InTurn \cup {"done"}

\* A group that was let through is remembered by the record until it is evicted.
Remembered == \A q \in Invocation : Ran(q) /\ q \notin past => Mine(q).actor = q

\* Only a group that ran has written, and its write is newer than what was there
\* before it.
WritesAreNewer ==
  /\ \A q \in wrote : Ran(q)
  /\ \A p \in wrote : pc[p] \in InTurn => cred = NoFile \/ cred > before[p]

\* A verdict of no change is final, as the group is over.
VerdictIsTrue ==
  \A p \in Invocation : pc[p] = "conclude" /\ out[p] = "unchanged" => p \notin wrote

Bookkeeping == Locks /\ Asked /\ Supervised

Custody == RecordsReadable /\ EffectIsNamed /\ ActorPast /\ Remembered

Truth == WritesAreNewer /\ VerdictIsTrue /\ NoHiddenChange

IInv == TypeOK /\ Bookkeeping /\ Located /\ Custody /\ Truth

-----------------------------------------------------------------------------
-----------------------------------------------------------------------------
(***************************************************************************)
(* Operations                                                              *)
(***************************************************************************)
\* A new operation is one that the decoder accepts, and each write makes one of
\* another.
LEMMA PreparedShape ==
  ASSUME NEW i \in Input
  PROVE  Prepared(i) \in Operation /\ WellFormed(Prepared(i))
BY ConstantsOK
DEF Prepared, NoOperation, NoDigest, Operation, Phase, Evidence, WellFormed

\* Admitting the effect names its actor.
LEMMA AdmittedShape ==
  ASSUME NEW o \in Operation, WellFormed(o), o.phase = "prepared", NEW p \in Invocation
  PROVE  Admitted(o, p) \in Operation /\ WellFormed(Admitted(o, p))
BY ConstantsOK DEF Admitted, Operation, Phase, WellFormed

\* An abandoned or unclear effect requires a reconciliation.
LEMMA RequiredShape ==
  ASSUME NEW o \in Operation, WellFormed(o), o.phase = "native_effect_admitted",
         NEW e \in Evidence
  PROVE  Required(o, e) \in Operation /\ WellFormed(Required(o, e))
BY DEF Required, Operation, Phase, WellFormed

\* A commit settles the actor, if one was admitted.
LEMMA CommittedShape ==
  ASSUME NEW o \in Operation, WellFormed(o),
         o.phase \in {"prepared", "native_effect_admitted"}, NEW b \in BOOLEAN
  PROVE  Committed(o, b) \in Operation /\ WellFormed(Committed(o, b))
<1> DEFINE c == Committed(o, b)
<1>1. c \in Operation
  BY DEF Committed, Operation, Phase
<1>2. /\ c.phase = "committed" /\ c.input = o.input /\ c.actor = o.actor
      /\ c.evidence = o.evidence
  BY DEF Committed, Operation
<1>3. c.terminal = (o.actor # None)
  BY DEF Committed, Operation
<1> QED BY <1>1, <1>2, <1>3 DEF WellFormed

\* An accepted digest resolves a reconciliation.
LEMMA ResolvedShape ==
  ASSUME NEW o \in Operation, WellFormed(o), o.phase = "reconciliation_required",
         NEW d \in Version
  PROVE  Resolved(o, d) \in Operation /\ WellFormed(Resolved(o, d))
<1> DEFINE c == Resolved(o, d)
<1>1. c \in Operation
  BY DEF Resolved, Operation, Phase
<1>2. /\ c.phase = "committed" /\ c.input = o.input /\ c.actor = o.actor
      /\ c.terminal = o.terminal /\ c.accepted = d
  BY DEF Resolved, Operation
<1> QED BY <1>1, <1>2 DEF WellFormed, Version, NoDigest

\* Every outcome of an admitted effect is one of these.
LEMMA ConcludedShape ==
  ASSUME NEW p, Mine(p) \in Operation, WellFormed(Mine(p)),
         Mine(p).phase = "native_effect_admitted"
  PROVE  Concluded(p) \in Operation /\ WellFormed(Concluded(p))
BY RequiredShape, CommittedShape DEF Concluded, Evidence

\* The invariant holds at the start.
LEMMA InitEstablishes == Init => IInv
<1> SUFFICES ASSUME Init PROVE IInv
  OBVIOUS
<1> USE ConstantsOK DEF Init, NoOperation, NoCall, NoDigest, NoFile, Req, Mine, Live, Ran
<1>1. TypeOK
  BY DEF TypeOK, Operation, Phase, Evidence, Location, Call, NativeState, Outcome
<1>2. Bookkeeping
  BY DEF Bookkeeping, Locks, Asked, Supervised, UnderLock, InEffect, InTurn
<1>3. Located
  BY DEF Located, At, InTurn
<1>4. Custody
  BY DEF Custody, RecordsReadable, WellFormed, EffectIsNamed, ActorPast, Remembered
<1>5. Truth
  BY DEF Truth, WritesAreNewer, VerdictIsTrue, NoHiddenChange
<1> QED BY <1>1, <1>2, <1>3, <1>4, <1>5 DEF IInv


\* Taking custody of the request keeps the invariant.
LEMMA CustodyPreserves ==
  ASSUME IInv, NEW p \in Invocation,
         Start(p) \/ Lock(p) \/ LockTimeout(p) \/ Answer(p) \/ Prepare(p) \/
         Resume(p)
  PROVE  IInv'
<1> USE DEF UnderLock, InEffect, InTurn, Req, Mine, Goto, Write, Live, Ran, File, History,
           IInv, Bookkeeping, Custody, Truth
<1>1. CASE Start(p)
  <2>1. TypeOK'
    BY <1>1, ConstantsOK DEF Start, TypeOK, Location, Call, Version
  <2>2. Bookkeeping'
    BY <1>1 DEF Start, TypeOK, Locks, Asked, Supervised
  <2>3. Located'
    BY <1>1 DEF Start, Located, At
  <2>4. Custody'
    BY <1>1 DEF Start, Supervised, RecordsReadable, EffectIsNamed, ActorPast, Remembered
  <2>5. Truth'
    BY <1>1 DEF Start, WritesAreNewer, VerdictIsTrue, NoHiddenChange
  <2> QED BY <2>1, <2>2, <2>3, <2>4, <2>5
<1>2. CASE Lock(p)
  <2>1. TypeOK'
    BY <1>2 DEF Lock, TypeOK, Location
  <2>2. Bookkeeping'
    BY <1>2, ConstantsOK DEF Lock, TypeOK, Locks, Asked, Supervised
  <2>3. Located'
    BY <1>2 DEF Lock, Located, At
  <2>4. Custody'
    BY <1>2 DEF Lock, RecordsReadable, EffectIsNamed, ActorPast, Remembered
  <2>5. Truth'
    BY <1>2 DEF Lock, WritesAreNewer, VerdictIsTrue, NoHiddenChange
  <2> QED BY <2>1, <2>2, <2>3, <2>4, <2>5
<1>3. CASE LockTimeout(p)
  <2>1. TypeOK'
    BY <1>3
    DEF LockTimeout, Leave, TypeOK, Asked, Location, Call, NoCall, Outcome, NoFile
  <2>2. Bookkeeping'
    BY <1>3, ConstantsOK DEF LockTimeout, Leave, TypeOK, Locks, Asked, Supervised
  <2>3. Located'
    BY <1>3 DEF LockTimeout, Leave, TypeOK, Located, At
  <2>4. Custody'
    BY <1>3
    DEF LockTimeout, Leave, RecordsReadable, EffectIsNamed, ActorPast, Remembered
  <2>5. Truth'
    BY <1>3 DEF LockTimeout, Leave, WritesAreNewer, VerdictIsTrue, NoHiddenChange
  <2> QED BY <2>1, <2>2, <2>3, <2>4, <2>5
<1>4. CASE Answer(p)
  <2>1. TypeOK'
    BY <1>4
    DEF Answer, Leave, Matches, TypeOK, Asked, Location, Call, NoCall, Outcome, NoFile
  <2>2. Bookkeeping'
    BY <1>4, ConstantsOK DEF Answer, Leave, Matches, TypeOK, Locks, Asked, Supervised
  <2>3. Located'
    BY <1>4 DEF Answer, Leave, Matches, TypeOK, Locks, Asked, Supervised, Located, At
  <2>4. Custody'
    <3>1. Leave(p) /\ UNCHANGED <<op, native, past>>
      BY <1>4 DEF Answer
    <3>2. RecordsReadable'
      BY <3>1 DEF RecordsReadable
    <3>3. EffectIsNamed'
      BY <3>1 DEF Leave, EffectIsNamed
    <3>4. ActorPast'
      BY <3>1 DEF Leave, ActorPast
    <3>5. Remembered'
      BY <3>1 DEF Leave, Remembered
    <3> QED BY <3>2, <3>3, <3>4, <3>5
  <2>5. Truth'
    BY <1>4 DEF Answer, Leave, Matches, WritesAreNewer, VerdictIsTrue, NoHiddenChange
  <2> QED BY <2>1, <2>2, <2>3, <2>4, <2>5
<1>5. CASE Prepare(p)
  <2>1. TypeOK'
    <3>1. Prepared(call[p].input) \in Operation
      BY <1>5, PreparedShape DEF Prepare, Matches, Asked
    <3> QED
      BY <1>5, <3>1 DEF Prepare, Matches, TypeOK, Location
  <2>2. Bookkeeping'
    BY <1>5 DEF Prepare, Matches, Locks, Asked, Supervised
  <2>3. Located'
    BY <1>5 DEF Prepare, Matches, Prepared, TypeOK, Asked, Located, At
  <2>4. Custody'
    <3>1. RecordsReadable'
      BY <1>5, PreparedShape DEF Prepare, Matches, Asked, RecordsReadable
    <3>2. EffectIsNamed'
      BY <1>5 DEF Prepare, Matches, EffectIsNamed
    <3>3. ActorPast'
      BY <1>5 DEF Prepare, Matches, Prepared, NoOperation, ActorPast
    <3>4. Remembered'
      BY <1>5
      DEF Prepare, Matches, Prepared, NoOperation, TypeOK, Remembered, RecordsReadable,
          WellFormed
    <3> QED BY <3>1, <3>2, <3>3, <3>4
  <2>5. Truth'
    <3>1. WritesAreNewer'
      BY <1>5 DEF Prepare, Matches, WritesAreNewer
    <3>2. VerdictIsTrue'
      BY <1>5 DEF Prepare, Matches, VerdictIsTrue
    <3>3. NoHiddenChange'
      BY <1>5 DEF Prepare, Matches, Prepared, NoHiddenChange
    <3> QED BY <3>1, <3>2, <3>3
  <2> QED BY <2>1, <2>2, <2>3, <2>4, <2>5
<1>6. CASE Resume(p)
  <2>1. TypeOK'
    BY <1>6 DEF Resume, Matches, TypeOK, Location
  <2>2. Bookkeeping'
    BY <1>6 DEF Resume, Matches, Locks, Asked, Supervised
  <2>3. Located'
    BY <1>6 DEF Resume, Matches, Located, At
  <2>4. Custody'
    BY <1>6 DEF Resume, Matches, RecordsReadable, EffectIsNamed, ActorPast, Remembered
  <2>5. Truth'
    BY <1>6 DEF Resume, Matches, WritesAreNewer, VerdictIsTrue, NoHiddenChange
  <2> QED BY <2>1, <2>2, <2>3, <2>4, <2>5
<1> QED BY <1>1, <1>2, <1>3, <1>4, <1>5, <1>6

\* Settling an abandoned effect and reconciling it keep the invariant.
LEMMA SettlementPreserves ==
  ASSUME IInv, NEW p \in Invocation,
         Retry(p) \/ Settle(p) \/ SettleWrite(p) \/ Reconcile(p) \/ Accept(p) \/
         Stale(p)
  PROVE  IInv'
<1> USE DEF UnderLock, InEffect, InTurn, Req, Mine, Goto, Write, Live, Ran, File, History,
           IInv, Bookkeeping, Custody, Truth
<1>1. CASE Retry(p)
  <2>1. TypeOK'
    BY <1>1 DEF Retry, Matches, TypeOK, Location
  <2>2. Bookkeeping'
    BY <1>1 DEF Retry, Matches, Locks, Asked, Supervised
  <2>3. Located'
    BY <1>1 DEF Retry, Matches, Located, At
  <2>4. Custody'
    BY <1>1 DEF Retry, Matches, RecordsReadable, EffectIsNamed, ActorPast, Remembered
  <2>5. Truth'
    BY <1>1 DEF Retry, Matches, WritesAreNewer, VerdictIsTrue, NoHiddenChange
  <2> QED BY <2>1, <2>2, <2>3, <2>4, <2>5
<1>2. CASE Settle(p)
  <2>1. TypeOK'
    BY <1>2 DEF Settle, Terminate, TypeOK, Location, NativeState
  <2>2. Bookkeeping'
    BY <1>2 DEF Settle, Terminate, Locks, Asked, Supervised
  <2>3. Located'
    BY <1>2
    DEF Settle, Terminate, TypeOK, Asked, Located, At, RecordsReadable, WellFormed,
        Operation
  <2>4. Custody'
    BY <1>2 DEF Settle, Terminate, RecordsReadable, EffectIsNamed, ActorPast, Remembered
  <2>5. Truth'
    BY <1>2 DEF Settle, Terminate, WritesAreNewer, VerdictIsTrue, NoHiddenChange
  <2> QED BY <2>1, <2>2, <2>3, <2>4, <2>5
<1>3. CASE SettleWrite(p)
  <2>1. TypeOK'
    <3>1. Required(Mine(p), "unobserved") \in Operation
      BY <1>3, RequiredShape
      DEF SettleWrite, Evidence, TypeOK, Asked, RecordsReadable, Located, At
    <3> QED
      BY <1>3, <3>1
      DEF SettleWrite, Leave, Call, NoCall, NoFile, Outcome, TypeOK, Asked, Location
  <2>2. Bookkeeping'
    BY <1>3, ConstantsOK DEF SettleWrite, Leave, TypeOK, Locks, Asked, Supervised
  <2>3. Located'
    BY <1>3 DEF SettleWrite, Leave, TypeOK, Locks, Located, At
  <2>4. Custody'
    <3>1. RecordsReadable'
      BY <1>3, RequiredShape
      DEF SettleWrite, Leave, TypeOK, RecordsReadable, Located, At, Evidence
    <3>2. EffectIsNamed'
      BY <1>3 DEF SettleWrite, Leave, EffectIsNamed, Located, At
    <3>3. ActorPast'
      BY <1>3 DEF SettleWrite, Leave, Required, ActorPast
    <3>4. Remembered'
      BY <1>3 DEF SettleWrite, Leave, Required, Remembered
    <3> QED BY <3>1, <3>2, <3>3, <3>4
  <2>5. Truth'
    <3>1. WritesAreNewer'
      BY <1>3 DEF SettleWrite, Leave, WritesAreNewer
    <3>2. VerdictIsTrue'
      BY <1>3 DEF SettleWrite, Leave, VerdictIsTrue
    <3>3. NoHiddenChange'
      BY <1>3 DEF SettleWrite, Leave, Required, NoHiddenChange
    <3> QED BY <3>1, <3>2, <3>3
  <2> QED BY <2>1, <2>2, <2>3, <2>4, <2>5
<1>4. CASE Reconcile(p)
  <2>1. TypeOK'
    BY <1>4 DEF Reconcile, Matches, TypeOK, Location
  <2>2. Bookkeeping'
    BY <1>4 DEF Reconcile, Matches, Locks, Asked, Supervised
  <2>3. Located'
    BY <1>4 DEF Reconcile, Matches, Located, At
  <2>4. Custody'
    BY <1>4
    DEF Reconcile, Matches, RecordsReadable, EffectIsNamed, ActorPast, Remembered
  <2>5. Truth'
    BY <1>4 DEF Reconcile, Matches, WritesAreNewer, VerdictIsTrue, NoHiddenChange
  <2> QED BY <2>1, <2>2, <2>3, <2>4, <2>5
<1>5. CASE Accept(p)
  <2>1. TypeOK'
    <3>1. Resolved(Mine(p), cred) \in Operation
      BY <1>5, ResolvedShape
      DEF Accept, TypeOK, Asked, RecordsReadable, Located, At, Call
    <3> QED
      BY <1>5, <3>1
      DEF Accept, Leave, Call, NoCall, NoFile, Outcome, TypeOK, Asked, Location
  <2>2. Bookkeeping'
    BY <1>5, ConstantsOK DEF Accept, Leave, TypeOK, Locks, Asked, Supervised
  <2>3. Located'
    BY <1>5 DEF Accept, Leave, TypeOK, Locks, Located, At
  <2>4. Custody'
    <3>1. RecordsReadable'
      BY <1>5, ResolvedShape
      DEF Accept, Leave, TypeOK, RecordsReadable, Located, At, Call
    <3>2. EffectIsNamed'
      BY <1>5 DEF Accept, Leave, EffectIsNamed, Located, At
    <3>3. ActorPast'
      BY <1>5 DEF Accept, Leave, Resolved, ActorPast
    <3>4. Remembered'
      BY <1>5 DEF Accept, Leave, Resolved, Remembered
    <3> QED BY <3>1, <3>2, <3>3, <3>4
  <2>5. Truth'
    <3>1. WritesAreNewer'
      BY <1>5 DEF Accept, Leave, WritesAreNewer
    <3>2. VerdictIsTrue'
      BY <1>5 DEF Accept, Leave, VerdictIsTrue
    <3>3. NoHiddenChange'
      BY <1>5 DEF Accept, Leave, Resolved, NoHiddenChange, Located, At
    <3> QED BY <3>1, <3>2, <3>3
  <2> QED BY <2>1, <2>2, <2>3, <2>4, <2>5
<1>6. CASE Stale(p)
  <2>1. TypeOK'
    BY <1>6 DEF Stale, Leave, TypeOK, Asked, Location, Call, NoCall, Outcome, NoFile
  <2>2. Bookkeeping'
    BY <1>6, ConstantsOK DEF Stale, Leave, TypeOK, Locks, Asked, Supervised
  <2>3. Located'
    BY <1>6 DEF Stale, Leave, TypeOK, Located, At
  <2>4. Custody'
    BY <1>6 DEF Stale, Leave, RecordsReadable, EffectIsNamed, ActorPast, Remembered
  <2>5. Truth'
    BY <1>6 DEF Stale, Leave, WritesAreNewer, VerdictIsTrue, NoHiddenChange
  <2> QED BY <2>1, <2>2, <2>3, <2>4, <2>5
<1> QED BY <1>1, <1>2, <1>3, <1>4, <1>5, <1>6

\* Admitting the effect and letting it through keep the invariant.
LEMMA AdmissionPreserves ==
  ASSUME IInv, NEW p \in Invocation,
         EffectLock(p) \/ Spawn(p) \/ SpawnFails(p) \/ Publish(p) \/ Release(p) \/
         ReleaseFails(p)
  PROVE  IInv'
<1> USE DEF UnderLock, InEffect, InTurn, Req, Mine, Goto, Write, Live, Ran, File, History,
           IInv, Bookkeeping, Custody, Truth
<1>1. CASE EffectLock(p)
  <2>1. TypeOK'
    BY <1>1 DEF EffectLock, TypeOK, Location
  <2>2. Bookkeeping'
    BY <1>1, ConstantsOK DEF EffectLock, TypeOK, Locks, Asked, Supervised
  <2>3. Located'
    BY <1>1 DEF EffectLock, Located, At
  <2>4. Custody'
    BY <1>1 DEF EffectLock, RecordsReadable, EffectIsNamed, ActorPast, Remembered
  <2>5. Truth'
    BY <1>1 DEF EffectLock, WritesAreNewer, VerdictIsTrue, NoHiddenChange
  <2> QED BY <2>1, <2>2, <2>3, <2>4, <2>5
<1>2. CASE Spawn(p)
  <2>1. TypeOK'
    BY <1>2 DEF Spawn, TypeOK, Location, NativeState
  <2>2. Bookkeeping'
    BY <1>2 DEF Spawn, TypeOK, Locks, Asked, Supervised
  <2>3. Located'
    BY <1>2 DEF Spawn, Located, At
  <2>4. Custody'
    BY <1>2 DEF Spawn, RecordsReadable, EffectIsNamed, ActorPast, Remembered
  <2>5. Truth'
    BY <1>2 DEF Spawn, Supervised, WritesAreNewer, VerdictIsTrue, NoHiddenChange
  <2> QED BY <2>1, <2>2, <2>3, <2>4, <2>5
<1>3. CASE SpawnFails(p)
  <2>1. TypeOK'
    <3>1. Committed(Mine(p), FALSE) \in Operation
      BY <1>3, CommittedShape
      DEF SpawnFails, TypeOK, Asked, RecordsReadable, Located, At
    <3>2. \E o \in Operation : op' = [op EXCEPT ![Req(p)] = o]
      BY <1>3, <3>1, Zenon DEF SpawnFails
    <3>3. op' \in [Request -> Operation]
      BY <3>2 DEF TypeOK
    <3>4. Leave(p) /\ UNCHANGED <<cred, latest, native, wrote, past>>
      BY <1>3 DEF SpawnFails
    <3> QED
      BY <3>3, <3>4 DEF Leave, Call, NoCall, NoFile, Outcome, TypeOK, Asked, Location
  <2>2. Bookkeeping'
    BY <1>3, ConstantsOK DEF SpawnFails, Leave, TypeOK, Locks, Asked, Supervised
  <2>3. Located'
    BY <1>3 DEF SpawnFails, Leave, Committed, TypeOK, Locks, Located, At
  <2>4. Custody'
    <3>1. RecordsReadable'
      <4>1. Req(p) \in Request /\ Mine(p).phase = "prepared"
        BY <1>3 DEF SpawnFails, Asked, Located, At
      <4>2. Mine(p) \in Operation /\ WellFormed(Mine(p))
        BY <4>1 DEF TypeOK, RecordsReadable
      <4>3. WellFormed(Committed(Mine(p), FALSE))
        BY <4>1, <4>2, CommittedShape
      <4>4. op' = [op EXCEPT ![Req(p)] = Committed(Mine(p), FALSE)]
        BY <1>3 DEF SpawnFails
      <4> QED BY <4>3, <4>4 DEF RecordsReadable, TypeOK
    <3>2. EffectIsNamed'
      BY <1>3 DEF SpawnFails, Leave, Committed, EffectIsNamed, Located, At
    <3>3. ActorPast'
      BY <1>3 DEF SpawnFails, Leave, Committed, ActorPast
    <3>4. Remembered'
      BY <1>3 DEF SpawnFails, Leave, Committed, Remembered
    <3> QED BY <3>1, <3>2, <3>3, <3>4
  <2>5. Truth'
    <3>1. WritesAreNewer'
      BY <1>3 DEF SpawnFails, Leave, WritesAreNewer
    <3>2. VerdictIsTrue'
      BY <1>3 DEF SpawnFails, Leave, VerdictIsTrue
    <3>3. NoHiddenChange'
      BY <1>3, ConstantsOK
      DEF SpawnFails, Leave, Committed, TypeOK, NoHiddenChange, Located, At,
          RecordsReadable, WellFormed
    <3> QED BY <3>1, <3>2, <3>3
  <2> QED BY <2>1, <2>2, <2>3, <2>4, <2>5
<1>4. CASE Publish(p)
  <2>1. TypeOK'
    <3>1. Admitted(Mine(p), p) \in Operation
      BY <1>4, AdmittedShape DEF Publish, TypeOK, Asked, RecordsReadable, Located, At
    <3> QED
      BY <1>4, <3>1 DEF Publish, TypeOK, Location
  <2>2. Bookkeeping'
    BY <1>4 DEF Publish, Locks, Asked, Supervised
  <2>3. Located'
    BY <1>4 DEF Publish, Admitted, TypeOK, Locks, Asked, Located, At
  <2>4. Custody'
    <3>1. RecordsReadable'
      BY <1>4, AdmittedShape DEF Publish, TypeOK, RecordsReadable, Located, At
    <3>2. EffectIsNamed'
      BY <1>4 DEF Publish, EffectIsNamed, Located, At
    <3>3. ActorPast'
      BY <1>4 DEF Publish, Admitted, TypeOK, ActorPast
    <3>4. Remembered'
      BY <1>4, ConstantsOK
      DEF Publish, TypeOK, Remembered, RecordsReadable, WellFormed, Located, At
    <3> QED BY <3>1, <3>2, <3>3, <3>4
  <2>5. Truth'
    <3>1. WritesAreNewer'
      BY <1>4 DEF Publish, WritesAreNewer, Supervised
    <3>2. VerdictIsTrue'
      BY <1>4 DEF Publish, VerdictIsTrue
    <3>3. NoHiddenChange'
      BY <1>4 DEF Publish, Admitted, NoHiddenChange
    <3> QED BY <3>1, <3>2, <3>3
  <2> QED BY <2>1, <2>2, <2>3, <2>4, <2>5
<1>5. CASE Release(p)
  <2>1. TypeOK'
    BY <1>5 DEF Release, TypeOK, Location, NativeState
  <2>2. Bookkeeping'
    BY <1>5 DEF Release, TypeOK, Locks, Asked, Supervised
  <2>3. Located'
    BY <1>5, ConstantsOK DEF Release, Locks, Asked, Located, At, ActorPast
  <2>4. Custody'
    BY <1>5
    DEF Release, Asked, RecordsReadable, WellFormed, EffectIsNamed, ActorPast,
        Remembered, Located, At
  <2>5. Truth'
    BY <1>5 DEF Release, WritesAreNewer, VerdictIsTrue, NoHiddenChange
  <2> QED BY <2>1, <2>2, <2>3, <2>4, <2>5
<1>6. CASE ReleaseFails(p)
  <2>1. TypeOK'
    BY <1>6 DEF ReleaseFails, TypeOK, Location, Outcome, Verdict, NativeState
  <2>2. Bookkeeping'
    BY <1>6 DEF ReleaseFails, TypeOK, Locks, Asked, Supervised
  <2>3. Located'
    BY <1>6 DEF ReleaseFails, Located, At
  <2>4. Custody'
    BY <1>6 DEF ReleaseFails, RecordsReadable, EffectIsNamed, ActorPast, Remembered
  <2>5. Truth'
    BY <1>6 DEF ReleaseFails, Supervised, WritesAreNewer, VerdictIsTrue, NoHiddenChange
  <2> QED BY <2>1, <2>2, <2>3, <2>4, <2>5
<1> QED BY <1>1, <1>2, <1>3, <1>4, <1>5, <1>6

\* Observing and concluding the effect keep the invariant.
LEMMA ObservationPreserves ==
  ASSUME IInv, NEW p \in Invocation,
         LeaderReturns(p) \/ LeaderTimesOut(p) \/ SettleOwn(p) \/ Snapshot(p) \/
         Conclude(p)
  PROVE  IInv'
<1> USE DEF UnderLock, InEffect, InTurn, Req, Mine, Goto, Write, Live, Ran, File, History,
           IInv, Bookkeeping, Custody, Truth
<1>1. CASE LeaderReturns(p)
  <2>1. TypeOK'
    BY <1>1 DEF LeaderReturns, TypeOK, Location, Outcome
  <2>2. Bookkeeping'
    BY <1>1 DEF LeaderReturns, Locks, Asked, Supervised
  <2>3. Located'
    BY <1>1 DEF LeaderReturns, Located, At
  <2>4. Custody'
    BY <1>1 DEF LeaderReturns, RecordsReadable, EffectIsNamed, ActorPast, Remembered
  <2>5. Truth'
    BY <1>1 DEF LeaderReturns, WritesAreNewer, VerdictIsTrue, NoHiddenChange
  <2> QED BY <2>1, <2>2, <2>3, <2>4, <2>5
<1>2. CASE LeaderTimesOut(p)
  <2>1. TypeOK'
    BY <1>2
    DEF LeaderTimesOut, Terminate, TypeOK, Location, Outcome, Verdict, NativeState
  <2>2. Bookkeeping'
    BY <1>2 DEF LeaderTimesOut, Terminate, Locks, Asked, Supervised
  <2>3. Located'
    BY <1>2 DEF LeaderTimesOut, Terminate, Located, At
  <2>4. Custody'
    BY <1>2
    DEF LeaderTimesOut, Terminate, RecordsReadable, EffectIsNamed, ActorPast, Remembered
  <2>5. Truth'
    BY <1>2 DEF LeaderTimesOut, Terminate, WritesAreNewer, VerdictIsTrue, NoHiddenChange
  <2> QED BY <2>1, <2>2, <2>3, <2>4, <2>5
<1>3. CASE SettleOwn(p)
  <2>1. TypeOK'
    BY <1>3 DEF SettleOwn, Terminate, TypeOK, Location, Outcome, NativeState
  <2>2. Bookkeeping'
    BY <1>3 DEF SettleOwn, Terminate, TypeOK, Locks, Asked, Supervised
  <2>3. Located'
    BY <1>3 DEF SettleOwn, Terminate, Located, At
  <2>4. Custody'
    BY <1>3
    DEF SettleOwn, Terminate, RecordsReadable, EffectIsNamed, ActorPast, Remembered
  <2>5. Truth'
    BY <1>3 DEF SettleOwn, Terminate, WritesAreNewer, VerdictIsTrue, NoHiddenChange
  <2> QED BY <2>1, <2>2, <2>3, <2>4, <2>5
<1>4. CASE Snapshot(p)
  <2>1. TypeOK'
    BY <1>4 DEF Snapshot, TypeOK, Location, Outcome, Verdict, Compared
  <2>2. Bookkeeping'
    BY <1>4 DEF Snapshot, Locks, Asked, Supervised
  <2>3. Located'
    BY <1>4 DEF Snapshot, Located, At
  <2>4. Custody'
    BY <1>4 DEF Snapshot, RecordsReadable, EffectIsNamed, ActorPast, Remembered
  <2>5. Truth'
    <3>1. WritesAreNewer'
      BY <1>4 DEF Snapshot, WritesAreNewer
    <3>2. VerdictIsTrue'
      BY <1>4 DEF Snapshot, TypeOK, VerdictIsTrue, WritesAreNewer, Compared
    <3>3. NoHiddenChange'
      BY <1>4 DEF Snapshot, NoHiddenChange
    <3> QED BY <3>1, <3>2, <3>3
  <2> QED BY <2>1, <2>2, <2>3, <2>4, <2>5
<1>5. CASE Conclude(p)
  <2>1. TypeOK'
    <3>1. Concluded(p) \in Operation
      BY <1>5, ConcludedShape DEF Conclude, TypeOK, Asked, RecordsReadable, Located, At
    <3> QED
      BY <1>5, <3>1
      DEF Conclude, Leave, Call, NoCall, NoFile, Outcome, TypeOK, Asked, Location
  <2>2. Bookkeeping'
    BY <1>5, ConstantsOK DEF Conclude, Leave, TypeOK, Locks, Asked, Supervised
  <2>3. Located'
    BY <1>5
    DEF Conclude, Leave, Required, Committed, TypeOK, Locks, Supervised, Located, At
  <2>4. Custody'
    <3>1. RecordsReadable'
      BY <1>5, ConcludedShape DEF Conclude, Leave, TypeOK, RecordsReadable, Located, At
    <3>2. EffectIsNamed'
      BY <1>5 DEF Conclude, Leave, EffectIsNamed, Located, At, Supervised
    <3>3. ActorPast'
      BY <1>5 DEF Conclude, Leave, Concluded, Required, Committed, ActorPast
    <3>4. Remembered'
      BY <1>5 DEF Conclude, Leave, Concluded, Required, Committed, Remembered
    <3> QED BY <3>1, <3>2, <3>3, <3>4
  <2>5. Truth'
    <3>1. WritesAreNewer'
      BY <1>5 DEF Conclude, Leave, TypeOK, WritesAreNewer
    <3>2. VerdictIsTrue'
      BY <1>5 DEF Conclude, Leave, VerdictIsTrue
    <3>3. NoHiddenChange'
      <4> DEFINE r == Req(p)
      <4>1. r \in Request /\ op[r] \in Operation /\ wrote' = wrote /\ op'[r] = Concluded(p)
        BY <1>5 DEF Conclude, TypeOK, Asked
      <4>2. ASSUME op'[r].phase = "committed", ~op'[r].refreshed
            PROVE  op'[r].actor \notin wrote
        <5>1. op'[r] = Committed(op[r], out[p] = "refreshed")
          BY <4>1, <4>2 DEF Concluded, Required
        <5>2. op'[r].refreshed = (out[p] = "refreshed") /\ op'[r].actor = op[r].actor
          BY <4>1, <5>1 DEF Committed
        <5>3. op[r].actor = p /\ pc[p] = "conclude"
          BY <1>5 DEF Conclude, Located, At
        <5>4. out[p] = "unchanged"
          BY <1>5, <4>1, <4>2, <5>2, <5>3
          DEF Concluded, Required, TypeOK, Verdict, Operation
        <5> QED BY <5>2, <5>3, <5>4 DEF VerdictIsTrue
      <4>3. \A s \in Request : s # r => op'[s] = op[s]
        BY <1>5 DEF Conclude
      <4> QED BY <4>1, <4>2, <4>3 DEF NoHiddenChange
    <3> QED BY <3>1, <3>2, <3>3
  <2> QED BY <2>1, <2>2, <2>3, <2>4, <2>5
<1> QED BY <1>1, <1>2, <1>3, <1>4, <1>5

\* Deaths, native groups and the clean-up keep the invariant.
LEMMA EnvironmentPreserves ==
  ASSUME IInv, NEW p \in Invocation,
         Stop(p) \/ NativeWrites(p) \/ NativeRemoves(p) \/ NativeExits(p)
  PROVE  IInv'
<1> USE DEF UnderLock, InEffect, InTurn, Req, Mine, Goto, Write, Live, Ran, File, History,
           IInv, Bookkeeping, Custody, Truth
<1>1. CASE Stop(p)
  <2>1. TypeOK'
    BY <1>1 DEF Stop, Leave, TypeOK, Asked, Location, Call, NoCall, Outcome, NoFile
  <2>2. Bookkeeping'
    BY <1>1, ConstantsOK DEF Stop, Leave, TypeOK, Locks, Asked, Supervised
  <2>3. Located'
    BY <1>1 DEF Stop, Leave, TypeOK, Located, At
  <2>4. Custody'
    BY <1>1 DEF Stop, Leave, RecordsReadable, EffectIsNamed, ActorPast, Remembered
  <2>5. Truth'
    BY <1>1 DEF Stop, Leave, TypeOK, WritesAreNewer, VerdictIsTrue, NoHiddenChange
  <2> QED BY <2>1, <2>2, <2>3, <2>4, <2>5
<1>2. CASE NativeWrites(p)
  <2>1. TypeOK'
    BY <1>2, ConstantsOK DEF NativeWrites, TypeOK
  <2>2. Bookkeeping'
    BY <1>2 DEF NativeWrites, Locks, Asked, Supervised
  <2>3. Located'
    BY <1>2 DEF NativeWrites, Located, At
  <2>4. Custody'
    BY <1>2 DEF NativeWrites, RecordsReadable, EffectIsNamed, ActorPast, Remembered
  <2>5. Truth'
    BY <1>2, ConstantsOK
    DEF NativeWrites, TypeOK, Supervised, WritesAreNewer, VerdictIsTrue, NoHiddenChange,
        ActorPast, EffectIsNamed
  <2> QED BY <2>1, <2>2, <2>3, <2>4, <2>5
<1>3. CASE NativeRemoves(p)
  <2>1. TypeOK'
    BY <1>3 DEF NativeRemoves, TypeOK, NoFile
  <2>2. Bookkeeping'
    BY <1>3 DEF NativeRemoves, Locks, Asked, Supervised
  <2>3. Located'
    BY <1>3 DEF NativeRemoves, Located, At
  <2>4. Custody'
    BY <1>3 DEF NativeRemoves, RecordsReadable, EffectIsNamed, ActorPast, Remembered
  <2>5. Truth'
    BY <1>3, ConstantsOK
    DEF NativeRemoves, Supervised, WritesAreNewer, VerdictIsTrue, NoHiddenChange,
        ActorPast, EffectIsNamed
  <2> QED BY <2>1, <2>2, <2>3, <2>4, <2>5
<1>4. CASE NativeExits(p)
  <2>1. TypeOK'
    BY <1>4 DEF NativeExits, TypeOK, NativeState
  <2>2. Bookkeeping'
    BY <1>4 DEF NativeExits, Locks, Asked, Supervised
  <2>3. Located'
    BY <1>4 DEF NativeExits, Located, At
  <2>4. Custody'
    BY <1>4 DEF NativeExits, RecordsReadable, EffectIsNamed, ActorPast, Remembered
  <2>5. Truth'
    BY <1>4 DEF NativeExits, WritesAreNewer, VerdictIsTrue, NoHiddenChange
  <2> QED BY <2>1, <2>2, <2>3, <2>4, <2>5
<1> QED BY <1>1, <1>2, <1>3, <1>4

\* Forgetting a committed request keeps the invariant: none of its groups is live.
LEMMA EvictPreserves ==
  ASSUME IInv, NEW r \in Request, Evict(r)
  PROVE  IInv'
<1> USE DEF UnderLock, InEffect, InTurn, Req, Mine, Live, Ran, File, IInv, Bookkeeping,
           Custody, Truth, Evict
<1>1. TypeOK'
  BY DEF TypeOK, NoOperation, Operation, Phase, Evidence
<1>2. Bookkeeping'
  BY DEF Locks, Asked, Supervised
<1>3. Located'
  BY DEF Located, At
<1>4. Custody'
  <2>1. RecordsReadable'
    BY DEF RecordsReadable, WellFormed, NoOperation
  <2>2. EffectIsNamed'
    BY DEF EffectIsNamed
  <2>3. ActorPast'
    BY DEF ActorPast, NoOperation
  <2>4. Remembered'
    BY DEF Remembered
  <2> QED BY <2>1, <2>2, <2>3, <2>4
<1>5. Truth'
  <2>1. WritesAreNewer'
    BY DEF WritesAreNewer
  <2>2. VerdictIsTrue'
    BY DEF VerdictIsTrue
  <2>3. NoHiddenChange'
    BY DEF NoHiddenChange, NoOperation
  <2> QED BY <2>1, <2>2, <2>3
<1> QED BY <1>1, <1>2, <1>3, <1>4, <1>5

\* A step that changes nothing keeps the invariant.
LEMMA StutterPreserves ==
  ASSUME IInv, UNCHANGED vars
  PROVE  IInv'
BY DEF vars, IInv, TypeOK, Bookkeeping, Locks, Asked, Supervised, Located, At, Custody,
       RecordsReadable, EffectIsNamed, ActorPast, Remembered, Truth, WritesAreNewer,
       VerdictIsTrue, NoHiddenChange, Req, Mine, Live, Ran

\* Every step keeps the invariant.
LEMMA StepPreserves == IInv /\ [Next]_vars => IInv'
<1> SUFFICES ASSUME IInv, [Next]_vars PROVE IInv'
  OBVIOUS
<1>1. ASSUME NEW p \in Invocation, Start(p) \/ Step(p) \/ Stop(p) \/ Native(p)
      PROVE  IInv'
  BY <1>1, CustodyPreserves, SettlementPreserves, AdmissionPreserves,
     ObservationPreserves, EnvironmentPreserves
  DEF Step, Native, Observed
<1>2. ASSUME NEW r \in Request, Evict(r) PROVE IInv'
  BY <1>2, EvictPreserves
<1>3. CASE UNCHANGED vars
  BY <1>3, StutterPreserves
<1> QED BY <1>1, <1>2, <1>3 DEF Next

-----------------------------------------------------------------------------
(***************************************************************************)
(* Theorems                                                                *)
(***************************************************************************)
\* The inductive invariant holds in every reachable state, whatever the numbers of
\* processes, requests, inputs and contents.
THEOREM Invariant == Spec => []IInv
BY InitEstablishes, StepPreserves, PTL DEF Spec

\* Every reachable state has the declared types, and a process that concludes has a
\* verdict on the credential file.
THEOREM TypeCorrect == Spec => []TypeOK
<1>1. IInv => TypeOK
  BY DEF IInv
<1> QED BY Invariant, <1>1, PTL

\* No history of deaths, retries and reconciliations leaves an operation that
\* validate_quota_refresh_operation refuses.
THEOREM OperationsStayReadable == Spec => []RecordsReadable
<1>1. IInv => RecordsReadable
  BY DEF IInv, Custody
<1> QED BY Invariant, <1>1, PTL

\* A group that may still change the credential is named, as not yet terminal, by the
\* record of its request.
THEOREM EffectsAreNamed == Spec => []EffectIsNamed
<1>1. IInv => EffectIsNamed
  BY DEF IInv, Custody
<1> QED BY Invariant, <1>1, PTL

\* Of all the processes ever started for one request, at most one lets `auth list`
\* through: whatever ran is the actor the record remembers.
THEOREM OneEffect == Spec => []EffectOnce
<1>1. IInv => EffectOnce
  BY DEF IInv, Custody, Remembered, EffectOnce, Mine
<1> QED BY Invariant, <1>1, PTL

\* A refresh that is reported as none did not change the file.
THEOREM NoChangeIsHidden == Spec => []NoHiddenChange
<1>1. IInv => NoHiddenChange
  BY DEF IInv, Truth
<1> QED BY Invariant, <1>1, PTL

\* Accepting is the only step that records an accepted digest, and it accepts what the
\* file holds while no group of the request is left.
LEMMA AcceptanceOfStep ==
  ASSUME IInv, [Next]_vars, NEW r \in Request,
         op'[r].accepted # op[r].accepted, op'[r].phase # "absent"
  PROVE  /\ op'[r].accepted = cred /\ cred' = cred
         /\ \A q \in Invocation : Req(q) = r => ~Live(q)
<1> USE DEF IInv, TypeOK, Bookkeeping, Asked, Located, At, Req, Mine, Write, File
<1>1. \/ \E p \in Invocation :
           Prepare(p) \/ SettleWrite(p) \/ Accept(p) \/ SpawnFails(p) \/ Publish(p)
           \/ Conclude(p)
      \/ \E s \in Request : Evict(s)
  BY DEF Next, Step, Native, Observed, vars, Start, Lock, LockTimeout, Answer, Resume,
         Retry, Settle, Reconcile, Stale, EffectLock, Spawn, Release, ReleaseFails,
         LeaderReturns, LeaderTimesOut, SettleOwn, Snapshot, Stop, NativeWrites,
         NativeRemoves, NativeExits
<1>2. ASSUME NEW s \in Request, Evict(s) PROVE FALSE
  BY <1>2 DEF Evict, NoOperation
<1>3. ASSUME NEW p \in Invocation, Prepare(p) PROVE FALSE
  BY <1>3
  DEF Prepare, Matches, Prepared, NoOperation, Custody, RecordsReadable, WellFormed
<1>4. ASSUME NEW p \in Invocation, SettleWrite(p) PROVE FALSE
  BY <1>4 DEF SettleWrite, Required
<1>5. ASSUME NEW p \in Invocation, SpawnFails(p) PROVE FALSE
  BY <1>5 DEF SpawnFails, Committed
<1>6. ASSUME NEW p \in Invocation, Publish(p) PROVE FALSE
  BY <1>6 DEF Publish, Admitted
<1>7. ASSUME NEW p \in Invocation, Conclude(p) PROVE FALSE
  BY <1>7 DEF Conclude, Concluded, Required, Committed
<1>8. PICK p \in Invocation : Accept(p)
  BY <1>1, <1>2, <1>3, <1>4, <1>5, <1>6, <1>7
<1>9. Req(p) = r
  BY <1>8 DEF Accept
<1>10. op'[r].accepted = cred /\ cred' = cred
  BY <1>8, <1>9 DEF Accept, Resolved
<1>11. op[r].phase = "reconciliation_required"
  BY <1>8, <1>9 DEF Accept
<1>12. \A q \in Invocation : Req(q) = r => ~Live(q)
  BY <1>11 DEF Custody, EffectIsNamed
<1> QED BY <1>10, <1>12

\* What the caller accepts is what is in the file when the request is committed, and no
\* group of this request can change it afterwards.
THEOREM AcceptanceIsCurrent == Spec => AcceptsTheCurrent
<1>1. IInv /\ [Next]_vars =>
        [\A r \in Request :
           op'[r].accepted # op[r].accepted /\ op'[r].phase # "absent" =>
             /\ op'[r].accepted = cred /\ cred' = cred
             /\ \A q \in Invocation : Req(q) = r => ~Live(q)]_vars
  BY AcceptanceOfStep
<1> QED BY Invariant, <1>1, PTL DEF Spec, AcceptsTheCurrent

\* One named effect per request, under a record that stays readable.
THEOREM EffectsAreHeld == Spec => []EffectIsHeld
<1>1. RecordsReadable /\ EffectIsNamed /\ EffectOnce => EffectIsHeld
  BY DEF EffectIsHeld
<1> QED BY <1>1, OperationsStayReadable, EffectsAreNamed, OneEffect, PTL

=============================================================================
