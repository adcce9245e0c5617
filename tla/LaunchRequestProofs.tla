------------------------ MODULE LaunchRequestProofs ------------------------
(***************************************************************************)
(* Proofs, for every number of invocations and inputs, about               *)
(* LaunchRequest: its safety properties, that no step withdraws recorded   *)
(* evidence, and that it implements OneTurn.  They hold under one          *)
(* assumption: a replay slot is not displaced while its publisher is still *)
(* retiring the active marker (Undisturbed); without it they fail, as      *)
(* LaunchDisplaced.cfg shows.                                              *)
(***************************************************************************)
EXTENDS LaunchRequest, TLAPS

Undisturbed == DisplaceDuringHandoff = FALSE

(***************************************************************************)
(* The inductive invariant                                                 *)
(***************************************************************************)

\* The request lock is held by the one process that is under it.
Mutex ==
  /\ \A p \in Invocation : pc[p] \in UnderLock <=> lock = p
  /\ cleaner = "reap_marker" => lock = Reaper
  /\ cleaner = "evict_owner" => lock = Evictor
  /\ cleaner # "none" => rec = Absent

\* A removed record leaves nothing behind, and a present one names its input.
RecordShape ==
  /\ ~Present(rec) => rec = Absent
  /\ Present(rec) => rec.input \in Input
  /\ Present(rec) => marker \in {None, rec.input}

\* An unreleased gate has its supervisor.
GateIsSupervised ==
  \A p \in Invocation : native[p] = "gated" => pc[p] \in {"observe", "gate"}

\* An invocation under way was given an input.
Asked == \A p \in Invocation : pc[p] # "idle" => ask[p] \in Input

\* What each location of a lock holder knows of the record and of the groups.
Quiet == \A q \in Invocation : native[q] # "running"

Untaken == submitted \subseteq retired

AtHandoff(p) ==
  /\ pc[p] \in {"handoff", "handoff_marker"} => IsReplay(rec)
  /\ pc[p] = "handoff_marker" => Owned

AtRead(p) ==
  /\ pc[p] = "read" /\ ~Present(rec) /\ stage[p] = "admit" => ~Owned /\ marker = ask[p]
  /\ pc[p] \in {"settle", "settle_write", "interpret"} =>
       Present(rec) /\ rec.input = ask[p]
  /\ pc[p] \in {"settle_write", "interpret", "remove"} => Quiet
  /\ pc[p] = "interpret" => rec.terminal
  /\ pc[p] = "remove" =>
       Untaken /\ rec.phase \in {"prepared", "unresolved"} /\ rec.input = ask[p]
  /\ pc[p] = "orphan_marker" => rec = Absent

AtTurn(p) ==
  /\ pc[p] = "prepare" => rec = Absent /\ ~Owned /\ marker = ask[p] /\ stage[p] = "admit"
  /\ pc[p] \in {"route", "observe"} => mem[p] = Fresh(p)
  /\ pc[p] \in {"route", "observe", "gate"} => Untaken /\ mem[p].phase = "prepared"
  /\ pc[p] \in {"gate", "supervise", "custody"} => mem[p].actor = p /\ ~mem[p].terminal
  /\ pc[p] = "gate" => native[p] # "running"
  /\ pc[p] = "supervise" =>
       mem[p].phase \in (IF ask[p] \in ResumeInput THEN {"prepared"}
                                                   ELSE {"prepared", "session_observed"})
  /\ pc[p] = "custody" => Present(mem[p])
  /\ pc[p] = "settle_own" =>
       Present(mem[p]) /\ mem[p].actor = p /\ native[p] = "dead" /\ ~mem[p].terminal
  /\ pc[p] = "release" => Present(mem[p]) /\ mem[p].actor = p /\ mem[p].terminal

Located == lock \in Invocation => AtHandoff(lock) /\ AtRead(lock) /\ AtTurn(lock)

\* While a finished invocation publishes, the settled record stays what it is.
Publishing ==
  \A q \in Invocation :
    /\ pc[q] \in {"publish", "publish_marker"} =>
         IsReplay(rec) /\ \A p \in Invocation : pc[p] \notin Owning
    /\ pc[q] = "publish_marker" => Owned

\* The one native turn that counts belongs to the recorded actor.
EffectIsNamed ==
  /\ submitted \ retired \subseteq {rec.actor}
  /\ retired \subseteq submitted /\ completed \subseteq submitted

\* Nobody records an actor it has not already finished preparing.
ActorPast ==
  \A p \in Invocation :
    rec.actor = p =>
      pc[p] \in {"gate", "supervise", "custody", "settle_own", "release",
                 "publish", "publish_marker"} \cup Ended

Bookkeeping == Mutex /\ RecordShape /\ Asked /\ GateIsSupervised

Custody == EffectHasCustody /\ GuardMatchesFile /\ Indexed /\ ReplayIsSettled

Evidence == Publishing /\ EffectIsNamed /\ ActorPast /\ ObservationIsTrue

IInv == TypeOK /\ Bookkeeping /\ Custody /\ Located /\ Evidence

-----------------------------------------------------------------------------
(***************************************************************************)
(* Records                                                                 *)
(***************************************************************************)
LEMMA AbsentIsRecord ==
  Absent \in Record /\ ~Present(Absent) /\ ~IsReplay(Absent) /\ Absent.actor = None
BY ConstantsOK DEF Absent, Record, Phase, Present, IsReplay, ReplayPhase

LEMMA TerminalIsRecord ==
  ASSUME NEW r \in Record
  PROVE  [r EXCEPT !.terminal = TRUE] \in Record
BY DEF Record

\* Whatever a listing shows was submitted, and it shows all that still counts.
LEMMA SightingsBound ==
  ASSUME NEW seen \in Sightings
  PROVE  seen \subseteq submitted /\ submitted \ retired \subseteq seen
<1>1. seen = submitted \ retired \/ seen = submitted
  BY DEF Sightings
<1> QED BY <1>1

\* The invariant holds at the start.
LEMMA InitEstablishes == Init => IInv
<1> SUFFICES ASSUME Init PROVE IInv
  OBVIOUS
<1> USE DEF Init
<1>1. TypeOK
  BY AbsentIsRecord DEF TypeOK, PC
<1>2. Bookkeeping
  BY ConstantsOK, AbsentIsRecord
  DEF Bookkeeping, Mutex, RecordShape, Asked, GateIsSupervised, UnderLock
<1>3. Custody
  BY ConstantsOK, AbsentIsRecord
  DEF Custody, EffectHasCustody, GuardMatchesFile, Indexed, ReplayIsSettled, Owning, Owned
<1>4. Located
  BY ConstantsOK DEF Located
<1>5. Evidence
  BY ConstantsOK
  DEF Evidence, Publishing, EffectIsNamed, ActorPast, ObservationIsTrue, Absent
<1> QED BY <1>1, <1>2, <1>3, <1>4, <1>5 DEF IInv

\* Reaching the lock and classifying the request keeps the invariant.
LEMMA AdmissionPreserves ==
  ASSUME IInv, NEW p \in Invocation,
         (\E i \in Input : Start(p, i)) \/ PolicyAccepts(p) \/
         PolicyRejects(p) \/ Lock(p) \/ LockTimeout(p) \/ Classify(p) \/
         Handoff(p) \/ HandoffMarker(p)
  PROVE  IInv'
<1> USE DEF UnderLock, Outside, Ended, PC, Owning, Phase, Present, ReplayPhase, IsReplay,
           Goto, Drop, Refuse, Write, Fresh, Owned, files, store,
           IInv, TypeOK, Bookkeeping, Custody, Evidence
<1>1. ASSUME NEW i \in Input, Start(p, i) PROVE IInv'
  <2>1. TypeOK'
    BY <1>1 DEF Start
  <2>2. Bookkeeping'
    BY <1>1 DEF Start, Mutex, RecordShape, Asked, GateIsSupervised
  <2>3. Custody'
    BY <1>1
    DEF Start, EffectHasCustody, GuardMatchesFile, Indexed, ReplayIsSettled
  <2>4. Located'
    BY <1>1 DEF Start, Located, AtHandoff, AtRead, AtTurn, Untaken, Quiet
  <2>5. Evidence'
    BY <1>1 DEF Start, Publishing, EffectIsNamed, ActorPast, ObservationIsTrue
  <2> QED BY <2>1, <2>2, <2>3, <2>4, <2>5
<1>2. CASE PolicyAccepts(p)
  <2>1. TypeOK'
    BY <1>2 DEF PolicyAccepts
  <2>2. Bookkeeping'
    BY <1>2 DEF PolicyAccepts, Mutex, RecordShape, Asked, GateIsSupervised
  <2>3. Custody'
    BY <1>2
    DEF PolicyAccepts, EffectHasCustody, GuardMatchesFile, Indexed,
        ReplayIsSettled
  <2>4. Located'
    BY <1>2
    DEF PolicyAccepts, Located, AtHandoff, AtRead, AtTurn, Untaken, Quiet
  <2>5. Evidence'
    BY <1>2
    DEF PolicyAccepts, Publishing, EffectIsNamed, ActorPast, ObservationIsTrue
  <2> QED BY <2>1, <2>2, <2>3, <2>4, <2>5
<1>3. CASE PolicyRejects(p)
  <2>1. TypeOK'
    BY <1>3 DEF PolicyRejects
  <2>2. Bookkeeping'
    BY <1>3 DEF PolicyRejects, Mutex, RecordShape, Asked, GateIsSupervised
  <2>3. Custody'
    BY <1>3
    DEF PolicyRejects, EffectHasCustody, GuardMatchesFile, Indexed,
        ReplayIsSettled
  <2>4. Located'
    BY <1>3
    DEF PolicyRejects, Located, AtHandoff, AtRead, AtTurn, Untaken, Quiet
  <2>5. Evidence'
    BY <1>3
    DEF PolicyRejects, Publishing, EffectIsNamed, ActorPast, ObservationIsTrue
  <2> QED BY <2>1, <2>2, <2>3, <2>4, <2>5
<1>4. CASE Lock(p)
  <2>1. TypeOK'
    BY <1>4 DEF Lock
  <2>2. Bookkeeping'
    BY <1>4, ConstantsOK DEF Lock, Mutex, RecordShape, Asked, GateIsSupervised
  <2>3. Custody'
    BY <1>4
    DEF Lock, EffectHasCustody, GuardMatchesFile, Indexed, ReplayIsSettled
  <2>4. Located'
    BY <1>4 DEF Lock, Located, AtHandoff, AtRead, AtTurn
  <2>5. Evidence'
    BY <1>4 DEF Lock, Publishing, EffectIsNamed, ActorPast, ObservationIsTrue
  <2> QED BY <2>1, <2>2, <2>3, <2>4, <2>5
<1>5. CASE LockTimeout(p)
  <2>1. TypeOK'
    BY <1>5 DEF LockTimeout
  <2>2. Bookkeeping'
    BY <1>5 DEF LockTimeout, Mutex, RecordShape, Asked, GateIsSupervised
  <2>3. Custody'
    BY <1>5
    DEF LockTimeout, EffectHasCustody, GuardMatchesFile, Indexed,
        ReplayIsSettled
  <2>4. Located'
    BY <1>5
    DEF LockTimeout, Located, AtHandoff, AtRead, AtTurn, Untaken, Quiet
  <2>5. Evidence'
    BY <1>5
    DEF LockTimeout, Publishing, EffectIsNamed, ActorPast, ObservationIsTrue
  <2> QED BY <2>1, <2>2, <2>3, <2>4, <2>5
<1>6. CASE Classify(p)
  <2>1. TypeOK'
    BY <1>6 DEF Classify
  <2>2. Bookkeeping'
    BY <1>6, ConstantsOK
    DEF Classify, Observed, Mutex, RecordShape, Asked, GateIsSupervised
  <2>3. Custody'
    BY <1>6
    DEF Classify, Observed, Mutex, EffectHasCustody, GuardMatchesFile,
        Indexed, ReplayIsSettled
  <2>4. Located'
    BY <1>6
    DEF Classify, NeedsHandoff, Observed, ResumesReservation, Mutex, Located,
        AtHandoff, AtRead, AtTurn
  <2>5. Evidence'
    BY <1>6
    DEF Classify, Publishing, EffectIsNamed, ActorPast, ObservationIsTrue
  <2> QED BY <2>1, <2>2, <2>3, <2>4, <2>5
<1>7. CASE Handoff(p)
  <2>1. TypeOK'
    BY <1>7 DEF Handoff
  <2>2. Bookkeeping'
    BY <1>7 DEF Handoff, Mutex, RecordShape, Asked, GateIsSupervised
  <2>3. Custody'
    BY <1>7
    DEF Handoff, Mutex, GateIsSupervised, EffectHasCustody, GuardMatchesFile,
        Indexed, ReplayIsSettled, Located, AtHandoff
  <2>4. Located'
    BY <1>7 DEF Handoff, Mutex, Located, AtHandoff, AtRead, AtTurn
  <2>5. Evidence'
    BY <1>7
    DEF Handoff, Publishing, EffectIsNamed, ActorPast, ObservationIsTrue
  <2> QED BY <2>1, <2>2, <2>3, <2>4, <2>5
<1>8. CASE HandoffMarker(p)
  <2>1. TypeOK'
    BY <1>8 DEF HandoffMarker
  <2>2. Bookkeeping'
    BY <1>8 DEF HandoffMarker, Mutex, RecordShape, Asked, GateIsSupervised
  <2>3. Custody'
    BY <1>8
    DEF HandoffMarker, Mutex, EffectHasCustody, GuardMatchesFile, Indexed,
        ReplayIsSettled, Located, AtHandoff
  <2>4. Located'
    BY <1>8 DEF HandoffMarker, Mutex, Located, AtHandoff, AtRead, AtTurn
  <2>5. Evidence'
    BY <1>8
    DEF HandoffMarker, Publishing, EffectIsNamed, ActorPast, ObservationIsTrue
  <2> QED BY <2>1, <2>2, <2>3, <2>4, <2>5
<1> QED BY <1>1, <1>2, <1>3, <1>4, <1>5, <1>6, <1>7, <1>8

\* Reading, settling and interpreting an existing record keeps the invariant.
LEMMA RetryPreserves ==
  ASSUME IInv, NEW p \in Invocation,
         Read(p) \/ Settle(p) \/ SettleWrite(p) \/ InterpretNewSession(p)
         \/ InterpretResume(p)
  PROVE  IInv'
<1> USE DEF UnderLock, Outside, Ended, PC, Owning, Phase, Present, ReplayPhase, IsReplay,
           Goto, Drop, Refuse, Write, Fresh, Owned, files, store,
           IInv, TypeOK, Bookkeeping, Custody, Evidence
<1>1. CASE Read(p)
  <2>1. TypeOK'
    BY <1>1 DEF Read
  <2>2. Bookkeeping'
    BY <1>1, ConstantsOK DEF Read, Mutex, RecordShape, Asked, GateIsSupervised
  <2>3. Custody'
    BY <1>1
    DEF Read, EffectHasCustody, GuardMatchesFile, Indexed, ReplayIsSettled
  <2>4. Located'
    BY <1>1
    DEF Read, Mismatch, Mutex, RecordShape, Located, AtHandoff, AtRead, AtTurn
  <2>5. Evidence'
    BY <1>1 DEF Read, Publishing, EffectIsNamed, ActorPast, ObservationIsTrue
  <2> QED BY <2>1, <2>2, <2>3, <2>4, <2>5
<1>2. CASE Settle(p)
  <2>1. TypeOK'
    BY <1>2 DEF Settle
  <2>2. Bookkeeping'
    BY <1>2 DEF Settle, Mutex, RecordShape, Asked, GateIsSupervised
  <2>3. Custody'
    BY <1>2
    DEF Settle, EffectHasCustody, GuardMatchesFile, Indexed, ReplayIsSettled
  <2>4. Located'
    BY <1>2, ConstantsOK, SightingsBound
    DEF Settle, Live, EffectHasCustody, Located, AtHandoff, AtRead, AtTurn,
        Untaken, Quiet
  <2>5. Evidence'
    BY <1>2
    DEF Settle, Publishing, EffectIsNamed, ActorPast, ObservationIsTrue
  <2> QED BY <2>1, <2>2, <2>3, <2>4, <2>5
<1>3. CASE SettleWrite(p)
  <2>1. TypeOK'
    BY <1>3, TerminalIsRecord DEF SettleWrite
  <2>2. Bookkeeping'
    BY <1>3
    DEF SettleWrite, Absent, Mutex, RecordShape, Asked, GateIsSupervised,
        Located, AtRead
  <2>3. Custody'
    BY <1>3
    DEF SettleWrite, Mutex, EffectHasCustody, GuardMatchesFile, Indexed,
        ReplayIsSettled, Located, AtRead, Quiet
  <2>4. Located'
    BY <1>3 DEF SettleWrite, Mutex, Located, AtHandoff, AtRead, AtTurn, Quiet
  <2>5. Evidence'
    BY <1>3
    DEF SettleWrite, Publishing, EffectIsNamed, ActorPast, ObservationIsTrue
  <2> QED BY <2>1, <2>2, <2>3, <2>4, <2>5
<1>4. CASE InterpretNewSession(p)
  <2>1. TypeOK'
    BY <1>4 DEF InterpretNewSession, Reconcile, NoEffect, Record
  <2>2. Bookkeeping'
    BY <1>4, ConstantsOK
    DEF InterpretNewSession, Reconcile, NoEffect, Record, Mutex, RecordShape,
        Asked, GateIsSupervised
  <2>3. Custody'
    BY <1>4
    DEF InterpretNewSession, Reconcile, NoEffect, Record, Mutex,
        EffectHasCustody, GuardMatchesFile, Indexed, ReplayIsSettled
  <2>4. Located'
    BY <1>4
    DEF InterpretNewSession, Reconcile, NoEffect, Sightings, Mutex, Located,
        AtHandoff, AtRead, AtTurn, Untaken, Quiet
  <2>5. Evidence'
    <3>1. submitted' = submitted /\ completed' = completed
      BY <1>4 DEF InterpretNewSession
    <3>2. rec'.phase \in {rec.phase, "session_observed"}
      BY <1>4 DEF InterpretNewSession, Reconcile, NoEffect, Record
    <3>3. rec'.phase # rec.phase => submitted # {}
      <4>1. rec'.phase # rec.phase =>
              \E seen \in Sightings, q \in Invocation : seen = {q}
        BY <1>4, SMT DEF InterpretNewSession, Reconcile, NoEffect, Record
      <4> QED BY <4>1, SightingsBound
    <3>4. ObservationIsTrue'
      BY <1>4, <3>1, <3>2, <3>3 DEF ObservationIsTrue
    <3>5. (Publishing /\ EffectIsNamed /\ ActorPast)'
      BY <1>4 DEF InterpretNewSession, Reconcile, NoEffect, Publishing, EffectIsNamed,
             ActorPast, Record
    <3> QED BY <1>4, <3>4, <3>5
  <2> QED BY <2>1, <2>2, <2>3, <2>4, <2>5
<1>5. CASE InterpretResume(p)
  <2>1. TypeOK'
    BY <1>5 DEF InterpretResume, Reconcile, NoEffect, Record
  <2>2. Bookkeeping'
    BY <1>5, ConstantsOK
    DEF InterpretResume, Reconcile, NoEffect, Record, Mutex, RecordShape,
        Asked, GateIsSupervised
  <2>3. Custody'
    BY <1>5
    DEF InterpretResume, Reconcile, NoEffect, Record, Mutex, EffectHasCustody,
        GuardMatchesFile, Indexed, ReplayIsSettled
  <2>4. Located'
    BY <1>5
    DEF InterpretResume, Reconcile, NoEffect, Sightings, Mutex, Located,
        AtHandoff, AtRead, AtTurn, Untaken, Quiet
  <2>5. Evidence'
    BY <1>5
    DEF InterpretResume, Reconcile, NoEffect, Sightings, Record, Publishing,
        EffectIsNamed, ActorPast, ObservationIsTrue
  <2> QED BY <2>1, <2>2, <2>3, <2>4, <2>5
<1> QED BY <1>1, <1>2, <1>3, <1>4, <1>5

\* Removing a record that had no effect, and its orphaned marker, keeps the invariant.
LEMMA GivingUpPreserves ==
  ASSUME IInv, NEW p \in Invocation,
         Remove(p) \/ OrphanSkips(p) \/ OrphanLocks(p) \/ OrphanMarker(p)
  PROVE  IInv'
<1> USE DEF UnderLock, Outside, Ended, PC, Owning, Phase, Present, ReplayPhase, IsReplay,
           Goto, Drop, Refuse, Write, Fresh, Owned, files, store,
           IInv, TypeOK, Bookkeeping, Custody, Evidence
<1>1. CASE Remove(p)
  <2>1. TypeOK'
    BY <1>1, AbsentIsRecord DEF Remove
  <2>2. Bookkeeping'
    BY <1>1, ConstantsOK
    DEF Remove, Absent, Mutex, RecordShape, Asked, GateIsSupervised
  <2>3. Custody'
    BY <1>1
    DEF Remove, Absent, Mutex, EffectHasCustody, GuardMatchesFile, Indexed,
        ReplayIsSettled, Located, AtRead, Quiet
  <2>4. Located'
    BY <1>1
    DEF Remove, Mutex, Indexed, ReplayIsSettled, Located, AtHandoff, AtRead,
        AtTurn
  <2>5. Evidence'
    BY <1>1, ConstantsOK
    DEF Remove, Absent, Mutex, Located, AtRead, Publishing, EffectIsNamed,
        ActorPast, ObservationIsTrue, Untaken
  <2> QED BY <2>1, <2>2, <2>3, <2>4, <2>5
<1>2. CASE OrphanSkips(p)
  <2>1. TypeOK'
    BY <1>2 DEF OrphanSkips, AfterOrphan
  <2>2. Bookkeeping'
    BY <1>2
    DEF OrphanSkips, AfterOrphan, Mutex, RecordShape, Asked, GateIsSupervised
  <2>3. Custody'
    BY <1>2
    DEF OrphanSkips, AfterOrphan, EffectHasCustody, GuardMatchesFile, Indexed,
        ReplayIsSettled
  <2>4. Located'
    BY <1>2
    DEF OrphanSkips, Mutex, Located, AtHandoff, AtRead, AtTurn, Untaken, Quiet
  <2>5. Evidence'
    BY <1>2
    DEF OrphanSkips, AfterOrphan, Publishing, EffectIsNamed, ActorPast,
        ObservationIsTrue
  <2> QED BY <2>1, <2>2, <2>3, <2>4, <2>5
<1>3. CASE OrphanLocks(p)
  <2>1. TypeOK'
    BY <1>3 DEF OrphanLocks
  <2>2. Bookkeeping'
    BY <1>3, ConstantsOK
    DEF OrphanLocks, Mutex, RecordShape, Asked, GateIsSupervised
  <2>3. Custody'
    BY <1>3
    DEF OrphanLocks, EffectHasCustody, GuardMatchesFile, Indexed,
        ReplayIsSettled
  <2>4. Located'
    BY <1>3 DEF OrphanLocks, RecordShape, Located, AtHandoff, AtRead, AtTurn
  <2>5. Evidence'
    BY <1>3
    DEF OrphanLocks, Publishing, EffectIsNamed, ActorPast, ObservationIsTrue
  <2> QED BY <2>1, <2>2, <2>3, <2>4, <2>5
<1>4. CASE OrphanMarker(p)
  <2>1. TypeOK'
    BY <1>4 DEF OrphanMarker, AfterOrphan
  <2>2. Bookkeeping'
    BY <1>4, ConstantsOK
    DEF OrphanMarker, AfterOrphan, Mutex, RecordShape, Asked, GateIsSupervised
  <2>3. Custody'
    BY <1>4
    DEF OrphanMarker, AfterOrphan, Absent, Mutex, EffectHasCustody,
        GuardMatchesFile, Indexed, ReplayIsSettled, Located, AtRead
  <2>4. Located'
    BY <1>4
    DEF OrphanMarker, AfterOrphan, Mutex, Located, AtHandoff, AtRead, AtTurn
  <2>5. Evidence'
    BY <1>4
    DEF OrphanMarker, AfterOrphan, Publishing, EffectIsNamed, ActorPast,
        ObservationIsTrue
  <2> QED BY <2>1, <2>2, <2>3, <2>4, <2>5
<1> QED BY <1>1, <1>2, <1>3, <1>4

\* Running a native turn keeps the invariant.
LEMMA TurnPreserves ==
  ASSUME IInv, NEW p \in Invocation,
         Prepare(p) \/ Spawn(p) \/ Abandon(p) \/ ObserveActor(p) \/
         ReleaseGate(p) \/ ObserveSession(p) \/ Finish(p) \/ StreamFails(p)
  PROVE  IInv'
<1> USE DEF UnderLock, Outside, Ended, PC, Owning, Phase, Present, ReplayPhase, IsReplay,
           Goto, Drop, Refuse, Write, Fresh, Owned, files, store,
           IInv, TypeOK, Bookkeeping, Custody, Evidence
<1>1. CASE Prepare(p)
  <2>1. TypeOK'
    BY <1>1 DEF Prepare, Record
  <2>2. Bookkeeping'
    BY <1>1, ConstantsOK
    DEF Prepare, Mutex, RecordShape, Asked, GateIsSupervised, Located, AtTurn
  <2>3. Custody'
    BY <1>1
    DEF Prepare, Absent, Mutex, EffectHasCustody, GuardMatchesFile, Indexed,
        ReplayIsSettled, Located, AtTurn
  <2>4. Located'
    <3>1. lock = p /\ lock' = p /\ pc'[p] = "route" /\ mem'[p] = Fresh(p)
      BY <1>1 DEF Prepare, Mutex
    <3>2. Untaken'
      BY <1>1, ConstantsOK, AbsentIsRecord
      DEF Prepare, Untaken, EffectIsNamed, Mutex, Located, AtTurn, Absent
    <3> QED BY <1>1, <3>1, <3>2 DEF Located, AtHandoff, AtRead, AtTurn, Prepare
  <2>5. Evidence'
    BY <1>1
    DEF Prepare, Absent, Mutex, Located, AtTurn, Publishing, EffectIsNamed,
        ActorPast, ObservationIsTrue
  <2> QED BY <2>1, <2>2, <2>3, <2>4, <2>5
<1>2. CASE Spawn(p)
  <2>1. TypeOK'
    BY <1>2 DEF Spawn
  <2>2. Bookkeeping'
    BY <1>2 DEF Spawn, Mutex, RecordShape, Asked, GateIsSupervised
  <2>3. Custody'
    BY <1>2
    DEF Spawn, Mutex, EffectHasCustody, GuardMatchesFile, Indexed,
        ReplayIsSettled, Located, AtTurn
  <2>4. Located'
    BY <1>2 DEF Spawn, Located, AtHandoff, AtRead, AtTurn, Untaken, Quiet
  <2>5. Evidence'
    BY <1>2 DEF Spawn, Publishing, EffectIsNamed, ActorPast, ObservationIsTrue
  <2> QED BY <2>1, <2>2, <2>3, <2>4, <2>5
<1>3. CASE Abandon(p)
  <2>1. TypeOK'
    BY <1>3 DEF Abandon
  <2>2. Bookkeeping'
    BY <1>3 DEF Abandon, Mutex, RecordShape, Asked, GateIsSupervised
  <2>3. Custody'
    BY <1>3
    DEF Abandon, EffectHasCustody, GuardMatchesFile, Indexed, ReplayIsSettled
  <2>4. Located'
    BY <1>3, ConstantsOK
    DEF Abandon, EffectHasCustody, GuardMatchesFile, Located, AtHandoff,
        AtRead, AtTurn, Untaken, Quiet
  <2>5. Evidence'
    BY <1>3
    DEF Abandon, Publishing, EffectIsNamed, ActorPast, ObservationIsTrue
  <2> QED BY <2>1, <2>2, <2>3, <2>4, <2>5
<1>4. CASE ObserveActor(p)
  <2>1. TypeOK'
    BY <1>4 DEF ObserveActor, Record
  <2>2. Bookkeeping'
    BY <1>4
    DEF ObserveActor, Absent, Mutex, RecordShape, Asked, GateIsSupervised,
        GuardMatchesFile, Located, AtTurn
  <2>3. Custody'
    BY <1>4, ConstantsOK
    DEF ObserveActor, Mutex, EffectHasCustody, GuardMatchesFile, Indexed,
        ReplayIsSettled, Located, AtTurn
  <2>4. Located'
    BY <1>4
    DEF ObserveActor, Mutex, EffectHasCustody, Located, AtHandoff, AtRead,
        AtTurn, ActorPast, Untaken
  <2>5. Evidence'
    BY <1>4
    DEF ObserveActor, Mutex, Located, AtTurn, Publishing, EffectIsNamed,
        ActorPast, ObservationIsTrue, Untaken
  <2> QED BY <2>1, <2>2, <2>3, <2>4, <2>5
<1>5. CASE ReleaseGate(p)
  <2>1. TypeOK'
    BY <1>5 DEF ReleaseGate
  <2>2. Bookkeeping'
    BY <1>5 DEF ReleaseGate, Mutex, RecordShape, Asked, GateIsSupervised
  <2>3. Custody'
    BY <1>5
    DEF ReleaseGate, Mutex, EffectHasCustody, GuardMatchesFile, Indexed,
        ReplayIsSettled, Located, AtTurn
  <2>4. Located'
    BY <1>5 DEF ReleaseGate, Mutex, Located, AtHandoff, AtRead, AtTurn
  <2>5. Evidence'
    BY <1>5
    DEF ReleaseGate, Publishing, EffectIsNamed, ActorPast, ObservationIsTrue
  <2> QED BY <2>1, <2>2, <2>3, <2>4, <2>5
<1>6. CASE ObserveSession(p)
  <2>1. TypeOK'
    BY <1>6 DEF ObserveSession, Record
  <2>2. Bookkeeping'
    BY <1>6
    DEF ObserveSession, Absent, Mutex, RecordShape, Asked, GateIsSupervised,
        GuardMatchesFile
  <2>3. Custody'
    BY <1>6
    DEF ObserveSession, Mutex, EffectHasCustody, GuardMatchesFile, Indexed,
        ReplayIsSettled
  <2>4. Located'
    BY <1>6 DEF ObserveSession, Mutex, Located, AtHandoff, AtRead, AtTurn
  <2>5. Evidence'
    BY <1>6
    DEF ObserveSession, GuardMatchesFile, Publishing, EffectIsNamed,
        ActorPast, ObservationIsTrue
  <2> QED BY <2>1, <2>2, <2>3, <2>4, <2>5
<1>7. CASE Finish(p)
  <2>1. TypeOK'
    BY <1>7 DEF Finish, Conclusion, Record
  <2>2. Bookkeeping'
    BY <1>7
    DEF Finish, Conclusion, Absent, Mutex, RecordShape, Asked,
        GateIsSupervised, GuardMatchesFile, Located, AtTurn
  <2>3. Custody'
    BY <1>7
    DEF Finish, Mutex, EffectHasCustody, GuardMatchesFile, Indexed,
        ReplayIsSettled, Located, AtTurn
  <2>4. Located'
    BY <1>7 DEF Finish, Conclusion, Mutex, Located, AtHandoff, AtRead, AtTurn
  <2>5. Evidence'
    BY <1>7
    DEF Finish, Conclusion, GuardMatchesFile, Publishing, EffectIsNamed,
        ActorPast, ObservationIsTrue
  <2> QED BY <2>1, <2>2, <2>3, <2>4, <2>5
<1>8. CASE StreamFails(p)
  <2>1. TypeOK'
    BY <1>8 DEF StreamFails
  <2>2. Bookkeeping'
    BY <1>8 DEF StreamFails, Mutex, RecordShape, Asked, GateIsSupervised
  <2>3. Custody'
    BY <1>8
    DEF StreamFails, EffectHasCustody, GuardMatchesFile, Indexed,
        ReplayIsSettled
  <2>4. Located'
    BY <1>8
    DEF StreamFails, Located, AtHandoff, AtRead, AtTurn, Untaken, Quiet
  <2>5. Evidence'
    BY <1>8
    DEF StreamFails, Publishing, EffectIsNamed, ActorPast, ObservationIsTrue
  <2> QED BY <2>1, <2>2, <2>3, <2>4, <2>5
<1> QED BY <1>1, <1>2, <1>3, <1>4, <1>5, <1>6, <1>7, <1>8

\* finalize_launch_actor_and_replay keeps the invariant.
LEMMA FinalisingPreserves ==
  ASSUME IInv, NEW p \in Invocation,
         DropCustody(p) \/ SettleOwn(p) \/ Release(p) \/ Publish(p) \/
         PublishMarker(p)
  PROVE  IInv'
<1> USE DEF UnderLock, Outside, Ended, PC, Owning, Phase, Present, ReplayPhase, IsReplay,
           Goto, Drop, Refuse, Write, Fresh, Owned, files, store,
           IInv, TypeOK, Bookkeeping, Custody, Evidence
<1>1. CASE DropCustody(p)
  <2>1. TypeOK'
    BY <1>1 DEF DropCustody
  <2>2. Bookkeeping'
    BY <1>1 DEF DropCustody, Mutex, RecordShape, Asked, GateIsSupervised
  <2>3. Custody'
    BY <1>1
    DEF DropCustody, EffectHasCustody, GuardMatchesFile, Indexed,
        ReplayIsSettled
  <2>4. Located'
    BY <1>1
    DEF DropCustody, Located, AtHandoff, AtRead, AtTurn, Untaken, Quiet
  <2>5. Evidence'
    BY <1>1
    DEF DropCustody, Publishing, EffectIsNamed, ActorPast, ObservationIsTrue
  <2> QED BY <2>1, <2>2, <2>3, <2>4, <2>5
<1>2. CASE SettleOwn(p)
  <2>1. TypeOK'
    BY <1>2, TerminalIsRecord DEF SettleOwn
  <2>2. Bookkeeping'
    BY <1>2
    DEF SettleOwn, Absent, Mutex, RecordShape, Asked, GateIsSupervised,
        GuardMatchesFile, Located, AtTurn
  <2>3. Custody'
    BY <1>2
    DEF SettleOwn, Mutex, EffectHasCustody, GuardMatchesFile, Indexed,
        ReplayIsSettled, Located, AtTurn
  <2>4. Located'
    BY <1>2 DEF SettleOwn, Mutex, Located, AtHandoff, AtRead, AtTurn
  <2>5. Evidence'
    BY <1>2
    DEF SettleOwn, GuardMatchesFile, Publishing, EffectIsNamed, ActorPast,
        ObservationIsTrue
  <2> QED BY <2>1, <2>2, <2>3, <2>4, <2>5
<1>3. CASE Release(p)
  <2>1. TypeOK'
    BY <1>3 DEF Release
  <2>2. Bookkeeping'
    BY <1>3, ConstantsOK
    DEF Release, Mutex, RecordShape, Asked, GateIsSupervised
  <2>3. Custody'
    BY <1>3
    DEF Release, EffectHasCustody, GuardMatchesFile, Indexed, ReplayIsSettled
  <2>4. Located'
    BY <1>3 DEF Release, Mutex, Located, AtHandoff, AtRead, AtTurn
  <2>5. Evidence'
    BY <1>3
    DEF Release, Mutex, GuardMatchesFile, Publishing, EffectIsNamed,
        ActorPast, ObservationIsTrue
  <2> QED BY <2>1, <2>2, <2>3, <2>4, <2>5
<1>4. CASE Publish(p)
  <2>1. TypeOK'
    BY <1>4 DEF Publish
  <2>2. Bookkeeping'
    BY <1>4 DEF Publish, Mutex, RecordShape, Asked, GateIsSupervised
  <2>3. Custody'
    BY <1>4
    DEF Publish, GateIsSupervised, EffectHasCustody, GuardMatchesFile,
        Indexed, ReplayIsSettled, Publishing
  <2>4. Located'
    BY <1>4
    DEF Publish, Absent, Located, AtHandoff, AtRead, AtTurn, Publishing, Quiet
  <2>5. Evidence'
    BY <1>4
    DEF Publish, Publishing, EffectIsNamed, ActorPast, ObservationIsTrue
  <2> QED BY <2>1, <2>2, <2>3, <2>4, <2>5
<1>5. CASE PublishMarker(p)
  <2>1. TypeOK'
    BY <1>5 DEF PublishMarker
  <2>2. Bookkeeping'
    BY <1>5 DEF PublishMarker, Mutex, RecordShape, Asked, GateIsSupervised
  <2>3. Custody'
    BY <1>5
    DEF PublishMarker, EffectHasCustody, GuardMatchesFile, Indexed,
        ReplayIsSettled, Publishing
  <2>4. Located'
    BY <1>5
    DEF PublishMarker, Located, AtHandoff, AtRead, AtTurn, Publishing, Quiet
  <2>5. Evidence'
    BY <1>5
    DEF PublishMarker, Publishing, EffectIsNamed, ActorPast, ObservationIsTrue
  <2> QED BY <2>1, <2>2, <2>3, <2>4, <2>5
<1> QED BY <1>1, <1>2, <1>3, <1>4, <1>5

\* An error or the death of the provider keeps the invariant.
LEMMA FailurePreserves ==
  ASSUME IInv, NEW p \in Invocation,
         Fail(p) \/ Crash(p)
  PROVE  IInv'
<1> USE DEF UnderLock, Outside, Ended, PC, Owning, Phase, Present, ReplayPhase, IsReplay,
           Goto, Drop, Refuse, Write, Fresh, Owned, files, store,
           IInv, TypeOK, Bookkeeping, Custody, Evidence
<1>1. CASE Fail(p)
  <2>1. TypeOK'
    BY <1>1 DEF Fail
  <2>2. Bookkeeping'
    BY <1>1, ConstantsOK
    DEF Fail, Live, Mutex, RecordShape, Asked, GateIsSupervised
  <2>3. Custody'
    BY <1>1
    DEF Fail, EffectHasCustody, GuardMatchesFile, Indexed, ReplayIsSettled
  <2>4. Located'
    BY <1>1 DEF Fail, Mutex, Located, AtHandoff, AtRead, AtTurn
  <2>5. Evidence'
    BY <1>1 DEF Fail, Publishing, EffectIsNamed, ActorPast, ObservationIsTrue
  <2> QED BY <2>1, <2>2, <2>3, <2>4, <2>5
<1>2. CASE Crash(p)
  <2>1. TypeOK'
    BY <1>2 DEF Crash
  <2>2. Bookkeeping'
    BY <1>2, ConstantsOK
    DEF Crash, Live, Mutex, RecordShape, Asked, GateIsSupervised
  <2>3. Custody'
    BY <1>2
    DEF Crash, EffectHasCustody, GuardMatchesFile, Indexed, ReplayIsSettled
  <2>4. Located'
    <3>1. CASE lock = p
      BY <1>2, <3>1, ConstantsOK DEF Crash, Located
    <3>2. CASE lock # p
      BY <1>2, <3>2 DEF Crash, Live, Mutex, Located, AtHandoff, AtRead, AtTurn, Untaken, Quiet
    <3> QED BY <1>2, <3>1, <3>2
  <2>5. Evidence'
    BY <1>2 DEF Crash, Publishing, EffectIsNamed, ActorPast, ObservationIsTrue
  <2> QED BY <2>1, <2>2, <2>3, <2>4, <2>5
<1> QED BY <1>1, <1>2

\* Nothing the native group does by itself breaks the invariant.
LEMMA NativePreserves ==
  ASSUME IInv, NEW p \in Invocation,
         NativeSubmits(p) \/ NativeCompletes(p) \/ NativeExits(p)
  PROVE  IInv'
<1> USE DEF UnderLock, Outside, Ended, PC, Owning, Phase, Present, ReplayPhase, IsReplay,
           Goto, Drop, Refuse, Write, Fresh, Owned, files, store,
           IInv, TypeOK, Bookkeeping, Custody, Evidence
<1>1. CASE NativeSubmits(p)
  <2>1. TypeOK'
    BY <1>1 DEF NativeSubmits
  <2>2. Bookkeeping'
    BY <1>1 DEF NativeSubmits, Mutex, RecordShape, Asked, GateIsSupervised
  <2>3. Custody'
    BY <1>1
    DEF NativeSubmits, EffectHasCustody, GuardMatchesFile, Indexed,
        ReplayIsSettled
  <2>4. Located'
    BY <1>1, ConstantsOK
    DEF NativeSubmits, EffectHasCustody, GuardMatchesFile, Located, AtHandoff,
        AtRead, AtTurn, Quiet
  <2>5. Evidence'
    BY <1>1
    DEF NativeSubmits, EffectHasCustody, Publishing, EffectIsNamed, ActorPast,
        ObservationIsTrue
  <2> QED BY <2>1, <2>2, <2>3, <2>4, <2>5
<1>2. CASE NativeCompletes(p)
  <2>1. TypeOK'
    BY <1>2 DEF NativeCompletes
  <2>2. Bookkeeping'
    BY <1>2 DEF NativeCompletes, Mutex, RecordShape, Asked, GateIsSupervised
  <2>3. Custody'
    BY <1>2
    DEF NativeCompletes, EffectHasCustody, GuardMatchesFile, Indexed,
        ReplayIsSettled
  <2>4. Located'
    BY <1>2
    DEF NativeCompletes, Located, AtHandoff, AtRead, AtTurn, Untaken, Quiet
  <2>5. Evidence'
    BY <1>2
    DEF NativeCompletes, Publishing, EffectIsNamed, ActorPast,
        ObservationIsTrue
  <2> QED BY <2>1, <2>2, <2>3, <2>4, <2>5
<1>3. CASE NativeExits(p)
  <2>1. TypeOK'
    BY <1>3 DEF NativeExits
  <2>2. Bookkeeping'
    BY <1>3 DEF NativeExits, Mutex, RecordShape, Asked, GateIsSupervised
  <2>3. Custody'
    BY <1>3
    DEF NativeExits, EffectHasCustody, GuardMatchesFile, Indexed,
        ReplayIsSettled
  <2>4. Located'
    BY <1>3
    DEF NativeExits, Located, AtHandoff, AtRead, AtTurn, Untaken, Quiet
  <2>5. Evidence'
    BY <1>3
    DEF NativeExits, Publishing, EffectIsNamed, ActorPast, ObservationIsTrue
  <2> QED BY <2>1, <2>2, <2>3, <2>4, <2>5
<1> QED BY <1>1, <1>2, <1>3

\* Processes that serve other requests keep the invariant.
LEMMA CleanersPreserve ==
  IInv /\ Undisturbed /\ Others => IInv'
<1> SUFFICES ASSUME IInv, Undisturbed, Others PROVE IInv'
  OBVIOUS
<1> USE DEF UnderLock, Outside, Ended, PC, Owning, Phase, Present, ReplayPhase, IsReplay,
           Goto, Drop, Refuse, Write, Fresh, Owned, files, store,
           IInv, TypeOK, Bookkeeping, Custody, Evidence
<1>1. CASE Reap
  <2>1. TypeOK'
    BY <1>1, AbsentIsRecord DEF Reap
  <2>2. Bookkeeping'
    BY <1>1, ConstantsOK
    DEF Reap, Absent, Mutex, RecordShape, Asked, GateIsSupervised
  <2>3. Custody'
    BY <1>1, ConstantsOK
    DEF Reap, IsPreEffect, Absent, Mutex, RecordShape, EffectHasCustody,
        GuardMatchesFile, Indexed, ReplayIsSettled
  <2>4. Located'
    BY <1>1
    DEF Reap, IsPreEffect, Mutex, Located, AtHandoff, AtRead, AtTurn,
        ActorPast, Untaken, Quiet
  <2>5. Evidence'
    BY <1>1
    DEF Reap, IsPreEffect, Absent, RecordShape, Publishing, EffectIsNamed,
        ActorPast, ObservationIsTrue
  <2> QED BY <2>1, <2>2, <2>3, <2>4, <2>5
<1>2. CASE ReapMarker
  <2>1. TypeOK'
    BY <1>2 DEF ReapMarker
  <2>2. Bookkeeping'
    BY <1>2, ConstantsOK
    DEF ReapMarker, Mutex, RecordShape, Asked, GateIsSupervised
  <2>3. Custody'
    BY <1>2
    DEF ReapMarker, Absent, Mutex, EffectHasCustody, GuardMatchesFile,
        Indexed, ReplayIsSettled
  <2>4. Located'
    BY <1>2
    DEF ReapMarker, Absent, Mutex, GuardMatchesFile, Located, AtHandoff,
        AtRead, AtTurn, ActorPast
  <2>5. Evidence'
    BY <1>2
    DEF ReapMarker, Publishing, EffectIsNamed, ActorPast, ObservationIsTrue
  <2> QED BY <2>1, <2>2, <2>3, <2>4, <2>5
<1>3. CASE Evict
  <2>1. TypeOK'
    BY <1>3, AbsentIsRecord DEF Evict
  <2>2. Bookkeeping'
    BY <1>3, ConstantsOK
    DEF Evict, Absent, Mutex, RecordShape, Asked, GateIsSupervised
  <2>3. Custody'
    BY <1>3, ConstantsOK
    DEF Evict, Absent, RecordShape, Asked, EffectHasCustody, GuardMatchesFile,
        Indexed, ReplayIsSettled
  <2>4. Located'
    BY <1>3, ConstantsOK DEF Evict, Located
  <2>5. Evidence'
    BY <1>3, ConstantsOK
    DEF Evict, HandingOff, Undisturbed, Absent, Publishing, EffectIsNamed,
        ActorPast, ObservationIsTrue
  <2> QED BY <2>1, <2>2, <2>3, <2>4, <2>5
<1>4. CASE EvictOwner
  <2>1. TypeOK'
    BY <1>4 DEF EvictOwner
  <2>2. Bookkeeping'
    BY <1>4, ConstantsOK
    DEF EvictOwner, Mutex, RecordShape, Asked, GateIsSupervised
  <2>3. Custody'
    BY <1>4
    DEF EvictOwner, Absent, Mutex, EffectHasCustody, GuardMatchesFile,
        Indexed, ReplayIsSettled
  <2>4. Located'
    BY <1>4
    DEF EvictOwner, Absent, Mutex, GuardMatchesFile, Located, AtHandoff,
        AtRead, AtTurn
  <2>5. Evidence'
    BY <1>4
    DEF EvictOwner, Absent, Mutex, Publishing, EffectIsNamed, ActorPast,
        ObservationIsTrue
  <2> QED BY <2>1, <2>2, <2>3, <2>4, <2>5
<1>5. CASE CleanerCrash
  <2>1. TypeOK'
    BY <1>5 DEF CleanerCrash
  <2>2. Bookkeeping'
    BY <1>5, ConstantsOK
    DEF CleanerCrash, Mutex, RecordShape, Asked, GateIsSupervised
  <2>3. Custody'
    BY <1>5
    DEF CleanerCrash, EffectHasCustody, GuardMatchesFile, Indexed,
        ReplayIsSettled
  <2>4. Located'
    BY <1>5
    DEF CleanerCrash, Absent, Mutex, GuardMatchesFile, Located, AtHandoff,
        AtRead, AtTurn
  <2>5. Evidence'
    BY <1>5
    DEF CleanerCrash, Publishing, EffectIsNamed, ActorPast, ObservationIsTrue
  <2> QED BY <2>1, <2>2, <2>3, <2>4, <2>5
<1> QED BY <1>1, <1>2, <1>3, <1>4, <1>5 DEF Others

-----------------------------------------------------------------------------
(***************************************************************************)
(* The theorems                                                            *)
(***************************************************************************)

\* Every step keeps the invariant.
LEMMA NextPreserves == IInv /\ Undisturbed /\ [Next]_vars => IInv'
<1> SUFFICES ASSUME IInv, Undisturbed, [Next]_vars PROVE IInv'
  OBVIOUS
<1>1. CASE UNCHANGED vars
  BY <1>1
  DEF vars, files, store, IInv, TypeOK, Bookkeeping, Mutex, RecordShape, Asked,
      GateIsSupervised, Custody, EffectHasCustody, GuardMatchesFile, Indexed,
      ReplayIsSettled, Located, AtHandoff, AtRead, AtTurn, Quiet, Untaken, Evidence,
      Publishing, EffectIsNamed, ActorPast, ObservationIsTrue, Owned, Fresh, Absent,
      Present, IsReplay
<1>2. ASSUME NEW p \in Invocation, Provider(p) PROVE IInv'
  BY <1>2, AdmissionPreserves, RetryPreserves, GivingUpPreserves, TurnPreserves,
     FinalisingPreserves, FailurePreserves
  DEF Provider
<1>3. ASSUME NEW p \in Invocation, Native(p) PROVE IInv'
  BY <1>3, NativePreserves DEF Native
<1>4. CASE Others
  BY <1>4, CleanersPreserve
<1> QED BY <1>1, <1>2, <1>3, <1>4 DEF Next

\* The invariant holds in every reachable state.
THEOREM Invariant ==
  ASSUME Undisturbed
  PROVE  Spec => []IInv
<1>1. Init => IInv
  BY InitEstablishes
<1>2. IInv /\ [Next]_vars => IInv'
  BY NextPreserves
<1> QED BY <1>1, <1>2, PTL DEF Spec

\* The files, locks and native groups always have the values they are meant to have.
THEOREM TypeCorrect ==
  ASSUME Undisturbed
  PROVE  Spec => []TypeOK
<1>1. IInv => TypeOK
  BY DEF IInv
<1> QED BY <1>1, Invariant, PTL

\* However many invocations crash, a native group that may act is named by the
\* durable record.
THEOREM EffectsAreInCustody ==
  ASSUME Undisturbed
  PROVE  Spec => []EffectHasCustody
<1>1. IInv => EffectHasCustody
  BY DEF IInv, Custody
<1> QED BY <1>1, Invariant, PTL

\* However many invocations of one request overlap, retry and crash, at most one
\* native turn is submitted before the settled request is evicted.
THEOREM SubmittedAtMostOnce ==
  ASSUME Undisturbed
  PROVE  Spec => []AtMostOnce
<1>1. IInv => AtMostOnce
  BY DEF IInv, Evidence, EffectIsNamed, AtMostOnce
<1> QED BY <1>1, Invariant, PTL

\* No retry ends a group that a living provider still supervises.
THEOREM KillsOnlyAbandoned ==
  ASSUME Undisturbed
  PROVE  Spec => []NoForeignKill
<1>1. IInv => NoForeignKill
  <2> SUFFICES ASSUME IInv, NEW p \in Invocation, NEW q \in Invocation,
                      pc[q] = "settle", rec.actor = p
               PROVE  pc[p] \in Ended \cup {"publish", "publish_marker"}
    BY DEF NoForeignKill
  <2>1. lock = q
    BY DEF IInv, Bookkeeping, Mutex, UnderLock
  <2>2. pc[p] \in {"gate", "supervise", "custody", "settle_own", "release",
                   "publish", "publish_marker"} \cup Ended
    BY DEF IInv, Evidence, ActorPast
  <2>3. p # q
    BY <2>2 DEF Ended
  <2>4. pc[p] \notin UnderLock
    BY <2>1, <2>3 DEF IInv, Bookkeeping, Mutex
  <2> QED BY <2>2, <2>4 DEF UnderLock
<1> QED BY <1>1, Invariant, PTL

\* No write of an owner is lost, and no other process writes while it owns.
THEOREM NoLostUpdate ==
  ASSUME Undisturbed
  PROVE  Spec => []GuardMatchesFile
<1>1. IInv => GuardMatchesFile
  BY DEF IInv, Custody
<1> QED BY <1>1, Invariant, PTL

\* No crash leaves a record that no bounded index leads to.
THEOREM AlwaysIndexed ==
  ASSUME Undisturbed
  PROVE  Spec => []Indexed
<1>1. IInv => Indexed
  BY DEF IInv, Custody
<1> QED BY <1>1, Invariant, PTL

\* Replay custody is only ever taken of a request whose native actors are gone.
THEOREM ReplayOnlySettled ==
  ASSUME Undisturbed
  PROVE  Spec => []ReplayIsSettled
<1>1. IInv => ReplayIsSettled
  BY DEF IInv, Custody
<1> QED BY <1>1, Invariant, PTL

\* The durable record never claims an observation that did not happen.
THEOREM RecordIsTruthful ==
  ASSUME Undisturbed
  PROVE  Spec => []ObservationIsTrue
<1>1. IInv => ObservationIsTrue
  BY DEF IInv, Evidence
<1> QED BY <1>1, Invariant, PTL

\* One named, supervised effect per request: the three theorems together.
THEOREM EffectsStayHeld ==
  ASSUME Undisturbed
  PROVE  Spec => []EffectsAreHeld
<1>1. EffectHasCustody /\ AtMostOnce /\ NoForeignKill => EffectsAreHeld
  BY DEF EffectsAreHeld
<1> QED BY <1>1, EffectsAreInCustody, SubmittedAtMostOnce, KillsOnlyAbandoned, PTL

\* The files of a request tell the truth to whoever reads them next.
THEOREM FilesStayTrue ==
  ASSUME Undisturbed
  PROVE  Spec => []FilesAreTrue
<1>1. GuardMatchesFile /\ Indexed /\ ReplayIsSettled /\ ObservationIsTrue => FilesAreTrue
  BY DEF FilesAreTrue
<1> QED BY <1>1, NoLostUpdate, AlwaysIndexed, ReplayOnlySettled, RecordIsTruthful, PTL

-----------------------------------------------------------------------------
(***************************************************************************)
(* Evidence                                                                *)
(***************************************************************************)

\* What EvidenceIsKept says of one step.
KeepsEvidence ==
  /\ rec.phase \in {"session_observed", "completion_observed"}
       => rec'.phase = rec.phase \/ cleaner' = "evict_owner"
  /\ rec.phase = "submission_observed"
       => rec'.phase \in {"submission_observed", "completion_observed"}

\* A step that writes no record keeps its evidence.
LEMMA UntouchedKeeps == UNCHANGED rec => KeepsEvidence
BY DEF KeepsEvidence

\* No step of an invocation withdraws evidence: retries reconcile a record only
\* forwards, and the owner's own writes start from the phase in its guard.
LEMMA ProviderKeeps ==
  ASSUME IInv, NEW p \in Invocation, Provider(p)
  PROVE  KeepsEvidence
<1> USE DEF IInv, TypeOK, KeepsEvidence, Write
<1>1. ASSUME SettleWrite(p) PROVE KeepsEvidence
  BY <1>1 DEF SettleWrite, Record
<1>2. ASSUME InterpretNewSession(p) PROVE KeepsEvidence
  BY <1>2 DEF InterpretNewSession, Reconcile, NoEffect, Record
<1>3. ASSUME InterpretResume(p) PROVE KeepsEvidence
  BY <1>3 DEF InterpretResume, Reconcile, NoEffect, Record
<1>4. ASSUME Remove(p) PROVE KeepsEvidence
  <2>1. lock = p
    BY <1>4 DEF Remove, Bookkeeping, Mutex, UnderLock
  <2> QED BY <1>4, <2>1 DEF Remove, Located, AtRead
<1>5. ASSUME Prepare(p) PROVE KeepsEvidence
  <2>1. lock = p
    BY <1>5 DEF Prepare, Bookkeeping, Mutex, UnderLock
  <2> QED BY <1>5, <2>1 DEF Prepare, Located, AtTurn, Absent
<1>6. ASSUME ObserveActor(p) \/ ObserveSession(p) \/ Finish(p) \/ SettleOwn(p)
      PROVE  KeepsEvidence
  <2>1. pc[p] \in {"observe", "supervise", "settle_own"}
    BY <1>6 DEF ObserveActor, ObserveSession, Finish, SettleOwn
  <2>2. lock = p /\ rec = mem[p]
    BY <2>1 DEF Bookkeeping, Mutex, UnderLock, Custody, GuardMatchesFile, Owning
  <2>3. AtTurn(p)
    BY <2>2 DEF Located
  <2>4. CASE ObserveActor(p)
    BY <2>2, <2>3, <2>4 DEF ObserveActor, AtTurn, Record
  <2>5. CASE ObserveSession(p)
    BY <2>2, <2>5 DEF ObserveSession, Record
  <2>6. CASE Finish(p)
    BY <2>2, <2>3, <2>6 DEF Finish, Conclusion, AtTurn, Record
  <2>7. CASE SettleOwn(p)
    BY <2>2, <2>7 DEF SettleOwn, Record
  <2> QED BY <1>6, <2>4, <2>5, <2>6, <2>7
<1>7. CASE UNCHANGED rec
  BY <1>7, UntouchedKeeps
<1>8. \/ UNCHANGED rec \/ SettleWrite(p) \/ InterpretNewSession(p)
      \/ InterpretResume(p) \/ Remove(p) \/ Prepare(p)
      \/ ObserveActor(p) \/ ObserveSession(p) \/ Finish(p) \/ SettleOwn(p)
  BY DEF Provider, files, store, Start, PolicyAccepts, PolicyRejects, Lock, LockTimeout,
         Classify, Handoff, HandoffMarker, Read, Settle, OrphanSkips, OrphanLocks,
         OrphanMarker, Spawn, Abandon, ReleaseGate, StreamFails, DropCustody, Release,
         Publish, PublishMarker, Fail, Crash
<1> QED BY <1>1, <1>2, <1>3, <1>4, <1>5, <1>6, <1>7, <1>8

\* The processes of other requests take a whole settled record, or nothing that
\* was ever observed.
LEMMA OthersKeep ==
  ASSUME IInv, Others
  PROVE  KeepsEvidence
<1>1. CASE Reap
  BY <1>1 DEF Reap, KeepsEvidence, Present, IsPreEffect, IInv, Bookkeeping, RecordShape,
              Absent
<1>2. CASE Evict
  <2>1. Owned
    BY <1>2 DEF Evict
  <2>2. Present(rec) => IsReplay(rec)
    BY <2>1 DEF IInv, Custody, ReplayIsSettled
  <2> QED BY <1>2, <2>2 DEF Evict, KeepsEvidence, Present, IsReplay, ReplayPhase
<1>3. CASE ReapMarker \/ EvictOwner \/ CleanerCrash
  BY <1>3, UntouchedKeeps DEF ReapMarker, EvictOwner, CleanerCrash, files
<1> QED BY <1>1, <1>2, <1>3 DEF Others

\* An observed submission stays observed, and an observed session or completion
\* is final, whatever retries, crashes and clean-up other processes go through.
THEOREM EvidenceOutlives ==
  ASSUME Undisturbed
  PROVE  Spec => EvidenceIsKept
<1>1. IInv /\ [Next]_vars => [KeepsEvidence]_vars
  <2> SUFFICES ASSUME IInv, Next PROVE KeepsEvidence
    OBVIOUS
  <2>1. ASSUME NEW p \in Invocation, Native(p) PROVE KeepsEvidence
    BY <2>1, UntouchedKeeps
    DEF Native, NativeSubmits, NativeCompletes, NativeExits, files
  <2> QED BY <2>1, ProviderKeeps, OthersKeep DEF Next
<1> QED BY <1>1, Invariant, PTL DEF Spec, EvidenceIsKept, KeepsEvidence

-----------------------------------------------------------------------------
(***************************************************************************)
(* Refinement of OneTurn                                                   *)
(***************************************************************************)

\* The live group is the one that runs, and there is at most one.
LiveGroupNamed ==
  /\ LiveGroup = None <=> Running = {}
  /\ \A p \in Running : LiveGroup = p /\ Running = {p}

LEMMA LiveGroupIsNamed == EffectHasCustody => LiveGroupNamed
<1> SUFFICES ASSUME EffectHasCustody PROVE LiveGroupNamed
  OBVIOUS
<1>1. \A p \in Running : Running = {p}
  BY DEF EffectHasCustody, Running
<1>2. ASSUME Running # {} PROVE LiveGroup \in Running
  BY <1>2 DEF LiveGroup
<1>3. Running = {} => LiveGroup = None
  BY DEF LiveGroup
<1>4. None \notin Running
  BY ConstantsOK DEF Running
<1> QED BY <1>1, <1>2, <1>3, <1>4 DEF LiveGroupNamed

\* What a step may do to the running groups and to the standing submissions.
Same == Running' = Running /\ (Untaken' <=> Untaken)

BeginsTurn == Running = {} /\ Untaken /\ Untaken' /\ \E p \in Invocation : Running' = {p}

TakesTurn == Running # {} /\ Running' = Running /\ Untaken /\ ~Untaken'

EndsTurn == Running # {} /\ Running' = {} /\ (Untaken' <=> Untaken)

ForgetsTurn == Running = {} /\ Running' = {} /\ Untaken'

TurnStep == Same \/ BeginsTurn \/ TakesTurn \/ EndsTurn \/ ForgetsTurn

\* Each of them is a step, or a stutter, of OneTurn.
LEMMA TurnStepMaps ==
  ASSUME LiveGroupNamed, LiveGroupNamed', TurnStep
  PROVE  [Turn!Next]_(Turn!vars)
<1> USE DEF LiveGroupNamed, TurnState, Untaken, Turn!vars, Turn!Next
<1>1. CASE Same
  BY <1>1 DEF Same
<1>2. CASE BeginsTurn
  BY <1>2 DEF BeginsTurn, Turn!Begin
<1>3. CASE TakesTurn
  BY <1>3 DEF TakesTurn, Turn!Take
<1>4. CASE EndsTurn
  BY <1>4 DEF EndsTurn, Turn!End
<1>5. CASE ForgetsTurn
  BY <1>5 DEF ForgetsTurn, Turn!Forget
<1> QED BY <1>1, <1>2, <1>3, <1>4, <1>5 DEF TurnStep

LEMMA QuietStep == UNCHANGED <<native, submitted, retired>> => TurnStep
BY DEF TurnStep, Same, Running, Untaken

\* Losing one group ends the turn in progress, or ends nothing.
LEMMA LosingAGroup ==
  ASSUME IInv, NEW p \in Invocation,
         native' = [native EXCEPT ![p] = "dead"], UNCHANGED <<submitted, retired>>
  PROVE  TurnStep
<1>1. native \in [Invocation -> {"none", "gated", "running", "dead"}]
  BY DEF IInv, TypeOK
<1>2. Running' = Running \ {p}
  BY <1>1 DEF Running
<1>3. Untaken' <=> Untaken
  BY DEF Untaken
<1>4. CASE p \in Running
  <2>1. Running = {p}
    BY <1>4 DEF IInv, Custody, EffectHasCustody, Running
  <2> QED BY <1>2, <1>3, <2>1 DEF TurnStep, EndsTurn
<1>5. CASE p \notin Running
  BY <1>2, <1>3, <1>5 DEF TurnStep, Same
<1> QED BY <1>4, <1>5

\* A gate is released only where nothing runs and no submission stands.
LEMMA ReleasingBegins ==
  ASSUME IInv, NEW p \in Invocation, ReleaseGate(p)
  PROVE  TurnStep
<1>1. native \in [Invocation -> {"none", "gated", "running", "dead"}]
  BY DEF IInv, TypeOK
<1>2. pc[p] = "gate" /\ UNCHANGED <<submitted, retired>>
  BY DEF ReleaseGate, store
<1>3. lock = p
  BY <1>2 DEF IInv, Bookkeeping, Mutex, UnderLock
<1>4. Untaken /\ native[p] # "running" /\ mem[p].actor = p
  BY <1>2, <1>3 DEF IInv, Located, AtTurn
<1>5. rec.actor = p
  BY <1>2, <1>4 DEF IInv, Custody, GuardMatchesFile, Owning
<1>6. Running = {}
  BY <1>4, <1>5 DEF IInv, Custody, EffectHasCustody, Running
<1>7. Running' = {} \/ Running' = {p}
  BY <1>1, <1>6 DEF ReleaseGate, Running
<1>8. Untaken'
  BY <1>2, <1>4 DEF Untaken
<1> QED BY <1>4, <1>6, <1>7, <1>8 DEF TurnStep, Same, BeginsTurn

\* Every step of an invocation is a step of the single turn.
LEMMA ProviderTurns ==
  ASSUME IInv, NEW p \in Invocation, Provider(p)
  PROVE  TurnStep
<1>1. CASE ReleaseGate(p)
  BY <1>1, ReleasingBegins
<1>2. CASE Settle(p)
  <2>1. \/ UNCHANGED native
        \/ rec.actor \in Invocation /\ native' = [native EXCEPT ![rec.actor] = "dead"]
    BY <1>2 DEF Settle, IInv, TypeOK, Record
  <2>2. UNCHANGED <<submitted, retired>>
    BY <1>2 DEF Settle, store
  <2> QED BY <2>1, <2>2, LosingAGroup, QuietStep
<1>3. CASE Spawn(p)
  <2>1. pc[p] = "route" /\ native' = [native EXCEPT ![p] = "gated"]
        /\ UNCHANGED <<submitted, retired>>
    BY <1>3 DEF Spawn, store
  <2>2. lock = p
    BY <2>1 DEF IInv, Bookkeeping, Mutex, UnderLock
  <2>3. rec = Fresh(p)
    BY <2>1, <2>2 DEF IInv, Located, AtTurn, Custody, GuardMatchesFile, Owning
  <2>4. p \notin Running
    BY <2>3, ConstantsOK DEF IInv, Custody, EffectHasCustody, Running, Fresh
  <2>5. Running' = Running
    BY <2>1, <2>4 DEF IInv, TypeOK, Running
  <2> QED BY <2>1, <2>5 DEF TurnStep, Same, Untaken
<1>4. CASE DropCustody(p) \/ Fail(p) \/ Crash(p)
  <2>1. UNCHANGED native \/ native' = [native EXCEPT ![p] = "dead"]
    BY <1>4 DEF DropCustody, Fail, Crash
  <2>2. UNCHANGED <<submitted, retired>>
    BY <1>4 DEF DropCustody, Fail, Crash, store
  <2> QED BY <2>1, <2>2, LosingAGroup, QuietStep
<1>5. CASE UNCHANGED <<native, submitted, retired>>
  BY <1>5, QuietStep
<1>6. \/ ReleaseGate(p) \/ Settle(p) \/ Spawn(p)
      \/ DropCustody(p) \/ Fail(p) \/ Crash(p)
      \/ UNCHANGED <<native, submitted, retired>>
  BY DEF Provider, files, store, Start, PolicyAccepts, PolicyRejects, Lock, LockTimeout,
         Classify, Handoff, HandoffMarker, Read, SettleWrite, InterpretNewSession,
         InterpretResume, Remove, OrphanSkips, OrphanLocks, OrphanMarker, Prepare,
         Abandon, ObserveActor, ObserveSession, Finish, StreamFails, SettleOwn, Release,
         Publish, PublishMarker
<1> QED BY <1>1, <1>2, <1>3, <1>4, <1>5, <1>6

\* So is every step of a native group.
LEMMA NativeTurns ==
  ASSUME IInv, NEW p \in Invocation, Native(p)
  PROVE  TurnStep
<1>1. CASE NativeSubmits(p)
  <2>1. p \in Running /\ p \notin retired
    BY <1>1 DEF NativeSubmits, Running, IInv, Evidence, EffectIsNamed
  <2>2. Running' = Running /\ submitted' = submitted \cup {p} /\ retired' = retired
    BY <1>1 DEF NativeSubmits, Running
  <2>3. ~Untaken'
    BY <2>1, <2>2 DEF Untaken
  <2> QED BY <2>1, <2>2, <2>3 DEF TurnStep, Same, TakesTurn
<1>2. CASE NativeCompletes(p)
  BY <1>2, QuietStep DEF NativeCompletes
<1>3. CASE NativeExits(p)
  BY <1>3, LosingAGroup DEF NativeExits, store
<1> QED BY <1>1, <1>2, <1>3 DEF Native

\* And every step of another request: eviction forgets a turn nobody can be in.
LEMMA OthersTurn ==
  ASSUME IInv, Others
  PROVE  TurnStep
<1>1. CASE Evict
  <2>1. Owned /\ UNCHANGED <<native, submitted>>
    BY <1>1 DEF Evict
  <2>2. CASE UNCHANGED retired
    BY <2>1, <2>2, QuietStep
  <2>3. CASE retired' = submitted
    <3>1. Running = {}
      <4>1. CASE Present(rec)
        BY <2>1, <4>1 DEF IInv, Custody, ReplayIsSettled, Running
      <4>2. CASE ~Present(rec)
        <5>1. rec = Absent
          BY <4>2 DEF IInv, Bookkeeping, RecordShape
        <5> QED BY <5>1, ConstantsOK
                DEF IInv, Custody, EffectHasCustody, Running, Absent
      <4> QED BY <4>1, <4>2
    <3>2. Running' = {} /\ Untaken'
      BY <2>1, <2>3, <3>1 DEF Running, Untaken
    <3> QED BY <3>1, <3>2 DEF TurnStep, ForgetsTurn
  <2> QED BY <1>1, <2>2, <2>3 DEF Evict
<1>2. CASE Reap \/ ReapMarker \/ EvictOwner \/ CleanerCrash
  BY <1>2, QuietStep DEF Reap, ReapMarker, EvictOwner, CleanerCrash, store
<1> QED BY <1>1, <1>2 DEF Others

\* Seen from the host, files, locks, retries and crashes amount to one turn.
THEOREM RefinesOneTurn ==
  ASSUME Undisturbed
  PROVE  Spec => ImplementsOneTurn
<1>1. Init => Turn!Init
  BY DEF Init, Turn!Init, LiveGroup, Running, TurnState
<1>2. IInv /\ [Next]_vars => TurnStep
  <2> SUFFICES ASSUME IInv, [Next]_vars PROVE TurnStep
    OBVIOUS
  <2>1. CASE UNCHANGED vars
    BY <2>1, QuietStep DEF vars, store
  <2> QED BY <2>1, ProviderTurns, NativeTurns, OthersTurn DEF Next
<1>3. IInv => LiveGroupNamed
  BY LiveGroupIsNamed DEF IInv, Custody
<1>4. LiveGroupNamed /\ LiveGroupNamed' /\ TurnStep => [Turn!Next]_(Turn!vars)
  BY TurnStepMaps
<1> QED BY <1>1, <1>2, <1>3, <1>4, Invariant, PTL DEF Spec, ImplementsOneTurn, Turn!Spec

=============================================================================
