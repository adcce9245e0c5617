--------------------------- MODULE LaunchRequest ---------------------------
(***************************************************************************)
(* The life of ONE launch request: every provider process that is ever     *)
(* invoked with the same request id, the durable record they share, and    *)
(* the native process groups they start.                                   *)
(*                                                                         *)
(* An invocation is one operating-system process running `launch`          *)
(* (src/launch.rs).  Invocations share nothing but files: the record       *)
(* (`rec`), the active marker (`marker`), the replay owner (`owner`), the  *)
(* pre-effect cleanup entry (`candidate`), and an flock (`lock`) that the  *)
(* operating system releases when its holder dies.  A step is one durable  *)
(* write, or one signal, so a crash can fall between any two of them.      *)
(*                                                                         *)
(* This module takes the request lock to be a mutex.  How the lock FILE is *)
(* opened, pinned and unlinked is the subject of module RequestLock; how   *)
(* replay slots are shared between requests, of module ReplayTable.        *)
(***************************************************************************)
CONSTANTS
  Invocation,     \* provider processes started for this request id
  Input,          \* launch inputs they may carry (request_identity_sha256)
  ResumeInput,    \* the inputs that name an existing provider session
  Reaper,         \* another request's process, cleaning its pre-effect shard
  Evictor,        \* another request's process, displacing our replay slot
  None,
  DisplaceDuringHandoff
    \* may the slot be displaced while its publisher is still between
    \* publishing it and retiring the active marker?

ASSUME ConstantsOK ==
  /\ ResumeInput \subseteq Input
  /\ None \notin Input \cup Invocation
  /\ Reaper \notin Invocation /\ Evictor \notin Invocation
  /\ Reaper # None /\ Evictor # None
  /\ DisplaceDuringHandoff \in BOOLEAN

VARIABLES
  rec,        \* <stem>.json
  marker,     \* active/<stem>.json: the input it is bound to, or None
  owner,      \* owners/<stem>.json
  candidate,  \* the entry of the stem in its pre-effect shard
  lock,       \* holder of the request lock
  pc,         \* where each invocation is
  stage,      \* why it holds the lock: preflight, admission or abandonment
  ask,        \* the input each invocation was given
  mem,        \* the record each invocation keeps in its request guard
  native,     \* each invocation's native process group
  submitted,  \* invocations whose group created the native user turn
  completed,  \* invocations whose native turn got a complete answer
  retired,    \* submissions whose record has been evicted from the replay ring
  cleaner     \* progress of the Reaper or the Evictor

files == <<rec, marker, owner, candidate>>
store == <<submitted, completed, retired>>
vars  == <<files, lock, pc, stage, ask, mem, native, store, cleaner>>

(***************************************************************************)
(* Records                                                                 *)
(***************************************************************************)
Phase == {"none", "prepared", "session_observed", "terminal_without_session",
          "submission_observed", "completion_observed", "unresolved"}

Record == [phase    : Phase,
           actor    : Invocation \cup {None},
           terminal : BOOLEAN,             \* actor_terminal_at_unix_ms is set
           input    : Input \cup {None}]

Absent == [phase |-> "none", actor |-> None, terminal |-> FALSE, input |-> None]

Present(r) == r.phase # "none"

\* Only a finished observation whose actor is durably gone may be replayed.
ReplayPhase == {"session_observed", "terminal_without_session", "completion_observed"}

IsReplay(r) == r.phase \in ReplayPhase /\ r.terminal

IsPreEffect(r) == r.phase = "prepared" /\ r.actor = None

\* What the decoders accept: every phase past `prepared` names its actor.
Readable(r) == r.phase = "prepared" \/ r.actor # None

Owned == owner = "placed"

SameKind(i, j) == i \in ResumeInput <=> j \in ResumeInput

(***************************************************************************)
(* Where an invocation can be                                              *)
(***************************************************************************)
UnderLock == {"classify", "handoff", "handoff_marker", "read", "settle",
              "settle_write", "interpret", "remove", "prepare", "route", "observe",
              "gate", "supervise", "custody", "settle_own", "release", "orphan_marker"}

Outside == {"policy", "lock", "orphan", "publish", "publish_marker"}

Ended == {"done", "crashed"}

PC == UnderLock \cup Outside \cup Ended \cup {"idle"}

\* Between writing its record and letting the lock go, an invocation trusts `mem`.
Owning == {"route", "observe", "gate", "supervise", "custody", "settle_own", "release"}

Live(q) == native[q] \in {"gated", "running"}

Goto(p, l) == pc' = [pc EXCEPT ![p] = l]

Drop(p) == lock' = IF lock = p THEN None ELSE lock

\* A returned failure drops the guard (the lock) and changes nothing durable.
Refuse(p) ==
  /\ Goto(p, "done")
  /\ Drop(p)

Init ==
  /\ rec = Absent /\ marker = None /\ owner = "absent" /\ candidate = "absent"
  /\ lock = None
  /\ pc = [p \in Invocation |-> "idle"]
  /\ stage = [p \in Invocation |-> "preflight"]
  /\ ask = [p \in Invocation |-> None]
  /\ mem = [p \in Invocation |-> Absent]
  /\ native = [p \in Invocation |-> "none"]
  /\ submitted = {} /\ completed = {} /\ retired = {}
  /\ cleaner = "none"

-----------------------------------------------------------------------------
(***************************************************************************)
(* Reaching the lock: preflight, policy, admission                         *)
(***************************************************************************)

\* preflight_existing_launch_replay looks for the record before it locks.
Start(p, i) ==
  /\ pc[p] = "idle"
  /\ ask' = [ask EXCEPT ![p] = i]
  /\ Goto(p, IF Present(rec) THEN "lock" ELSE "policy")
  /\ UNCHANGED <<files, lock, stage, mem, native, store, cleaner>>

\* Settings and policy may refuse the launch; nothing durable exists yet.
PolicyAccepts(p) ==
  /\ pc[p] = "policy"
  /\ stage' = [stage EXCEPT ![p] = "admit"]
  /\ Goto(p, "lock")
  /\ UNCHANGED <<files, lock, ask, mem, native, store, cleaner>>

PolicyRejects(p) ==
  /\ pc[p] = "policy"
  /\ Goto(p, "done")
  /\ UNCHANGED <<files, lock, stage, ask, mem, native, store, cleaner>>

Lock(p) ==
  /\ pc[p] = "lock"
  /\ lock = None
  /\ lock' = p
  /\ Goto(p, "classify")
  /\ UNCHANGED <<files, stage, ask, mem, native, store, cleaner>>

LockTimeout(p) ==
  /\ pc[p] = "lock"
  /\ lock # None
  /\ Goto(p, "done")
  /\ UNCHANGED <<files, lock, stage, ask, mem, native, store, cleaner>>

(***************************************************************************)
(* acquire_launch_request_lock, once the lock is held                      *)
(***************************************************************************)
Observed == Present(rec) \/ Owned \/ marker # None

\* A marker left by an attempt that died before it wrote its record.
ResumesReservation(p) ==
  stage[p] = "admit" /\ marker = ask[p] /\ ~Present(rec) /\ ~Owned

NeedsHandoff == IsReplay(rec) /\ (Owned \/ marker # None)

Classify(p) ==
  /\ pc[p] = "classify"
  /\ \/ /\ marker \notin {None, ask[p]}          \* bound to other launch inputs
        /\ Refuse(p)
        /\ UNCHANGED marker
     \/ /\ marker \in {None, ask[p]}
        /\ NeedsHandoff
        /\ Goto(p, "handoff")
        /\ UNCHANGED <<lock, marker>>
     \/ /\ marker \in {None, ask[p]}
        /\ ~NeedsHandoff
        /\ Observed /\ ~ResumesReservation(p) /\ ~Present(rec)   \* still retiring
        /\ Refuse(p)
        /\ UNCHANGED marker
     \/ /\ marker \in {None, ask[p]}
        /\ ~NeedsHandoff
        /\ Observed => (ResumesReservation(p) \/ Present(rec))
        /\ marker' = IF stage[p] = "admit" /\ ~Observed THEN ask[p] ELSE marker
        /\ Goto(p, "read")
        /\ UNCHANGED lock
  /\ UNCHANGED <<rec, owner, candidate, stage, ask, mem, native, store, cleaner>>

\* Finish an interrupted transfer to the replay table before interpreting the
\* record; a busy probe set leaves both authorities for a later retry.
Handoff(p) ==
  /\ pc[p] = "handoff"
  /\ \/ owner' = "placed" /\ Goto(p, "handoff_marker")
     \/ UNCHANGED owner /\ Goto(p, "read")
  /\ UNCHANGED <<rec, marker, candidate, lock, stage, ask, mem, native, store, cleaner>>

HandoffMarker(p) ==
  /\ pc[p] = "handoff_marker"
  /\ marker' = None
  /\ Goto(p, "read")
  /\ UNCHANGED <<rec, owner, candidate, lock, stage, ask, mem, native, store, cleaner>>

(***************************************************************************)
(* Reading and interpreting an existing record                             *)
(***************************************************************************)
Mismatch(p) ==
  \/ ~SameKind(rec.input, ask[p])
  \/ ~Readable(rec)
  \/ rec.input # ask[p]

Read(p) ==
  /\ pc[p] = "read"
  /\ candidate' \in (IF stage[p] = "admit" THEN {candidate, "listed"} ELSE {candidate})
  /\ \/ /\ ~Present(rec) /\ stage[p] = "admit"
        /\ Goto(p, "prepare")
        /\ UNCHANGED lock
     \/ /\ ~Present(rec) /\ stage[p] = "preflight"
        /\ Refuse(p)
     \/ /\ Present(rec) /\ Mismatch(p)
        /\ Refuse(p)
     \/ /\ Present(rec) /\ ~Mismatch(p)
        /\ Goto(p, "settle")
        /\ UNCHANGED lock
  /\ UNCHANGED <<rec, marker, owner, stage, ask, mem, native, store, cleaner>>

\* Seeded fault: the recorded group is reported terminal without being ended.
SettleUnsignalled(p) ==
  /\ pc[p] = "settle"
  /\ Goto(p, IF rec.terminal THEN "interpret" ELSE "settle_write")
  /\ UNCHANGED <<files, lock, stage, ask, mem, native, store, cleaner>>

\* settle_recorded_launch_actor: end the recorded process group, if it lives.
Settle(p) ==
  /\ pc[p] = "settle"
  /\ IF rec.terminal
     THEN Goto(p, "interpret") /\ UNCHANGED native
     ELSE /\ Goto(p, "settle_write")
          /\ native' = IF rec.actor # None /\ Live(rec.actor)
                       THEN [native EXCEPT ![rec.actor] = "dead"] ELSE native
  /\ UNCHANGED <<files, lock, stage, ask, mem, store, cleaner>>

SettleWrite(p) ==
  /\ pc[p] = "settle_write"
  /\ rec' = [rec EXCEPT !.terminal = TRUE]
  /\ Goto(p, "interpret")
  /\ UNCHANGED <<marker, owner, candidate, lock, stage, ask, mem, native, store, cleaner>>

\* Seeded fault: an unavailable listing is read as an empty one.
SightingsOrNothing == {{}, submitted}

\* The turns a native listing or export can show: those of this record for
\* certain, those of an evicted predecessor only within the clock tolerance.
Sightings == {submitted \ retired, submitted}

\* An authoritative no-effect observation authorises a fresh attempt.
NoEffect(p) ==
  /\ Goto(p, "remove")
  /\ UNCHANGED <<rec, lock>>

Reconcile(p, phase) ==
  /\ rec' = [rec EXCEPT !.phase = phase]
  /\ Refuse(p)

InterpretNewSession(p) ==
  /\ pc[p] = "interpret" /\ ask[p] \notin ResumeInput
  /\ \E seen \in Sightings :
       \/ Reconcile(p, rec.phase)      \* already terminal, ambiguous or unavailable
       \/ rec.phase = "prepared" /\ seen = {} /\ NoEffect(p)
       \/ /\ rec.phase = "prepared" /\ \E q \in Invocation : seen = {q}
          /\ Reconcile(p, "session_observed")
  /\ UNCHANGED <<marker, owner, candidate, stage, ask, mem, native, store, cleaner>>

\* observe_durable_resume: an export that fails or times out shows nothing.
InterpretResume(p) ==
  /\ pc[p] = "interpret" /\ ask[p] \in ResumeInput
  /\ \/ rec.phase = "completion_observed" /\ Reconcile(p, rec.phase)
     \/ /\ rec.phase = "prepared" /\ Reconcile(p, "unresolved")      \* unavailable
     \/ /\ rec.phase \in {"submission_observed", "unresolved"}       \* unavailable
        /\ Reconcile(p, rec.phase)
     \/ \E seen \in Sightings :
          /\ rec.phase \in {"prepared", "submission_observed", "unresolved"}
          /\ \/ seen \cap completed # {} /\ Reconcile(p, "completion_observed")
             \/ seen # {} /\ seen \cap completed = {} /\ Reconcile(p, "submission_observed")
             \/ seen = {} /\ rec.phase # "submission_observed" /\ NoEffect(p)
             \/ seen = {} /\ rec.phase = "submission_observed" /\ Reconcile(p, rec.phase)
  /\ UNCHANGED <<marker, owner, candidate, stage, ask, mem, native, store, cleaner>>

(***************************************************************************)
(* Giving a request up: no-effect preflight, and abandonment before spawn  *)
(***************************************************************************)
Remove(p) ==
  /\ pc[p] = "remove"
  /\ rec' = Absent
  /\ \/ /\ stage[p] = "admit"
        /\ Goto(p, "prepare")
        /\ UNCHANGED <<candidate, lock>>
     \/ /\ stage[p] # "admit"
        /\ Goto(p, "orphan")
        /\ candidate' \in {candidate, "absent"}
        /\ lock' = None
  /\ UNCHANGED <<marker, owner, stage, ask, mem, native, store, cleaner>>

AfterOrphan(p) == IF stage[p] = "preflight" THEN "policy" ELSE "done"

\* retire_orphan_launch_request_lock yields to a record or to a lock holder.
OrphanSkips(p) ==
  /\ pc[p] = "orphan"
  /\ Present(rec) \/ lock # None
  /\ Goto(p, AfterOrphan(p))
  /\ UNCHANGED <<files, lock, stage, ask, mem, native, store, cleaner>>

\* Seeded fault: the orphan's marker is retired under somebody else's lock.
OrphanIgnoresHolder(p) ==
  /\ pc[p] = "orphan"
  /\ ~Present(rec)
  /\ lock' = p
  /\ Goto(p, "orphan_marker")
  /\ UNCHANGED <<files, stage, ask, mem, native, store, cleaner>>

OrphanLocks(p) ==
  /\ pc[p] = "orphan"
  /\ ~Present(rec) /\ lock = None
  /\ lock' = p
  /\ Goto(p, "orphan_marker")
  /\ UNCHANGED <<files, stage, ask, mem, native, store, cleaner>>

OrphanMarker(p) ==
  /\ pc[p] = "orphan_marker"
  /\ marker' = None
  /\ lock' = None
  /\ Goto(p, AfterOrphan(p))
  /\ UNCHANGED <<rec, owner, candidate, stage, ask, mem, native, store, cleaner>>

-----------------------------------------------------------------------------
(***************************************************************************)
(* Running the native turn                                                 *)
(***************************************************************************)
\* Seeded fault: the record is written without the identity of its input.
FreshAnonymous(p) == [phase |-> "prepared", actor |-> None, terminal |-> FALSE]

Fresh(p) == [phase |-> "prepared", actor |-> None, terminal |-> FALSE, input |-> ask[p]]

\* Every durable write goes through the guard: the file and `mem` move together.
Write(p, r) ==
  /\ rec' = r
  /\ mem' = [mem EXCEPT ![p] = r]

Prepare(p) ==
  /\ pc[p] = "prepare"
  /\ Write(p, Fresh(p))
  /\ Goto(p, "route")
  /\ UNCHANGED <<marker, owner, candidate, lock, stage, ask, native, store, cleaner>>

\* The child exists, but only its exec gate runs.
Spawn(p) ==
  /\ pc[p] = "route"
  /\ native' = [native EXCEPT ![p] = "gated"]
  /\ Goto(p, "observe")
  /\ UNCHANGED <<files, lock, stage, ask, mem, store, cleaner>>

\* The route event or the spawn failed: abandon_before_spawn.
Abandon(p) ==
  /\ pc[p] = "route"
  /\ stage' = [stage EXCEPT ![p] = "abandon"]
  /\ Goto(p, "remove")
  /\ UNCHANGED <<files, lock, ask, mem, native, store, cleaner>>

ObserveActor(p) ==
  /\ pc[p] = "observe"
  /\ Write(p, [mem[p] EXCEPT !.actor = p])
  /\ candidate' \in {candidate, "absent"}
  /\ Goto(p, "gate")
  /\ UNCHANGED <<marker, owner, lock, stage, ask, native, store, cleaner>>

ReleaseGate(p) ==
  /\ pc[p] = "gate"
  /\ native' = [native EXCEPT ![p] = IF @ = "gated" THEN "running" ELSE @]
  /\ Goto(p, "supervise")
  /\ UNCHANGED <<files, lock, stage, ask, mem, store, cleaner>>

\* A generated session id is durable before any event that mentions it.
ObserveSession(p) ==
  /\ pc[p] = "supervise" /\ ask[p] \notin ResumeInput
  /\ p \in submitted /\ mem[p].phase = "prepared"
  /\ Write(p, [mem[p] EXCEPT !.phase = "session_observed"])
  /\ UNCHANGED <<marker, owner, candidate, lock, pc, stage, ask, native, store, cleaner>>

\* Seeded fault: the session that was already recorded is forgotten.
ConclusionForgets(p) ==
  IF ask[p] \in ResumeInput THEN {"unresolved"} ELSE {"terminal_without_session"}

\* finish(): evidence may have been lost with the pipe, never invented.
Conclusion(p) ==
  IF ask[p] \in ResumeInput
  THEN {"unresolved"}
       \cup (IF p \in submitted THEN {"submission_observed"} ELSE {})
       \cup (IF p \in completed THEN {"completion_observed"} ELSE {})
  ELSE {IF mem[p].phase = "session_observed" THEN "session_observed"
                                             ELSE "terminal_without_session"}

Finish(p) ==
  /\ pc[p] = "supervise"
  /\ \E phase \in Conclusion(p) : Write(p, [mem[p] EXCEPT !.phase = phase])
  /\ Goto(p, "custody")
  /\ UNCHANGED <<marker, owner, candidate, lock, stage, ask, native, store, cleaner>>

\* The stream ended in a failure (a write error, a reap error): no conclusion.
StreamFails(p) ==
  /\ pc[p] = "supervise"
  /\ Goto(p, "custody")
  /\ UNCHANGED <<files, lock, stage, ask, mem, native, store, cleaner>>

(***************************************************************************)
(* finalize_launch_actor_and_replay, in its only authorised order          *)
(***************************************************************************)
DropCustody(p) ==
  /\ pc[p] = "custody"
  /\ native' = [native EXCEPT ![p] = "dead"]
  /\ Goto(p, "settle_own")
  /\ UNCHANGED <<files, lock, stage, ask, mem, store, cleaner>>

SettleOwn(p) ==
  /\ pc[p] = "settle_own"
  /\ Write(p, [mem[p] EXCEPT !.terminal = TRUE])
  /\ Goto(p, "release")
  /\ UNCHANGED <<marker, owner, candidate, lock, stage, ask, native, store, cleaner>>

Release(p) ==
  /\ pc[p] = "release"
  /\ Drop(p)
  /\ Goto(p, IF IsReplay(mem[p]) THEN "publish" ELSE "done")
  /\ UNCHANGED <<files, stage, ask, mem, native, store, cleaner>>

\* Publication follows the unlock, and its failure is ignored.
Publish(p) ==
  /\ pc[p] = "publish"
  /\ \/ owner' = "placed" /\ Goto(p, "publish_marker")
     \/ UNCHANGED owner /\ Goto(p, "done")
  /\ UNCHANGED <<rec, marker, candidate, lock, stage, ask, mem, native, store, cleaner>>

PublishMarker(p) ==
  /\ pc[p] = "publish_marker"
  /\ marker' = None
  /\ Goto(p, "done")
  /\ UNCHANGED <<rec, owner, candidate, lock, stage, ask, mem, native, store, cleaner>>

(***************************************************************************)
(* Failures of the provider process                                        *)
(***************************************************************************)

\* An I/O error under the lock: the guards unwind, and ChildCustody ends the group.
Fail(p) ==
  /\ pc[p] \in UnderLock \ {"supervise", "custody", "release"}
  /\ Refuse(p)
  /\ native' = IF Live(p) THEN [native EXCEPT ![p] = "dead"] ELSE native
  /\ UNCHANGED <<files, stage, ask, mem, store, cleaner>>

\* The process dies: its flock goes with it, an unreleased gate closes, and a
\* released group may outlive it (only the group leader is tied to the parent).
Crash(p) ==
  /\ pc[p] \in UnderLock \cup Outside
  /\ Goto(p, "crashed")
  /\ Drop(p)
  /\ \/ native' = IF Live(p) THEN [native EXCEPT ![p] = "dead"] ELSE native
     \/ native[p] = "running" /\ UNCHANGED native
  /\ UNCHANGED <<files, stage, ask, mem, store, cleaner>>

(***************************************************************************)
(* The native side                                                         *)
(***************************************************************************)
NativeSubmits(p) ==
  /\ native[p] = "running" /\ p \notin submitted
  /\ submitted' = submitted \cup {p}
  /\ UNCHANGED <<files, lock, pc, stage, ask, mem, native, completed, retired, cleaner>>

NativeCompletes(p) ==
  /\ native[p] = "running" /\ p \in submitted \ completed /\ ask[p] \in ResumeInput
  /\ completed' = completed \cup {p}
  /\ UNCHANGED <<files, lock, pc, stage, ask, mem, native, submitted, retired, cleaner>>

NativeExits(p) ==
  /\ native[p] = "running"
  /\ native' = [native EXCEPT ![p] = "dead"]
  /\ UNCHANGED <<files, lock, pc, stage, ask, mem, store, cleaner>>

(***************************************************************************)
(* Processes serving other requests                                        *)
(***************************************************************************)

\* try_reap_pre_effect_candidate, up to the removal of the record.
Reap ==
  /\ cleaner = "none" /\ candidate = "listed" /\ lock = None
  /\ \/ /\ Owned \/ (Present(rec) /\ ~IsPreEffect(rec))
        /\ candidate' = "absent"
        /\ UNCHANGED <<rec, lock, cleaner>>
     \/ /\ ~Owned /\ (Present(rec) => IsPreEffect(rec))
        /\ rec' = Absent
        /\ lock' = Reaper
        /\ cleaner' = "reap_marker"
        /\ UNCHANGED candidate
  /\ UNCHANGED <<marker, owner, pc, stage, ask, mem, native, store>>

ReapMarker ==
  /\ cleaner = "reap_marker"
  /\ marker' = None
  /\ candidate' = "absent"
  /\ lock' = None
  /\ cleaner' = "none"
  /\ UNCHANGED <<rec, owner, pc, stage, ask, mem, native, store>>

HandingOff == \E p \in Invocation : pc[p] \in {"publish", "publish_marker"}

\* retire_replay_displacement: an active request only loses its replay owner.
Evict ==
  /\ cleaner = "none" /\ Owned /\ lock = None
  /\ DisplaceDuringHandoff \/ ~HandingOff
  /\ \/ /\ marker # None
        /\ owner' = "absent"
        /\ UNCHANGED <<rec, lock, retired, cleaner>>
     \/ /\ marker = None
        /\ rec' = Absent
        /\ lock' = Evictor
        /\ retired' = submitted
        /\ cleaner' = "evict_owner"
        /\ UNCHANGED owner
  /\ UNCHANGED <<marker, candidate, pc, stage, ask, mem, native, submitted, completed>>

EvictOwner ==
  /\ cleaner = "evict_owner"
  /\ owner' = "absent"
  /\ lock' = None
  /\ cleaner' = "none"
  /\ UNCHANGED <<rec, marker, candidate, pc, stage, ask, mem, native, store>>

CleanerCrash ==
  /\ cleaner # "none"
  /\ lock' = None
  /\ cleaner' = "none"
  /\ UNCHANGED <<files, pc, stage, ask, mem, native, store>>

-----------------------------------------------------------------------------
Provider(p) ==
  \/ \E i \in Input : Start(p, i)
  \/ PolicyAccepts(p) \/ PolicyRejects(p)
  \/ Lock(p) \/ LockTimeout(p) \/ Classify(p) \/ Handoff(p) \/ HandoffMarker(p)
  \/ Read(p) \/ Settle(p) \/ SettleWrite(p)
  \/ InterpretNewSession(p) \/ InterpretResume(p)
  \/ Remove(p) \/ OrphanSkips(p) \/ OrphanLocks(p) \/ OrphanMarker(p)
  \/ Prepare(p) \/ Spawn(p) \/ Abandon(p) \/ ObserveActor(p) \/ ReleaseGate(p)
  \/ ObserveSession(p) \/ Finish(p) \/ StreamFails(p)
  \/ DropCustody(p) \/ SettleOwn(p) \/ Release(p) \/ Publish(p) \/ PublishMarker(p)
  \/ Fail(p) \/ Crash(p)

Native(p) == NativeSubmits(p) \/ NativeCompletes(p) \/ NativeExits(p)

Others == Reap \/ ReapMarker \/ Evict \/ EvictOwner \/ CleanerCrash

Next == (\E p \in Invocation : Provider(p) \/ Native(p)) \/ Others

Spec == Init /\ [][Next]_vars

-----------------------------------------------------------------------------
(***************************************************************************)
(* Properties                                                              *)
(***************************************************************************)
TypeOK ==
  /\ rec \in Record
  /\ marker \in Input \cup {None}
  /\ owner \in {"absent", "placed"} /\ candidate \in {"absent", "listed"}
  /\ lock \in Invocation \cup {None, Reaper, Evictor}
  /\ pc \in [Invocation -> PC]
  /\ stage \in [Invocation -> {"preflight", "admit", "abandon"}]
  /\ ask \in [Invocation -> Input \cup {None}]
  /\ mem \in [Invocation -> Record]
  /\ native \in [Invocation -> {"none", "gated", "running", "dead"}]
  /\ submitted \in SUBSET Invocation
  /\ completed \in SUBSET Invocation
  /\ retired \in SUBSET Invocation
  /\ cleaner \in {"none", "reap_marker", "evict_owner"}

\* Exec gate and actor custody: a native group that may act is named, as not
\* yet terminal, by the durable record, whatever has crashed; so the next exact
\* retry, and only it, can find the group and end it.
EffectHasCustody ==
  \A p \in Invocation :
    native[p] = "running" => rec.actor = p /\ ~rec.terminal

\* Request-local at-most-once: as long as the request has not been forgotten by
\* eviction of its settled record, at most one native turn was ever submitted.
AtMostOnce ==
  \A p, q \in submitted \ retired : p = q

\* Whoever is about to end a recorded group is not ending one whose provider
\* still supervises it (the claim made above settle_recorded_launch_actor).
NoForeignKill ==
  \A p, q \in Invocation :
    pc[q] = "settle" /\ rec.actor = p => pc[p] \in Ended \cup {"publish", "publish_marker"}

\* No lost update: while an invocation owns the request, the file it will
\* overwrite is the record it believes in, and its marker is in place.
GuardMatchesFile ==
  \A p \in Invocation :
    pc[p] \in Owning => rec = mem[p] /\ rec.input = ask[p] /\ marker = ask[p]

\* Every record can be found again from a bounded index: by its active marker
\* (bound to the same input) or by its replay owner.
Indexed ==
  Present(rec) => marker = rec.input \/ Owned

\* Only settled history is replay custody: a replay owner never covers a
\* record whose native actor may still have effects.
ReplayIsSettled ==
  Owned /\ Present(rec) =>
    IsReplay(rec) /\ \A p \in Invocation : native[p] \notin {"gated", "running"}

\* A recorded observation is true of the native side.
ObservationIsTrue ==
  /\ rec.phase \in {"session_observed", "submission_observed", "completion_observed"}
       => submitted # {}
  /\ rec.phase = "completion_observed" => completed # {}

\* One supervised effect per request: the native group of a request is named by its
\* record, is the only one that ever submits, and is not ended under its provider.
EffectsAreHeld == EffectHasCustody /\ AtMostOnce /\ NoForeignKill

\* The files of a request tell the truth to whoever reads them next: its owner's memory
\* is the file, an index leads to it, a replay owner covers only settled history, and
\* what it says was observed has happened.
FilesAreTrue == GuardMatchesFile /\ Indexed /\ ReplayIsSettled /\ ObservationIsTrue

\* Evidence is never withdrawn: an observed submission stays observed, and an
\* observed session or completion is final, until the settled record is evicted.
EvidenceIsKept ==
  [][ /\ rec.phase \in {"session_observed", "completion_observed"}
           => rec'.phase = rec.phase \/ cleaner' = "evict_owner"
      /\ rec.phase = "submission_observed"
           => rec'.phase \in {"submission_observed", "completion_observed"} ]_vars

-----------------------------------------------------------------------------
(***************************************************************************)
(* Refinement: seen from the host, the request is a single turn.           *)
(***************************************************************************)
Running == {p \in Invocation : native[p] = "running"}

LiveGroup == IF Running = {} THEN None ELSE CHOOSE p \in Running : TRUE

TurnState == IF submitted \subseteq retired THEN "open" ELSE "taken"

Turn == INSTANCE OneTurn WITH live <- LiveGroup, turn <- TurnState

\* The files, locks and crashes above implement the single turn of OneTurn: a
\* gate is released only when no group lives and no submission stands.
ImplementsOneTurn == Turn!Spec

\* What eviction takes from the replay ring is settled history: a record that
\* names an actor not known to be gone never ages out (README.md 495).
OnlyReplayAgesOut ==
  [][ cleaner = "none" /\ cleaner' = "evict_owner" /\ rec.actor # None => IsReplay(rec) ]_vars

\* Every record an invocation writes is one the next invocation can decode.
RecordsReadable == Present(rec) => Readable(rec)

=============================================================================
