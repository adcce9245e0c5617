---------------------------- MODULE QuotaRefresh ----------------------------
(***************************************************************************)
(* quota.refresh_auth: one native `auth list` per request, which may       *)
(* change a credential file that several requests share                    *)
(* (src/quota_auth_refresh.rs, the auth crossing of src/opencode.rs).      *)
(*                                                                         *)
(* A process holds its request's lock to the end of its life, and the      *)
(* credential's effect lock from before the first snapshot of the file     *)
(* until the outcome is durable.  The path lock and the lock on the file   *)
(* itself are taken together, in this order, and are one lock here.  All   *)
(* requests are bound to one credential: others share no lock with it.     *)
(*                                                                         *)
(* A native group has a leader and may have descendants.  The leader dies  *)
(* with its provider (PR_SET_PDEATHSIG), the descendants need not.         *)
(***************************************************************************)
EXTENDS Integers, FiniteSets

CONSTANTS
  Invocation,     \* provider processes; a native group is named by its provider
  Request,        \* request ids, all bound to the same credential file
  Input,          \* request identities: the parameters without a reconciliation
  MaxVersion,     \* bound on the contents the file may come to have
  None

ASSUME ConstantsOK ==
  /\ MaxVersion \in Nat \ {0}
  /\ None \notin Invocation \cup Input

VARIABLES
  op,       \* requests/<stem>.json of each request
  lock,     \* holder of each request lock
  effect,   \* holder of the credential's effect lock
  cred,     \* content of the credential file, NoFile when there is none
  latest,   \* contents are numbered in the order in which they were written
  pc,
  call,     \* what each process was asked
  native,   \* the native group of each process
  before,   \* the content each process saw before its effect
  out,      \* what each process knows of its native turn
  wrote,    \* history: the groups that have changed the file
  past      \* history: the groups whose request has been forgotten since

vars == <<op, lock, effect, cred, latest, pc, call, native, before, out, wrote, past>>

NoFile == 0

Version == 1 .. MaxVersion

Content == Version \cup {NoFile}

\* No digest is offered for reconciliation.
NoDigest == 0

(***************************************************************************)
(* Durable operations                                                      *)
(***************************************************************************)
Phase == {"absent", "prepared", "native_effect_admitted", "reconciliation_required",
          "committed"}

Evidence == {"none", "credentials_changed", "unobservable", "unobserved"}

Operation == [phase     : Phase,
              input     : Input \cup {None},
              actor     : Invocation \cup {None},
              terminal  : BOOLEAN,                  \* actor_terminal_at_unix_ms
              evidence  : Evidence,                 \* reconciliation
              accepted  : Version \cup {NoDigest},  \* its resolution
              refreshed : BOOLEAN]                  \* result

NoOperation == [phase |-> "absent", input |-> None, actor |-> None, terminal |-> FALSE,
                evidence |-> "none", accepted |-> NoDigest, refreshed |-> FALSE]

Prepared(i) == [NoOperation EXCEPT !.phase = "prepared", !.input = i]

Admitted(o, p) == [o EXCEPT !.phase = "native_effect_admitted", !.actor = p, !.terminal = FALSE]

Required(o, evidence) ==
  [o EXCEPT !.phase = "reconciliation_required", !.terminal = TRUE, !.evidence = evidence]

\* A commit settles the actor, if there was one.
Committed(o, refreshed) ==
  [o EXCEPT !.phase = "committed", !.terminal = o.actor # None, !.refreshed = refreshed]

\* The caller's acceptance resolves the evidence, which stays in the record.
Resolved(o, digest) ==
  [o EXCEPT !.phase = "committed", !.accepted = digest,
            !.refreshed = (o.evidence = "credentials_changed")]

\* What the decoder accepts.
WellFormed(o) ==
  /\ o.phase # "absent" => o.input # None
  /\ o.phase \in {"absent", "prepared"} =>
       o.actor = None /\ ~o.terminal /\ o.evidence = "none" /\ o.accepted = NoDigest
  /\ o.phase = "native_effect_admitted" =>
       o.actor # None /\ ~o.terminal /\ o.evidence = "none" /\ o.accepted = NoDigest
  /\ o.phase = "reconciliation_required" =>
       o.actor # None /\ o.terminal /\ o.accepted = NoDigest
  /\ o.phase = "committed" =>
       /\ o.terminal <=> o.actor # None
       /\ o.evidence # "none" => o.accepted # NoDigest

-----------------------------------------------------------------------------
(***************************************************************************)
(* Processes                                                               *)
(***************************************************************************)
\* The effect lock is held in the first set, the request lock in both.
InEffect == {"spawn", "publish", "gate", "observe", "settle_own", "snapshot", "conclude",
             "accept"}

UnderLock == {"read", "settle", "settle_write", "effect_lock", "reconcile"} \cup InEffect

Location == {"idle", "lock", "done"} \cup UnderLock

\* What is known of the native turn: how it ended, and then what became of the file.
Verdict == {"unobserved", "unobservable", "partial", "refreshed", "unchanged"}

Outcome == {"none", "succeeded", "failed"} \cup Verdict

\* A group is lingering when its leader is gone and descendants are not.
NativeState == {"none", "gated", "running", "lingering", "ended"}

Live(q) == native[q] \in {"running", "lingering"}

\* The group was let through its gate.
Ran(q) == native[q] \in {"running", "lingering", "ended"}

Call == [request : Request \cup {None}, input : Input \cup {None},
         digest : Version \cup {NoDigest}]

NoCall == [request |-> None, input |-> None, digest |-> NoDigest]

Req(p) == call[p].request

Mine(p) == op[Req(p)]

Init ==
  /\ op = [r \in Request |-> NoOperation]
  /\ lock = [r \in Request |-> None]
  /\ effect = None
  /\ latest \in {0, 1} /\ cred = latest
  /\ pc = [p \in Invocation |-> "idle"]
  /\ call = [p \in Invocation |-> NoCall]
  /\ native = [p \in Invocation |-> "none"]
  /\ before = [p \in Invocation |-> NoFile]
  /\ out = [p \in Invocation |-> "none"]
  /\ wrote = {} /\ past = {}

Goto(p, l) == pc' = [pc EXCEPT ![p] = l]

Write(p, o) == op' = [op EXCEPT ![Req(p)] = o]

\* The process ends; its locks are released and its memory is gone.  Its request is
\* kept for the history.
Leave(p) ==
  /\ Goto(p, "done")
  /\ lock' = IF pc[p] \in UnderLock THEN [lock EXCEPT ![Req(p)] = None] ELSE lock
  /\ effect' = IF pc[p] \in InEffect THEN None ELSE effect
  /\ before' = [before EXCEPT ![p] = NoFile]
  /\ out' = [out EXCEPT ![p] = "none"]
  /\ call' = [call EXCEPT ![p] = [NoCall EXCEPT !.request = Req(p)]]

File == <<cred, latest>>

History == <<wrote, past>>

-----------------------------------------------------------------------------
(***************************************************************************)
(* Taking custody of the request                                           *)
(***************************************************************************)
\* The host offers a digest of contents the file has or had.
Start(p) ==
  /\ pc[p] = "idle"
  /\ \E r \in Request, i \in Input, d \in {NoDigest} \cup (1 .. latest) :
       call' = [call EXCEPT ![p] = [request |-> r, input |-> i, digest |-> d]]
  /\ Goto(p, "lock")
  /\ UNCHANGED <<op, lock, effect, File, native, before, out, History>>

Lock(p) ==
  /\ pc[p] = "lock" /\ lock[Req(p)] = None
  /\ lock' = [lock EXCEPT ![Req(p)] = p]
  /\ Goto(p, "read")
  /\ UNCHANGED <<op, effect, File, call, native, before, out, History>>

\* A lock is not had within the operation's deadline.
LockTimeout(p) ==
  /\ pc[p] \in {"lock", "effect_lock", "reconcile"}
  /\ Leave(p)
  /\ UNCHANGED <<op, File, native, History>>

Conflict(p) == Mine(p).phase # "absent" /\ Mine(p).input # call[p].input

Matches(p, phase) == pc[p] = "read" /\ Mine(p).phase = phase /\ ~Conflict(p)

\* A conflict, a replay, or a refusal, which leave the operation as it is.
Answer(p) ==
  /\ \/ pc[p] = "read" /\ Conflict(p)
     \/ Matches(p, "committed")
     \/ Matches(p, "reconciliation_required") /\ call[p].digest = NoDigest
     \/ Matches(p, "absent") /\ call[p].digest # NoDigest
     \/ Matches(p, "prepared") /\ call[p].digest # NoDigest
  /\ Leave(p)
  /\ UNCHANGED <<op, File, native, History>>

Prepare(p) ==
  /\ Matches(p, "absent") /\ call[p].digest = NoDigest
  /\ Write(p, Prepared(call[p].input))
  /\ Goto(p, "effect_lock")
  /\ UNCHANGED <<lock, effect, File, call, native, before, out, History>>

\* Nothing native was admitted yet, so a retry goes on.
Resume(p) ==
  /\ Matches(p, "prepared") /\ call[p].digest = NoDigest
  /\ Goto(p, "effect_lock")
  /\ UNCHANGED <<op, lock, effect, File, call, native, before, out, History>>

-----------------------------------------------------------------------------
(***************************************************************************)
(* An abandoned effect, and its reconciliation                             *)
(***************************************************************************)
\* Seeded fault: an effect that was admitted is tried again.
RetryEffect(p) ==
  /\ Matches(p, "native_effect_admitted")
  /\ Goto(p, "effect_lock")
  /\ UNCHANGED <<op, lock, effect, File, call, native, before, out, History>>

Retry(p) ==
  /\ Matches(p, "native_effect_admitted")
  /\ Goto(p, "settle")
  /\ UNCHANGED <<op, lock, effect, File, call, native, before, out, History>>

Terminate(q) == native' = [native EXCEPT ![q] = IF Live(q) THEN "ended" ELSE @]

\* The recorded group is ended before anything is said of the file.
Settle(p) ==
  /\ pc[p] = "settle"
  /\ Terminate(Mine(p).actor)
  /\ Goto(p, "settle_write")
  /\ UNCHANGED <<op, lock, effect, File, call, before, out, History>>

SettleWrite(p) ==
  /\ pc[p] = "settle_write"
  /\ Write(p, Required(Mine(p), "unobserved"))
  /\ Leave(p)
  /\ UNCHANGED <<File, native, History>>

Reconcile(p) ==
  /\ Matches(p, "reconciliation_required") /\ call[p].digest # NoDigest
  /\ Goto(p, "reconcile")
  /\ UNCHANGED <<op, lock, effect, File, call, native, before, out, History>>

\* Seeded fault: the caller's digest is accepted unseen.
AcceptOffered(p) ==
  /\ pc[p] = "accept"
  /\ Write(p, Resolved(Mine(p), call[p].digest))
  /\ Leave(p)
  /\ UNCHANGED <<File, native, History>>

Accept(p) ==
  /\ pc[p] = "accept" /\ cred = call[p].digest
  /\ Write(p, Resolved(Mine(p), cred))
  /\ Leave(p)
  /\ UNCHANGED <<File, native, History>>

\* The file is not, or no longer, what the caller accepted.
Stale(p) ==
  /\ pc[p] = "accept" /\ cred # call[p].digest
  /\ Leave(p)
  /\ UNCHANGED <<op, File, native, History>>

-----------------------------------------------------------------------------
(***************************************************************************)
(* The effect                                                              *)
(***************************************************************************)
EffectLock(p) ==
  /\ pc[p] \in {"effect_lock", "reconcile"} /\ effect = None
  /\ effect' = p
  /\ Goto(p, IF pc[p] = "reconcile" THEN "accept" ELSE "spawn")
  /\ UNCHANGED <<op, lock, File, call, native, before, out, History>>

Spawn(p) ==
  /\ pc[p] = "spawn"
  /\ before' = [before EXCEPT ![p] = cred]
  /\ native' = [native EXCEPT ![p] = "gated"]
  /\ Goto(p, "publish")
  /\ UNCHANGED <<op, lock, effect, File, call, out, History>>

\* A failure before the effect was possible is a result: nothing was refreshed.
SpawnFails(p) ==
  /\ pc[p] = "spawn"
  /\ Write(p, Committed(Mine(p), FALSE))
  /\ Leave(p)
  /\ UNCHANGED <<File, native, History>>

Publish(p) ==
  /\ pc[p] = "publish"
  /\ Write(p, Admitted(Mine(p), p))
  /\ Goto(p, "gate")
  /\ UNCHANGED <<lock, effect, File, call, native, before, out, History>>

Release(p) ==
  /\ pc[p] = "gate"
  /\ native' = [native EXCEPT ![p] = "running"]
  /\ Goto(p, "observe")
  /\ UNCHANGED <<op, lock, effect, File, call, before, out, History>>

ReleaseFails(p) ==
  /\ pc[p] = "gate"
  /\ native' = [native EXCEPT ![p] = "none"]
  /\ out' = [out EXCEPT ![p] = "unobserved"]
  /\ Goto(p, "settle_own")
  /\ UNCHANGED <<op, lock, effect, File, call, before, History>>

\* The leader has returned and closed its output; descendants may be left.
LeaderReturns(p) ==
  /\ pc[p] = "observe" /\ native[p] \in {"lingering", "ended"}
  /\ \E o \in {"succeeded", "failed"} : out' = [out EXCEPT ![p] = o]
  /\ Goto(p, "settle_own")
  /\ UNCHANGED <<op, lock, effect, File, call, native, before, History>>

LeaderTimesOut(p) ==
  /\ pc[p] = "observe"
  /\ Terminate(p)
  /\ out' = [out EXCEPT ![p] = "unobserved"]
  /\ Goto(p, "settle_own")
  /\ UNCHANGED <<op, lock, effect, File, call, before, History>>

\* Seeded fault: the wait for the leader has no limit.
ObservedUnbounded(p) == LeaderReturns(p)

Observed(p) == LeaderReturns(p) \/ LeaderTimesOut(p)

\* Seeded fault: the leader's return is taken for the end of its group.
SettleLeader(p) ==
  /\ pc[p] = "settle_own"
  /\ Goto(p, IF out[p] = "unobserved" THEN "conclude" ELSE "snapshot")
  /\ UNCHANGED <<op, lock, effect, File, call, native, before, out, History>>

\* Seeded fault: an outcome without a second snapshot of the file.
SettleUnobserved(p) ==
  /\ pc[p] = "settle_own"
  /\ Terminate(p)
  /\ Goto(p, "conclude")
  /\ UNCHANGED <<op, lock, effect, File, call, before, out, History>>

SettleOwn(p) ==
  /\ pc[p] = "settle_own"
  /\ Terminate(p)
  /\ Goto(p, IF out[p] = "unobserved" THEN "conclude" ELSE "snapshot")
  /\ UNCHANGED <<op, lock, effect, File, call, before, out, History>>

\* What the two snapshots and the command's end amount to.
Compared(p) ==
  CASE cred = NoFile                                -> "unobservable"
    [] cred # NoFile /\ cred = before[p]            -> "unchanged"
    [] cred # NoFile /\ cred # before[p] /\ out[p] = "failed" -> "partial"
    [] OTHER                                        -> "refreshed"

Snapshot(p) ==
  /\ pc[p] = "snapshot"
  /\ \E o \in {Compared(p), "unobserved"} : out' = [out EXCEPT ![p] = o]
  /\ Goto(p, "conclude")
  /\ UNCHANGED <<op, lock, effect, File, call, native, before, History>>

Concluded(p) ==
  CASE out[p] = "unobserved"   -> Required(Mine(p), "unobserved")
    [] out[p] = "unobservable" -> Required(Mine(p), "unobservable")
    [] out[p] = "partial"      -> Required(Mine(p), "credentials_changed")
    [] OTHER                   -> Committed(Mine(p), out[p] = "refreshed")

Conclude(p) ==
  /\ pc[p] = "conclude"
  /\ Write(p, Concluded(p))
  /\ Leave(p)
  /\ UNCHANGED <<File, native, History>>

-----------------------------------------------------------------------------
(***************************************************************************)
(* What happens to processes, groups and old requests                      *)
(***************************************************************************)
\* An error return, or death: a closed gate lets nothing through, and a released
\* leader dies with its provider.
Stop(p) ==
  /\ pc[p] \notin {"idle", "done"}
  /\ \E s \in NativeState :
       /\ native[p] = "gated" => s = "none"
       /\ native[p] = "running" => s \in {"lingering", "ended"}
       /\ native[p] \notin {"gated", "running"} => s = native[p]
       /\ native' = [native EXCEPT ![p] = s]
  /\ Leave(p)
  /\ UNCHANGED <<op, File, History>>

NativeWrites(q) ==
  /\ Live(q) /\ latest < MaxVersion
  /\ latest' = latest + 1 /\ cred' = latest'
  /\ wrote' = wrote \cup {q}
  /\ UNCHANGED <<op, lock, effect, pc, call, native, before, out, past>>

NativeRemoves(q) ==
  /\ Live(q) /\ cred # NoFile
  /\ cred' = NoFile
  /\ wrote' = wrote \cup {q}
  /\ UNCHANGED <<op, lock, effect, latest, pc, call, native, before, out, past>>

NativeExits(q) ==
  /\ Live(q)
  /\ \E s \in {"lingering", "ended"} : native' = [native EXCEPT ![q] = s]
  /\ UNCHANGED <<op, lock, effect, File, pc, call, before, out, History>>

\* A committed request ages out of the replay ring.
Evict(r) ==
  /\ op[r].phase = "committed" /\ lock[r] = None
  /\ op' = [op EXCEPT ![r] = NoOperation]
  /\ past' = past \cup {q \in Invocation : Req(q) = r /\ Ran(q)}
  /\ UNCHANGED <<lock, effect, File, pc, call, native, before, out, wrote>>

-----------------------------------------------------------------------------
Step(p) ==
  \/ Lock(p) \/ LockTimeout(p) \/ Answer(p) \/ Prepare(p) \/ Resume(p)
  \/ Retry(p) \/ Settle(p) \/ SettleWrite(p) \/ Reconcile(p) \/ Accept(p) \/ Stale(p)
  \/ EffectLock(p) \/ Spawn(p) \/ SpawnFails(p) \/ Publish(p) \/ Release(p)
  \/ ReleaseFails(p) \/ Observed(p) \/ SettleOwn(p) \/ Snapshot(p) \/ Conclude(p)

Native(q) == NativeWrites(q) \/ NativeRemoves(q) \/ NativeExits(q)

Next ==
  \/ \E p \in Invocation : Start(p) \/ Step(p) \/ Stop(p) \/ Native(p)
  \/ \E r \in Request : Evict(r)

\* A started process keeps running; nothing is assumed of the native program, the
\* host or the clean-up.
Fairness == \A p \in Invocation : WF_vars(Step(p))

Spec == Init /\ [][Next]_vars /\ Fairness

-----------------------------------------------------------------------------
(***************************************************************************)
(* Properties                                                              *)
(***************************************************************************)
\* The files, locks and groups have the values they are meant to have, and a process
\* that concludes has a verdict on the file.
TypeOK ==
  /\ op \in [Request -> Operation]
  /\ lock \in [Request -> Invocation \cup {None}]
  /\ effect \in Invocation \cup {None}
  /\ latest \in 0 .. MaxVersion /\ cred \in 0 .. latest
  /\ pc \in [Invocation -> Location]
  /\ call \in [Invocation -> Call]
  /\ native \in [Invocation -> NativeState]
  /\ before \in [Invocation -> 0 .. latest]
  /\ out \in [Invocation -> Outcome]
  /\ \A p \in Invocation : pc[p] = "conclude" => out[p] \in Verdict
  /\ wrote \subseteq Invocation /\ past \subseteq Invocation

\* Every durable operation satisfies validate_quota_refresh_operation, so that no
\* history of crashes and retries leaves a request that can only be refused.
RecordsReadable == \A r \in Request : WellFormed(op[r])

\* A group that may still change the file is named, as not yet terminal, by its
\* request's record, where the next retry finds it.
EffectIsNamed ==
  \A q \in Invocation :
    Live(q) => /\ Mine(q).phase = "native_effect_admitted" /\ Mine(q).actor = q
               /\ ~Mine(q).terminal

\* However often a request is retried, crashed and reconciled, `auth list` is let
\* through at most once.
EffectOnce ==
  \A p, q \in Invocation :
    Ran(p) /\ Ran(q) /\ Req(p) = Req(q) /\ p \notin past /\ q \notin past => p = q

\* One named effect per request, whatever history of deaths and retries it has: `auth list`
\* runs once, under a record that names it and that the next retry can decode.
EffectIsHeld == RecordsReadable /\ EffectIsNamed /\ EffectOnce

\* A refresh that is reported as none, without the caller's acceptance, did not
\* change the file, not even after its leader had returned.
NoHiddenChange ==
  \A r \in Request :
    op[r].phase = "committed" /\ ~op[r].refreshed /\ op[r].accepted = NoDigest =>
      op[r].actor \notin wrote

\* What the caller accepts is what is in the file when the request is committed,
\* and no group of this request can change it afterwards.
AcceptsTheCurrent ==
  [][\A r \in Request :
       op'[r].accepted # op[r].accepted /\ op'[r].phase # "absent" =>
         /\ op'[r].accepted = cred /\ cred' = cred
         /\ \A q \in Invocation : Req(q) = r => ~Live(q)]_vars

\* Every started process ends: a hanging native command or a contended lock holds
\* neither the request nor the credential for ever.
Answered == \A p \in Invocation : pc[p] = "lock" ~> pc[p] = "done"

\* README.md 277-281: invocations serialize when they can observe or mutate the same
\* credential source.
Serialized ==
  \A p, q \in Invocation :
    pc[p] \in InEffect /\ p # q => ~Live(q)
=============================================================================
