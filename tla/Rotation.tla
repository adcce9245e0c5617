----------------------------- MODULE Rotation -----------------------------
(***************************************************************************)
(* rotation.assess and rotation.materialize (src/rotation.rs): a session   *)
(* is exported from one account and imported into another, at most once    *)
(* for an authorization, by processes that may die anywhere.               *)
(*                                                                         *)
(* Everything durable is keyed by the binding: an authorization, a         *)
(* reservation of a place, the operation with its import actor, and the    *)
(* receipt.  A call holds the binding's lock to its end; a provider-wide   *)
(* lock covers the maintenance of the collections and the few writes that  *)
(* change their size; the settings lock covers the final transaction.      *)
(* Locks are kernel locks, so a process holds one while it is at a place   *)
(* in the code that does, and loses it when it dies.                       *)
(*                                                                         *)
(* An operation, a reservation and a receipt of one binding each take one  *)
(* of Cap places.  A source artifact is named by its content.              *)
(***************************************************************************)
EXTENDS Integers, FiniteSets

CONSTANTS
  Process,     \* calls the host has outstanding
  Binding,     \* rotations: source, target, reason and settings selection
  Content,     \* what an export of the source session can hold
  Cap,         \* MAX_ROTATION_LIVE_RECORDS
  None

ASSUME ConstantsOK ==
  /\ Cap \in Nat \ {0}
  /\ None \notin Content /\ "partial" \notin Content

VARIABLES
  auth,      \* the assessment's authorization
  resv,      \* reservations
  op,        \* operations
  receipt,   \* materialization receipts
  art,       \* source artifacts, by content
  sess,      \* what the target account holds under each session id
  native,    \* the import actor's process group, and the artifact it reads
  route,     \* the settings selection in force
  pc,
  call,      \* what each process was called with and has learned
  effects    \* history: how often an operation let an import run

vars == <<auth, resv, op, receipt, art, sess, native, route, pc, call, effects>>

Durable == <<auth, resv, op, receipt, art>>

World == <<sess, native, route, effects>>

-----------------------------------------------------------------------------
(***************************************************************************)
(* Records                                                                 *)
(***************************************************************************)
Age == {"absent", "kept", "expired"}

\* An import keeps the session's id or gives it another.
Id == {"same", "new"}

\* The selection that was assessed, and what the host changed it to.
Route == {"assessed", "repaired"}

Operation ==
  [phase : {"prepared", "imported"}, artifact : Content,
   actor : BOOLEAN, terminal : BOOLEAN,
   candidate : Id \cup {None}, target : Id \cup {None}]

NewOperation(c) ==
  [phase |-> "prepared", artifact |-> c, actor |-> FALSE, terminal |-> FALSE,
   candidate |-> None, target |-> None]

Receipt == [target : Id, artifact : Content, selection : Route, age : {"kept", "expired"}]

Group == [at : {"none", "gated", "running"}, reads : Content \cup {None}]

NoGroup == [at |-> "none", reads |-> None]

\* `recovery` is the target the caller supplies, `repair` the target its repaired
\* selection names.  `found` is the session an import reported, `settled` the selection
\* finalization accepted, `wrote` whether the call itself wrote its artifact.
Call ==
  [binding : Binding, recovery : Id \cup {None}, repair : Id \cup {None},
   artifact : Content \cup {None}, wrote : BOOLEAN,
   found : Id \cup {None}, settled : Route \cup {None}]

NewCall(b, recovery, repair) ==
  [binding |-> b, recovery |-> recovery, repair |-> repair,
   artifact |-> None, wrote |-> FALSE, found |-> None, settled |-> None]

\* None stands for what is absent: it is no record and no session id.
ASSUME AbsenceOK == None \notin Operation \cup Receipt \cup Call \cup Id

Location ==
  {"idle", "replay", "recover", "terminal", "recheck", "resume",
   "reserve", "export", "prepare", "handoff",
   "admit", "release", "observe", "preserve", "settle", "conclude", "validate",
   "finalize", "receipt", "retire", "revoke"}

Init ==
  /\ auth = [b \in Binding |-> "absent"]
  /\ resv = [b \in Binding |-> "absent"]
  /\ op = [b \in Binding |-> None]
  /\ receipt = [b \in Binding |-> None]
  /\ art \in [Content -> {"absent", "kept"}]
  /\ sess = [b \in Binding |-> [i \in Id |-> None]]
  /\ native = [b \in Binding |-> NoGroup]
  /\ route = "assessed"
  /\ pc = [p \in Process |-> "idle"]
  /\ call = [p \in Process |-> None]
  /\ effects = [b \in Binding |-> 0]

Busy(p) == pc[p] # "idle"

Mine(p) == call[p].binding

BindingFree(b) == \A p \in Process : Busy(p) => Mine(p) # b

CapacityHeld == {"handoff", "retire", "revoke"}

CapacityFree == \A p \in Process : pc[p] \notin CapacityHeld

\* Seeded fault: the settings lock is dropped once the selection was checked.
SettingsHeldForCheck == {}

SettingsHeld == {"receipt", "retire", "revoke"}

SettingsFree == \A p \in Process : pc[p] \notin SettingsHeld

Goto(p, l) == pc' = [pc EXCEPT ![p] = l]

Return(p) == Goto(p, "idle") /\ call' = [call EXCEPT ![p] = None]

Learn(p, f, v) == call' = [call EXCEPT ![p][f] = v]

-----------------------------------------------------------------------------
(***************************************************************************)
(* Maintenance of the collections, under the capacity lock                 *)
(***************************************************************************)
KeptReceipts(b) ==
  [x \in Binding |->
     IF receipt[x] # None /\ x # b /\ receipt[x].age = "expired" THEN None ELSE receipt[x]]

\* Seeded fault: a stale reservation is given up although its owner still runs.
AbandonedByAge(x, b) == x # b /\ resv[x] = "expired"

\* A stale reservation is given up when the binding's lock proves no owner remains.
Abandoned(x, b) == x # b /\ resv[x] = "expired" /\ BindingFree(x)

KeptReservations(b) ==
  [x \in Binding |-> IF op[x] # None \/ Abandoned(x, b) THEN "absent" ELSE resv[x]]

KeptOperations(b) ==
  [x \in Binding |-> IF KeptReceipts(b)[x] # None THEN None ELSE op[x]]

Referenced(b) ==
  {KeptOperations(b)[x].artifact : x \in {y \in Binding : KeptOperations(b)[y] # None}}
  \cup {KeptReceipts(b)[x].artifact : x \in {y \in Binding : KeptReceipts(b)[y] # None}}

KeptArtifacts(b) ==
  [c \in Content |-> IF c \notin Referenced(b) /\ art[c] = "expired" THEN "absent" ELSE art[c]]

Held(f, absent) == Cardinality({b \in Binding : f[b] # absent})

PlacesAfter(b) ==
  Held(KeptReceipts(b), None) + Held(KeptReservations(b), "absent")
    + Held(KeptOperations(b), None)

Maintain(b) ==
  /\ receipt' = KeptReceipts(b)
  /\ op' = KeptOperations(b)
  /\ art' = KeptArtifacts(b)

\* Maintenance that leaves too many records reports it, and the call ends.
OverCapacity(b) ==
  /\ PlacesAfter(b) > Cap
  /\ Maintain(b) /\ resv' = KeptReservations(b)
  /\ UNCHANGED <<auth, World>>

-----------------------------------------------------------------------------
(***************************************************************************)
(* rotation.assess                                                         *)
(***************************************************************************)
Stale(b) == [x \in Binding |-> IF x # b /\ auth[x] = "expired" THEN "absent" ELSE auth[x]]

\* The facts the host states about the session and its accounts decide.
FactsAllow == BOOLEAN

\* What the assessment leaves: an authorization, if it allows, or none.
Decided(b, allowed) == [Stale(b) EXCEPT ![b] = IF allowed THEN "kept" ELSE "absent"]

Assess(p, b) ==
  /\ ~Busy(p) /\ BindingFree(b) /\ CapacityFree
  /\ PlacesAfter(b) <= Cap
  /\ Maintain(b) /\ resv' = KeptReservations(b)
  /\ \E allowed \in FactsAllow :
       /\ allowed => auth[b] # "absent" \/ Held(Stale(b), "absent") < Cap
       /\ auth' = Decided(b, allowed)
  /\ UNCHANGED <<pc, call, World>>

-----------------------------------------------------------------------------
(***************************************************************************)
(* rotation.materialize: replay, recovery, reservation                     *)
(***************************************************************************)
\* The host can name a target only for an operation it was told of.
Materialize(p, b) ==
  /\ ~Busy(p) /\ BindingFree(b)
  /\ \E recovery, repair \in Id \cup {None} :
       /\ op[b] = None => recovery = None /\ repair = None
       /\ call' = [call EXCEPT ![p] = NewCall(b, recovery, repair)]
  /\ Goto(p, "replay")
  /\ UNCHANGED <<Durable, World>>

Replay(p) ==
  LET b == Mine(p) IN
  /\ pc[p] = "replay"
  /\ IF receipt[b] # None THEN Return(p)
     ELSE /\ Goto(p, IF op[b] # None THEN "recover" ELSE "reserve")
          /\ UNCHANGED call
  /\ UNCHANGED <<Durable, World>>

\* Seeded fault: recovery takes the lock for proof that the actor is gone.
RecoverTrusting(p) ==
  /\ pc[p] = "recover"
  /\ Goto(p, IF op[Mine(p)].actor /\ ~op[Mine(p)].terminal THEN "terminal" ELSE "recheck")
  /\ UNCHANGED <<call, Durable, World>>

\* The recorded actor is terminated before anything else is consulted.
Recover(p) ==
  LET b == Mine(p) IN
  /\ pc[p] = "recover"
  /\ IF op[b].actor /\ ~op[b].terminal
     THEN /\ native' = [native EXCEPT ![b] = NoGroup]
          /\ Goto(p, "terminal")
     ELSE /\ Goto(p, "recheck")
          /\ UNCHANGED native
  /\ UNCHANGED <<call, Durable, sess, route, effects>>

RecordTerminal(p) ==
  /\ pc[p] = "terminal"
  /\ op' = [op EXCEPT ![Mine(p)].terminal = TRUE]
  /\ Goto(p, "recheck")
  /\ UNCHANGED <<auth, resv, receipt, art, call, World>>

Expected(p) ==
  LET o == op[Mine(p)] IN
  IF o.phase = "imported" THEN o.target
  ELSE IF call[p].recovery # None THEN call[p].recovery
  ELSE IF o.candidate # None THEN o.candidate ELSE "same"

\* The selection in force: the assessed one, or one the caller repaired it with for
\* exactly this target session.
Selection(p) ==
  IF route = "assessed" THEN route
  ELSE IF call[p].repair = Expected(p) /\ route = "repaired" THEN route ELSE None

Recheck(p) ==
  LET o == op[Mine(p)] IN
  /\ pc[p] = "recheck"
  /\ art[o.artifact] # "absent" /\ SettingsFree /\ Selection(p) # None
  /\ Goto(p, IF o.phase = "imported" THEN "finalize" ELSE "resume")
  /\ UNCHANGED <<call, Durable, World>>

\* Seeded fault: the caller's target replaces the one the import reported.
ResumeReplacing(p) ==
  LET b == Mine(p)
      o == op[b] IN
  /\ pc[p] = "resume"
  /\ IF o.actor
     THEN /\ Goto(p, "validate")
          /\ Learn(p, "found", Expected(p))
          /\ op' = [op EXCEPT ![b].candidate = Expected(p)]
     ELSE Goto(p, "admit") /\ UNCHANGED <<call, op>>
  /\ UNCHANGED <<auth, resv, receipt, art, World>>

\* Without an actor the import never ran; with one, its target is looked for.
Resume(p) ==
  LET b == Mine(p)
      o == op[b] IN
  /\ pc[p] = "resume"
  /\ IF o.actor
     THEN /\ o.terminal
          /\ Goto(p, "validate")
          /\ call' = [call EXCEPT ![p].found = Expected(p), ![p].recovery = None]
          /\ op' = IF o.candidate = None /\ call[p].recovery # None
                   THEN [op EXCEPT ![b].candidate = call[p].recovery] ELSE op
     ELSE Goto(p, "admit") /\ UNCHANGED <<call, op>>
  /\ UNCHANGED <<auth, resv, receipt, art, World>>

Authorized(b) == auth[b] = "kept" /\ SettingsFree /\ route = "assessed"

\* A reservation that is there already is taken over with its age.
Reserved(b) == [KeptReservations(b) EXCEPT ![b] = IF @ = "absent" THEN "kept" ELSE @]

Reserve(p) ==
  LET b == Mine(p) IN
  /\ pc[p] = "reserve" /\ CapacityFree
  /\ PlacesAfter(b) <= Cap
  /\ KeptReservations(b)[b] = "absent" => PlacesAfter(b) < Cap
  /\ Authorized(b)
  /\ Maintain(b)
  /\ resv' = Reserved(b)
  /\ auth' = Stale(b)
  /\ Goto(p, "export")
  /\ UNCHANGED <<call, World>>

-----------------------------------------------------------------------------
(***************************************************************************)
(* Export and preparation                                                  *)
(***************************************************************************)
\* An artifact that is there already is left as it is, with its age.
Stored(c) == [art EXCEPT ![c] = IF @ = "absent" THEN "kept" ELSE @]

Export(p) ==
  /\ pc[p] = "export"
  /\ \E c \in Content :
       /\ art' = Stored(c)
       /\ call' = [call EXCEPT ![p].artifact = c, ![p].wrote = art[c] = "absent"]
  /\ Goto(p, "prepare")
  /\ UNCHANGED <<auth, resv, op, receipt, World>>

\* The operation is written and, under the same lock, its reservation removed.
Prepare(p) ==
  LET b == Mine(p) IN
  /\ pc[p] = "prepare" /\ CapacityFree
  /\ op' = [op EXCEPT ![b] = NewOperation(call[p].artifact)]
  /\ effects' = [effects EXCEPT ![b] = 0]
  /\ call' = [call EXCEPT ![p].artifact = None, ![p].wrote = FALSE]
  /\ Goto(p, "handoff")
  /\ UNCHANGED <<auth, resv, receipt, art, sess, native, route>>

Handoff(p) ==
  /\ pc[p] = "handoff"
  /\ resv' = [resv EXCEPT ![Mine(p)] = "absent"]
  /\ Goto(p, "admit")
  /\ UNCHANGED <<auth, op, receipt, art, call, World>>

-----------------------------------------------------------------------------
(***************************************************************************)
(* The import                                                              *)
(***************************************************************************)
\* The actor waits behind its gate until the operation names it.
Admit(p) ==
  LET b == Mine(p) IN
  /\ pc[p] = "admit"
  /\ op' = [op EXCEPT ![b].actor = TRUE, ![b].terminal = FALSE]
  /\ native' = [native EXCEPT ![b] = [at |-> "gated", reads |-> op[b].artifact]]
  /\ Goto(p, "release")
  /\ UNCHANGED <<auth, resv, receipt, art, call, sess, route, effects>>

Release(p) ==
  LET b == Mine(p) IN
  /\ pc[p] = "release"
  /\ native' = [native EXCEPT ![b].at = "running"]
  /\ effects' = [effects EXCEPT ![b] = @ + 1]
  /\ Goto(p, "observe")
  /\ UNCHANGED <<call, Durable, sess, route>>

\* The leader's answer, or nothing: a limit ran out, or the output was malformed.
Observe(p) ==
  LET b == Mine(p) IN
  /\ pc[p] = "observe"
  /\ \E id \in {i \in Id : sess[b][i] # None} \cup {None} :
       /\ Learn(p, "found", id)
       /\ Goto(p, IF id = None THEN "settle" ELSE "preserve")
  /\ UNCHANGED <<Durable, World>>

Preserve(p) ==
  /\ pc[p] = "preserve"
  /\ op[Mine(p)].candidate \in {None, call[p].found}
  /\ op' = [op EXCEPT ![Mine(p)].candidate = call[p].found]
  /\ Goto(p, "settle")
  /\ UNCHANGED <<auth, resv, receipt, art, call, World>>

Settle(p) ==
  /\ pc[p] = "settle"
  /\ native' = [native EXCEPT ![Mine(p)] = NoGroup]
  /\ Goto(p, "conclude")
  /\ UNCHANGED <<call, Durable, sess, route, effects>>

Conclude(p) ==
  /\ pc[p] = "conclude"
  /\ op' = [op EXCEPT ![Mine(p)].terminal = TRUE]
  /\ IF call[p].found = None THEN Return(p) ELSE Goto(p, "validate") /\ UNCHANGED call
  /\ UNCHANGED <<auth, resv, receipt, art, World>>

Matches(b, id) == sess[b][id] = op[b].artifact

\* The target is exported and compared with the artifact before the operation advances.
Validate(p) ==
  LET b == Mine(p) IN
  /\ pc[p] = "validate"
  /\ art[op[b].artifact] # "absent" /\ Matches(b, call[p].found)
  /\ op' = [op EXCEPT ![b].phase = "imported", ![b].target = call[p].found,
                      ![b].candidate = None]
  /\ Learn(p, "found", None)
  /\ Goto(p, "finalize")
  /\ UNCHANGED <<auth, resv, receipt, art, World>>

-----------------------------------------------------------------------------
(***************************************************************************)
(* Finalization, under the settings lock                                   *)
(***************************************************************************)
Finalize(p) ==
  /\ pc[p] = "finalize" /\ SettingsFree
  /\ art[op[Mine(p)].artifact] # "absent" /\ Selection(p) # None
  /\ Learn(p, "settled", Selection(p))
  /\ Goto(p, "receipt")
  /\ UNCHANGED <<Durable, World>>

WriteReceipt(p) ==
  LET b == Mine(p) IN
  /\ pc[p] = "receipt" /\ CapacityFree
  /\ receipt' = [receipt EXCEPT ![b] =
       [target |-> op[b].target, artifact |-> op[b].artifact,
        selection |-> call[p].settled, age |-> "kept"]]
  /\ call' = [call EXCEPT ![p].settled = None, ![p].repair = None]
  /\ Goto(p, "retire")
  /\ UNCHANGED <<auth, resv, op, art, World>>

Retire(p) ==
  /\ pc[p] = "retire"
  /\ op' = [op EXCEPT ![Mine(p)] = None]
  /\ effects' = [effects EXCEPT ![Mine(p)] = 0]
  /\ Goto(p, "revoke")
  /\ UNCHANGED <<auth, resv, receipt, art, call, sess, native, route>>

Revoke(p) ==
  /\ pc[p] = "revoke"
  /\ auth' = [auth EXCEPT ![Mine(p)] = "absent"]
  /\ Return(p)
  /\ UNCHANGED <<resv, op, receipt, art, World>>

-----------------------------------------------------------------------------
(***************************************************************************)
(* Failure, death, and the rest of the world                               *)
(***************************************************************************)
\* A call owns its reservation until its operation has taken its place.
Forfeits == {"export", "prepare", "handoff"}

\* A call that fails drops what it owns: its reservation and its child.
Fail(p) ==
  LET b == Mine(p) IN
  /\ Busy(p) /\ pc[p] # "observe"
  /\ resv' = [resv EXCEPT ![b] =
                IF pc[p] \in Forfeits THEN "absent" ELSE @]
  /\ native' = [native EXCEPT ![b] = IF pc[p] = "release" THEN NoGroup ELSE @]
  /\ Return(p)
  /\ UNCHANGED <<auth, op, receipt, art, sess, route, effects>>

\* A process that dies leaves its files; a group behind the gate never runs, one that
\* was let through may go on without its leader, or end.
Crash(p) ==
  LET b == Mine(p) IN
  /\ Busy(p)
  /\ native' = [native EXCEPT ![b] = IF @.at = "running" THEN @ ELSE NoGroup]
  /\ Return(p)
  /\ UNCHANGED <<Durable, sess, route, effects>>

\* opencode import, with the artifact it was given: in part, or all of it.
NativeImports(b) ==
  /\ native[b].at = "running" /\ art[native[b].reads] # "absent"
  /\ \E id \in Id, c \in {"partial", native[b].reads} :
       /\ sess[b][id] # c
       /\ \A i \in Id \ {id} : sess[b][i] = None
       /\ sess' = [sess EXCEPT ![b][id] = c]
  /\ UNCHANGED <<pc, call, Durable, native, route, effects>>

NativeEnds(b) ==
  /\ native[b].at = "running"
  /\ native' = [native EXCEPT ![b] = NoGroup]
  /\ UNCHANGED <<pc, call, Durable, sess, route, effects>>

\* The host imports the prepared artifact by hand, as the recovery error
\* suggests when the import had no effect.
HostImports(b) ==
  /\ op[b] # None /\ op[b].terminal /\ op[b].phase = "prepared" /\ BindingFree(b)
  /\ art[op[b].artifact] # "absent" /\ \A i \in Id : sess[b][i] = None
  /\ sess' = [sess EXCEPT ![b]["new"] = op[b].artifact]
  /\ UNCHANGED <<pc, call, Durable, native, route, effects>>

ChangeRoute ==
  /\ SettingsFree /\ route = "assessed"
  /\ route' = "repaired"
  /\ UNCHANGED <<pc, call, Durable, sess, native, effects>>

\* Ten minutes for an authorization, two for a reservation, a day for the rest.  What a
\* running call wrote itself it does not outlive.
AuthorizationAges(b) ==
  /\ auth[b] = "kept" /\ auth' = [auth EXCEPT ![b] = "expired"]
  /\ UNCHANGED <<resv, op, receipt, art, pc, call, World>>

ReservationAges(b) ==
  /\ resv[b] = "kept" /\ resv' = [resv EXCEPT ![b] = "expired"]
  /\ UNCHANGED <<auth, op, receipt, art, pc, call, World>>

ReceiptAges(b) ==
  /\ receipt[b] # None /\ receipt[b].age = "kept" /\ BindingFree(b)
  /\ receipt' = [receipt EXCEPT ![b].age = "expired"]
  /\ UNCHANGED <<auth, resv, op, art, pc, call, World>>

ArtifactAges(c) ==
  /\ art[c] = "kept"
  /\ \A p \in Process : ~(Busy(p) /\ call[p].wrote /\ call[p].artifact = c)
  /\ art' = [art EXCEPT ![c] = "expired"]
  /\ UNCHANGED <<auth, resv, op, receipt, pc, call, World>>

-----------------------------------------------------------------------------
Refused(p) ==
  pc[p] = "reserve" /\ CapacityFree /\ OverCapacity(Mine(p)) /\ Return(p)

AssessRefused(p, b) ==
  ~Busy(p) /\ BindingFree(b) /\ CapacityFree /\ OverCapacity(b) /\ UNCHANGED <<pc, call>>

Step(p) ==
  \/ Replay(p) \/ Recover(p) \/ RecordTerminal(p) \/ Recheck(p) \/ Resume(p)
  \/ Reserve(p) \/ Refused(p) \/ Export(p) \/ Prepare(p) \/ Handoff(p)
  \/ Admit(p) \/ Release(p) \/ Observe(p) \/ Preserve(p) \/ Settle(p) \/ Conclude(p)
  \/ Validate(p) \/ Finalize(p) \/ WriteReceipt(p) \/ Retire(p) \/ Revoke(p)

Next ==
  \/ \E p \in Process : Step(p) \/ Fail(p) \/ Crash(p)
  \/ \E p \in Process, b \in Binding : Assess(p, b) \/ AssessRefused(p, b) \/ Materialize(p, b)
  \/ \E b \in Binding : NativeImports(b) \/ NativeEnds(b) \/ HostImports(b)
  \/ \E b \in Binding : AuthorizationAges(b) \/ ReservationAges(b) \/ ReceiptAges(b)
  \/ \E c \in Content : ArtifactAges(c)
  \/ ChangeRoute

Spec == Init /\ [][Next]_vars

-----------------------------------------------------------------------------
(***************************************************************************)
(* Properties                                                              *)
(***************************************************************************)
\* The rotations that hold one of the places: under way, or kept for replay.
InUse == {b \in Binding : resv[b] # "absent" \/ op[b] # None \/ receipt[b] # None}

\* The type of every variable.
Typed ==
  /\ auth \in [Binding -> Age] /\ resv \in [Binding -> Age]
  /\ op \in [Binding -> Operation \cup {None}]
  /\ receipt \in [Binding -> Receipt \cup {None}]
  /\ art \in [Content -> Age]
  /\ sess \in [Binding -> [Id -> Content \cup {"partial", None}]]
  /\ native \in [Binding -> Group] /\ route \in Route
  /\ pc \in [Process -> Location] /\ call \in [Process -> Call \cup {None}]
  /\ \A p \in Process : pc[p] = "idle" <=> call[p] = None
  /\ effects \in [Binding -> Nat]

\* The types, and that no more rotations are under way or kept than there are places.
TypeOK == Typed /\ Cardinality(InUse) <= Cap

\* An import that may act on the target account is named by the operation of its
\* binding, which does not yet say that it is over: no answer, receipt or retry is built
\* on an account that is still being written.
EffectIsNamed ==
  \A b \in Binding :
    native[b].at = "running" =>
      op[b] # None /\ op[b].actor /\ ~op[b].terminal /\ op[b].phase = "prepared"

\* However often a rotation is retried and by whomever, its import runs at most once.
ImportOnce == \A b \in Binding : effects[b] <= 1

\* What an operation, or the receipt that replaced it, says was imported is whole in the
\* target account, for as long as the receipt is replayed.
ImportedIsWhole ==
  \A b \in Binding :
    /\ op[b] # None /\ op[b].phase = "imported" => sess[b][op[b].target] = op[b].artifact
    /\ receipt[b] # None /\ receipt[b].age = "kept" /\ op[b] = None
         => sess[b][receipt[b].target] = receipt[b].artifact

\* One import per rotation, named by its operation while it runs, and it is the one that is
\* reported: neither a second session nor part of one is ever answered for.
ImportIsExact == EffectIsNamed /\ ImportOnce /\ ImportedIsWhole

\* When a receipt becomes durable its settings selection is the one in force: no update of
\* the settings comes between the check and the receipt.
SettledIsCurrent ==
  [][\A b \in Binding :
       receipt'[b] # None /\ receipt'[b] # receipt[b] /\ receipt'[b].age = "kept"
         => receipt'[b].selection = route']_vars

\* A session id that an import reported is kept until the operation has its target,
\* whoever retries and with whatever target of their own.
CandidateIsKept ==
  [][\A b \in Binding :
       op[b] # None /\ op[b].candidate # None
         => /\ op'[b] # None
            /\ op'[b].candidate = op[b].candidate \/ op'[b].phase = "imported"]_vars

\* An operation keeps the artifact it was prepared from.
ArtifactIsKept == \A b \in Binding : op[b] # None => art[op[b].artifact] # "absent"

\* Every admitted rotation has a place to become its receipt: maintenance never finds
\* more records than places.
PlacesSuffice == CapacityFree => \A b \in Binding : PlacesAfter(b) <= Cap

=============================================================================
