--------------------------- MODULE IdentityRebind ---------------------------
(***************************************************************************)
(* The rebind cycles of src/native_identity_rebind.rs: an operator changes *)
(* what an account runs while the host keeps ordinary requests out, and    *)
(* the provider decides when they may be let in again.  A cycle goes       *)
(* through Plan, Seal, Observe and Release, each a request that may be     *)
(* sent again when its answer was lost.                                    *)
(*                                                                         *)
(* The component is the account's runtime record, which ordinary requests  *)
(* and the validation of a cutover resolve as NativeRuntime says.  What is *)
(* under the component's lock is one step here; Seal and Observe read the  *)
(* record before they take it.                                             *)
(*                                                                         *)
(* The host is as the README's choreography has it: it keeps requests out  *)
(* for one cycle at a time, seals when nothing is in flight, and lets them *)
(* in on a release authorization, or before it ever sealed.                *)
(***************************************************************************)
EXTENDS NativeRuntime, FiniteSets

CONSTANTS
  Call,        \* Seal and Observe requests the host has outstanding
  Cycle,       \* plan requests: a cycle's identity comes from its plan's
  MaxCycles    \* MAX_NATIVE_IDENTITY_REBIND_CYCLES_PER_COMPONENT

ASSUME RebindConstantsOK == MaxCycles \in Nat \ {0}

VARIABLES
  cycle,      \* the cycle records
  call,       \* the Seal or Observe that has read the record already
  hold,       \* the cycle ordinary requests are kept out for
  sealed,     \* whether a Seal was sent for it
  validated,  \* whether its validation is over
  told,       \* the evidence its plan answered with
  seen        \* the observation that was admitted for it

hostVars == <<hold, sealed, validated, told, seen>>
vars == <<files, record, job, cycle, call, hold, sealed, validated, told, seen>>

-----------------------------------------------------------------------------
Disposition == {"committed", "rolled_back"}

\* NativeIdentityRebindEvidence
IdentityRecord == [family : {"current", "direct", "wrapper"}, content : Program, version : Nat]

EvidenceRecord ==
  [identity : {None} \cup IdentityRecord, state : {None} \cup RuntimeRecord]

\* native_identity_evidence: what the record says is run, and the record's bytes.
Identity(r) ==
  [family |-> IF r.schema = "pinned" THEN "current" ELSE r.schema,
   content |-> r.content, version |-> r.version]

EvidenceOf(r) ==
  IF r = None THEN [identity |-> None, state |-> None]
  ELSE [identity |-> Identity(r), state |-> r]

Evidence == EvidenceOf(record)

\* The validated reading fails when the record no longer fits the executable.
Readable == record # None => ValidRecord(record)

\* native_identity_rebind_disposition_matches
Matches(d, prior, now) ==
  IF d = "committed" THEN now.identity # None /\ now.identity # prior.identity
  ELSE now = prior

Phase ==
  {"awaiting_host_drain", "awaiting_cutover", "awaiting_host_release", "completed", "rolled_back"}

\* NativeIdentityRebindCycleRecord; old says that the cycle's time is over.
CycleRecord ==
  [phase : Phase, prior : EvidenceRecord, observed : {None} \cup EvidenceRecord,
   disposition : {None} \cup Disposition, old : BOOLEAN]

\* None stands for what is absent: it is no cycle, evidence or disposition.
ASSUME AbsenceOK ==
  None \notin Cycle \cup Disposition \cup EvidenceRecord \cup CycleRecord

Active(c) == cycle[c] # None /\ cycle[c].phase \in {"awaiting_cutover", "awaiting_host_release"}

Terminal(c) == cycle[c] # None /\ cycle[c].phase \in {"completed", "rolled_back"}

Planned(prior) ==
  [phase |-> "awaiting_host_drain", prior |-> prior, observed |-> None, disposition |-> None,
   old |-> FALSE]

Init ==
  /\ RuntimeInit
  /\ cycle = [c \in Cycle |-> None]
  /\ call = [q \in Call |-> None]
  /\ hold = None
  /\ sealed = FALSE
  /\ validated = FALSE
  /\ told = None
  /\ seen = None

-----------------------------------------------------------------------------
(***************************************************************************)
(* Room for a cycle: prepare_native_identity_rebind_cycle_slot             *)
(***************************************************************************)
\* Seeded fault: every cycle can grow old.
ExpiredWhatever(c) == cycle[c] # None /\ cycle[c].old

\* A cycle between its seal and its release never expires.
Expired(c) == cycle[c] # None /\ ~Active(c) /\ cycle[c].old

Cleared == [c \in Cycle |-> IF Expired(c) THEN None ELSE cycle[c]]

\* Seeded fault: a cycle that exists makes room for another.
RoomForOneMore(c) == Cardinality({x \in Cycle : Cleared[x] # None}) <= MaxCycles

Room(c) == Cleared[c] # None \/ Cardinality({x \in Cycle : Cleared[x] # None}) < MaxCycles

\* The directory is read in some order until the call's own expired cycle is met.
OwnExpired(c) ==
  /\ Expired(c)
  /\ \E others \in SUBSET {x \in Cycle : Expired(x)} :
       cycle' = [x \in Cycle |-> IF x = c \/ x \in others THEN None ELSE cycle[x]]

\* Twenty-four hours pass over a cycle no request is working on.
Age(c) ==
  /\ cycle[c] # None /\ ~cycle[c].old
  /\ \A q \in Call : call[q] # None => call[q].cycle # c
  /\ cycle' = [cycle EXCEPT ![c].old = TRUE]
  /\ UNCHANGED <<runtimeVars, call, hostVars>>

-----------------------------------------------------------------------------
(***************************************************************************)
(* Requests                                                                *)
(***************************************************************************)
\* The plan's answer reaches the host, which may keep ordinary requests out from then on, or
\* it is lost.
Answer(c, prior) ==
  \/ UNCHANGED hostVars
  \/ /\ hold = None
     /\ hold' = c /\ told' = prior
     /\ UNCHANGED <<sealed, validated, seen>>

\* persist_native_identity_rebind_plan
Plan(c) ==
  /\ UNCHANGED <<runtimeVars, call>>
  /\ \/ OwnExpired(c) /\ UNCHANGED hostVars
     \/ /\ ~Expired(c) /\ ~Room(c)
        /\ cycle' = Cleared /\ UNCHANGED hostVars
     \/ /\ ~Expired(c) /\ Room(c)
        /\ cycle' = IF Cleared[c] = None THEN [Cleared EXCEPT ![c] = Planned(Evidence)]
                    ELSE Cleared
        /\ IF cycle'[c].phase = "awaiting_host_drain"
           THEN Answer(c, cycle'[c].prior)
           ELSE UNCHANGED hostVars

\* Seal reads the record the plan was made for, without the lock.
SealRead(q, c) ==
  /\ call[q] = None /\ hold = c /\ RuntimeFree
  /\ Evidence = told
  /\ sealed' = TRUE
  /\ call' = [call EXCEPT ![q] =
       [op |-> "seal", cycle |-> c, prior |-> told, observed |-> None, disposition |-> None]]
  /\ UNCHANGED <<runtimeVars, cycle, hold, validated, told, seen>>

Return(q) == call' = [call EXCEPT ![q] = None]

\* native_identity_rebind_cycle_matches for a cycle that has no observation yet.
SamePlan(c, prior) == cycle[c] # None /\ cycle[c].prior = prior /\ cycle[c].observed = None

\* persist_native_identity_rebind_seal
Seal(q) ==
  /\ call[q] # None /\ call[q].op = "seal"
  /\ LET c == call[q].cycle
     IN  \/ OwnExpired(c)
         \/ /\ ~Expired(c)
            /\ cycle' = IF Room(c) /\ SamePlan(c, call[q].prior)
                            /\ cycle[c].phase = "awaiting_host_drain"
                        THEN [Cleared EXCEPT ![c].phase = "awaiting_cutover", ![c].old = FALSE]
                        ELSE Cleared
  /\ Return(q)
  /\ UNCHANGED <<runtimeVars, hostVars>>

\* Observe reads the record, which must fit the executable, without the lock.
ObserveRead(q, c, d) ==
  /\ call[q] = None /\ hold = c /\ sealed /\ validated
  /\ Readable /\ Matches(d, told, Evidence)
  /\ call' = [call EXCEPT ![q] =
       [op |-> "observe", cycle |-> c, prior |-> told, observed |-> Evidence, disposition |-> d]]
  /\ UNCHANGED <<runtimeVars, cycle, hostVars>>

SameObservation(q, c) ==
  /\ cycle[c] # None
  /\ cycle[c].prior = call[q].prior
  /\ cycle[c].observed = call[q].observed
  /\ cycle[c].disposition = call[q].disposition

\* persist_native_identity_rebind_observation: a second observation must be the first.
Observe(q) ==
  /\ call[q] # None /\ call[q].op = "observe"
  /\ LET c == call[q].cycle
         observation == [prior |-> call[q].prior, observed |-> call[q].observed,
                         disposition |-> call[q].disposition]
     IN  \/ OwnExpired(c) /\ UNCHANGED seen
         \/ /\ ~Expired(c) /\ Room(c)
            /\ SamePlan(c, call[q].prior) /\ cycle[c].phase = "awaiting_cutover"
            /\ cycle' = [Cleared EXCEPT ![c] =
                 [phase |-> "awaiting_host_release", prior |-> call[q].prior,
                  observed |-> call[q].observed, disposition |-> call[q].disposition,
                  old |-> FALSE]]
            /\ seen' \in {seen, observation}
         \/ /\ ~Expired(c)
            /\ ~(Room(c) /\ SamePlan(c, call[q].prior) /\ cycle[c].phase = "awaiting_cutover")
            /\ cycle' = Cleared
            /\ IF Room(c) /\ SameObservation(q, c)
               THEN seen' \in {seen, observation}
               ELSE UNCHANGED seen
  /\ Return(q)
  /\ UNCHANGED <<runtimeVars, hold, sealed, validated, told>>

\* Seeded fault: what was observed is not looked at again.
InForceThen(c) == Matches(cycle[c].disposition, cycle[c].prior, cycle[c].observed)

\* The record is still the observed one, it still fits the executable, and the disposition
\* still holds of it.
InForce(c) ==
  /\ Readable
  /\ Evidence = cycle[c].observed
  /\ Matches(cycle[c].disposition, cycle[c].prior, Evidence)

\* The authorization reaches the host, which is done with the cycle.
Authorized(c) ==
  /\ hold' = None /\ sealed' = FALSE /\ validated' = FALSE
  /\ told' = None /\ seen' = None

\* The release of the admitted observation, from the lock to the answer.  The host lets
\* ordinary requests in when the authorization reaches it.
Release(c) ==
  /\ hold = c /\ seen # None
  /\ UNCHANGED <<runtimeVars, call>>
  /\ LET admitted ==
           /\ cycle[c] # None
           /\ seen = [prior |-> cycle[c].prior, observed |-> cycle[c].observed,
                         disposition |-> cycle[c].disposition]
     IN  \/ /\ Expired(c)
            /\ cycle' = [cycle EXCEPT ![c] = None]
            /\ UNCHANGED hostVars
         \/ /\ ~Expired(c) /\ admitted /\ Terminal(c)
            /\ UNCHANGED cycle
            /\ \/ Authorized(c)
               \/ UNCHANGED hostVars
         \/ /\ admitted /\ cycle[c].phase = "awaiting_host_release" /\ InForce(c)
            /\ cycle' = [cycle EXCEPT ![c].old = FALSE,
                 ![c].phase = IF @ = "awaiting_host_release" /\ cycle[c].disposition = "committed"
                              THEN "completed" ELSE "rolled_back"]
            /\ \/ Authorized(c)
               \/ UNCHANGED hostVars

-----------------------------------------------------------------------------
(***************************************************************************)
(* The host, the operator and the requests they let in                     *)
(***************************************************************************)
Abort(c) ==
  /\ hold = c /\ ~sealed
  /\ hold' = None /\ told' = None
  /\ UNCHANGED <<runtimeVars, cycle, call, sealed, validated, seen>>

\* Any capability that runs OpenCode: an ordinary request, or the one the cutover lets in.
StartRequest(p) ==
  /\ Resolve(p)
  /\ hold # None => sealed
  /\ UNCHANGED <<cycle, call, hostVars>>

Request(p) ==
  /\ Resolving(p)
  /\ validated' = (validated \/ hold # None)
  /\ UNCHANGED <<cycle, call, hold, sealed, told, seen>>

\* The operator moves the record away, or puts back the one the plan saw.
Stage(c) ==
  /\ hold = c /\ sealed /\ RuntimeFree
  /\ record' \in {None, told.state} \ {record}
  /\ UNCHANGED <<files, job, cycle, call, hostVars>>

Update(c) == Replace(c) /\ UNCHANGED <<cycle, call, hostVars>>

\* A process dies on its way to the lock.
Die(q) ==
  /\ call[q] # None
  /\ Return(q)
  /\ UNCHANGED <<runtimeVars, cycle, hostVars>>

Next ==
  \/ \E c \in Cycle :
       \/ Plan(c) \/ Release(c) \/ Age(c) \/ Abort(c) \/ Stage(c)
       \/ \E q \in Call :
            SealRead(q, c) \/ \E d \in Disposition : ObserveRead(q, c, d)
  \/ \E q \in Call : Seal(q) \/ Observe(q) \/ Die(q)
  \/ \E p \in Process : StartRequest(p) \/ Request(p)
  \/ \E c \in Program : Update(c)

Spec == Init /\ [][Next]_vars

-----------------------------------------------------------------------------
(***************************************************************************)
(* Properties                                                              *)
(***************************************************************************)
\* The shape of every variable; a component has at most MaxCycles cycles.
TypeOK ==
  /\ RuntimeTypeOK
  /\ \A c \in Cycle : cycle[c] # None =>
       /\ cycle[c].phase \in Phase
       /\ (cycle[c].observed = None) = (cycle[c].phase \in {"awaiting_host_drain", "awaiting_cutover"})
       /\ (cycle[c].disposition = None) = (cycle[c].observed = None)
       /\ cycle[c].phase = "completed" => cycle[c].disposition = "committed"
       /\ cycle[c].phase = "rolled_back" => cycle[c].disposition = "rolled_back"
  /\ hold \in {None} \cup Cycle
  /\ Cardinality({c \in Cycle : cycle[c] # None}) <= MaxCycles

\* Ordinary requests are let in on a release authorization only, and one is given only while
\* the record in force is the one that was observed and fits the executable, another
\* implementation than the planned one after a commit and the planned record itself after a
\* rollback: whatever the operator, an updater or a repeated request did since the
\* observation.
ReleaseIsTrue ==
  [][\A c \in Cycle :
       (cycle'[c] # None /\ cycle'[c].phase \in {"completed", "rolled_back"} /\ ~Terminal(c))
         => /\ hold = c
            /\ Evidence = cycle'[c].observed
            /\ record # None => ValidRecord(record)
            /\ IF cycle'[c].phase = "completed"
               THEN record # None /\ Evidence.identity # cycle'[c].prior.identity
               ELSE Evidence = cycle'[c].prior]_vars

\* A sealed cycle is an obligation of the host until it is settled: no lapse of time and no
\* other cycle's need for room removes it, and it moves only to its successor, for the same
\* plan and the same observation.
ActiveIsKept ==
  [][\A c \in Cycle :
       Active(c) =>
         /\ cycle'[c] # None
         /\ cycle'[c].prior = cycle[c].prior
         /\ cycle[c].phase = "awaiting_cutover"
              => cycle'[c].phase \in {"awaiting_cutover", "awaiting_host_release"}
         /\ cycle[c].phase = "awaiting_host_release"
              => /\ cycle'[c].phase \in {"awaiting_host_release", "completed", "rolled_back"}
                 /\ cycle'[c].observed = cycle[c].observed]_vars

=============================================================================
