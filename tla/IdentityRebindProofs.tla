------------------------- MODULE IdentityRebindProofs -------------------------
(***************************************************************************)
(* Proofs, for every number of processes, programs, cycles and             *)
(* replacements, of the properties of IdentityRebind.                      *)
(***************************************************************************)
EXTENDS IdentityRebind, FiniteSetTheorems, TLAPS

(***************************************************************************)
(* The inductive invariant                                                 *)
(***************************************************************************)

\* A record that carries a stamp names the file that had it.
Whole(r) ==
  r # None /\ r.schema \in {"current", "pinned"} =>
    /\ r.stamp \in 1..Len(files)
    /\ files[r.stamp] = r.content
    /\ r.version = Version[r.content]

\* What a resolution knows at each of its looks.
Examined(j) ==
  /\ Whole(j.prior)
  /\ j.at # "preview" => j.stamp \in 1..Len(files)
  /\ j.at \in {"check", "probe", "final"} => j.content \in Program
  /\ j.at = "check" /\ j.stamp = Len(files) => files[j.stamp] = j.content
  /\ j.at \in {"probe", "final"} => files[j.stamp] = j.content
  /\ j.at = "probe" => j.prior # None /\ j.prior.schema = "current"
  /\ j.at = "final" =>
       \/ Approved(j.content)
       \/ /\ j.prior # None /\ j.prior.schema = "current"
          /\ j.stamp = Len(files) => j.version = Version[j.content]

CallRecord ==
  [op : {"seal", "observe"}, cycle : Cycle, prior : EvidenceRecord,
   observed : {None} \cup EvidenceRecord, disposition : {None} \cup Disposition]

\* A cycle record is what the requests admitted so far make of it.
Sound(r) ==
  r # None =>
    /\ r \in CycleRecord
    /\ Whole(r.prior.state)
    /\ (r.observed = None) = (r.phase \in {"awaiting_host_drain", "awaiting_cutover"})
    /\ (r.disposition = None) = (r.observed = None)
    /\ r.phase = "completed" => r.disposition = "committed"
    /\ r.phase = "rolled_back" => r.disposition = "rolled_back"

\* A request on its way to the lock carries what it read.
Carries(r) ==
  r # None =>
    /\ r \in CallRecord
    /\ Whole(r.prior.state)
    /\ r.op = "observe" => r.observed # None /\ r.disposition # None

Runtime ==
  /\ RuntimeTypeOK
  /\ Whole(record)
  /\ \A p \in Process : job[p] # None => Examined(job[p])

Cycles ==
  /\ cycle \in [Cycle -> {None} \cup CycleRecord]
  /\ \A c \in Cycle : Sound(cycle[c])
  /\ IsFiniteSet({c \in Cycle : cycle[c] # None})
  /\ Cardinality({c \in Cycle : cycle[c] # None}) <= MaxCycles

Calls ==
  /\ call \in [Call -> {None} \cup CallRecord]
  /\ \A q \in Call : Carries(call[q])

Host ==
  /\ hold \in {None} \cup Cycle
  /\ told \in {None} \cup EvidenceRecord
  /\ hold # None => told # None
  /\ told # None => Whole(told.state)

IInv == Runtime /\ Cycles /\ Calls /\ Host

-----------------------------------------------------------------------------
(***************************************************************************)
(* Files and records                                                       *)
(***************************************************************************)

\* What is at the path is one of the programs.
LEMMA ContentIsProgram ==
  ASSUME RuntimeTypeOK
  PROVE  Stamp \in Nat \ {0} /\ Content \in Program /\ Version[Content] \in Nat
BY RuntimeConstantsOK DEF RuntimeTypeOK, Stamp, Content

\* A replacement of the executable takes nothing back of what was there.
LEMMA WholeStays ==
  ASSUME files \in Seq(Program), NEW r, Whole(r),
         files' = files \/ \E c \in Program : files' = Append(files, c)
  PROVE  Whole(r)'
BY DEF Whole

\* The evidence taken of a whole record is evidence.
LEMMA EvidenceIsTyped ==
  ASSUME RuntimeTypeOK
  PROVE  /\ Evidence \in EvidenceRecord
         /\ Evidence.state = record
<1>1. CASE record = None
  BY <1>1 DEF Evidence, EvidenceOf, EvidenceRecord
<1>2. CASE record # None
  <2>1. record \in RuntimeRecord
    BY <1>2 DEF RuntimeTypeOK
  <2>2. Identity(record) \in IdentityRecord
    BY <2>1 DEF Identity, IdentityRecord, RuntimeRecord, Schema
  <2> QED
    BY <1>2, <2>1, <2>2 DEF Evidence, EvidenceOf, EvidenceRecord
<1> QED BY <1>1, <1>2

\* The invariant holds at the start.
LEMMA InitEstablishes == Init => IInv
<1> SUFFICES ASSUME Init PROVE IInv
  OBVIOUS
<1> USE RuntimeConstantsOK, RebindConstantsOK, AbsenceOK DEF Init, RuntimeInit
<1>1. PICK c \in Program : files = <<c>>
  OBVIOUS
<1>2. files \in Seq(Program) /\ Len(files) = 1 /\ files[1] = c
  BY <1>1
<1>3. record \in {None} \cup RuntimeRecord /\ Whole(record)
  BY <1>2 DEF RuntimeRecord, Schema, Whole
<1>4. Runtime
  BY <1>2, <1>3 DEF Runtime, RuntimeTypeOK
<1>5. Cycles
  <2>1. {x \in Cycle : cycle[x] # None} = {}
    OBVIOUS
  <2>2. cycle \in [Cycle -> {None} \cup CycleRecord] /\ \A x \in Cycle : Sound(cycle[x])
    BY DEF Sound
  <2>3. IsFiniteSet({}) /\ Cardinality({}) = 0 /\ 0 <= MaxCycles
    BY FS_EmptySet
  <2> QED BY <2>1, <2>2, <2>3 DEF Cycles
<1>6. Calls /\ Host
  BY DEF Calls, Carries, Host
<1> QED BY <1>4, <1>5, <1>6 DEF IInv

-----------------------------------------------------------------------------
(***************************************************************************)
(* Resolving the runtime                                                   *)
(***************************************************************************)

\* A resolution that leaves the files alone and ends, or goes on with what it knows.
LEMMA JobSteps ==
  ASSUME Runtime, NEW p \in Process, NEW j \in {None} \cup Job,
         job' = [job EXCEPT ![p] = j], UNCHANGED <<files, record>>,
         j # None => Examined(j)
  PROVE  Runtime'
<1>1. RuntimeTypeOK'
  BY DEF Runtime, RuntimeTypeOK
<1>2. Whole(record)'
  BY DEF Runtime, Whole
<1>3. ASSUME NEW r \in Process, job'[r] # None PROVE Examined(job[r])'
  <2>1. Examined(job'[r])
    BY <1>3 DEF Runtime, RuntimeTypeOK
  <2> QED BY <2>1 DEF Examined, Whole, Approved
<1> QED BY <1>1, <1>2, <1>3 DEF Runtime

\* A resolution that ends with a whole record.
LEMMA JobBinds ==
  ASSUME Runtime, NEW p \in Process, Leave(p), UNCHANGED files,
         record' \in {None} \cup RuntimeRecord, Whole(record')
  PROVE  Runtime'
<1>1. RuntimeTypeOK'
  BY DEF Runtime, RuntimeTypeOK, Leave
<1>2. Whole(record)'
  BY DEF Whole
<1>3. ASSUME NEW r \in Process, job'[r] # None PROVE Examined(job[r])'
  <2>1. job'[r] = job[r]
    BY <1>3 DEF Runtime, RuntimeTypeOK, Leave
  <2>2. Examined(job[r])
    BY <1>3, <2>1 DEF Runtime
  <2> QED BY <2>1, <2>2 DEF Examined, Whole, Approved
<1> QED BY <1>1, <1>2, <1>3 DEF Runtime

\* Every look of a resolution keeps what is known of files and records.
LEMMA ResolvingPreserves ==
  ASSUME Runtime, NEW p \in Process, Resolving(p) \/ Resolve(p)
  PROVE  Runtime' /\ UNCHANGED files
<1> USE DEF Runtime
<1> DEFINE j == job[p]
<1>0. /\ job \in [Process -> {None} \cup Job] /\ Stamp \in Nat \ {0}
      /\ Content \in Program /\ Version[Content] \in Nat /\ Stamp = Len(files)
      /\ Content = files[Stamp]
  BY ContentIsProgram DEF RuntimeTypeOK, Stamp, Content
<1>1. CASE Resolve(p)
  <2> DEFINE k == [at |-> "preview", prior |-> record, stamp |-> 0, content |-> None,
                   version |-> 0]
  <2>1. k \in Job
    BY DEF Job, RuntimeTypeOK
  <2>2. Examined(k)
    BY DEF Examined
  <2> QED BY <1>1, <2>1, <2>2, JobSteps DEF Resolve
<1>2. CASE Keep(p)
  <2>1. j \in Job /\ Examined(j) /\ j.prior # None /\ j.prior \in RuntimeRecord
    BY <1>0, <1>2 DEF Keep, Schematic, Job
  <2>2. record' \in {None} \cup RuntimeRecord /\ Whole(record')
    <3>1. CASE Schematic(p) = "current"
      BY <1>2, <3>1 DEF Keep, RuntimeTypeOK, Whole
    <3>2. CASE Schematic(p) # "current"
      <4> DEFINE r == [j.prior EXCEPT !.schema = "current"]
      <4>1. record' = r /\ j.prior.schema = "pinned" /\ Whole(j.prior)
        BY <1>2, <2>1, <3>2 DEF Keep, Schematic, Examined
      <4>2. /\ r \in RuntimeRecord /\ r.stamp = j.prior.stamp
            /\ r.content = j.prior.content /\ r.version = j.prior.version
        BY <2>1 DEF RuntimeRecord, Schema
      <4> QED BY <2>1, <4>1, <4>2 DEF Whole
    <3> QED BY <3>1, <3>2
  <2> QED BY <1>2, <2>2, JobBinds DEF Keep
<1>3. CASE Examine(p)
  <2> DEFINE k == [job[p] EXCEPT !.at = "hash", !.stamp = Stamp]
  <2>1. j \in Job /\ Examined(j)
    BY <1>0, <1>3 DEF Examine
  <2>2. k \in Job /\ k.at = "hash" /\ k.stamp = Stamp /\ k.prior = j.prior
    BY <1>0, <2>1 DEF Job
  <2>3. Examined(k)
    BY <1>0, <2>1, <2>2 DEF Examined
  <2>4. job' = [job EXCEPT ![p] = k]
    BY <1>0, <1>3 DEF Examine
  <2> QED BY <1>3, <2>2, <2>3, <2>4, JobSteps DEF Examine
<1>4. CASE Hash(p)
  <2> DEFINE k == [job[p] EXCEPT !.at = "check", !.content = Content]
  <2>1. j \in Job /\ Examined(j) /\ j.at = "hash"
    BY <1>0, <1>4 DEF Hash
  <2>2. /\ k \in Job /\ k.at = "check" /\ k.stamp = j.stamp /\ k.prior = j.prior
        /\ k.content = Content
    BY <1>0, <2>1 DEF Job
  <2>3. Examined(k)
    BY <1>0, <2>1, <2>2 DEF Examined
  <2>4. job' = [job EXCEPT ![p] = k]
    BY <1>0, <1>4 DEF Hash
  <2> QED BY <1>4, <2>2, <2>3, <2>4, JobSteps DEF Hash
<1>5. CASE Admit(p)
  <2> DEFINE k == [job[p] EXCEPT !.at = "final"]
  <2>1. j \in Job /\ Examined(j) /\ j.at = "check" /\ j.stamp = Len(files) /\ Approved(j.content)
    BY <1>0, <1>5 DEF Admit, Step, StillThere
  <2>2. /\ k \in Job /\ k.at = "final" /\ k.stamp = j.stamp /\ k.prior = j.prior
        /\ k.content = j.content
    BY <2>1 DEF Job
  <2>3. Examined(k)
    BY <2>1, <2>2 DEF Examined
  <2>4. job' = [job EXCEPT ![p] = k]
    BY <1>0, <1>5 DEF Admit, Step
  <2> QED BY <1>5, <2>2, <2>3, <2>4, JobSteps DEF Admit
<1>6. CASE NeedsProbe(p)
  <2> DEFINE k == [job[p] EXCEPT !.at = "probe"]
  <2>1. /\ j \in Job /\ Examined(j) /\ j.at = "check" /\ j.stamp = Len(files)
        /\ j.prior # None /\ j.prior.schema = "current"
    BY <1>0, <1>6 DEF NeedsProbe, Step, StillThere, Schematic
  <2>2. /\ k \in Job /\ k.at = "probe" /\ k.stamp = j.stamp /\ k.prior = j.prior
        /\ k.content = j.content
    BY <2>1 DEF Job
  <2>3. Examined(k)
    BY <2>1, <2>2 DEF Examined
  <2>4. job' = [job EXCEPT ![p] = k]
    BY <1>0, <1>6 DEF NeedsProbe, Step
  <2> QED BY <1>6, <2>2, <2>3, <2>4, JobSteps DEF NeedsProbe
<1>7. CASE Probe(p)
  <2> DEFINE k == [job[p] EXCEPT !.at = "final", !.version = Answers]
  <2>1. j \in Job /\ Examined(j) /\ j.at = "probe"
    BY <1>0, <1>7 DEF Probe
  <2>2. /\ k \in Job /\ k.at = "final" /\ k.stamp = j.stamp /\ k.prior = j.prior
        /\ k.content = j.content /\ k.version = Version[Content]
    BY <1>0, <2>1 DEF Job, Answers
  <2>3. Examined(k)
    BY <1>0, <2>1, <2>2 DEF Examined
  <2>4. job' = [job EXCEPT ![p] = k]
    BY <1>0, <1>7 DEF Probe
  <2> QED BY <1>7, <2>2, <2>3, <2>4, JobSteps DEF Probe
<1>8. CASE Activate(p)
  <2>1. j \in Job /\ Examined(j) /\ j.at = "final"
    BY <1>0, <1>8 DEF Activate
  <2>2. j.content \in Program /\ j.stamp \in 1..Len(files) /\ files[j.stamp] = j.content
    BY <2>1 DEF Examined
  <2>3. Bound(j) \in RuntimeRecord
    BY <2>1, <2>2, RuntimeConstantsOK DEF Bound, RuntimeRecord, Schema, Job, RuntimeTypeOK
  <2>4. Bound(j).version = Version[j.content]
    <3>1. CASE Approved(j.content)
      BY <3>1 DEF Bound
    <3>2. CASE ~Approved(j.content)
      <4>1. j.stamp = Len(files)
        BY <1>0, <1>8, <2>1, <3>2 DEF Activate, Schematic, StillThere, Examined
      <4> QED BY <2>1, <3>2, <4>1 DEF Bound, Examined
    <3> QED BY <3>1, <3>2
  <2>5. Whole(Bound(j))
    BY <2>2, <2>4 DEF Whole, Bound
  <2> QED BY <1>8, <2>3, <2>5, JobBinds DEF Activate
<1>9. CASE GiveUp(p)
  BY <1>9, JobSteps DEF GiveUp, Leave
<1> QED
  BY <1>1, <1>2, <1>3, <1>4, <1>5, <1>6, <1>7, <1>8, <1>9
  DEF Resolving, Resolve, Keep, Examine, Hash, Admit, NeedsProbe, Probe, Activate, GiveUp

\* A replacement keeps it as well: what is known is of a stamp.
LEMMA ReplacePreserves ==
  ASSUME Runtime, NEW c \in Program, Replace(c)
  PROVE  Runtime'
<1> USE DEF Runtime
<1>1. files \in Seq(Program) /\ Len(files) \in Nat \ {0} /\ files' = Append(files, c)
  BY RuntimeConstantsOK DEF RuntimeTypeOK, Replace
<1>2. RuntimeTypeOK'
  BY <1>1, RuntimeConstantsOK DEF RuntimeTypeOK, Replace, Stamp
<1>3. Whole(record)'
  BY <1>1, WholeStays DEF Replace, Whole
<1>4. ASSUME NEW p \in Process, job'[p] # None PROVE Examined(job[p])'
  <2>1. job'[p] = job[p] /\ Examined(job[p])
    BY <1>4 DEF Replace
  <2>2. Whole(job[p].prior)'
    BY <1>1, <2>1, WholeStays DEF Examined, Whole
  <2>3. /\ Len(files') = Len(files) + 1
        /\ \A n \in 1..Len(files) : files'[n] = files[n]
    BY <1>1
  <2> QED BY <1>1, <2>1, <2>2, <2>3 DEF Examined, Approved
<1> QED BY <1>2, <1>3, <1>4

-----------------------------------------------------------------------------
(***************************************************************************)
(* The cycles                                                              *)
(***************************************************************************)

\* The cycles there are.
Kept == {c \in Cycle : cycle[c] # None}

\* What cycles and calls carry is about files alone.
LEMMA CarriedStays ==
  ASSUME Runtime, Cycles, Calls, Host, UNCHANGED <<cycle, call, hold, told>>,
         files' = files \/ \E c \in Program : files' = Append(files, c)
  PROVE  Cycles' /\ Calls' /\ Host'
<1>0. files \in Seq(Program)
  BY DEF Runtime, RuntimeTypeOK
<1>1. Cycles'
  <2>1. ASSUME NEW c \in Cycle PROVE Sound(cycle[c])'
    <3>1. CASE cycle[c] = None
      BY <3>1 DEF Sound
    <3>2. CASE cycle[c] # None
      <4>1. Sound(cycle[c])
        BY DEF Cycles
      <4>2. Whole(cycle[c].prior.state)'
        BY <1>0, <3>2, <4>1, WholeStays DEF Sound, Whole
      <4> QED BY <4>1, <4>2 DEF Sound
    <3> QED BY <3>1, <3>2
  <2> QED BY <2>1 DEF Cycles
<1>2. Calls'
  <2>1. ASSUME NEW q \in Call PROVE Carries(call[q])'
    <3>1. CASE call[q] = None
      BY <3>1 DEF Carries
    <3>2. CASE call[q] # None
      <4>1. Carries(call[q])
        BY DEF Calls
      <4>2. Whole(call[q].prior.state)'
        BY <1>0, <3>2, <4>1, WholeStays DEF Carries, Whole
      <4> QED BY <4>1, <4>2 DEF Carries
    <3> QED BY <3>1, <3>2
  <2> QED BY <2>1 DEF Calls
<1>3. Host'
  <2>1. CASE told = None
    BY <2>1 DEF Host
  <2>2. CASE told # None
    <3>1. Whole(told.state)'
      BY <1>0, <2>2, WholeStays DEF Host, Whole
    <3> QED BY <3>1 DEF Host
  <2> QED BY <2>1, <2>2
<1> QED BY <1>1, <1>2, <1>3

\* Where files do not change, what is whole stays so.
LEMMA SameFiles ==
  ASSUME UNCHANGED files, NEW r
  PROVE  /\ Whole(r)' <=> Whole(r)
         /\ Sound(r)' <=> Sound(r)
         /\ Carries(r)' <=> Carries(r)
BY DEF Whole, Sound, Carries

\* A step under the lock that makes no new cycle.
LEMMA CyclesShrink ==
  ASSUME Cycles, UNCHANGED files,
         cycle' \in [Cycle -> {None} \cup CycleRecord],
         \A c \in Cycle : Sound(cycle'[c]),
         \A c \in Cycle : cycle'[c] # None => cycle[c] # None
  PROVE  Cycles'
<1>1. Kept' \in SUBSET Kept
  BY DEF Kept
<1>2. /\ IsFiniteSet(Kept') /\ Cardinality(Kept') <= Cardinality(Kept)
      /\ Cardinality(Kept) \in Nat /\ Cardinality(Kept') \in Nat
  BY <1>1, FS_Subset, FS_CardinalityType DEF Cycles, Kept
<1>3. Cardinality(Kept') <= MaxCycles
  BY <1>2, RebindConstantsOK DEF Cycles, Kept
<1>4. \A c \in Cycle : Sound(cycle[c])'
  BY SameFiles
<1> QED BY <1>2, <1>3, <1>4 DEF Cycles, Kept

\* What is left of the cycles when the expired ones are gone.
LEMMA ClearedIsSound ==
  ASSUME Cycles
  PROVE  /\ Cleared \in [Cycle -> {None} \cup CycleRecord]
         /\ \A c \in Cycle : Cleared[c] = cycle[c] \/ Cleared[c] = None
         /\ \A c \in Cycle : Active(c) => Cleared[c] = cycle[c]
         /\ \A c \in Cycle : Sound(Cleared[c])
<1>1. /\ Cleared \in [Cycle -> {None} \cup CycleRecord]
      /\ \A c \in Cycle : Cleared[c] = cycle[c] \/ Cleared[c] = None
      /\ \A c \in Cycle : Active(c) => Cleared[c] = cycle[c]
  BY DEF Cleared, Expired, Cycles
<1>2. \A c \in Cycle : Sound(Cleared[c])
  BY <1>1 DEF Cycles, Sound
<1> QED BY <1>1, <1>2

\* A call that meets its own expired cycle removes some expired ones.
LEMMA OwnExpiredPreserves ==
  ASSUME Cycles, UNCHANGED files, NEW c \in Cycle, OwnExpired(c)
  PROVE  Cycles'
<1>1. /\ cycle' \in [Cycle -> {None} \cup CycleRecord]
      /\ \A x \in Cycle : cycle'[x] = cycle[x] \/ cycle'[x] = None
  BY DEF OwnExpired, Cycles
<1>2. \A x \in Cycle : Sound(cycle'[x])
  BY <1>1 DEF Cycles, Sound
<1> QED BY <1>1, <1>2, CyclesShrink

\* One cycle of those that are left moves on.
LEMMA MovePreserves ==
  ASSUME Cycles, UNCHANGED files, NEW c \in Cycle, Cleared[c] # None,
         NEW r \in CycleRecord, Sound(r), cycle' = [Cleared EXCEPT ![c] = r]
  PROVE  Cycles'
<1>1. /\ cycle' \in [Cycle -> {None} \cup CycleRecord]
      /\ \A x \in Cycle : cycle'[x] = IF x = c THEN r ELSE Cleared[x]
  BY ClearedIsSound
<1>2. \A x \in Cycle : Sound(cycle'[x])
  BY <1>1, ClearedIsSound
<1>3. \A x \in Cycle : cycle'[x] # None => cycle[x] # None
  BY <1>1, ClearedIsSound
<1> QED BY <1>1, <1>2, <1>3, CyclesShrink

\* A new cycle fits where there is room.
LEMMA PlannedPreserves ==
  ASSUME Cycles, UNCHANGED files, NEW c \in Cycle, Room(c), Cleared[c] = None,
         NEW r \in CycleRecord, Sound(r), cycle' = [Cleared EXCEPT ![c] = r]
  PROVE  Cycles'
<1> DEFINE Left == {x \in Cycle : Cleared[x] # None}
<1>1. /\ cycle' \in [Cycle -> {None} \cup CycleRecord]
      /\ \A x \in Cycle : cycle'[x] = IF x = c THEN r ELSE Cleared[x]
  BY ClearedIsSound
<1>2. \A x \in Cycle : Sound(cycle[x])'
  BY <1>1, ClearedIsSound, SameFiles
<1>3. Left \in SUBSET Kept
  BY ClearedIsSound DEF Kept
<1>4. IsFiniteSet(Left) /\ Cardinality(Left) \in Nat
  BY <1>3, FS_Subset, FS_CardinalityType DEF Cycles, Kept
<1>5. Cardinality(Left) < MaxCycles
  BY DEF Room
<1>6. /\ IsFiniteSet(Left \cup {c})
      /\ Cardinality(Left \cup {c}) = IF c \in Left THEN Cardinality(Left) ELSE Cardinality(Left) + 1
  BY <1>4, FS_AddElement
<1>7. Kept' \in SUBSET (Left \cup {c})
  BY <1>1 DEF Kept
<1>8. IsFiniteSet(Kept') /\ Cardinality(Kept') <= Cardinality(Left \cup {c})
  BY <1>6, <1>7, FS_Subset
<1>9. Cardinality(Kept') \in Nat
  BY <1>8, FS_CardinalityType
<1>10. Cardinality(Kept') <= MaxCycles
  BY <1>4, <1>5, <1>6, <1>8, <1>9, RebindConstantsOK
<1> QED BY <1>1, <1>2, <1>8, <1>10 DEF Cycles, Kept

\* Clearing alone.
LEMMA ClearedPreserves ==
  ASSUME Cycles, UNCHANGED files, cycle' = Cleared
  PROVE  Cycles'
BY ClearedIsSound, CyclesShrink

-----------------------------------------------------------------------------
(***************************************************************************)
(* Requests about cycles                                                   *)
(***************************************************************************)

\* Runtime steps, whoever takes them.
LEMMA RuntimeActions ==
  ASSUME IInv,
         \/ \E p \in Process : StartRequest(p) \/ Request(p)
         \/ \E c \in Program : Update(c)
  PROVE  IInv'
<1> USE DEF IInv
<1>1. CASE \E p \in Process : StartRequest(p) \/ Request(p)
  <2>1. PICK p \in Process : StartRequest(p) \/ Request(p)
    BY <1>1
  <2>2. Runtime' /\ UNCHANGED files
    BY <2>1, ResolvingPreserves DEF StartRequest, Request
  <2>3. UNCHANGED <<cycle, call, hold, told>>
    BY <2>1 DEF StartRequest, Request, hostVars
  <2> QED BY <2>2, <2>3, CarriedStays
<1>2. CASE \E c \in Program : Update(c)
  <2>1. PICK c \in Program : Update(c)
    BY <1>2
  <2>2. Runtime'
    BY <2>1, ReplacePreserves DEF Update
  <2>3. UNCHANGED <<cycle, call, hold, told>> /\ files' = Append(files, c)
    BY <2>1 DEF Update, Replace, hostVars
  <2> QED BY <2>2, <2>3, CarriedStays
<1> QED BY <1>1, <1>2

\* Of the runtime, the operator moves the record only, and puts back what was whole.
LEMMA StagePreserves ==
  ASSUME IInv, NEW c \in Cycle, Stage(c)
  PROVE  IInv'
<1> USE DEF IInv
<1>1. told \in EvidenceRecord /\ Whole(told.state)
  BY AbsenceOK DEF Stage, Host
<1>2. record' \in {None} \cup RuntimeRecord /\ Whole(record')
  BY <1>1 DEF Stage, EvidenceRecord, Whole
<1>3. UNCHANGED <<files, job, cycle, call, hold, told>>
  BY DEF Stage, hostVars
<1>4. Runtime'
  <2>1. RuntimeTypeOK'
    BY <1>2, <1>3 DEF Runtime, RuntimeTypeOK
  <2>2. Whole(record)'
    BY <1>2, <1>3 DEF Whole
  <2>3. \A p \in Process : job[p] # None => Examined(job[p])'
    BY <1>3 DEF Runtime, Examined, Whole, Approved
  <2> QED BY <1>3, <2>1, <2>2, <2>3 DEF Runtime
<1> QED BY <1>3, <1>4, CarriedStays

\* What a request that leaves the runtime alone has to show.
LEMMA RuntimeIdle ==
  ASSUME Runtime, UNCHANGED runtimeVars
  PROVE  Runtime' /\ UNCHANGED files
BY DEF Runtime, runtimeVars, RuntimeTypeOK, Stamp, Whole, Examined, Approved

\* An outstanding request that ends carries nothing further.
LEMMA ReturnPreserves ==
  ASSUME Calls, UNCHANGED files, NEW q \in Call, UNCHANGED call \/ Return(q)
  PROVE  Calls'
<1>1. call' \in [Call -> {None} \cup CallRecord]
  BY DEF Calls, Return
<1>2. \A x \in Call : call'[x] = call[x] \/ call'[x] = None
  BY DEF Calls, Return
<1>3. \A x \in Call : Carries(call'[x])
  BY <1>2 DEF Calls, Carries
<1> QED BY <1>1, <1>3, SameFiles DEF Calls

\* The host keeps what it was told or has nothing to keep.
LEMMA HostPreserves ==
  ASSUME Host, UNCHANGED files, UNCHANGED <<hold, told>> \/ (hold' = None /\ told' = None)
  PROVE  Host'
BY SameFiles DEF Host

\* A plan makes a cycle or repeats its answer.
LEMMA PlanPreserves ==
  ASSUME IInv, NEW c \in Cycle, Plan(c)
  PROVE  IInv'
<1> USE DEF IInv
<1>1. Runtime' /\ UNCHANGED files /\ UNCHANGED call
  BY RuntimeIdle DEF Plan
<1>2. Calls'
  BY <1>1, SameFiles DEF Calls
<1>3. CASE OwnExpired(c) /\ UNCHANGED hostVars
  BY <1>1, <1>2, <1>3, OwnExpiredPreserves, HostPreserves DEF hostVars
<1>4. CASE cycle' = Cleared /\ UNCHANGED hostVars
  BY <1>1, <1>2, <1>4, ClearedPreserves, HostPreserves DEF hostVars
<1>5. CASE /\ ~Expired(c) /\ Room(c)
           /\ cycle' = IF Cleared[c] = None THEN [Cleared EXCEPT ![c] = Planned(Evidence)]
                       ELSE Cleared
           /\ IF cycle'[c].phase = "awaiting_host_drain"
              THEN Answer(c, cycle'[c].prior)
              ELSE UNCHANGED hostVars
  <2> DEFINE r == Planned(Evidence)
  <2>1. r \in CycleRecord /\ Sound(r)
    <3>1. Evidence \in EvidenceRecord /\ Evidence.state = record
      BY EvidenceIsTyped DEF Runtime
    <3> QED BY <3>1 DEF Planned, CycleRecord, Phase, Sound, Runtime
  <2>2. Cycles'
    BY <1>1, <1>5, <2>1, PlannedPreserves, ClearedPreserves
  <2>3. cycle'[c] # None
    <3>1. CASE Cleared[c] = None
      BY <1>5, <2>1, <3>1, ClearedIsSound, AbsenceOK
    <3>2. CASE Cleared[c] # None
      BY <1>5, <3>2
    <3> QED BY <3>1, <3>2
  <2>4. Sound(cycle'[c]) /\ cycle'[c] \in CycleRecord
    BY <1>1, <2>2, <2>3, SameFiles DEF Cycles
  <2>5. cycle'[c].prior \in EvidenceRecord /\ Whole(cycle'[c].prior.state)
    BY <2>3, <2>4 DEF Sound, CycleRecord
  <2>6. Host'
    <3>1. CASE UNCHANGED hostVars
      BY <1>1, <3>1, HostPreserves DEF hostVars
    <3>2. CASE hold' = c /\ told' = cycle'[c].prior
      <4>1. told' \in EvidenceRecord /\ told' # None
        BY <1>1, <2>5, <3>2, AbsenceOK, SameFiles
      <4>2. Whole(told.state)'
        BY <1>1, <2>5, <3>2, SameFiles
      <4> QED BY <3>2, <4>1, <4>2 DEF Host
    <3> QED BY <1>5, <3>1, <3>2 DEF Answer
  <2> QED BY <1>1, <1>2, <2>2, <2>6
<1> QED BY <1>3, <1>4, <1>5 DEF Plan

\* Reading the record before the lock.
LEMMA ReadsPreserve ==
  ASSUME IInv, NEW q \in Call, NEW c \in Cycle,
         SealRead(q, c) \/ \E d \in Disposition : ObserveRead(q, c, d)
  PROVE  IInv'
<1> USE DEF IInv
<1>1. Runtime' /\ UNCHANGED files /\ UNCHANGED <<cycle, hold, told>>
  BY RuntimeIdle DEF SealRead, ObserveRead, hostVars
<1>2. told \in EvidenceRecord /\ Whole(told.state)
  BY AbsenceOK DEF SealRead, ObserveRead, Host
<1>3. PICK r : r \in CallRecord /\ Carries(r) /\ call' = [call EXCEPT ![q] = r]
  <2>1. CASE SealRead(q, c)
    <3> DEFINE s == [op |-> "seal", cycle |-> c, prior |-> told, observed |-> None,
                     disposition |-> None]
    <3>1. s \in CallRecord /\ Carries(s)
      BY <1>2 DEF CallRecord, Carries
    <3> QED BY <2>1, <3>1 DEF SealRead
  <2>2. CASE \E d \in Disposition : ObserveRead(q, c, d)
    <3>1. PICK d \in Disposition : ObserveRead(q, c, d)
      BY <2>2
    <3> DEFINE s == [op |-> "observe", cycle |-> c, prior |-> told, observed |-> Evidence,
                     disposition |-> d]
    <3>2. Evidence \in EvidenceRecord
      BY EvidenceIsTyped DEF Runtime
    <3>3. s \in CallRecord /\ Carries(s)
      BY <1>2, <3>2, AbsenceOK DEF CallRecord, Carries
    <3> QED BY <3>1, <3>3 DEF ObserveRead
  <2> QED BY <2>1, <2>2
<1>4. Calls'
  <2>1. call' \in [Call -> {None} \cup CallRecord]
    BY <1>3 DEF Calls
  <2>2. \A x \in Call : Carries(call'[x])
    BY <1>3 DEF Calls
  <2> QED BY <1>1, <2>1, <2>2, SameFiles DEF Calls
<1>5. Cycles' /\ Host'
  <2>1. Cycles'
    BY <1>1, SameFiles DEF Cycles
  <2> QED BY <1>1, <2>1, HostPreserves
<1> QED BY <1>1, <1>4, <1>5

\* A seal moves its own plan on, or nothing.
LEMMA SealPreserves ==
  ASSUME IInv, NEW q \in Call, Seal(q)
  PROVE  IInv'
<1> USE DEF IInv
<1> DEFINE c == call[q].cycle
<1>1. Runtime' /\ UNCHANGED files /\ UNCHANGED <<hold, told>> /\ Return(q)
  BY RuntimeIdle DEF Seal, hostVars
<1>2. Calls' /\ Host'
  BY <1>1, ReturnPreserves, HostPreserves
<1>3. c \in Cycle
  BY DEF Seal, Calls, CallRecord
<1>4. CASE OwnExpired(c)
  BY <1>1, <1>2, <1>3, <1>4, OwnExpiredPreserves
<1>5. CASE cycle' = Cleared
  BY <1>1, <1>2, <1>5, ClearedPreserves
<1>6. CASE /\ ~Expired(c) /\ SamePlan(c, call[q].prior)
           /\ cycle[c].phase = "awaiting_host_drain"
           /\ cycle' = [Cleared EXCEPT ![c].phase = "awaiting_cutover", ![c].old = FALSE]
  <2> DEFINE r == [cycle[c] EXCEPT !.phase = "awaiting_cutover", !.old = FALSE]
  <2>1. Cleared[c] = cycle[c] /\ cycle[c] # None
    BY <1>3, <1>6 DEF Cleared, SamePlan
  <2>2. cycle[c] \in CycleRecord /\ Sound(cycle[c])
    BY <1>3, <2>1 DEF Cycles
  <2>3. /\ r \in CycleRecord /\ r.phase = "awaiting_cutover" /\ r.prior = cycle[c].prior
        /\ r.observed = cycle[c].observed /\ r.disposition = cycle[c].disposition
    BY <2>2 DEF CycleRecord, Phase
  <2>4. Sound(r)
    BY <1>6, <2>1, <2>2, <2>3 DEF Sound
  <2>5. cycle' = [Cleared EXCEPT ![c] = r]
    BY <1>3, <1>6, <2>1, ClearedIsSound
  <2> QED BY <1>1, <1>2, <1>3, <2>1, <2>3, <2>4, <2>5, MovePreserves
<1> QED BY <1>4, <1>5, <1>6 DEF Seal

\* An observation is admitted once.
LEMMA ObservePreserves ==
  ASSUME IInv, NEW q \in Call, Observe(q)
  PROVE  IInv'
<1> USE DEF IInv
<1> DEFINE c == call[q].cycle
<1>1. Runtime' /\ UNCHANGED files /\ UNCHANGED <<hold, told>> /\ Return(q)
  BY RuntimeIdle DEF Observe
<1>2. Calls' /\ Host'
  BY <1>1, ReturnPreserves, HostPreserves
<1>3. /\ c \in Cycle /\ call[q] \in CallRecord /\ Carries(call[q])
      /\ call[q] # None /\ call[q].op = "observe"
  BY DEF Observe, Calls, CallRecord
<1>4. CASE OwnExpired(c)
  BY <1>1, <1>2, <1>3, <1>4, OwnExpiredPreserves
<1>5. CASE cycle' = Cleared
  BY <1>1, <1>2, <1>5, ClearedPreserves
<1> DEFINE r == [phase |-> "awaiting_host_release", prior |-> call[q].prior,
                 observed |-> call[q].observed, disposition |-> call[q].disposition,
                 old |-> FALSE]
<1>6. CASE ~Expired(c) /\ SamePlan(c, call[q].prior) /\ cycle' = [Cleared EXCEPT ![c] = r]
  <2>1. Cleared[c] # None
    BY <1>3, <1>6 DEF Cleared, SamePlan
  <2>2. r \in CycleRecord
    BY <1>3 DEF CycleRecord, CallRecord, Phase
  <2>3. Sound(r)
    BY <1>3, <2>2 DEF Sound, Carries
  <2> QED BY <1>1, <1>2, <1>3, <1>6, <2>1, <2>2, <2>3, MovePreserves
<1> QED BY <1>4, <1>5, <1>6 DEF Observe

\* A release settles the cycle it is for, or nothing.
LEMMA ReleasePreserves ==
  ASSUME IInv, NEW c \in Cycle, Release(c)
  PROVE  IInv'
<1> USE DEF IInv
<1>1. Runtime' /\ UNCHANGED files /\ UNCHANGED call
  BY RuntimeIdle DEF Release
<1>2. Calls' /\ Host'
  <2>1. Calls'
    BY <1>1, SameFiles DEF Calls
  <2>2. UNCHANGED <<hold, told>> \/ (hold' = None /\ told' = None)
    BY DEF Release, hostVars, Authorized
  <2> QED BY <1>1, <2>1, <2>2, HostPreserves
<1>3. CASE cycle' = [cycle EXCEPT ![c] = None]
  <2>1. /\ cycle' \in [Cycle -> {None} \cup CycleRecord]
        /\ \A x \in Cycle : cycle'[x] = cycle[x] \/ cycle'[x] = None
    BY <1>3 DEF Cycles
  <2>2. \A x \in Cycle : Sound(cycle'[x])
    BY <2>1 DEF Cycles, Sound
  <2> QED BY <1>1, <1>2, <2>1, <2>2, CyclesShrink
<1>4. CASE UNCHANGED cycle
  <2>1. Cycles'
    BY <1>1, <1>4, SameFiles DEF Cycles
  <2> QED BY <1>1, <1>2, <2>1
<1>5. CASE /\ cycle[c] # None /\ cycle[c].phase = "awaiting_host_release"
           /\ cycle' = [cycle EXCEPT ![c].old = FALSE,
                ![c].phase = IF @ = "awaiting_host_release" /\ cycle[c].disposition = "committed"
                             THEN "completed" ELSE "rolled_back"]
  <2>1. cycle[c] \in CycleRecord /\ Sound(cycle[c])
    BY <1>5 DEF Cycles
  <2> DEFINE ph == IF cycle[c].disposition = "committed" THEN "completed" ELSE "rolled_back"
  <2> DEFINE r == [cycle[c] EXCEPT !.old = FALSE, !.phase = ph]
  <2>2. /\ r \in CycleRecord /\ r.phase = ph /\ r.prior = cycle[c].prior
        /\ r.observed = cycle[c].observed /\ r.disposition = cycle[c].disposition
    BY <2>1 DEF CycleRecord, Phase
  <2>3. Sound(r)
    <3>1. cycle[c].observed # None /\ cycle[c].disposition \in Disposition
      BY <1>5, <2>1 DEF Sound, CycleRecord
    <3>2. ph \in {"completed", "rolled_back"}
      OBVIOUS
    <3>3. ph = "completed" => cycle[c].disposition = "committed"
      OBVIOUS
    <3>4. ph = "rolled_back" => cycle[c].disposition = "rolled_back"
      BY <3>1 DEF Disposition
    <3> QED BY <1>5, <2>1, <2>2, <3>1, <3>2, <3>3, <3>4 DEF Sound
  <2>4. cycle' = [cycle EXCEPT ![c] = r]
    BY <1>5 DEF Cycles
  <2>5. /\ cycle' \in [Cycle -> {None} \cup CycleRecord]
        /\ \A x \in Cycle : Sound(cycle'[x])
        /\ \A x \in Cycle : cycle'[x] # None => cycle[x] # None
    BY <1>5, <2>2, <2>3, <2>4 DEF Cycles
  <2> QED BY <1>1, <1>2, <2>5, CyclesShrink
<1> QED BY <1>3, <1>4, <1>5 DEF Release

\* Time passes over a cycle.
LEMMA AgePreserves ==
  ASSUME IInv, NEW c \in Cycle, Age(c)
  PROVE  IInv'
<1> USE DEF IInv
<1>1. Runtime' /\ UNCHANGED files /\ UNCHANGED <<call, hold, told>>
  BY RuntimeIdle DEF Age, hostVars
<1>2. Calls' /\ Host'
  <2>1. Calls'
    BY <1>1, SameFiles DEF Calls
  <2> QED BY <1>1, <2>1, HostPreserves
<1> DEFINE r == [cycle[c] EXCEPT !.old = TRUE]
<1>3. cycle[c] \in CycleRecord /\ Sound(cycle[c])
  BY DEF Age, Cycles
<1>4. /\ r \in CycleRecord /\ r.phase = cycle[c].phase /\ r.prior = cycle[c].prior
      /\ r.observed = cycle[c].observed /\ r.disposition = cycle[c].disposition
  BY <1>3 DEF CycleRecord
<1>5. Sound(r)
  BY <1>3, <1>4 DEF Sound, Age
<1>6. /\ cycle' \in [Cycle -> {None} \cup CycleRecord]
      /\ \A x \in Cycle : Sound(cycle'[x])
      /\ \A x \in Cycle : cycle'[x] # None => cycle[x] # None
  BY <1>4, <1>5 DEF Age, Cycles
<1> QED BY <1>1, <1>2, <1>6, CyclesShrink

\* The host gives up, or a process dies.
LEMMA GivingUpPreserves ==
  ASSUME IInv, (\E c \in Cycle : Abort(c)) \/ (\E q \in Call : Die(q))
  PROVE  IInv'
<1> USE DEF IInv
<1>1. /\ Runtime' /\ UNCHANGED files /\ UNCHANGED cycle
      /\ UNCHANGED <<hold, told>> \/ (hold' = None /\ told' = None)
  BY RuntimeIdle DEF Abort, Die, hostVars
<1>2. Calls'
  <2>1. CASE \E c \in Cycle : Abort(c)
    BY <1>1, <2>1, SameFiles DEF Calls, Abort
  <2>2. CASE \E q \in Call : Die(q)
    BY <1>1, <2>2, ReturnPreserves DEF Die
  <2> QED BY <2>1, <2>2
<1>3. Cycles'
  BY <1>1, SameFiles DEF Cycles
<1> QED BY <1>1, <1>2, <1>3, HostPreserves

\* Every step keeps the invariant.
LEMMA NextPreserves == IInv /\ [Next]_vars => IInv'
<1> SUFFICES ASSUME IInv, [Next]_vars PROVE IInv'
  OBVIOUS
<1>1. CASE Next
  BY <1>1, RuntimeActions, StagePreserves, PlanPreserves, ReadsPreserve, SealPreserves,
     ObservePreserves, ReleasePreserves, AgePreserves, GivingUpPreserves
  DEF Next
<1>2. CASE UNCHANGED vars
  <2>1. Runtime' /\ UNCHANGED files /\ UNCHANGED <<cycle, call, hold, told>>
    BY <1>2, RuntimeIdle DEF vars, runtimeVars, IInv
  <2> QED BY <2>1, CarriedStays DEF IInv
<1> QED BY <1>1, <1>2

-----------------------------------------------------------------------------
(***************************************************************************)
(* The theorems                                                            *)
(***************************************************************************)

\* The inductive invariant holds in every reachable state.
THEOREM Invariant == Spec => []IInv
<1>1. Init => IInv
  BY InitEstablishes
<1>2. IInv /\ [Next]_vars => IInv'
  BY NextPreserves
<1> QED BY <1>1, <1>2, PTL DEF Spec

\* Every reachable state has the declared shape, and a component never has more cycles than
\* it has room for.
THEOREM TypeCorrect == Spec => []TypeOK
<1>1. IInv => TypeOK
  BY DEF IInv, TypeOK, Runtime, Cycles, Host, Sound, CycleRecord
<1> QED BY <1>1, Invariant, PTL

\* A record names one file that was at its path, whatever was replaced while it was admitted.
THEOREM AdmissionIsWhole == Spec => []AdmittedIsWhole
<1>1. IInv => AdmittedIsWhole
  BY DEF IInv, Runtime, Whole, AdmittedIsWhole
<1> QED BY <1>1, Invariant, PTL

\* A release settles a cycle on what it looked at.
LEMMA ReleaseLooks ==
  ASSUME IInv, [Next]_vars, NEW c \in Cycle,
         cycle'[c] # None, cycle'[c].phase \in {"completed", "rolled_back"}, ~Terminal(c)
  PROVE  /\ hold = c
         /\ Evidence = cycle'[c].observed
         /\ record # None => ValidRecord(record)
         /\ IF cycle'[c].phase = "completed"
            THEN record # None /\ Evidence.identity # cycle'[c].prior.identity
            ELSE Evidence = cycle'[c].prior
<1> USE DEF IInv, Cycles, Terminal
<1>0. /\ Cleared \in [Cycle -> {None} \cup CycleRecord]
      /\ \A x \in Cycle : Cleared[x] = cycle[x] \/ Cleared[x] = None
  BY ClearedIsSound
<1>1. ~UNCHANGED cycle
  OBVIOUS
<1>2. ASSUME NEW x \in Cycle, OwnExpired(x) PROVE FALSE
  BY <1>2 DEF OwnExpired
<1>3. cycle' # Cleared
  BY <1>0
<1>4. ASSUME NEW x \in Cycle, Plan(x) PROVE FALSE
  BY <1>0, <1>2, <1>3, <1>4 DEF Plan, Planned
<1>5. ASSUME NEW q \in Call, Seal(q) PROVE FALSE
  <2> DEFINE x == call[q].cycle
  <2>1. x \in Cycle
    BY <1>5 DEF Seal, Calls, CallRecord
  <2>2. cycle' = [Cleared EXCEPT ![x].phase = "awaiting_cutover", ![x].old = FALSE]
    BY <1>2, <1>3, <1>5, <2>1 DEF Seal
  <2>3. Cleared[x] = cycle[x] /\ cycle[x] # None
    BY <1>2, <1>3, <1>5, <2>1 DEF Seal, SamePlan, Cleared
  <2>4. cycle'[c] = cycle[c] \/ cycle'[c] = None \/ cycle'[c].phase = "awaiting_cutover"
    <3>1. CASE c = x
      <4>1. cycle'[c] = [[cycle[c] EXCEPT !.phase = "awaiting_cutover"] EXCEPT !.old = FALSE]
        BY <1>0, <2>1, <2>2, <2>3, <3>1
      <4>2. cycle[c] \in CycleRecord
        BY <2>3, <3>1
      <4> QED BY <4>1, <4>2 DEF CycleRecord
    <3>2. CASE c # x
      BY <1>0, <2>1, <2>2, <3>2
    <3> QED BY <3>1, <3>2
  <2> QED BY <2>4
<1>6. ASSUME NEW q \in Call, Observe(q) PROVE FALSE
  <2> DEFINE x == call[q].cycle
  <2>1. x \in Cycle
    BY <1>6 DEF Observe, Calls, CallRecord
  <2>2. cycle' = [Cleared EXCEPT ![x] =
                   [phase |-> "awaiting_host_release", prior |-> call[q].prior,
                    observed |-> call[q].observed, disposition |-> call[q].disposition,
                    old |-> FALSE]]
    BY <1>2, <1>3, <1>6, <2>1 DEF Observe
  <2> QED BY <1>0, <2>1, <2>2
<1>7. ASSUME NEW x \in Cycle, Age(x) PROVE FALSE
  <2>1. cycle[x] \in CycleRecord /\ cycle' = [cycle EXCEPT ![x].old = TRUE]
    BY <1>7 DEF Age
  <2>2. CASE c = x
    <3>1. cycle'[c] = [cycle[c] EXCEPT !.old = TRUE] /\ cycle[c] \in CycleRecord
      BY <2>1, <2>2
    <3>2. cycle'[c].phase = cycle[c].phase
      BY <3>1 DEF CycleRecord
    <3> QED BY <1>7, <2>2, <3>2 DEF Age
  <2>3. CASE c # x
    BY <2>1, <2>3
  <2> QED BY <2>2, <2>3
<1>8. PICK x \in Cycle : Release(x)
  BY <1>1, <1>4, <1>5, <1>6, <1>7
  DEF Next, vars, Abort, Stage, SealRead, ObserveRead, Die, StartRequest, Request, Update
<1>9. CASE /\ hold = x /\ cycle[x] # None /\ cycle[x].phase = "awaiting_host_release"
           /\ InForce(x)
           /\ cycle' = [cycle EXCEPT ![x].old = FALSE,
                ![x].phase = IF @ = "awaiting_host_release" /\ cycle[x].disposition = "committed"
                             THEN "completed" ELSE "rolled_back"]
  <2>1. c = x
    BY <1>9
  <2>2. cycle[c] \in CycleRecord
    BY <1>9, <2>1
  <2>3. /\ cycle'[c].observed = cycle[c].observed /\ cycle'[c].prior = cycle[c].prior
        /\ cycle'[c].phase = IF cycle[c].disposition = "committed" THEN "completed"
                             ELSE "rolled_back"
    BY <1>9, <2>1, <2>2 DEF CycleRecord
  <2>4. Readable /\ Evidence = cycle[c].observed /\ Matches(cycle[c].disposition, cycle[c].prior, Evidence)
    BY <1>9, <2>1 DEF InForce
  <2>5. CASE cycle[c].disposition = "committed"
    <3>1. Evidence.identity # None /\ Evidence.identity # cycle[c].prior.identity
      BY <2>4, <2>5 DEF Matches
    <3>2. record # None
      BY <3>1 DEF Evidence, EvidenceOf
    <3> QED BY <1>9, <2>1, <2>3, <2>4, <2>5, <3>1, <3>2 DEF Readable
  <2>6. CASE cycle[c].disposition # "committed"
    <3>1. Evidence = cycle[c].prior
      BY <2>4, <2>6 DEF Matches
    <3> QED BY <1>9, <2>1, <2>3, <2>4, <2>6, <3>1 DEF Readable
  <2> QED BY <2>5, <2>6
<1>10. CASE cycle' = [cycle EXCEPT ![x] = None]
  BY <1>10
<1> QED BY <1>1, <1>8, <1>9, <1>10 DEF Release

\* Requests are let in only on the record that was observed, in force and valid at that step.
THEOREM ReleasesAreTrue == Spec => ReleaseIsTrue
<1>1. IInv /\ [Next]_vars =>
        [\A c \in Cycle :
           (cycle'[c] # None /\ cycle'[c].phase \in {"completed", "rolled_back"} /\ ~Terminal(c))
             => /\ hold = c
                /\ Evidence = cycle'[c].observed
                /\ record # None => ValidRecord(record)
                /\ IF cycle'[c].phase = "completed"
                   THEN record # None /\ Evidence.identity # cycle'[c].prior.identity
                   ELSE Evidence = cycle'[c].prior]_vars
  BY ReleaseLooks
<1> QED BY <1>1, Invariant, PTL DEF Spec, ReleaseIsTrue

\* A sealed cycle only moves to its successor.
LEMMA ActiveMoves ==
  ASSUME IInv, [Next]_vars, NEW c \in Cycle, Active(c)
  PROVE  /\ cycle'[c] # None
         /\ cycle'[c].prior = cycle[c].prior
         /\ cycle[c].phase = "awaiting_cutover"
              => cycle'[c].phase \in {"awaiting_cutover", "awaiting_host_release"}
         /\ cycle[c].phase = "awaiting_host_release"
              => /\ cycle'[c].phase \in {"awaiting_host_release", "completed", "rolled_back"}
                 /\ cycle'[c].observed = cycle[c].observed
<1> USE DEF IInv, Cycles
<1> DEFINE Goal ==
      /\ cycle'[c] # None
      /\ cycle'[c].prior = cycle[c].prior
      /\ cycle[c].phase = "awaiting_cutover"
           => cycle'[c].phase \in {"awaiting_cutover", "awaiting_host_release"}
      /\ cycle[c].phase = "awaiting_host_release"
           => /\ cycle'[c].phase \in {"awaiting_host_release", "completed", "rolled_back"}
              /\ cycle'[c].observed = cycle[c].observed
<1>0. /\ Cleared \in [Cycle -> {None} \cup CycleRecord] /\ Cleared[c] = cycle[c]
      /\ cycle[c] # None /\ cycle[c] \in CycleRecord
      /\ cycle[c].phase \in {"awaiting_cutover", "awaiting_host_release"}
  BY ClearedIsSound DEF Active
<1>1. cycle'[c] = cycle[c] => Goal
  BY <1>0
<1>2. ASSUME NEW x \in Cycle, OwnExpired(x) PROVE Goal
  BY <1>0, <1>1, <1>2 DEF OwnExpired, Expired
<1>3. cycle' = Cleared => Goal
  BY <1>0, <1>1
<1>4. ASSUME NEW x \in Cycle, Plan(x) PROVE Goal
  <2>1. CASE cycle' = [Cleared EXCEPT ![x] = Planned(Evidence)] /\ Cleared[x] = None
    BY <1>0, <1>1, <2>1
  <2> QED BY <1>2, <1>3, <1>4, <2>1 DEF Plan
<1>5. ASSUME NEW q \in Call, Seal(q) PROVE Goal
  <2> DEFINE x == call[q].cycle
  <2>1. x \in Cycle
    BY <1>5 DEF Seal, Calls, CallRecord
  <2>2. CASE /\ cycle[x].phase = "awaiting_host_drain"
             /\ cycle' = [Cleared EXCEPT ![x].phase = "awaiting_cutover", ![x].old = FALSE]
    <3>1. c # x
      BY <1>0, <2>2
    <3> QED BY <1>0, <1>1, <2>1, <2>2, <3>1
  <2> QED BY <1>2, <1>3, <1>5, <2>1, <2>2 DEF Seal
<1>6. ASSUME NEW q \in Call, Observe(q) PROVE Goal
  <2> DEFINE x == call[q].cycle
  <2> DEFINE r == [phase |-> "awaiting_host_release", prior |-> call[q].prior,
                   observed |-> call[q].observed, disposition |-> call[q].disposition,
                   old |-> FALSE]
  <2>1. x \in Cycle /\ call[q] \in CallRecord
    BY <1>6 DEF Observe, Calls, CallRecord
  <2>2. CASE /\ SamePlan(x, call[q].prior) /\ cycle[x].phase = "awaiting_cutover"
             /\ cycle' = [Cleared EXCEPT ![x] = r]
    <3>1. CASE c = x
      <4>1. r \in CycleRecord /\ r.phase = "awaiting_host_release" /\ r.prior = cycle[c].prior
        BY <2>1, <2>2, <3>1 DEF CycleRecord, CallRecord, Phase, SamePlan
      <4>2. cycle'[c] = r /\ r # None
        BY <1>0, <2>2, <3>1, <4>1, AbsenceOK
      <4> QED BY <2>2, <3>1, <4>1, <4>2
    <3>2. CASE c # x
      BY <1>0, <1>1, <2>1, <2>2, <3>2
    <3> QED BY <3>1, <3>2
  <2> QED BY <1>2, <1>3, <1>6, <2>1, <2>2 DEF Observe
<1>7. ASSUME NEW x \in Cycle, Age(x) PROVE Goal
  <2> DEFINE r == [cycle[x] EXCEPT !.old = TRUE]
  <2>1. cycle[x] \in CycleRecord /\ cycle' = [cycle EXCEPT ![x] = r]
    BY <1>7 DEF Age
  <2>2. /\ r \in CycleRecord /\ r.phase = cycle[x].phase /\ r.prior = cycle[x].prior
        /\ r.observed = cycle[x].observed
    BY <2>1 DEF CycleRecord
  <2>3. CASE c = x
    BY <1>0, <2>1, <2>2, <2>3, AbsenceOK
  <2>4. CASE c # x
    BY <1>1, <2>1, <2>4
  <2> QED BY <2>3, <2>4
<1>8. ASSUME NEW x \in Cycle, Release(x) PROVE Goal
  <2>1. CASE Expired(x) /\ cycle' = [cycle EXCEPT ![x] = None]
    BY <1>0, <1>1, <2>1 DEF Expired
  <2>2. CASE UNCHANGED cycle
    BY <1>1, <2>2
  <2>3. CASE /\ cycle[x] # None /\ cycle[x].phase = "awaiting_host_release"
             /\ cycle' = [cycle EXCEPT ![x].old = FALSE,
                  ![x].phase = IF @ = "awaiting_host_release" /\ cycle[x].disposition = "committed"
                               THEN "completed" ELSE "rolled_back"]
    <3> DEFINE ph == IF cycle[x].disposition = "committed" THEN "completed" ELSE "rolled_back"
    <3> DEFINE r == [cycle[x] EXCEPT !.old = FALSE, !.phase = ph]
    <3>1. cycle[x] \in CycleRecord
      BY <2>3
    <3>2. /\ r \in CycleRecord /\ r.phase = ph /\ r.prior = cycle[x].prior
          /\ r.observed = cycle[x].observed
      BY <3>1 DEF CycleRecord, Phase
    <3>3. cycle' = [cycle EXCEPT ![x] = r]
      BY <2>3
    <3>4. CASE c = x
      BY <1>0, <2>3, <3>2, <3>3, <3>4, AbsenceOK
    <3>5. CASE c # x
      BY <1>1, <3>3, <3>5
    <3> QED BY <3>4, <3>5
  <2> QED BY <1>8, <2>1, <2>2, <2>3 DEF Release
<1>9. CASE UNCHANGED cycle
  BY <1>1, <1>9
<1> QED
  BY <1>4, <1>5, <1>6, <1>7, <1>8, <1>9
  DEF Next, vars, Abort, Stage, SealRead, ObserveRead, Die, StartRequest, Request, Update

\* No lapse of time and no need for room removes an obligation of the host.
THEOREM ObligationsAreKept == Spec => ActiveIsKept
<1>1. IInv /\ [Next]_vars =>
        [\A c \in Cycle :
           Active(c) =>
             /\ cycle'[c] # None
             /\ cycle'[c].prior = cycle[c].prior
             /\ cycle[c].phase = "awaiting_cutover"
                  => cycle'[c].phase \in {"awaiting_cutover", "awaiting_host_release"}
             /\ cycle[c].phase = "awaiting_host_release"
                  => /\ cycle'[c].phase \in {"awaiting_host_release", "completed", "rolled_back"}
                     /\ cycle'[c].observed = cycle[c].observed]_vars
  BY ActiveMoves
<1> QED BY <1>1, Invariant, PTL DEF Spec, ActiveIsKept

=============================================================================
