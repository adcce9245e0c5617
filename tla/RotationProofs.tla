---------------------------- MODULE RotationProofs ----------------------------
(***************************************************************************)
(* Proofs, for every number of calls, bindings, artifacts and places, of   *)
(* what Rotation says of the one import of a rotation and of its receipt.  *)
(***************************************************************************)
EXTENDS Rotation, FiniteSetTheorems, TLAPS

(***************************************************************************)
(* The inductive invariant                                                 *)
(***************************************************************************)

\* A binding's lock is held by one call.
Exclusive ==
  \A p, q \in Process : Busy(p) /\ Busy(q) /\ Mine(p) = Mine(q) => p = q

\* The locations of a call that has found or made its operation, but its receipt not yet.
InHand ==
  {"recover", "terminal", "recheck", "resume", "handoff", "admit", "release", "observe",
   "preserve", "settle", "conclude", "validate", "finalize", "receipt"}

\* The locations of the call that let the import through.
Importing == {"release", "observe", "preserve", "settle", "conclude"}

\* What an operation says belongs together, and to the receipt that is to replace it.
Shaped(b) ==
  /\ op[b] # None /\ op[b].phase = "imported" =>
       op[b].terminal /\ op[b].target \in Id /\ op[b].candidate = None
  /\ op[b] # None /\ ~op[b].actor => effects[b] = 0
  /\ op[b] # None /\ receipt[b] # None =>
       /\ op[b].phase = "imported"
       /\ receipt[b].target = op[b].target /\ receipt[b].artifact = op[b].artifact

\* The import that may act is the one the operation names, and there is one.
Named(b) ==
  /\ native[b].at = "running" =>
       op[b] # None /\ op[b].actor /\ ~op[b].terminal /\ op[b].phase = "prepared"
  /\ native[b].at = "gated" => \E p \in Process : pc[p] = "release" /\ Mine(p) = b
  /\ effects[b] <= 1

Whole(b) ==
  /\ op[b] # None /\ op[b].phase = "imported" => sess[b][op[b].target] = op[b].artifact
  /\ receipt[b] # None /\ receipt[b].age = "kept" /\ op[b] = None
       => sess[b][receipt[b].target] = receipt[b].artifact

Sound(b) == Shaped(b) /\ Named(b) /\ Whole(b)

\* What the holder of a binding's lock may rely on at each of its locations.
Before(p, b) ==
  /\ pc[p] \in {"reserve", "export", "prepare"} => op[b] = None /\ receipt[b] = None
  /\ pc[p] \in {"export", "prepare"} => resv[b] # "absent"
  /\ pc[p] = "prepare" => call[p].artifact \in Content

During(p, b) ==
  /\ pc[p] \in InHand => op[b] # None /\ receipt[b] = None
  /\ pc[p] \in {"handoff", "admit"} => op[b].phase = "prepared" /\ ~op[b].actor
  /\ pc[p] \in Importing \cup {"terminal"} =>
       op[b].phase = "prepared" /\ op[b].actor /\ ~op[b].terminal
  /\ pc[p] = "release" => effects[b] = 0
  /\ pc[p] \in {"terminal", "conclude"} => native[b].at # "running"
  /\ pc[p] \in {"recheck", "resume", "validate"} /\ op[b].actor => op[b].terminal
  /\ pc[p] \in {"resume", "validate"} => op[b].phase = "prepared"
  /\ pc[p] = "validate" => op[b].actor /\ call[p].found \in Id

After(p, b) ==
  /\ pc[p] \in {"finalize", "receipt", "retire"} => op[b] # None /\ op[b].phase = "imported"
  /\ pc[p] = "retire" => receipt[b] # None
  /\ pc[p] = "receipt" => call[p].settled = route

At(p, b) == Before(p, b) /\ During(p, b) /\ After(p, b)

Located == \A p \in Process, b \in Binding : Busy(p) /\ Mine(p) = b => At(p, b)

Rotates == Typed /\ Exclusive /\ (\A b \in Binding : Sound(b)) /\ Located

Places == IsFiniteSet(InUse) /\ Cardinality(InUse) <= Cap

IInv == Rotates /\ Places

-----------------------------------------------------------------------------
(***************************************************************************)
(* Frames                                                                  *)
(***************************************************************************)

\* Nothing of another binding or another call is touched.
OthersUntouched(p, b) ==
  /\ \A q \in Process \ {p} : pc'[q] = pc[q] /\ call'[q] = call[q]
  /\ \A x \in Binding \ {b} :
       /\ op'[x] = op[x] /\ receipt'[x] = receipt[x] /\ native'[x] = native[x]
       /\ effects'[x] = effects[x] /\ sess'[x] = sess[x] /\ resv'[x] = resv[x]
  /\ route' = route

\* A call under way is for one of the bindings.
LEMMA MineIsBinding ==
  ASSUME Typed, NEW p \in Process, Busy(p)
  PROVE  call[p] \in Call /\ Mine(p) \in Binding
<1>1. call[p] # None /\ call[p] \in Call \cup {None}
  BY DEF Typed, Busy
<1> QED BY <1>1 DEF Mine, Call

\* A call's step within its own binding concerns nobody else, whose locks exclude it.
LEMMA OwnStep ==
  ASSUME Rotates, NEW p \in Process, NEW b \in Binding, Busy(p), Mine(p) = b,
         OthersUntouched(p, b), Typed',
         pc'[p] # "idle" => call'[p].binding = b,
         Sound(b)', pc'[p] # "idle" => At(p, b)'
  PROVE  Rotates'
<1>1. \A q \in Process \ {p} : Busy(q) => Mine(q) \in Binding \ {b}
  BY MineIsBinding DEF Rotates, Exclusive
<1>2. \A q \in Process \ {p} : Busy(q)' = Busy(q) /\ Mine(q)' = Mine(q)
  BY DEF OthersUntouched, Busy, Mine
<1>3. Exclusive'
  <2> SUFFICES ASSUME NEW q1 \in Process, NEW q2 \in Process,
                      Busy(q1)', Busy(q2)', Mine(q1)' = Mine(q2)'
               PROVE  q1 = q2
    BY DEF Exclusive
  <2>1. Mine(p)' = b \/ ~Busy(p)'
    BY DEF Busy, Mine
  <2>2. CASE q1 # p /\ q2 # p
    BY <1>2, <2>2 DEF Rotates, Exclusive
  <2>3. CASE q1 = p \/ q2 = p
    BY <1>1, <1>2, <2>1, <2>3
  <2> QED BY <2>2, <2>3
<1>4. ASSUME NEW x \in Binding, x # b
      PROVE  Sound(x)'
  <2>1. /\ op'[x] = op[x] /\ receipt'[x] = receipt[x] /\ native'[x] = native[x]
        /\ effects'[x] = effects[x] /\ sess'[x] = sess[x]
    BY <1>4 DEF OthersUntouched
  <2>2. Sound(x)
    BY DEF Rotates
  <2>3. Shaped(x)' /\ Whole(x)'
    BY <2>1, <2>2 DEF Sound, Shaped, Whole
  <2>4. ASSUME native[x].at = "gated"
        PROVE  \E q \in Process : pc'[q] = "release" /\ Mine(q)' = x
    <3>1. PICK q \in Process : pc[q] = "release" /\ Mine(q) = x
      BY <2>2, <2>4 DEF Sound, Named
    <3>2. q # p
      BY <1>4, <3>1
    <3> QED BY <1>2, <3>1, <3>2 DEF OthersUntouched
  <2>5. Named(x)'
    BY <2>1, <2>2, <2>4 DEF Sound, Named
  <2> QED BY <2>3, <2>5 DEF Sound
<1>5. ASSUME NEW q \in Process, NEW x \in Binding, Busy(q)', Mine(q)' = x
      PROVE  At(q, x)'
  <2>1. CASE q = p
    <3>1. x = b
      BY <1>5, <2>1 DEF Busy, Mine
    <3> QED BY <1>5, <2>1, <3>1 DEF Busy
  <2>2. CASE q # p
    <3>1. x # b /\ Mine(q) = x /\ Busy(q)
      BY <1>1, <1>2, <1>5, <2>2
    <3>2. /\ op'[x] = op[x] /\ receipt'[x] = receipt[x] /\ native'[x] = native[x]
          /\ effects'[x] = effects[x] /\ resv'[x] = resv[x] /\ route' = route
          /\ pc'[q] = pc[q] /\ call'[q] = call[q]
      BY <2>2, <3>1 DEF OthersUntouched
    <3>3. At(q, x)
      BY <3>1 DEF Rotates, Located
    <3> QED BY <3>2, <3>3 DEF At, Before, During, After
  <2> QED BY <2>1, <2>2
<1> QED BY <1>3, <1>4, <1>5 DEF Rotates, Located

-----------------------------------------------------------------------------
(***************************************************************************)
(* Maintenance                                                             *)
(***************************************************************************)

\* Maintenance removes operations that have their receipt, and receipts that are old.
LEMMA MaintainRemoves ==
  ASSUME NEW b \in Binding, Maintain(b), NEW x \in Binding
  PROVE  /\ receipt'[x] = receipt[x] \/ (receipt'[x] = None /\ receipt[x] # None)
         /\ op'[x] = op[x] \/ (op'[x] = None /\ receipt'[x] # None)
         /\ receipt'[x] # None => op'[x] = None
BY DEF Maintain, KeptReceipts, KeptOperations

LEMMA MaintainTyped ==
  ASSUME Typed, NEW b \in Binding, Maintain(b)
  PROVE  /\ receipt' \in [Binding -> Receipt \cup {None}]
         /\ op' \in [Binding -> Operation \cup {None}]
         /\ art' \in [Content -> Age]
         /\ KeptReservations(b) \in [Binding -> Age]
BY DEF Typed, Maintain, KeptReceipts, KeptOperations, KeptArtifacts, KeptReservations, Age

\* What maintenance removes is of no binding whose call is under way, but in a replay.
LEMMA MaintainSound ==
  ASSUME Rotates, NEW b \in Binding, Maintain(b), CapacityFree,
         UNCHANGED <<native, effects, sess>>,
         \A q \in Process : pc[q] = "release" => pc'[q] = pc[q] /\ call'[q] = call[q],
         NEW x \in Binding
  PROVE  Sound(x)'
<1>1. Sound(x)
  BY DEF Rotates
<1>2. /\ receipt'[x] = receipt[x] \/ (receipt'[x] = None /\ receipt[x] # None)
      /\ op'[x] = op[x] \/ (op'[x] = None /\ receipt'[x] # None)
      /\ receipt'[x] # None => op'[x] = None
  BY MaintainRemoves
<1>3. Shaped(x)'
  BY <1>1, <1>2 DEF Sound, Shaped
<1>4. Whole(x)'
  BY <1>1, <1>2 DEF Sound, Shaped, Whole
<1>5. Named(x)'
  <2>1. native[x].at = "running" => op'[x] = op[x]
    BY <1>1, <1>2 DEF Sound, Shaped, Named
  <2>2. native[x].at = "gated" => \E q \in Process : pc'[q] = "release" /\ Mine(q)' = x
    BY <1>1 DEF Sound, Named, Mine
  <2> QED BY <1>1, <2>1, <2>2 DEF Sound, Named
<1> QED BY <1>3, <1>4, <1>5 DEF Sound

\* A call under way finds after another's maintenance what it found before.
LEMMA MaintainLocated ==
  ASSUME Rotates, NEW b \in Binding, Maintain(b), CapacityFree,
         UNCHANGED <<native, effects, route>>,
         NEW q \in Process, NEW x \in Binding, Busy(q), Mine(q) = x,
         resv'[x] = KeptReservations(b)[x],
         pc'[q] = pc[q], call'[q] = call[q]
  PROVE  At(q, x)'
<1>1. At(q, x)
  BY DEF Rotates, Located
<1>2. /\ receipt'[x] = receipt[x] \/ (receipt'[x] = None /\ receipt[x] # None)
      /\ op'[x] = op[x] \/ (op'[x] = None /\ receipt'[x] # None)
  BY MaintainRemoves
<1>3. pc[q] # "retire"
  BY DEF CapacityFree, CapacityHeld
<1>4. ~Abandoned(x, b)
  BY DEF Abandoned, BindingFree
<1>5. op[x] = None => resv'[x] = resv[x]
  BY <1>4 DEF KeptReservations
<1>6. Before(q, x)'
  BY <1>1, <1>2, <1>5 DEF At, Before
<1>7. During(q, x)'
  <2>1. pc[q] \in InHand => op'[x] = op[x] /\ receipt'[x] = receipt[x]
    BY <1>1, <1>2 DEF At, During
  <2> QED BY <1>1, <2>1 DEF At, During, InHand, Importing
<1>8. After(q, x)'
  <2>1. pc[q] \in {"finalize", "receipt"} => op'[x] = op[x]
    BY <1>1, <1>2 DEF At, During, InHand
  <2> QED BY <1>1, <1>3, <2>1 DEF At, After
<1> QED BY <1>6, <1>7, <1>8 DEF At

\* A step that runs the maintenance of a binding, and moves no call but its own.
LEMMA MaintainStep ==
  ASSUME Rotates, NEW b \in Binding, Maintain(b), CapacityFree, Typed',
         resv' = KeptReservations(b), UNCHANGED <<native, effects, sess, route>>,
         UNCHANGED <<pc, call>>
  PROVE  Rotates'
<1>1. \A x \in Binding : Sound(x)'
  BY MaintainSound
<1>2. Exclusive'
  BY DEF Rotates, Exclusive, Busy, Mine
<1>3. Located'
  BY MaintainLocated DEF Located, Busy, Mine
<1> QED BY <1>1, <1>2, <1>3 DEF Rotates

-----------------------------------------------------------------------------
(***************************************************************************)
(* The steps of a call                                                     *)
(***************************************************************************)

\* What a call knows where it stands.
Standing(p, b) ==
  /\ Busy(p) /\ Mine(p) = b /\ call[p] \in Call
  /\ At(p, b) /\ Sound(b)
  /\ native[b].at = "gated" => pc[p] = "release"

LEMMA Stands ==
  ASSUME Rotates, NEW p \in Process, NEW b \in Binding, Busy(p), Mine(p) = b
  PROVE  Standing(p, b)
<1>1. call[p] \in Call
  BY MineIsBinding DEF Rotates
<1>2. At(p, b) /\ Sound(b)
  BY DEF Rotates, Located
<1>3. ASSUME native[b].at = "gated"
      PROVE  pc[p] = "release"
  <2>1. PICK q \in Process : pc[q] = "release" /\ Mine(q) = b
    BY <1>2, <1>3 DEF Sound, Named
  <2> QED BY <2>1 DEF Rotates, Exclusive, Busy
<1> QED BY <1>1, <1>2, <1>3 DEF Standing

\* A step that changes nothing but where its call is and what it knows.
LEMMA ThinkingStep ==
  ASSUME Rotates, NEW p \in Process, NEW b \in Binding, Standing(p, b),
         UNCHANGED <<auth, resv, op, receipt, art, sess, native, route, effects>>,
         NEW l \in Location, pc' = [pc EXCEPT ![p] = l],
         NEW c \in Call \cup {None}, call' = [call EXCEPT ![p] = c], l = "idle" <=> c = None,
         c # None => c.binding = b,
         l # "idle" => At(p, b)', pc[p] # "release"
  PROVE  Rotates'
<1>1. pc'[p] = l /\ call'[p] = c
  BY DEF Rotates, Typed
<1>2. OthersUntouched(p, b)
  BY DEF OthersUntouched, Rotates, Typed
<1>3. Typed'
  BY DEF Rotates, Typed
<1>4. Sound(b)'
  <2>1. native[b].at # "gated"
    BY DEF Standing
  <2>2. Shaped(b)' /\ Whole(b)'
    BY DEF Standing, Sound, Shaped, Whole
  <2>3. Named(b)'
    BY <2>1 DEF Standing, Sound, Named
  <2> QED BY <2>2, <2>3 DEF Sound
<1> QED BY <1>1, <1>2, <1>3, <1>4, OwnStep DEF Standing

\* What a step leaves of every variable is its own entry; the rest is as it was.
Within(p, b) ==
  /\ pc' = [pc EXCEPT ![p] = pc'[p]] /\ call' = [call EXCEPT ![p] = call'[p]]
  /\ op' = [op EXCEPT ![b] = op'[b]] /\ receipt' = [receipt EXCEPT ![b] = receipt'[b]]
  /\ native' = [native EXCEPT ![b] = native'[b]]
  /\ effects' = [effects EXCEPT ![b] = effects'[b]]
  /\ resv' = [resv EXCEPT ![b] = resv'[b]] /\ auth' = [auth EXCEPT ![b] = auth'[b]]
  /\ UNCHANGED <<sess, route>>

\* The entries a step writes have their types, those of the call's record among them.
Fits(p, b) ==
  /\ pc'[p] \in Location /\ call'[p] \in Call \cup {None}
  /\ pc'[p] = "idle" <=> call'[p] = None
  /\ call'[p] # None => call'[p].binding = b
  /\ op'[b] \in Operation \cup {None} /\ receipt'[b] \in Receipt \cup {None}
  /\ native'[b] \in Group /\ effects'[b] \in Nat
  /\ resv'[b] \in Age /\ auth'[b] \in Age /\ art' \in [Content -> Age]

\* A step that writes nothing but its call's own entries preserves the invariant when what it
\* writes has its type and suits the place it goes to.
LEMMA WithinStep ==
  ASSUME Rotates, NEW p \in Process, NEW b \in Binding, Busy(p), Mine(p) = b,
         Within(p, b), Fits(p, b), Sound(b)', pc'[p] # "idle" => At(p, b)'
  PROVE  Rotates'
<1>1. OthersUntouched(p, b)
  BY DEF Within, OthersUntouched, Rotates, Typed
<1>2. /\ auth' \in [Binding -> Age] /\ resv' \in [Binding -> Age]
      /\ op' \in [Binding -> Operation \cup {None}]
      /\ receipt' \in [Binding -> Receipt \cup {None}]
      /\ art' \in [Content -> Age]
      /\ sess' \in [Binding -> [Id -> Content \cup {"partial", None}]]
      /\ native' \in [Binding -> Group] /\ route' \in Route
      /\ effects' \in [Binding -> Nat]
  BY DEF Within, Fits, Rotates, Typed
<1>3. pc' \in [Process -> Location] /\ call' \in [Process -> Call \cup {None}]
  BY DEF Within, Fits, Rotates, Typed
<1>4. \A q \in Process : pc'[q] = "idle" <=> call'[q] = None
  <2> SUFFICES ASSUME NEW q \in Process
               PROVE  pc'[q] = "idle" <=> call'[q] = None
    OBVIOUS
  <2>1. CASE q = p
    BY <2>1 DEF Fits
  <2>2. CASE q # p
    BY <1>1, <2>2 DEF OthersUntouched, Rotates, Typed
  <2> QED BY <2>1, <2>2
<1>5. Typed'
  BY <1>2, <1>3, <1>4 DEF Typed
<1> QED BY <1>1, <1>5, OwnStep DEF Fits

\* In a retry: the actor found is over, durably.
LEMMA RecordTerminalStep ==
  ASSUME Rotates, NEW p \in Process, NEW b \in Binding, Busy(p), Mine(p) = b,
         RecordTerminal(p)
  PROVE  Rotates'
<1>1. Standing(p, b)
  BY Stands
<1>2. Within(p, b)
  BY DEF RecordTerminal, Within, Goto, World, Rotates, Typed, Mine
<1>3. op[b] \in Operation
  BY <1>1 DEF RecordTerminal, Standing, At, During, After, InHand, Rotates, Typed
<1>4. /\ pc[p] = "terminal" /\ pc'[p] = "recheck"
      /\ call'[p] = call[p]
      /\ native'[b] = native[b]
      /\ effects'[b] = effects[b]
      /\ receipt'[b] = receipt[b]
      /\ resv'[b] = resv[b]
      /\ sess'[b] = sess[b]
  BY <1>1, <1>3, AbsenceOK
     DEF RecordTerminal, Goto, World, Rotates, Typed, Standing, Mine, Call
<1>5. /\ op'[b] # None
      /\ op'[b] \in Operation
      /\ op'[b].phase = op[b].phase
      /\ op'[b].artifact = op[b].artifact
      /\ op'[b].actor = op[b].actor
      /\ op'[b].terminal = TRUE
      /\ op'[b].candidate = op[b].candidate
      /\ op'[b].target = op[b].target
  <2>1. op'[b] = [op[b] EXCEPT !.terminal = TRUE]
    BY <1>1, <1>3 DEF RecordTerminal, Rotates, Typed, Standing
  <2>2. op'[b] \in Operation
    BY <1>1, <1>3, <2>1 DEF Operation, Id, Standing, Call
  <2> QED BY <1>3, <2>1, <2>2, AbsenceOK DEF Operation
<1>6. Fits(p, b)
  <2>1. receipt'[b] \in Receipt \cup {None} /\ art' \in [Content -> Age]
    BY <1>1 DEF RecordTerminal, Rotates, Typed, Age
  <2>2. native'[b] \in Group
    BY <1>1, <1>3 DEF RecordTerminal, World, Rotates, Typed, Group, Operation
  <2>3. effects'[b] \in Nat
    BY <1>1, <1>4 DEF RecordTerminal, World, Rotates, Typed
  <2>4. resv'[b] \in Age /\ auth'[b] \in Age
    BY <1>1 DEF RecordTerminal, Rotates, Typed, Age
  <2> QED BY <1>1, <1>4, <1>5, <2>1, <2>3, <2>4, <2>2, AbsenceOK
             DEF Fits, Standing, Rotates, Typed, Location, Busy, Mine
<1>7. Sound(b)'
  BY <1>1, <1>2, <1>4, <1>5
     DEF Within, Standing, Sound, Shaped, Named, Whole, Mine, At, Before, During, After,
         InHand, Importing
<1>8. At(p, b)'
  BY <1>1, <1>2, <1>4, <1>5
     DEF Within, Standing, Sound, Shaped, At, Before, During, After, InHand, Importing
<1> QED BY <1>1, <1>2, <1>6, <1>7, <1>8, WithinStep

\* The import: named before it may act, let through once, observed, its target preserved.
LEMMA AdmitStep ==
  ASSUME Rotates, NEW p \in Process, NEW b \in Binding, Busy(p), Mine(p) = b, Admit(p)
  PROVE  Rotates'
<1>1. Standing(p, b)
  BY Stands
<1>2. Within(p, b)
  BY DEF Admit, Within, Goto, Rotates, Typed, Mine
<1>3. op[b] \in Operation
  BY <1>1 DEF Admit, Standing, At, During, After, InHand, Rotates, Typed
<1>4. /\ pc[p] = "admit" /\ pc'[p] = "release"
      /\ call'[p] = call[p]
      /\ call'[p] \in Call
      /\ call'[p].binding = b
      /\ effects'[b] = effects[b]
      /\ receipt'[b] = receipt[b]
      /\ resv'[b] = resv[b]
      /\ sess'[b] = sess[b]
      /\ native'[b].at = "gated"
  BY <1>1, <1>3, AbsenceOK DEF Admit, Goto, Rotates, Typed, Standing, Mine, Call
<1>5. /\ op'[b] # None
      /\ op'[b] \in Operation
      /\ op'[b].phase = op[b].phase
      /\ op'[b].artifact = op[b].artifact
      /\ op'[b].actor = TRUE
      /\ op'[b].terminal = FALSE
      /\ op'[b].candidate = op[b].candidate
      /\ op'[b].target = op[b].target
  <2>1. op'[b] = [op[b] EXCEPT !.actor = TRUE, !.terminal = FALSE]
    BY <1>1, <1>3 DEF Admit, Rotates, Typed, Standing
  <2>2. op'[b] \in Operation
    BY <1>1, <1>3, <2>1 DEF Operation, Id, Standing, Call
  <2> QED BY <1>3, <2>1, <2>2, AbsenceOK DEF Operation
<1>6. Fits(p, b)
  <2>1. receipt'[b] \in Receipt \cup {None} /\ art' \in [Content -> Age]
    BY <1>1 DEF Admit, Rotates, Typed, Age
  <2>2. native'[b] \in Group
    BY <1>1, <1>3 DEF Admit, Rotates, Typed, Group, Operation
  <2>3. effects'[b] \in Nat
    BY <1>1, <1>4 DEF Admit, Rotates, Typed
  <2>4. resv'[b] \in Age /\ auth'[b] \in Age
    BY <1>1 DEF Admit, Rotates, Typed, Age
  <2> QED BY <1>1, <1>4, <1>5, <2>1, <2>3, <2>4, <2>2, AbsenceOK
             DEF Fits, Standing, Rotates, Typed, Location, Busy, Mine
<1>7. Sound(b)'
  BY <1>1, <1>2, <1>4, <1>5
     DEF Within, Standing, Sound, Shaped, Named, Whole, Mine, At, Before, During, After,
         InHand, Importing
<1>8. At(p, b)'
  BY <1>1, <1>2, <1>4, <1>5
     DEF Within, Standing, Sound, Shaped, At, Before, During, After, InHand, Importing
<1> QED BY <1>1, <1>2, <1>6, <1>7, <1>8, WithinStep

LEMMA ReleaseStep ==
  ASSUME Rotates, NEW p \in Process, NEW b \in Binding, Busy(p), Mine(p) = b, Release(p)
  PROVE  Rotates'
<1>1. Standing(p, b)
  BY Stands
<1>2. Within(p, b)
  BY DEF Release, Within, Goto, Durable, Rotates, Typed, Mine
<1>3. op[b] \in Operation
  BY <1>1 DEF Release, Standing, At, During, After, InHand, Rotates, Typed
<1>4. /\ pc[p] = "release" /\ pc'[p] = "observe"
      /\ call'[p] = call[p]
      /\ op'[b] = op[b]
      /\ receipt'[b] = receipt[b]
      /\ resv'[b] = resv[b]
      /\ sess'[b] = sess[b]
      /\ native'[b].at = "running"
      /\ effects'[b] = 1
  BY <1>1, <1>3, AbsenceOK
     DEF Release, Goto, Durable, Rotates, Typed, Standing, Mine, Call, Group, At, During
<1>5. Fits(p, b)
  <2>1. receipt'[b] \in Receipt \cup {None} /\ art' \in [Content -> Age]
    BY <1>1 DEF Release, Durable, Rotates, Typed, Age
  <2>2. native'[b] = [native[b] EXCEPT !.at = "running"] /\ native[b] \in Group
    BY <1>1 DEF Release, Rotates, Typed, Standing, Mine
  <2>3. native'[b] \in Group
    BY <2>2 DEF Group
  <2>4. effects'[b] \in Nat
    BY <1>1, <1>4 DEF Release, Rotates, Typed
  <2>5. resv'[b] \in Age /\ auth'[b] \in Age
    BY <1>1 DEF Release, Durable, Rotates, Typed, Age
  <2> QED BY <1>1, <1>4, <2>1, <2>4, <2>5, <2>3, AbsenceOK
             DEF Fits, Standing, Rotates, Typed, Location, Busy, Mine
<1>6. Sound(b)'
  BY <1>1, <1>2, <1>4
     DEF Within, Standing, Sound, Shaped, Named, Whole, Mine, At, Before, During, After,
         InHand, Importing
<1>7. At(p, b)'
  BY <1>1, <1>2, <1>4
     DEF Within, Standing, Sound, Shaped, At, Before, During, After, InHand, Importing
<1> QED BY <1>1, <1>2, <1>5, <1>6, <1>7, WithinStep

LEMMA PreserveStep ==
  ASSUME Rotates, NEW p \in Process, NEW b \in Binding, Busy(p), Mine(p) = b, Preserve(p)
  PROVE  Rotates'
<1>1. Standing(p, b)
  BY Stands
<1>2. Within(p, b)
  BY DEF Preserve, Within, Goto, World, Rotates, Typed, Mine
<1>3. op[b] \in Operation
  BY <1>1 DEF Preserve, Standing, At, During, After, InHand, Rotates, Typed
<1>4. /\ pc[p] = "preserve" /\ pc'[p] = "settle"
      /\ call'[p] = call[p]
      /\ native'[b] = native[b]
      /\ effects'[b] = effects[b]
      /\ receipt'[b] = receipt[b]
      /\ resv'[b] = resv[b]
      /\ sess'[b] = sess[b]
  BY <1>1, <1>3, AbsenceOK DEF Preserve, Goto, World, Rotates, Typed, Standing, Mine, Call
<1>5. /\ op'[b] # None
      /\ op'[b] \in Operation
      /\ op'[b].phase = op[b].phase
      /\ op'[b].artifact = op[b].artifact
      /\ op'[b].actor = op[b].actor
      /\ op'[b].terminal = op[b].terminal
      /\ op'[b].candidate = call[p].found
      /\ op'[b].target = op[b].target
  <2>1. op'[b] = [op[b] EXCEPT !.candidate = call[p].found]
    BY <1>1, <1>3 DEF Preserve, Rotates, Typed, Standing
  <2>2. op'[b] \in Operation
    BY <1>1, <1>3, <2>1 DEF Operation, Id, Standing, Call
  <2> QED BY <1>3, <2>1, <2>2, AbsenceOK DEF Operation
<1>6. Fits(p, b)
  <2>1. receipt'[b] \in Receipt \cup {None} /\ art' \in [Content -> Age]
    BY <1>1 DEF Preserve, Rotates, Typed, Age
  <2>2. native'[b] \in Group
    BY <1>1, <1>3 DEF Preserve, World, Rotates, Typed, Group, Operation
  <2>3. effects'[b] \in Nat
    BY <1>1, <1>4 DEF Preserve, World, Rotates, Typed
  <2>4. resv'[b] \in Age /\ auth'[b] \in Age
    BY <1>1 DEF Preserve, Rotates, Typed, Age
  <2> QED BY <1>1, <1>4, <1>5, <2>1, <2>3, <2>4, <2>2, AbsenceOK
             DEF Fits, Standing, Rotates, Typed, Location, Busy, Mine
<1>7. Sound(b)'
  BY <1>1, <1>2, <1>4, <1>5
     DEF Within, Standing, Sound, Shaped, Named, Whole, Mine, At, Before, During, After,
         InHand, Importing
<1>8. At(p, b)'
  BY <1>1, <1>2, <1>4, <1>5
     DEF Within, Standing, Sound, Shaped, At, Before, During, After, InHand, Importing
<1> QED BY <1>1, <1>2, <1>6, <1>7, <1>8, WithinStep

\* The artifact and the operation: the place reserved becomes the operation's.
LEMMA PrepareStep ==
  ASSUME Rotates, NEW p \in Process, NEW b \in Binding, Busy(p), Mine(p) = b, Prepare(p)
  PROVE  Rotates'
<1>1. Standing(p, b)
  BY Stands
<1>2. Within(p, b)
  BY DEF Prepare, Within, Goto, Rotates, Typed, Mine
<1>3. op[b] = None
  BY <1>1 DEF Prepare, Standing, At, Before
<1>4. /\ pc[p] = "prepare" /\ pc'[p] = "handoff"
      /\ native'[b] = native[b]
      /\ receipt'[b] = receipt[b]
      /\ resv'[b] = resv[b]
      /\ sess'[b] = sess[b]
      /\ op'[b] = NewOperation(call[p].artifact)
      /\ effects'[b] = 0
  BY <1>1, <1>3, AbsenceOK DEF Prepare, Goto, Rotates, Typed, Standing, Mine, Call
<1>5. call'[p] \in Call /\ call'[p].binding = b /\ call[p].artifact \in Content
  BY <1>1 DEF Prepare, Standing, At, Before, Call, Mine, Rotates, Typed
<1>6. op'[b] \in Operation /\ op'[b] # None /\ op'[b].phase = "prepared" /\ ~op'[b].actor
  <2>1. op'[b] = [phase |-> "prepared", artifact |-> call[p].artifact, actor |-> FALSE,
                  terminal |-> FALSE, candidate |-> None, target |-> None]
    BY <1>4 DEF NewOperation
  <2>2. op'[b] \in Operation
    BY <1>5, <2>1 DEF Operation
  <2>3. op'[b].phase = "prepared" /\ op'[b].actor = FALSE
    BY <2>1
  <2>4. op'[b] # None
    BY <2>2, AbsenceOK
  <2> QED BY <2>2, <2>3, <2>4
<1>7. Fits(p, b)
  <2>1. receipt'[b] \in Receipt \cup {None} /\ art' \in [Content -> Age]
    BY <1>1 DEF Prepare, Rotates, Typed, Age
  <2>2. native'[b] \in Group
    BY <1>1, <1>3 DEF Prepare, Rotates, Typed, Group, Operation
  <2>3. effects'[b] \in Nat
    BY <1>1, <1>4 DEF Prepare, Rotates, Typed
  <2>4. resv'[b] \in Age /\ auth'[b] \in Age
    BY <1>1 DEF Prepare, Rotates, Typed, Age
  <2> QED BY <1>1, <1>4, <1>5, <1>6, <2>1, <2>3, <2>4, <2>2, AbsenceOK
             DEF Fits, Standing, Rotates, Typed, Location, Busy, Mine
<1>8. Sound(b)'
  BY <1>1, <1>2, <1>4, <1>5, <1>6
     DEF Within, Standing, Sound, Shaped, Named, Whole, Mine, At, Before, During, After,
         InHand, Importing
<1>9. At(p, b)'
  BY <1>1, <1>2, <1>4, <1>5, <1>6
     DEF Within, Standing, Sound, Shaped, At, Before, During, After, InHand, Importing
<1> QED BY <1>1, <1>2, <1>7, <1>8, <1>9, WithinStep

LEMMA ExportStep ==
  ASSUME Rotates, NEW p \in Process, NEW b \in Binding, Busy(p), Mine(p) = b, Export(p)
  PROVE  Rotates'
<1>1. Standing(p, b)
  BY Stands
<1>2. Within(p, b)
  BY DEF Export, Within, Goto, World, Rotates, Typed, Mine
<1>3. op[b] = None
  BY <1>1 DEF Export, Standing, At, Before
<1>4. /\ pc[p] = "export" /\ pc'[p] = "prepare"
      /\ op'[b] = op[b]
      /\ native'[b] = native[b]
      /\ effects'[b] = effects[b]
      /\ receipt'[b] = receipt[b]
      /\ resv'[b] = resv[b]
      /\ sess'[b] = sess[b]
  BY <1>1, <1>3, AbsenceOK DEF Export, Goto, World, Rotates, Typed, Standing, Mine, Call
<1>5. call'[p] \in Call /\ call'[p].binding = b /\ call'[p].artifact \in Content
  <2>1. PICK c \in Content, w \in BOOLEAN :
          call' = [call EXCEPT ![p] = [@ EXCEPT !.artifact = c, !.wrote = w]]
    BY DEF Export
  <2>2. call'[p] = [call[p] EXCEPT !.artifact = c, !.wrote = w]
    BY <2>1 DEF Rotates, Typed
  <2> QED BY <1>1, <2>2 DEF Standing, Call, Mine
<1>6. Fits(p, b)
  <2>1. receipt'[b] \in Receipt \cup {None} /\ art' \in [Content -> Age]
    BY <1>1 DEF Export, Rotates, Typed, Age, Stored
  <2>2. native'[b] \in Group
    BY <1>1, <1>3 DEF Export, World, Rotates, Typed, Group, Operation
  <2>3. effects'[b] \in Nat
    BY <1>1, <1>4 DEF Export, World, Rotates, Typed
  <2>4. resv'[b] \in Age /\ auth'[b] \in Age
    BY <1>1 DEF Export, Rotates, Typed, Age
  <2> QED BY <1>1, <1>4, <1>5, <2>1, <2>3, <2>4, <2>2, AbsenceOK
             DEF Fits, Standing, Rotates, Typed, Location, Busy, Mine
<1>7. Sound(b)'
  BY <1>1, <1>2, <1>4, <1>5
     DEF Within, Standing, Sound, Shaped, Named, Whole, Mine, At, Before, During, After,
         InHand, Importing
<1>8. At(p, b)'
  BY <1>1, <1>2, <1>4, <1>5
     DEF Within, Standing, Sound, Shaped, At, Before, During, After, InHand, Importing
<1> QED BY <1>1, <1>2, <1>6, <1>7, <1>8, WithinStep

\* Only a session that matches the artifact makes the operation imported.
LEMMA ValidateStep ==
  ASSUME Rotates, NEW p \in Process, NEW b \in Binding, Busy(p), Mine(p) = b, Validate(p)
  PROVE  Rotates'
<1>1. Standing(p, b)
  BY Stands
<1>2. Within(p, b)
  BY DEF Validate, Within, Goto, Learn, World, Rotates, Typed, Mine
<1>3. op[b] \in Operation
  BY <1>1 DEF Validate, Standing, At, During, After, InHand, Rotates, Typed
<1>4. /\ pc[p] = "validate" /\ pc'[p] = "finalize"
      /\ sess[b][call[p].found] = op[b].artifact
      /\ native'[b] = native[b]
      /\ effects'[b] = effects[b]
      /\ receipt'[b] = receipt[b]
      /\ resv'[b] = resv[b]
      /\ sess'[b] = sess[b]
  BY <1>1, <1>3, AbsenceOK
     DEF Validate, Goto, Learn, World, Rotates, Typed, Standing, Mine, Call, Matches
<1>5. call'[p] \in Call /\ call'[p].binding = b
  BY <1>1 DEF Validate, Standing, At, Before, Call, Mine, Rotates, Typed, Learn, Matches
<1>6. /\ op'[b] # None
      /\ op'[b] \in Operation
      /\ op'[b].phase = "imported"
      /\ op'[b].artifact = op[b].artifact
      /\ op'[b].actor = op[b].actor
      /\ op'[b].terminal = op[b].terminal
      /\ op'[b].candidate = None
      /\ op'[b].target = call[p].found
  <2>1. op'[b] = [op[b] EXCEPT !.phase = "imported", !.candidate = None,
                               !.target = call[p].found]
    BY <1>1, <1>3 DEF Validate, Rotates, Typed, Standing, Matches
  <2>2. op'[b] \in Operation
    BY <1>1, <1>3, <2>1 DEF Operation, Id, Standing, Call
  <2> QED BY <1>3, <2>1, <2>2, AbsenceOK DEF Operation
<1>7. Fits(p, b)
  <2>1. receipt'[b] \in Receipt \cup {None} /\ art' \in [Content -> Age]
    BY <1>1 DEF Validate, Rotates, Typed, Age
  <2>2. native'[b] \in Group
    BY <1>1, <1>3 DEF Validate, World, Rotates, Typed, Group, Operation
  <2>3. effects'[b] \in Nat
    BY <1>1, <1>4 DEF Validate, World, Rotates, Typed
  <2>4. resv'[b] \in Age /\ auth'[b] \in Age
    BY <1>1 DEF Validate, Rotates, Typed, Age
  <2> QED BY <1>1, <1>4, <1>5, <1>6, <2>1, <2>3, <2>4, <2>2, AbsenceOK
             DEF Fits, Standing, Rotates, Typed, Location, Busy, Mine
<1>8. Sound(b)'
  BY <1>1, <1>2, <1>4, <1>5, <1>6
     DEF Within, Standing, Sound, Shaped, Named, Whole, Mine, At, Before, During, After,
         InHand, Importing
<1>9. At(p, b)'
  BY <1>1, <1>2, <1>4, <1>5, <1>6
     DEF Within, Standing, Sound, Shaped, At, Before, During, After, InHand, Importing
<1> QED BY <1>1, <1>2, <1>7, <1>8, <1>9, WithinStep

\* A retry ends the actor of an operation before it looks at anything else.
LEMMA RecoverStep ==
  ASSUME Rotates, NEW p \in Process, NEW b \in Binding, Busy(p), Mine(p) = b, Recover(p)
  PROVE  Rotates'
<1>1. Standing(p, b)
  BY Stands
<1>2. Within(p, b)
  BY DEF Recover, Within, Goto, Durable, Rotates, Typed, Mine
<1>3. op[b] \in Operation
  BY <1>1 DEF Recover, Standing, At, During, After, InHand, Rotates, Typed
<1>4. /\ pc[p] = "recover" /\ pc'[p] \in {"terminal", "recheck"}
      /\ pc'[p] = "terminal" =>
           /\ op[b].actor /\ ~op[b].terminal /\ op[b].phase = "prepared"
           /\ native'[b].at = "none"
      /\ pc'[p] = "recheck" => (op[b].actor => op[b].terminal) /\ native'[b] = native[b]
      /\ native'[b].at # "gated"
      /\ native'[b].at = "running" => native[b].at = "running" /\ pc'[p] # "terminal"
      /\ call'[p] = call[p]
      /\ op[b] # None
      /\ op'[b] = op[b]
      /\ effects'[b] = effects[b]
      /\ receipt'[b] = receipt[b]
      /\ resv'[b] = resv[b]
      /\ sess'[b] = sess[b]
  BY <1>1, <1>3, AbsenceOK
     DEF Recover, Goto, Durable, Rotates, Typed, Standing, Mine, Call, NoGroup, Group,
         Sound, Named, Shaped, Operation
<1>5. Fits(p, b)
  <2>1. receipt'[b] \in Receipt \cup {None} /\ art' \in [Content -> Age]
    BY <1>1 DEF Recover, Durable, Rotates, Typed, Age
  <2>2. native'[b] \in Group
    BY <1>1, <1>3 DEF Recover, Rotates, Typed, Group, Operation, NoGroup
  <2>3. effects'[b] \in Nat
    BY <1>1, <1>4 DEF Recover, Rotates, Typed
  <2>4. resv'[b] \in Age /\ auth'[b] \in Age
    BY <1>1 DEF Recover, Durable, Rotates, Typed, Age
  <2> QED BY <1>1, <1>4, <2>1, <2>3, <2>4, <2>2, AbsenceOK
             DEF Fits, Standing, Rotates, Typed, Location, Busy, Mine
<1>6. Sound(b)'
  BY <1>1, <1>2, <1>4
     DEF Within, Standing, Sound, Shaped, Named, Whole, Mine, At, Before, During, After,
         InHand, Importing
<1>7. At(p, b)'
  BY <1>1, <1>2, <1>4
     DEF Within, Standing, Sound, Shaped, At, Before, During, After, InHand, Importing
<1> QED BY <1>1, <1>2, <1>5, <1>6, <1>7, WithinStep

\* Steps that read: what they find is still so when the call goes on.
LEMMA RecheckStep ==
  ASSUME Rotates, NEW p \in Process, NEW b \in Binding, Busy(p), Mine(p) = b, Recheck(p)
  PROVE  Rotates'
<1>1. Standing(p, b)
  BY Stands
<1>2. op[b] \in Operation /\ call' = [call EXCEPT ![p] = call[p]] /\ call[p] # None
  BY <1>1, AbsenceOK DEF Recheck, Standing, At, During, InHand, Rotates, Typed
<1>3. CASE op[b].phase = "imported"
  <2>1. pc' = [pc EXCEPT ![p] = "finalize"] /\ pc'[p] = "finalize" /\ pc[p] = "recheck"
    BY <1>3 DEF Recheck, Goto, Mine, Rotates, Typed
  <2>2. At(p, b)'
    BY <1>1, <1>2, <1>3, <2>1
       DEF Recheck, Durable, World, Standing, At, Before, During, After, InHand, Importing
  <2> QED BY <1>1, <1>2, <2>1, <2>2, ThinkingStep
             DEF Recheck, Durable, World, Location, Standing, Mine
<1>4. CASE op[b].phase # "imported"
  <2>1. pc' = [pc EXCEPT ![p] = "resume"] /\ pc'[p] = "resume" /\ pc[p] = "recheck"
    BY <1>4 DEF Recheck, Goto, Mine, Rotates, Typed
  <2>2. At(p, b)'
    BY <1>1, <1>2, <1>4, <2>1
       DEF Recheck, Durable, World, Standing, At, Before, During, After, InHand, Importing,
           Operation
  <2> QED BY <1>1, <1>2, <2>1, <2>2, ThinkingStep
             DEF Recheck, Durable, World, Location, Standing, Mine
<1> QED BY <1>3, <1>4

LEMMA ObserveStep ==
  ASSUME Rotates, NEW p \in Process, NEW b \in Binding, Busy(p), Mine(p) = b, Observe(p)
  PROVE  Rotates'
<1>1. Standing(p, b)
  BY Stands
<1>2. PICK id \in {i \in Id : sess[b][i] # None} \cup {None} :
        /\ call' = [call EXCEPT ![p].found = id]
        /\ pc' = [pc EXCEPT ![p] = IF id = None THEN "settle" ELSE "preserve"]
  BY DEF Observe, Learn, Goto, Mine
<1>3. pc[p] = "observe"
  BY DEF Observe
<1>4. PICK c \in Call : call' = [call EXCEPT ![p] = c] /\ c.binding = b
  <2>1. [call[p] EXCEPT !.found = id] \in Call /\ [call[p] EXCEPT !.found = id].binding = b
    BY <1>1 DEF Standing, Call, Mine
  <2>2. call' = [call EXCEPT ![p] = [call[p] EXCEPT !.found = id]]
    BY <1>2
  <2> QED BY <2>1, <2>2
<1>5. PICK l \in {"settle", "preserve"} : pc' = [pc EXCEPT ![p] = l] /\ pc'[p] = l
  BY <1>2 DEF Rotates, Typed
<1>6. At(p, b)'
  BY <1>1, <1>3, <1>5
     DEF Observe, Durable, World, Standing, At, Before, During, After, InHand, Importing
<1> QED BY <1>1, <1>3, <1>4, <1>5, <1>6, AbsenceOK, ThinkingStep
           DEF Observe, Durable, World, Location

LEMMA FinalizeStep ==
  ASSUME Rotates, NEW p \in Process, NEW b \in Binding, Busy(p), Mine(p) = b, Finalize(p)
  PROVE  Rotates'
<1>1. Standing(p, b)
  BY Stands
<1>2. pc[p] = "finalize" /\ pc' = [pc EXCEPT ![p] = "receipt"] /\ pc'[p] = "receipt"
  BY DEF Finalize, Goto, Rotates, Typed
<1>3. Selection(p) = route /\ route \in Route
  BY DEF Finalize, Selection, Rotates, Typed
<1>4. PICK c \in Call : call' = [call EXCEPT ![p] = c] /\ c.binding = b /\ c.settled = route
  <2> DEFINE d == [call[p] EXCEPT !.settled = route]
  <2>1. d \in Call /\ d.binding = b /\ d.settled = route
    BY <1>1, <1>3 DEF Standing, Call, Mine
  <2>2. call' = [call EXCEPT ![p] = d]
    BY <1>3 DEF Finalize, Learn
  <2> HIDE DEF d
  <2> QED BY <2>1, <2>2
<1>5. At(p, b)'
  <2>1. call'[p] = c
    BY <1>4 DEF Rotates, Typed
  <2> QED BY <1>1, <1>2, <1>4, <2>1
             DEF Finalize, Durable, World, Standing, At, Before, During, After, InHand,
                 Importing
<1> QED BY <1>1, <1>2, <1>4, <1>5, AbsenceOK, ThinkingStep
           DEF Finalize, Durable, World, Location

\* A retry that finds the receipt returns; the rest of the calls' bookkeeping.
LEMMA ReplayStep ==
  ASSUME Rotates, NEW p \in Process, NEW b \in Binding, Busy(p), Mine(p) = b, Replay(p)
  PROVE  Rotates'
<1>1. Standing(p, b)
  BY Stands
<1>2. /\ pc[p] = "replay" /\ p \in DOMAIN pc /\ p \in DOMAIN call
      /\ UNCHANGED <<auth, resv, op, receipt, art, sess, native, route, effects>>
      /\ call[p] \in Call /\ call[p].binding = b
  BY <1>1 DEF Replay, Durable, World, Standing, Rotates, Typed, Mine
<1>3. CASE receipt[b] # None
  <2>1. pc' = [pc EXCEPT ![p] = "idle"] /\ call' = [call EXCEPT ![p] = None]
    BY <1>3 DEF Replay, Goto, Return
  <2> QED BY <1>1, <1>2, <2>1, ThinkingStep DEF Location
<1>4. CASE receipt[b] = None
  <2> DEFINE to == IF op[b] # None THEN "recover" ELSE "reserve"
  <2>0. pc' = [pc EXCEPT ![p] = to] /\ call' = call
    BY <1>4 DEF Replay, Goto
  <2>1. PICK l : l = to
    OBVIOUS
  <2>2. call' = [call EXCEPT ![p] = call[p]] /\ call[p] # None
    BY <1>1, <2>0, AbsenceOK DEF Standing, Rotates, Typed
  <2>3. /\ pc' = [pc EXCEPT ![p] = l] /\ pc'[p] = l /\ call'[p] = call[p]
        /\ l \in {"recover", "reserve"}
    BY <1>2, <2>0, <2>1
  <2>4. At(p, b)'
    BY <1>1, <1>2, <1>4, <2>1, <2>3
       DEF Standing, At, Before, During, After, InHand, Importing
  <2> HIDE DEF to
  <2> QED BY <1>1, <1>2, <2>2, <2>3, <2>4, ThinkingStep DEF Location
<1> QED BY <1>3, <1>4

LEMMA HandoffStep ==
  ASSUME Rotates, NEW p \in Process, NEW b \in Binding, Busy(p), Mine(p) = b, Handoff(p)
  PROVE  Rotates'
<1>1. Standing(p, b)
  BY Stands
<1>2. OthersUntouched(p, b) /\ (pc'[p] # "idle" => call'[p].binding = b)
  BY <1>1
     DEF Handoff, OthersUntouched, Goto, World, Standing, Rotates, Typed, Mine, Call, Age
<1>3. Typed'
  BY <1>1
     DEF Handoff, Goto, World, Standing, Rotates, Typed, Busy, Mine, Call, Location, Age
<1>4. Sound(b)'
  BY <1>1
     DEF Handoff, Goto, World, Standing, Rotates, Typed, Mine, Call, Sound, Shaped, Named,
         Whole, At, Before, During, After, InHand, Importing
<1>5. pc'[p] # "idle" => At(p, b)'
  BY <1>1
     DEF Handoff, Goto, World, Standing, Rotates, Typed, Mine, Call, Sound, Shaped, Named,
         At, Before, During, After, InHand, Importing
<1> QED BY <1>1, <1>2, <1>3, <1>4, <1>5, OwnStep

LEMMA SettleStep ==
  ASSUME Rotates, NEW p \in Process, NEW b \in Binding, Busy(p), Mine(p) = b, Settle(p)
  PROVE  Rotates'
<1>1. Standing(p, b)
  BY Stands
<1>2. OthersUntouched(p, b) /\ (pc'[p] # "idle" => call'[p].binding = b)
  BY <1>1
     DEF Settle, OthersUntouched, Goto, Durable, Standing, Rotates, Typed, Mine, Call,
         NoGroup, Group
<1>3. Typed'
  BY <1>1
     DEF Settle, Goto, Durable, Standing, Rotates, Typed, Busy, Mine, Call, Location,
         NoGroup, Group
<1>4. Sound(b)'
  BY <1>1
     DEF Settle, Goto, Durable, Standing, Rotates, Typed, Mine, Call, Sound, Shaped, Named,
         Whole, At, Before, During, After, InHand, Importing, NoGroup
<1>5. pc'[p] # "idle" => At(p, b)'
  BY <1>1
     DEF Settle, Goto, Durable, Standing, Rotates, Typed, Mine, Call, Sound, Shaped, Named,
         At, Before, During, After, InHand, Importing, NoGroup
<1> QED BY <1>1, <1>2, <1>3, <1>4, <1>5, OwnStep

LEMMA RetireStep ==
  ASSUME Rotates, NEW p \in Process, NEW b \in Binding, Busy(p), Mine(p) = b, Retire(p)
  PROVE  Rotates'
<1>1. Standing(p, b)
  BY Stands
<1>2. OthersUntouched(p, b) /\ (pc'[p] # "idle" => call'[p].binding = b)
  BY <1>1 DEF Retire, OthersUntouched, Goto, Standing, Rotates, Typed, Mine, Call
<1>3. Typed'
  BY <1>1 DEF Retire, Goto, Standing, Rotates, Typed, Busy, Mine, Call, Location
<1>4. Sound(b)'
  BY <1>1
     DEF Retire, Goto, Standing, Rotates, Typed, Mine, Call, Sound, Shaped, Named, Whole,
         At, Before, During, After, InHand, Importing
<1>5. pc'[p] # "idle" => At(p, b)'
  BY <1>1
     DEF Retire, Goto, Standing, Rotates, Typed, Mine, Call, Sound, Shaped, Named, At,
         Before, During, After, InHand, Importing
<1> QED BY <1>1, <1>2, <1>3, <1>4, <1>5, OwnStep

LEMMA RevokeStep ==
  ASSUME Rotates, NEW p \in Process, NEW b \in Binding, Busy(p), Mine(p) = b, Revoke(p)
  PROVE  Rotates'
<1>1. Standing(p, b)
  BY Stands
<1>2. OthersUntouched(p, b) /\ (pc'[p] # "idle" => call'[p].binding = b)
  BY <1>1
     DEF Revoke, OthersUntouched, Goto, Return, World, Standing, Rotates, Typed, Mine, Call,
         Age
<1>3. Typed'
  BY <1>1
     DEF Revoke, Goto, Return, World, Standing, Rotates, Typed, Busy, Mine, Call, Location,
         Age
<1>4. Sound(b)'
  BY <1>1
     DEF Revoke, Goto, Return, World, Standing, Rotates, Typed, Mine, Call, Sound, Shaped,
         Named, Whole, At, Before, During, After, InHand, Importing
<1>5. pc'[p] # "idle" => At(p, b)'
  BY <1>1
     DEF Revoke, Goto, Return, World, Standing, Rotates, Typed, Mine, Call, Sound, Shaped,
         Named, At, Before, During, After, InHand, Importing
<1> QED BY <1>1, <1>2, <1>3, <1>4, <1>5, OwnStep

\* A call that fails or dies leaves an import that may act named.
LEMMA FailStep ==
  ASSUME Rotates, NEW p \in Process, NEW b \in Binding, Busy(p), Mine(p) = b, Fail(p)
  PROVE  Rotates'
<1>1. Standing(p, b)
  BY Stands
<1>2. OthersUntouched(p, b) /\ (pc'[p] # "idle" => call'[p].binding = b)
  BY <1>1
     DEF Fail, OthersUntouched, Goto, Return, Standing, Rotates, Typed, Mine, Call, Age,
         NoGroup, Group, Forfeits
<1>3. Typed'
  BY <1>1
     DEF Fail, Goto, Return, Standing, Rotates, Typed, Busy, Mine, Call, Location, Age,
         NoGroup, Group, Forfeits
<1>4. Sound(b)'
  BY <1>1
     DEF Fail, Goto, Return, Standing, Rotates, Typed, Mine, Call, Sound, Shaped, Named,
         Whole, At, Before, During, After, InHand, Importing, NoGroup, Group
<1>5. pc'[p] # "idle" => At(p, b)'
  BY <1>1
     DEF Fail, Goto, Return, Standing, Rotates, Typed, Mine, Call, Sound, Shaped, Named, At,
         Before, During, After, InHand, Importing, NoGroup
<1> QED BY <1>1, <1>2, <1>3, <1>4, <1>5, OwnStep

LEMMA CrashStep ==
  ASSUME Rotates, NEW p \in Process, NEW b \in Binding, Busy(p), Mine(p) = b, Crash(p)
  PROVE  Rotates'
<1>1. Standing(p, b)
  BY Stands
<1>2. OthersUntouched(p, b) /\ (pc'[p] # "idle" => call'[p].binding = b)
  BY <1>1
     DEF Crash, OthersUntouched, Goto, Return, Durable, Standing, Rotates, Typed, Mine,
         Call, NoGroup, Group
<1>3. Typed'
  BY <1>1
     DEF Crash, Goto, Return, Durable, Standing, Rotates, Typed, Busy, Mine, Call, Location,
         NoGroup, Group
<1>4. Sound(b)'
  BY <1>1
     DEF Crash, Goto, Return, Durable, Standing, Rotates, Typed, Mine, Call, Sound, Shaped,
         Named, Whole, At, Before, During, After, InHand, Importing, NoGroup, Group
<1>5. pc'[p] # "idle" => At(p, b)'
  BY <1>1
     DEF Crash, Goto, Return, Durable, Standing, Rotates, Typed, Mine, Call, Sound, Shaped,
         Named, At, Before, During, After, InHand, Importing, NoGroup
<1> QED BY <1>1, <1>2, <1>3, <1>4, <1>5, OwnStep

\* A retry with an actor validates, and keeps a target already reported; one without imports.
LEMMA ResumeStep ==
  ASSUME Rotates, NEW p \in Process, NEW b \in Binding, Busy(p), Mine(p) = b, Resume(p)
  PROVE  Rotates'
<1>1. Standing(p, b)
  BY Stands
<1>2. Within(p, b)
  BY DEF Resume, Within, Goto, World, Rotates, Typed, Mine
<1>3. op[b] \in Operation /\ pc[p] = "resume" /\ op[b].phase = "prepared"
  BY <1>1 DEF Resume, Standing, At, During, InHand, Rotates, Typed
<1>4. UNCHANGED <<auth, resv, receipt, art, sess, native, effects, route>>
  BY DEF Resume, World
<1>5. CASE op[b].actor
  <2>1. pc'[p] = "validate" /\ op[b].terminal
    BY <1>5 DEF Resume, Goto, Mine, Rotates, Typed
  <2>2. Expected(p) \in Id
    BY <1>1, <1>3 DEF Expected, Standing, Call, Operation, Mine, Id
  <2>3. call'[p] \in Call /\ call'[p].binding = b /\ call'[p].found \in Id
    <3>1. call'[p] = [call[p] EXCEPT !.found = Expected(p), !.recovery = None]
      BY <1>5 DEF Resume, Mine, Rotates, Typed
    <3> QED BY <1>1, <2>2, <3>1 DEF Standing, Call, Mine
  <2>4. /\ op'[b] \in Operation /\ op'[b] # None
        /\ op'[b].phase = "prepared" /\ op'[b].actor /\ op'[b].terminal
        /\ op'[b].artifact = op[b].artifact /\ op'[b].target = op[b].target
    <3>1. op'[b] = op[b] \/ op'[b] = [op[b] EXCEPT !.candidate = call[p].recovery]
      BY <1>5 DEF Resume, Mine, Rotates, Typed
    <3>2. op'[b] \in Operation
      BY <1>1, <1>3, <3>1 DEF Operation, Standing, Call
    <3> QED BY <1>3, <1>5, <2>1, <3>1, <3>2, AbsenceOK DEF Operation
  <2>5. Fits(p, b)
    BY <1>1, <1>4, <2>1, <2>3, <2>4, AbsenceOK DEF Fits, Standing, Rotates, Typed, Location
  <2>6. Sound(b)'
    BY <1>1, <1>3, <1>4, <2>1, <2>4
       DEF Standing, Sound, Shaped, Named, Whole, At, During, InHand
  <2>7. At(p, b)'
    BY <1>1, <1>3, <1>4, <2>1, <2>3, <2>4
       DEF Standing, At, Before, During, After, InHand, Importing
  <2> QED BY <1>2, <2>5, <2>6, <2>7, WithinStep
<1>6. CASE ~op[b].actor
  <2>1. pc'[p] = "admit" /\ pc' = [pc EXCEPT ![p] = "admit"] /\ UNCHANGED <<call, op>>
    BY <1>6 DEF Resume, Goto, Mine, Rotates, Typed
  <2>2. At(p, b)'
    BY <1>1, <1>3, <1>4, <1>6, <2>1
       DEF Standing, At, Before, During, After, InHand, Importing
  <2>3. call' = [call EXCEPT ![p] = call[p]] /\ call[p] # None
    BY <1>1, <2>1, AbsenceOK DEF Standing, Rotates, Typed
  <2> QED BY <1>1, <1>3, <1>4, <2>1, <2>2, <2>3, ThinkingStep DEF Location, Standing, Mine
<1> QED BY <1>5, <1>6

\* The end of the actor is recorded before its report is used.
LEMMA ConcludeStep ==
  ASSUME Rotates, NEW p \in Process, NEW b \in Binding, Busy(p), Mine(p) = b, Conclude(p)
  PROVE  Rotates'
<1>1. Standing(p, b)
  BY Stands
<1>2. Within(p, b)
  BY DEF Conclude, Within, Goto, Return, World, Rotates, Typed, Mine
<1>3. op[b] \in Operation /\ pc[p] = "conclude"
  BY <1>1 DEF Conclude, Standing, At, During, InHand, Rotates, Typed
<1>4. UNCHANGED <<auth, resv, receipt, art, sess, native, effects, route>>
  BY DEF Conclude, World
<1>5. /\ op'[b] \in Operation /\ op'[b] # None
      /\ op'[b].phase = op[b].phase /\ op'[b].actor = op[b].actor /\ op'[b].terminal
      /\ op'[b].candidate = op[b].candidate
      /\ op'[b].artifact = op[b].artifact /\ op'[b].target = op[b].target
  <2>1. op'[b] = [op[b] EXCEPT !.terminal = TRUE]
    BY DEF Conclude, Mine, Rotates, Typed
  <2>2. op'[b] \in Operation
    BY <1>3, <2>1 DEF Operation
  <2> QED BY <1>3, <2>1, <2>2, AbsenceOK DEF Operation
<1>6. \/ pc'[p] = "idle" /\ call'[p] = None
      \/ pc'[p] = "validate" /\ call'[p] = call[p] /\ call[p].found # None
  BY DEF Conclude, Goto, Return, Mine, Rotates, Typed
<1>7. Fits(p, b)
  BY <1>1, <1>4, <1>5, <1>6, AbsenceOK DEF Fits, Standing, Rotates, Typed, Location, Mine
<1>8. Sound(b)'
  BY <1>1, <1>3, <1>4, <1>5
     DEF Standing, Sound, Shaped, Named, Whole, At, During, InHand, Importing
<1>9. pc'[p] # "idle" => At(p, b)'
  BY <1>1, <1>3, <1>4, <1>5, <1>6
     DEF Standing, At, Before, During, After, InHand, Importing, Call
<1> QED BY <1>2, <1>7, <1>8, <1>9, WithinStep

\* The receipt repeats the operation, and the selection checked under the same lock.
LEMMA WriteReceiptStep ==
  ASSUME Rotates, NEW p \in Process, NEW b \in Binding, Busy(p), Mine(p) = b,
         WriteReceipt(p)
  PROVE  Rotates'
<1>1. Standing(p, b)
  BY Stands
<1>2. Within(p, b)
  BY DEF WriteReceipt, Within, Goto, World, Rotates, Typed, Mine
<1>3. op[b] \in Operation /\ pc[p] = "receipt" /\ op[b].phase = "imported"
  BY <1>1 DEF WriteReceipt, Standing, At, During, After, InHand, Rotates, Typed
<1>4. UNCHANGED <<auth, resv, op, art, sess, native, effects, route>>
  BY DEF WriteReceipt, World
<1>5. /\ receipt'[b] \in Receipt /\ receipt'[b] # None
      /\ receipt'[b].target = op[b].target /\ receipt'[b].artifact = op[b].artifact
  <2>1. receipt'[b] = [target |-> op[b].target, artifact |-> op[b].artifact,
                       selection |-> call[p].settled, age |-> "kept"]
    BY DEF WriteReceipt, Mine, Rotates, Typed
  <2>2. op[b].target \in Id /\ op[b].artifact \in Content /\ call[p].settled \in Route
    BY <1>1, <1>3, AbsenceOK
       DEF Standing, Sound, Shaped, At, After, Operation, Rotates, Typed
  <2>3. receipt'[b] \in Receipt
    BY <2>1, <2>2 DEF Receipt
  <2> QED BY <2>1, <2>3, AbsenceOK
<1>6. pc'[p] = "retire"
  BY DEF WriteReceipt, Goto, Rotates, Typed
<1>7. call'[p] \in Call /\ call'[p].binding = b
  <2>1. call'[p] = [call[p] EXCEPT !.settled = None, !.repair = None]
    BY DEF WriteReceipt, Rotates, Typed
  <2> QED BY <1>1, <2>1 DEF Standing, Call, Mine
<1>8. Fits(p, b)
  BY <1>1, <1>4, <1>5, <1>6, <1>7, AbsenceOK DEF Fits, Standing, Rotates, Typed, Location
<1>9. Sound(b)' /\ At(p, b)'
  <2>1. Sound(b)'
    BY <1>1, <1>3, <1>4, <1>5, <1>6
       DEF Standing, Sound, Shaped, Named, Whole, At, During, After, InHand
  <2>2. At(p, b)'
    BY <1>1, <1>3, <1>4, <1>5, <1>6
       DEF Standing, At, Before, During, After, InHand, Importing
  <2> QED BY <2>1, <2>2
<1> QED BY <1>2, <1>8, <1>9, WithinStep

-----------------------------------------------------------------------------
(***************************************************************************)
(* The steps that run the maintenance, and those of the world              *)
(***************************************************************************)

\* A step that neither moves a call nor tells it anything.
LEMMA WorldStep ==
  ASSUME Rotates, UNCHANGED <<pc, call>>, Typed', \A x \in Binding : Sound(x)',
         \A q \in Process, x \in Binding : Busy(q) /\ Mine(q) = x => At(q, x)'
  PROVE  Rotates'
BY DEF Rotates, Exclusive, Located, Busy, Mine

\* A reservation runs the maintenance, which takes nothing from a call under way.
LEMMA ReserveStep ==
  ASSUME Rotates, NEW p \in Process, NEW b \in Binding, Busy(p), Mine(p) = b, Reserve(p)
  PROVE  Rotates'
<1>1. Standing(p, b) /\ pc[p] = "reserve"
  BY Stands DEF Reserve
<1>2. /\ CapacityFree /\ Maintain(b) /\ resv' = Reserved(b) /\ auth' = Stale(b)
      /\ pc' = [pc EXCEPT ![p] = "export"] /\ UNCHANGED <<call, sess, native, route, effects>>
  BY DEF Reserve, Goto, World
<1>3. \A q \in Process : q # p => pc'[q] = pc[q]
  BY <1>2 DEF Rotates, Typed
<1>4. pc'[p] = "export"
  BY <1>2 DEF Rotates, Typed
<1>5. KeptReservations(b) \in [Binding -> Age]
  BY <1>2, MaintainTyped DEF Rotates
<1>6. Typed'
  <2>1. auth' \in [Binding -> Age]
    BY <1>2 DEF Stale, Rotates, Typed, Age
  <2>2. resv' \in [Binding -> Age]
    BY <1>2, <1>5 DEF Reserved, Age
  <2>3. pc' \in [Process -> Location] /\ \A q \in Process : pc'[q] = "idle" <=> call'[q] = None
    BY <1>1, <1>2, <1>3, <1>4 DEF Rotates, Typed, Location
  <2>4. /\ receipt' \in [Binding -> Receipt \cup {None}]
        /\ op' \in [Binding -> Operation \cup {None}] /\ art' \in [Content -> Age]
    BY <1>2, MaintainTyped DEF Rotates
  <2> QED BY <1>2, <2>1, <2>2, <2>3, <2>4 DEF Rotates, Typed
<1>7. Exclusive'
  BY <1>1, <1>2, <1>3 DEF Rotates, Exclusive, Busy, Mine
<1>8. \A x \in Binding : Sound(x)'
  BY <1>1, <1>2, <1>3, MaintainSound
<1>9. ASSUME NEW q \in Process, NEW x \in Binding, Busy(q)', Mine(q)' = x
      PROVE  At(q, x)'
  <2>1. CASE q = p
    <3>1. x = b /\ op[b] = None /\ receipt[b] = None
      BY <1>1, <1>2, <1>9, <2>1 DEF Standing, At, Before, Mine
    <3>2. op'[b] = None
      BY <1>2, <3>1, MaintainRemoves
    <3>3. receipt'[b] = None
      BY <1>2, <3>1, MaintainRemoves
    <3>4. resv'[b] # "absent"
      BY <1>2, <1>5 DEF Reserved
    <3> QED BY <1>4, <2>1, <3>1, <3>2, <3>3, <3>4
               DEF At, Before, During, After, InHand, Importing
  <2>2. CASE q # p
    <3>1. Busy(q) /\ Mine(q) = x /\ x # b
      BY <1>2, <1>3, <1>9, <2>2 DEF Busy, Mine, Rotates, Exclusive
    <3>2. resv'[x] = KeptReservations(b)[x]
      BY <1>2, <1>5, <3>1 DEF Reserved
    <3> QED BY <1>2, <1>3, <2>2, <3>1, <3>2, MaintainLocated
  <2> QED BY <2>1, <2>2
<1> QED BY <1>6, <1>7, <1>8, <1>9 DEF Rotates, Located

\* A refusal keeps the maintenance it ran.
LEMMA RefusedStep ==
  ASSUME Rotates, NEW p \in Process, NEW b \in Binding, Busy(p), Mine(p) = b, Refused(p)
  PROVE  Rotates'
<1>1. Standing(p, b) /\ pc[p] = "reserve"
  BY Stands DEF Refused
<1>2. /\ CapacityFree /\ Maintain(b) /\ resv' = KeptReservations(b)
      /\ pc' = [pc EXCEPT ![p] = "idle"] /\ call' = [call EXCEPT ![p] = None]
      /\ UNCHANGED <<auth, sess, native, route, effects>>
  BY DEF Refused, OverCapacity, Return, Goto, World
<1>3. \A q \in Process : q # p => pc'[q] = pc[q] /\ call'[q] = call[q]
  BY <1>2 DEF Rotates, Typed
<1>4. pc'[p] = "idle" /\ call'[p] = None
  BY <1>2 DEF Rotates, Typed
<1>5. Typed'
  <2>1. pc' \in [Process -> Location] /\ call' \in [Process -> Call \cup {None}]
    BY <1>2 DEF Rotates, Typed, Location
  <2>2. \A q \in Process : pc'[q] = "idle" <=> call'[q] = None
    BY <1>3, <1>4 DEF Rotates, Typed
  <2>3. /\ receipt' \in [Binding -> Receipt \cup {None}]
        /\ op' \in [Binding -> Operation \cup {None}] /\ art' \in [Content -> Age]
        /\ resv' \in [Binding -> Age]
    BY <1>2, MaintainTyped DEF Rotates
  <2> QED BY <1>2, <2>1, <2>2, <2>3 DEF Rotates, Typed
<1>6. Exclusive'
  BY <1>3, <1>4 DEF Rotates, Exclusive, Busy, Mine
<1>7. \A x \in Binding : Sound(x)'
  BY <1>1, <1>2, <1>3, MaintainSound
<1>8. ASSUME NEW q \in Process, NEW x \in Binding, Busy(q)', Mine(q)' = x
      PROVE  At(q, x)'
  <2>1. q # p /\ Busy(q) /\ Mine(q) = x
    BY <1>3, <1>4, <1>8 DEF Busy, Mine
  <2> QED BY <1>2, <1>3, <2>1, MaintainLocated
<1> QED BY <1>5, <1>6, <1>7, <1>8 DEF Rotates, Located

\* An assessment is maintenance and an authorization.
LEMMA AssessStep ==
  ASSUME Rotates, NEW p \in Process, NEW b \in Binding, Assess(p, b)
  PROVE  Rotates'
<1>1. /\ CapacityFree /\ Maintain(b) /\ resv' = KeptReservations(b)
      /\ UNCHANGED <<pc, call, sess, native, route, effects>>
  BY DEF Assess, World
<1>2. auth' \in [Binding -> Age]
  BY DEF Assess, Decided, Stale, Rotates, Typed, Age
<1>3. Typed'
  <2>1. /\ receipt' \in [Binding -> Receipt \cup {None}]
        /\ op' \in [Binding -> Operation \cup {None}] /\ art' \in [Content -> Age]
        /\ resv' \in [Binding -> Age]
    BY <1>1, MaintainTyped DEF Rotates
  <2> QED BY <1>1, <1>2, <2>1 DEF Rotates, Typed
<1> QED BY <1>1, <1>3, MaintainStep

LEMMA AssessRefusedStep ==
  ASSUME Rotates, NEW p \in Process, NEW b \in Binding, AssessRefused(p, b)
  PROVE  Rotates'
<1>1. /\ CapacityFree /\ Maintain(b) /\ resv' = KeptReservations(b)
      /\ UNCHANGED <<auth, pc, call, sess, native, route, effects>>
  BY DEF AssessRefused, OverCapacity, World
<1>2. Typed'
  <2>1. /\ receipt' \in [Binding -> Receipt \cup {None}]
        /\ op' \in [Binding -> Operation \cup {None}] /\ art' \in [Content -> Age]
        /\ resv' \in [Binding -> Age]
    BY <1>1, MaintainTyped DEF Rotates
  <2> QED BY <1>1, <2>1 DEF Rotates, Typed
<1> QED BY <1>1, <1>2, MaintainStep

\* A call starts where no other is under way.
LEMMA MaterializeStep ==
  ASSUME Rotates, NEW p \in Process, NEW b \in Binding, Materialize(p, b)
  PROVE  Rotates'
<1>1. PICK c \in Call : call' = [call EXCEPT ![p] = c] /\ c.binding = b
  <2>1. PICK recovery \in Id \cup {None}, repair \in Id \cup {None} :
          call' = [call EXCEPT ![p] = NewCall(b, recovery, repair)]
    BY DEF Materialize
  <2>2. NewCall(b, recovery, repair) \in Call /\ NewCall(b, recovery, repair).binding = b
    BY DEF NewCall, Call
  <2> QED BY <2>1, <2>2
<1>2. /\ pc' = [pc EXCEPT ![p] = "replay"] /\ pc[p] = "idle" /\ BindingFree(b)
      /\ UNCHANGED <<auth, resv, op, receipt, art, sess, native, route, effects>>
  BY DEF Materialize, Goto, Busy, Durable, World
<1>3. pc'[p] = "replay" /\ call'[p] = c
  BY <1>1, <1>2 DEF Rotates, Typed
<1>4. \A q \in Process : q # p => pc'[q] = pc[q] /\ call'[q] = call[q]
  BY <1>1, <1>2 DEF Rotates, Typed
<1>5. Typed'
  <2>1. pc' \in [Process -> Location] /\ call' \in [Process -> Call \cup {None}]
    BY <1>1, <1>2 DEF Rotates, Typed, Location
  <2>2. \A q \in Process : pc'[q] = "idle" <=> call'[q] = None
    BY <1>1, <1>3, <1>4, AbsenceOK DEF Rotates, Typed
  <2> QED BY <1>2, <2>1, <2>2 DEF Rotates, Typed
<1>6. Exclusive'
  BY <1>1, <1>2, <1>3, <1>4 DEF Rotates, Exclusive, Busy, Mine, BindingFree
<1>7. ASSUME NEW x \in Binding
      PROVE  Sound(x)'
  <2>1. Sound(x)
    BY DEF Rotates
  <2>2. native[x].at = "gated" => \E q \in Process : pc'[q] = "release" /\ Mine(q)' = x
    BY <1>2, <1>4, <2>1 DEF Sound, Named, Mine
  <2>3. Named(x)'
    BY <1>2, <2>1, <2>2 DEF Sound, Named
  <2> QED BY <1>2, <2>1, <2>3 DEF Sound, Shaped, Whole
<1>8. ASSUME NEW q \in Process, NEW x \in Binding, Busy(q)', Mine(q)' = x
      PROVE  At(q, x)'
  <2>1. CASE q = p
    BY <1>3, <2>1 DEF At, Before, During, After, InHand, Importing
  <2>2. CASE q # p
    <3>1. At(q, x)
      BY <1>4, <1>8, <2>2 DEF Rotates, Located, Busy, Mine
    <3> QED BY <1>2, <1>4, <2>2, <3>1 DEF At, Before, During, After
  <2> QED BY <2>1, <2>2
<1> QED BY <1>5, <1>6, <1>7, <1>8 DEF Rotates, Located

\* The native import writes only while its operation names it and is not yet imported.
LEMMA NativeImportsStep ==
  ASSUME Rotates, NEW b \in Binding, NativeImports(b)
  PROVE  Rotates'
<1>1. Typed'
  <2>1. PICK id \in Id, c \in {"partial", native[b].reads} :
          sess' = [sess EXCEPT ![b][id] = c]
    BY DEF NativeImports
  <2>2. c \in Content \cup {"partial", None}
    BY DEF Rotates, Typed, Group
  <2>3. sess' \in [Binding -> [Id -> Content \cup {"partial", None}]]
    BY <2>1, <2>2 DEF Rotates, Typed
  <2> QED BY <2>3 DEF Rotates, Typed, NativeImports, Durable
<1>2. ASSUME NEW x \in Binding
      PROVE  Sound(x)'
  <2>1. Sound(x)
    BY DEF Rotates
  <2> QED BY <2>1
             DEF NativeImports, Durable, Sound, Shaped, Named, Whole, Mine, Rotates, Typed
<1>3. ASSUME NEW q \in Process, NEW x \in Binding, Busy(q), Mine(q) = x
      PROVE  At(q, x)'
  <2>1. At(q, x)
    BY <1>3 DEF Rotates, Located
  <2> QED BY <1>3, <2>1
             DEF NativeImports, Durable, At, Before, During, After, Rotates, Typed
<1> QED BY <1>1, <1>2, <1>3, WorldStep DEF NativeImports, Durable

\* An import may end by itself.
LEMMA NativeEndsStep ==
  ASSUME Rotates, NEW b \in Binding, NativeEnds(b)
  PROVE  Rotates'
<1>1. Typed'
  BY DEF Rotates, Typed, NativeEnds, Durable, Group, NoGroup
<1>2. ASSUME NEW x \in Binding
      PROVE  Sound(x)'
  <2>1. Sound(x)
    BY DEF Rotates
  <2> QED BY <2>1
             DEF NativeEnds, Durable, Sound, Shaped, Named, Whole, Mine, Rotates, Typed,
                 NoGroup
<1>3. ASSUME NEW q \in Process, NEW x \in Binding, Busy(q), Mine(q) = x
      PROVE  At(q, x)'
  <2>1. At(q, x)
    BY <1>3 DEF Rotates, Located
  <2> QED BY <1>3, <2>1
             DEF NativeEnds, Durable, At, Before, During, After, Rotates, Typed, NoGroup
<1> QED BY <1>1, <1>2, <1>3, WorldStep DEF NativeEnds, Durable

\* The host imports by hand only where nothing was imported.
LEMMA HostImportsStep ==
  ASSUME Rotates, NEW b \in Binding, HostImports(b)
  PROVE  Rotates'
<1>1. Typed'
  BY DEF Rotates, Typed, HostImports, Durable, Operation, Id
<1>2. ASSUME NEW x \in Binding
      PROVE  Sound(x)'
  <2>1. Sound(x)
    BY DEF Rotates
  <2> QED BY <2>1
             DEF HostImports, Durable, Sound, Shaped, Named, Whole, Mine, Rotates, Typed
<1>3. ASSUME NEW q \in Process, NEW x \in Binding, Busy(q), Mine(q) = x
      PROVE  At(q, x)'
  <2>1. At(q, x)
    BY <1>3 DEF Rotates, Located
  <2> QED BY <1>3, <2>1 DEF HostImports, Durable, At, Before, During, After, Rotates, Typed
<1> QED BY <1>1, <1>2, <1>3, WorldStep DEF HostImports, Durable

\* Nothing that ages is what a call under way relies on.
LEMMA AuthorizationAgesStep ==
  ASSUME Rotates, NEW b \in Binding, AuthorizationAges(b)
  PROVE  Rotates'
<1>1. Typed'
  BY DEF Rotates, Typed, AuthorizationAges, World, Age
<1>2. ASSUME NEW x \in Binding
      PROVE  Sound(x)'
  <2>1. Sound(x)
    BY DEF Rotates
  <2> QED BY <2>1
             DEF AuthorizationAges, World, Sound, Shaped, Named, Whole, Mine, Rotates, Typed
<1>3. ASSUME NEW q \in Process, NEW x \in Binding, Busy(q), Mine(q) = x
      PROVE  At(q, x)'
  <2>1. At(q, x)
    BY <1>3 DEF Rotates, Located
  <2> QED BY <1>3, <2>1
             DEF AuthorizationAges, World, At, Before, During, After, Rotates, Typed
<1> QED BY <1>1, <1>2, <1>3, WorldStep DEF AuthorizationAges, World

LEMMA ReservationAgesStep ==
  ASSUME Rotates, NEW b \in Binding, ReservationAges(b)
  PROVE  Rotates'
<1>1. Typed'
  BY DEF Rotates, Typed, ReservationAges, World, Age
<1>2. ASSUME NEW x \in Binding
      PROVE  Sound(x)'
  <2>1. Sound(x)
    BY DEF Rotates
  <2> QED BY <2>1
             DEF ReservationAges, World, Sound, Shaped, Named, Whole, Mine, Rotates, Typed
<1>3. ASSUME NEW q \in Process, NEW x \in Binding, Busy(q), Mine(q) = x
      PROVE  At(q, x)'
  <2>1. At(q, x)
    BY <1>3 DEF Rotates, Located
  <2> QED BY <1>3, <2>1
             DEF ReservationAges, World, At, Before, During, After, Rotates, Typed
<1> QED BY <1>1, <1>2, <1>3, WorldStep DEF ReservationAges, World

LEMMA ReceiptAgesStep ==
  ASSUME Rotates, NEW b \in Binding, ReceiptAges(b)
  PROVE  Rotates'
<1>1. Typed'
  BY DEF Rotates, Typed, ReceiptAges, World, Receipt
<1>2. ASSUME NEW x \in Binding
      PROVE  Sound(x)'
  <2>1. Sound(x)
    BY DEF Rotates
  <2> QED BY <2>1
             DEF ReceiptAges, World, Sound, Shaped, Named, Whole, Mine, Rotates, Typed,
                 Receipt
<1>3. ASSUME NEW q \in Process, NEW x \in Binding, Busy(q), Mine(q) = x
      PROVE  At(q, x)'
  <2>1. At(q, x)
    BY <1>3 DEF Rotates, Located
  <2>2. receipt'[x] = None <=> receipt[x] = None
    <3>1. \A r \in Receipt : r # None /\ [r EXCEPT !.age = "expired"] # None
      <4>1. \A r \in Receipt : [r EXCEPT !.age = "expired"] \in Receipt
        BY DEF Receipt
      <4> QED BY <4>1, AbsenceOK
    <3>2. receipt[b] \in Receipt
      BY DEF ReceiptAges, Rotates, Typed
    <3> QED BY <3>1, <3>2 DEF ReceiptAges, Rotates, Typed
  <2> QED BY <1>3, <2>1, <2>2 DEF ReceiptAges, World, At, Before, During, After
<1> QED BY <1>1, <1>2, <1>3, WorldStep DEF ReceiptAges, World

LEMMA ArtifactAgesStep ==
  ASSUME Rotates, NEW c \in Content, ArtifactAges(c)
  PROVE  Rotates'
<1>1. Typed'
  BY DEF Rotates, Typed, ArtifactAges, World, Age
<1>2. ASSUME NEW x \in Binding
      PROVE  Sound(x)'
  <2>1. Sound(x)
    BY DEF Rotates
  <2> QED BY <2>1 DEF ArtifactAges, World, Sound, Shaped, Named, Whole, Mine, Rotates, Typed
<1>3. ASSUME NEW q \in Process, NEW x \in Binding, Busy(q), Mine(q) = x
      PROVE  At(q, x)'
  <2>1. At(q, x)
    BY <1>3 DEF Rotates, Located
  <2> QED BY <1>3, <2>1 DEF ArtifactAges, World, At, Before, During, After, Rotates, Typed
<1> QED BY <1>1, <1>2, <1>3, WorldStep DEF ArtifactAges, World

\* The host does not change its selection between the check and the receipt.
LEMMA ChangeRouteStep ==
  ASSUME Rotates, ChangeRoute
  PROVE  Rotates'
<1>1. Typed'
  BY DEF Rotates, Typed, ChangeRoute, Durable, Route
<1>2. ASSUME NEW x \in Binding
      PROVE  Sound(x)'
  <2>1. Sound(x)
    BY DEF Rotates
  <2> QED BY <2>1
             DEF ChangeRoute, Durable, Sound, Shaped, Named, Whole, Mine, Rotates, Typed
<1>3. ASSUME NEW q \in Process, NEW x \in Binding, Busy(q), Mine(q) = x
      PROVE  At(q, x)'
  <2>1. At(q, x)
    BY <1>3 DEF Rotates, Located
  <2> QED BY <1>3, <2>1
             DEF ChangeRoute, Durable, At, Before, During, After, Rotates, Typed,
                 SettingsFree, SettingsHeld
<1> QED BY <1>1, <1>2, <1>3, WorldStep DEF ChangeRoute, Durable

-----------------------------------------------------------------------------
(***************************************************************************)
(* The places                                                              *)
(***************************************************************************)

\* A union has no more elements than its parts.
LEMMA UnionBound ==
  ASSUME NEW A, NEW B, IsFiniteSet(A), IsFiniteSet(B)
  PROVE  IsFiniteSet(A \cup B) /\ Cardinality(A \cup B) <= Cardinality(A) + Cardinality(B)
<1>1. IsFiniteSet(A \cap B)
  BY FS_Subset
<1>2. /\ Cardinality(A) \in Nat /\ Cardinality(B) \in Nat /\ Cardinality(A \cap B) \in Nat
  BY <1>1, FS_CardinalityType
<1>3. /\ IsFiniteSet(A \cup B)
      /\ Cardinality(A \cup B) = Cardinality(A) + Cardinality(B) - Cardinality(A \cap B)
  BY FS_Union
<1> QED BY <1>2, <1>3

\* No step but a reservation takes a place.
LEMMA PlacesKept ==
  ASSUME Rotates, [Next]_vars, \A p \in Process : ~Reserve(p), NEW x \in Binding, x \in InUse'
  PROVE  x \in InUse
<1> USE DEF InUse
<1>1. ASSUME NEW p \in Process, Step(p) \/ Fail(p) \/ Crash(p)
      PROVE  x \in InUse
  <2>0. Busy(p) /\ Mine(p) \in Binding
    BY <1>1, MineIsBinding
       DEF Rotates, Busy, Step, Fail, Crash, Replay, Recover, RecordTerminal, Recheck,
           Resume, Reserve, Refused, Export, Prepare, Handoff, Admit, Release, Observe,
           Preserve, Settle, Conclude, Validate, Finalize, WriteReceipt, Retire, Revoke
  <2>1. CASE \/ Replay(p) \/ Recover(p) \/ Recheck(p) \/ Export(p) \/ Handoff(p)
             \/ Release(p) \/ Observe(p) \/ Settle(p) \/ Finalize(p) \/ Retire(p)
             \/ Revoke(p) \/ Fail(p) \/ Crash(p)
    BY <2>1, <2>0
       DEF Replay, Recover, Recheck, Export, Handoff, Release, Observe, Settle, Finalize,
           Retire, Revoke, Fail, Crash, Age, Durable, Rotates, Typed
  <2>2. CASE RecordTerminal(p)
    BY <2>2, <2>0, Stands
       DEF RecordTerminal, Standing, At, Before, During, InHand, Rotates, Typed
  <2>3. CASE Resume(p)
    BY <2>3, <2>0, Stands DEF Resume, Standing, At, Before, During, InHand, Rotates, Typed
  <2>4. CASE Reserve(p)
    BY <2>4
  <2>5. CASE Refused(p)
    BY <2>5
       DEF Refused, OverCapacity, Maintain, KeptReceipts, KeptOperations, KeptReservations
  <2>6. CASE Prepare(p)
    BY <2>6, <2>0, Stands DEF Prepare, Standing, At, Before, During, InHand, Rotates, Typed
  <2>7. CASE Admit(p)
    BY <2>7, <2>0, Stands DEF Admit, Standing, At, Before, During, InHand, Rotates, Typed
  <2>8. CASE Preserve(p)
    BY <2>8, <2>0, Stands DEF Preserve, Standing, At, Before, During, InHand, Rotates, Typed
  <2>9. CASE Conclude(p)
    BY <2>9, <2>0, Stands DEF Conclude, Standing, At, Before, During, InHand, Rotates, Typed
  <2>10. CASE Validate(p)
    BY <2>10, <2>0, Stands
       DEF Validate, Standing, At, Before, During, InHand, Rotates, Typed
  <2>11. CASE WriteReceipt(p)
    BY <2>11, <2>0, Stands
       DEF WriteReceipt, Standing, At, Before, During, InHand, Rotates, Typed
  <2> QED BY <1>1, <2>1, <2>2, <2>3, <2>4, <2>5, <2>6, <2>7, <2>8, <2>9, <2>10, <2>11
             DEF Step
<1>2. ASSUME NEW p \in Process, NEW b \in Binding,
             Assess(p, b) \/ AssessRefused(p, b) \/ Materialize(p, b)
      PROVE  x \in InUse
  <2>1. CASE Assess(p, b)
    BY <2>1 DEF Assess, Maintain, KeptReceipts, KeptOperations, KeptReservations
  <2>2. CASE AssessRefused(p, b)
    BY <2>2
       DEF AssessRefused, OverCapacity, Maintain, KeptReceipts, KeptOperations,
           KeptReservations
  <2>3. CASE Materialize(p, b)
    BY <2>3 DEF Materialize, Durable
  <2> QED BY <1>2, <2>1, <2>2, <2>3
<1>3. ASSUME NEW b \in Binding,
             NativeImports(b) \/ NativeEnds(b) \/ HostImports(b) \/ AuthorizationAges(b)
               \/ ReservationAges(b) \/ ReceiptAges(b)
      PROVE  x \in InUse
  <2>1. CASE \/ NativeImports(b) \/ NativeEnds(b) \/ HostImports(b)
             \/ AuthorizationAges(b) \/ ReservationAges(b) \/ ReceiptAges(b)
    BY <2>1
       DEF NativeImports, NativeEnds, HostImports, AuthorizationAges, ReservationAges,
           ReceiptAges, Age, Durable, Rotates, Typed
  <2> QED BY <1>3, <2>1
<1>4. ASSUME NEW c \in Content, ArtifactAges(c)
      PROVE  x \in InUse
  BY <1>4 DEF ArtifactAges, Rotates, Typed, Age
<1>5. CASE ChangeRoute
  BY <1>5 DEF ChangeRoute, Durable
<1>6. CASE UNCHANGED vars
  BY <1>6 DEF vars
<1> QED BY <1>1, <1>2, <1>3, <1>4, <1>5, <1>6 DEF Next

\* A reservation takes one when maintenance has left one.
LEMMA ReservePlaces ==
  ASSUME Rotates, Places, NEW p \in Process, NEW b \in Binding, Busy(p), Mine(p) = b, Reserve(p)
  PROVE  Places'
<1> DEFINE R == {x \in Binding : KeptReceipts(b)[x] # None}
           S == {x \in Binding : KeptReservations(b)[x] # "absent"}
           O == {x \in Binding : KeptOperations(b)[x] # None}
<1>1. /\ Maintain(b) /\ resv' = Reserved(b) /\ PlacesAfter(b) <= Cap
      /\ KeptReservations(b)[b] = "absent" => PlacesAfter(b) < Cap
  BY DEF Reserve
<1>2. R \subseteq InUse /\ S \subseteq InUse /\ O \subseteq InUse
  BY DEF InUse, KeptReceipts, KeptReservations, KeptOperations
<1>3. IsFiniteSet(R) /\ IsFiniteSet(S) /\ IsFiniteSet(O)
  BY <1>2, FS_Subset DEF Places
<1>4. PlacesAfter(b) = Cardinality(R) + Cardinality(S) + Cardinality(O)
  BY DEF PlacesAfter, Held
<1>5. KeptReservations(b) \in [Binding -> Age]
  BY <1>1, MaintainTyped DEF Rotates
<1>6. InUse' = R \cup O \cup (S \cup {b})
  <2>1. \A x \in Binding : resv'[x] # "absent" <=> x \in S \/ x = b
    BY <1>1, <1>5 DEF Reserved
  <2>2. \A x \in Binding : op'[x] = KeptOperations(b)[x] /\ receipt'[x] = KeptReceipts(b)[x]
    BY <1>1 DEF Maintain
  <2> QED BY <2>1, <2>2 DEF InUse
<1> HIDE DEF R, S, O
<1>7. /\ IsFiniteSet(S \cup {b}) /\ Cardinality(S) \in Nat
      /\ Cardinality(S \cup {b}) = IF b \in S THEN Cardinality(S) ELSE Cardinality(S) + 1
  BY <1>3, FS_AddElement, FS_CardinalityType
<1>8. IsFiniteSet(R \cup O) /\ Cardinality(R \cup O) <= Cardinality(R) + Cardinality(O)
  BY <1>3, UnionBound
<1>9. /\ IsFiniteSet(InUse')
      /\ Cardinality(InUse') <= Cardinality(R \cup O) + Cardinality(S \cup {b})
  BY <1>6, <1>7, <1>8, UnionBound
<1>10. b \in S \/ KeptReservations(b)[b] = "absent"
  BY DEF S
<1>11. /\ Cardinality(R) \in Nat /\ Cardinality(O) \in Nat /\ Cardinality(R \cup O) \in Nat
       /\ Cardinality(InUse') \in Nat /\ Cap \in Nat
  BY <1>3, <1>8, <1>9, FS_CardinalityType, ConstantsOK
<1> QED BY <1>1, <1>4, <1>7, <1>8, <1>9, <1>10, <1>11 DEF Places

\* There are never more rotations under way or kept than places.
LEMMA PlacesStep ==
  ASSUME IInv, [Next]_vars
  PROVE  Places'
<1>1. CASE \E p \in Process : Reserve(p)
  <2>1. PICK p \in Process : Reserve(p)
    BY <1>1
  <2>2. Busy(p) /\ Mine(p) \in Binding
    BY <2>1, MineIsBinding DEF Reserve, Busy, IInv, Rotates
  <2> QED BY <2>1, <2>2, ReservePlaces DEF IInv
<1>2. CASE \A p \in Process : ~Reserve(p)
  <2>1. InUse' \subseteq InUse
    BY <1>2, PlacesKept DEF IInv, InUse
  <2>2. IsFiniteSet(InUse') /\ Cardinality(InUse') <= Cardinality(InUse)
    BY <2>1, FS_Subset DEF IInv, Places
  <2>3. Cardinality(InUse) \in Nat /\ Cardinality(InUse') \in Nat /\ Cap \in Nat
    BY <2>2, FS_CardinalityType, ConstantsOK DEF IInv, Places
  <2> QED BY <2>2, <2>3 DEF IInv, Places
<1> QED BY <1>1, <1>2

\* Every step preserves what the invariant says of operations, imports and calls.
LEMMA RotatesStep ==
  ASSUME Rotates, [Next]_vars
  PROVE  Rotates'
<1>1. ASSUME NEW p \in Process, Step(p) \/ Fail(p) \/ Crash(p)
      PROVE  Rotates'
  <2>0. Busy(p) /\ Mine(p) \in Binding
    BY <1>1, MineIsBinding
       DEF Rotates, Busy, Step, Fail, Crash, Replay, Recover, RecordTerminal, Recheck,
           Resume, Reserve, Refused, Export, Prepare, Handoff, Admit, Release, Observe,
           Preserve, Settle, Conclude, Validate, Finalize, WriteReceipt, Retire, Revoke
  <2>1. CASE Replay(p)
    BY <2>1, <2>0, ReplayStep
  <2>2. CASE Recover(p)
    BY <2>2, <2>0, RecoverStep
  <2>3. CASE RecordTerminal(p)
    BY <2>3, <2>0, RecordTerminalStep
  <2>4. CASE Recheck(p)
    BY <2>4, <2>0, RecheckStep
  <2>5. CASE Resume(p)
    BY <2>5, <2>0, ResumeStep
  <2>6. CASE Reserve(p)
    BY <2>6, <2>0, ReserveStep
  <2>7. CASE Refused(p)
    BY <2>7, <2>0, RefusedStep
  <2>8. CASE Export(p)
    BY <2>8, <2>0, ExportStep
  <2>9. CASE Prepare(p)
    BY <2>9, <2>0, PrepareStep
  <2>10. CASE Handoff(p)
    BY <2>10, <2>0, HandoffStep
  <2>11. CASE Admit(p)
    BY <2>11, <2>0, AdmitStep
  <2>12. CASE Release(p)
    BY <2>12, <2>0, ReleaseStep
  <2>13. CASE Observe(p)
    BY <2>13, <2>0, ObserveStep
  <2>14. CASE Preserve(p)
    BY <2>14, <2>0, PreserveStep
  <2>15. CASE Settle(p)
    BY <2>15, <2>0, SettleStep
  <2>16. CASE Conclude(p)
    BY <2>16, <2>0, ConcludeStep
  <2>17. CASE Validate(p)
    BY <2>17, <2>0, ValidateStep
  <2>18. CASE Finalize(p)
    BY <2>18, <2>0, FinalizeStep
  <2>19. CASE WriteReceipt(p)
    BY <2>19, <2>0, WriteReceiptStep
  <2>20. CASE Retire(p)
    BY <2>20, <2>0, RetireStep
  <2>21. CASE Revoke(p)
    BY <2>21, <2>0, RevokeStep
  <2>22. CASE Fail(p)
    BY <2>22, <2>0, FailStep
  <2>23. CASE Crash(p)
    BY <2>23, <2>0, CrashStep
  <2> QED BY <1>1, <2>1, <2>2, <2>3, <2>4, <2>5, <2>6, <2>7, <2>8, <2>9, <2>10, <2>11,
             <2>12, <2>13, <2>14, <2>15, <2>16, <2>17, <2>18, <2>19, <2>20, <2>21, <2>22,
             <2>23
             DEF Step
<1>2. ASSUME NEW p \in Process, NEW b \in Binding,
             Assess(p, b) \/ AssessRefused(p, b) \/ Materialize(p, b)
      PROVE  Rotates'
  <2>1. CASE Assess(p, b)
    BY <2>1, AssessStep
  <2>2. CASE AssessRefused(p, b)
    BY <2>2, AssessRefusedStep
  <2>3. CASE Materialize(p, b)
    BY <2>3, MaterializeStep
  <2> QED BY <1>2, <2>1, <2>2, <2>3
<1>3. ASSUME NEW b \in Binding,
             NativeImports(b) \/ NativeEnds(b) \/ HostImports(b) \/ AuthorizationAges(b)
               \/ ReservationAges(b) \/ ReceiptAges(b)
      PROVE  Rotates'
  <2>1. CASE NativeImports(b)
    BY <2>1, NativeImportsStep
  <2>2. CASE NativeEnds(b)
    BY <2>2, NativeEndsStep
  <2>3. CASE HostImports(b)
    BY <2>3, HostImportsStep
  <2>4. CASE AuthorizationAges(b)
    BY <2>4, AuthorizationAgesStep
  <2>5. CASE ReservationAges(b)
    BY <2>5, ReservationAgesStep
  <2>6. CASE ReceiptAges(b)
    BY <2>6, ReceiptAgesStep
  <2> QED BY <1>3, <2>1, <2>2, <2>3, <2>4, <2>5, <2>6
<1>4. ASSUME NEW c \in Content, ArtifactAges(c)
      PROVE  Rotates'
  BY <1>4, ArtifactAgesStep
<1>5. CASE ChangeRoute
  BY <1>5, ChangeRouteStep
<1>6. CASE UNCHANGED vars
  BY <1>6
     DEF vars, Rotates, Typed, Exclusive, Sound, Shaped, Named, Whole, Located, At, Before,
         During, After, Busy, Mine
<1> QED BY <1>1, <1>2, <1>3, <1>4, <1>5, <1>6 DEF Next

-----------------------------------------------------------------------------
(***************************************************************************)
(* The theorems                                                            *)
(***************************************************************************)

\* Initially nothing is under way.
LEMMA InitInv == Init => IInv
<1> SUFFICES ASSUME Init PROVE IInv
  OBVIOUS
<1>1. Typed
  BY DEF Init, Typed, Age, NoGroup, Group, Route, Location
<1>2. Exclusive /\ Located
  BY DEF Init, Exclusive, Located, Busy
<1>3. \A b \in Binding : Sound(b)
  BY DEF Init, Sound, Shaped, Named, Whole, NoGroup
<1>4. Places
  <2>1. InUse = {}
    BY DEF Init, InUse
  <2> QED BY <2>1, FS_EmptySet, ConstantsOK DEF Places
<1> QED BY <1>1, <1>2, <1>3, <1>4 DEF IInv, Rotates

\* What a call knows at each place of the code, that locks exclude, and that operations,
\* imports and receipts belong together: in every reachable state.
THEOREM Invariant == Spec => []IInv
<1>1. IInv /\ [Next]_vars => IInv'
  BY RotatesStep, PlacesStep DEF IInv
<1> QED BY InitInv, <1>1, PTL DEF Spec

\* The variables keep their types, and no more rotations are under way or kept for replay
\* than there are places.
THEOREM TypeCorrect == Spec => []TypeOK
<1>1. IInv => TypeOK
  BY DEF IInv, Rotates, Places, TypeOK
<1> QED BY <1>1, Invariant, PTL

\* An authorization imports at most once, into one whole session, and no answer is built
\* while its import may still act.
THEOREM ImportExact == Spec => []ImportIsExact
<1>1. IInv => ImportIsExact
  BY DEF IInv, Rotates, Sound, Named, Whole, ImportIsExact, EffectIsNamed, ImportOnce,
         ImportedIsWhole
<1> QED BY <1>1, Invariant, PTL

\* A receipt that becomes durable holds the selection in force.
LEMMA ReceiptStep ==
  ASSUME Rotates, [Next]_vars, NEW x \in Binding,
         receipt'[x] # None, receipt'[x] # receipt[x], receipt'[x].age = "kept"
  PROVE  receipt'[x].selection = route'
<1>1. ASSUME NEW p \in Process, Step(p) \/ Fail(p) \/ Crash(p)
      PROVE  receipt'[x].selection = route'
  <2>0. Busy(p) /\ Mine(p) \in Binding
    BY <1>1, MineIsBinding
       DEF Rotates, Busy, Step, Fail, Crash, Replay, Recover, RecordTerminal, Recheck,
           Resume, Reserve, Refused, Export, Prepare, Handoff, Admit, Release, Observe,
           Preserve, Settle, Conclude, Validate, Finalize, WriteReceipt, Retire, Revoke
  <2>1. CASE \/ Replay(p) \/ Recover(p) \/ RecordTerminal(p) \/ Recheck(p) \/ Resume(p)
             \/ Export(p) \/ Prepare(p) \/ Handoff(p) \/ Admit(p) \/ Release(p)
             \/ Observe(p) \/ Preserve(p) \/ Settle(p) \/ Conclude(p) \/ Validate(p)
             \/ Finalize(p) \/ Retire(p) \/ Revoke(p) \/ Fail(p) \/ Crash(p)
    BY <2>1
       DEF Replay, Recover, RecordTerminal, Recheck, Resume, Export, Prepare, Handoff,
           Admit, Release, Observe, Preserve, Settle, Conclude, Validate, Finalize, Retire,
           Revoke, Fail, Crash, Durable
  <2>2. CASE Reserve(p)
    BY <2>2 DEF Reserve, Maintain, KeptReceipts
  <2>3. CASE Refused(p)
    BY <2>3 DEF Refused, OverCapacity, Maintain, KeptReceipts
  <2>4. CASE WriteReceipt(p)
    BY <2>4, <2>0, Stands DEF WriteReceipt, World, Standing, At, After, Rotates, Typed
  <2> QED BY <1>1, <2>1, <2>2, <2>3, <2>4 DEF Step
<1>2. ASSUME NEW p \in Process, NEW b \in Binding,
             Assess(p, b) \/ AssessRefused(p, b) \/ Materialize(p, b)
      PROVE  receipt'[x].selection = route'
  <2>1. CASE Assess(p, b)
    BY <2>1 DEF Assess, Maintain, KeptReceipts
  <2>2. CASE AssessRefused(p, b)
    BY <2>2 DEF AssessRefused, OverCapacity, Maintain, KeptReceipts
  <2>3. CASE Materialize(p, b)
    BY <2>3 DEF Materialize, Durable
  <2> QED BY <1>2, <2>1, <2>2, <2>3
<1>3. ASSUME NEW b \in Binding,
             NativeImports(b) \/ NativeEnds(b) \/ HostImports(b) \/ AuthorizationAges(b)
               \/ ReservationAges(b) \/ ReceiptAges(b)
      PROVE  receipt'[x].selection = route'
  <2>1. CASE \/ NativeImports(b) \/ NativeEnds(b) \/ HostImports(b)
             \/ AuthorizationAges(b) \/ ReservationAges(b)
    BY <2>1
       DEF NativeImports, NativeEnds, HostImports, AuthorizationAges, ReservationAges,
           Durable
  <2>2. CASE ReceiptAges(b)
    BY <2>2 DEF ReceiptAges, Receipt, Rotates, Typed
  <2> QED BY <1>3, <2>1, <2>2
<1>4. ASSUME NEW c \in Content, ArtifactAges(c)
      PROVE  receipt'[x].selection = route'
  BY <1>4 DEF ArtifactAges
<1>5. CASE ChangeRoute
  BY <1>5 DEF ChangeRoute, Durable
<1>6. CASE UNCHANGED vars
  BY <1>6 DEF vars
<1> QED BY <1>1, <1>2, <1>3, <1>4, <1>5, <1>6 DEF Next

\* A reported target is kept until the operation has it.
LEMMA CandidateStep ==
  ASSUME Rotates, [Next]_vars, NEW x \in Binding, op[x] # None, op[x].candidate # None
  PROVE  op'[x] # None /\ (op'[x].candidate = op[x].candidate \/ op'[x].phase = "imported")
<1>0. op[x] \in Operation /\ op[x].phase # "imported" /\ receipt[x] = None
  BY DEF Rotates, Sound, Shaped, Typed
<1>1. ASSUME NEW p \in Process, Step(p) \/ Fail(p) \/ Crash(p)
      PROVE  op'[x] # None /\ (op'[x].candidate = op[x].candidate \/ op'[x].phase = "imported")
  <2>0. Busy(p) /\ Mine(p) \in Binding
    BY <1>1, MineIsBinding
       DEF Rotates, Busy, Step, Fail, Crash, Replay, Recover, RecordTerminal, Recheck,
           Resume, Reserve, Refused, Export, Prepare, Handoff, Admit, Release, Observe,
           Preserve, Settle, Conclude, Validate, Finalize, WriteReceipt, Retire, Revoke
  <2>1. CASE \/ Replay(p) \/ Recover(p) \/ Recheck(p) \/ Export(p) \/ Handoff(p)
             \/ Release(p) \/ Observe(p) \/ Settle(p) \/ Finalize(p) \/ WriteReceipt(p)
             \/ Revoke(p) \/ Fail(p) \/ Crash(p)
    BY <2>1
       DEF Replay, Recover, Recheck, Export, Handoff, Release, Observe, Settle, Finalize,
           WriteReceipt, Revoke, Fail, Crash, Durable
  <2>2. CASE RecordTerminal(p)
    <3>1. op'[x] = op[x] \/ op'[x] = [op[x] EXCEPT !.terminal = TRUE]
      BY <2>2 DEF RecordTerminal, Rotates, Typed
    <3>2. op'[x] \in Operation
      BY <1>0, <3>1 DEF Operation
    <3> QED BY <1>0, <3>1, <3>2, AbsenceOK DEF Operation
  <2>3. CASE Resume(p)
    <3>1. op' = op \/ \E i \in Id \cup {None} :
            op[Mine(p)].candidate = None /\ op' = [op EXCEPT ![Mine(p)].candidate = i]
      BY <2>3, <2>0, Stands DEF Resume, Standing, Call
    <3>2. op'[x] = op[x]
      BY <3>1 DEF Rotates, Typed
    <3> QED BY <3>2
  <2>4. CASE Reserve(p)
    BY <2>4, <1>0 DEF Reserve, Maintain, KeptReceipts, KeptOperations
  <2>5. CASE Refused(p)
    BY <2>5, <1>0 DEF Refused, OverCapacity, Maintain, KeptReceipts, KeptOperations
  <2>6. CASE Prepare(p)
    BY <2>6, <2>0, <1>0, Stands DEF Prepare, Standing, At, Before, After, Rotates, Typed
  <2>7. CASE Admit(p)
    <3>1. op'[x] = op[x] \/ op'[x] = [op[x] EXCEPT !.actor = TRUE, !.terminal = FALSE]
      BY <2>7 DEF Admit, Rotates, Typed
    <3>2. op'[x] \in Operation
      BY <1>0, <3>1 DEF Operation
    <3> QED BY <1>0, <3>1, <3>2, AbsenceOK DEF Operation
  <2>8. CASE Preserve(p)
    <3>1. x # Mine(p) => op'[x] = op[x]
      BY <2>8 DEF Preserve, Rotates, Typed
    <3>2. x = Mine(p) =>
            /\ op'[x] = [op[x] EXCEPT !.candidate = call[p].found]
            /\ call[p].found = op[x].candidate
      BY <2>8 DEF Preserve, Mine, Rotates, Typed
    <3>3. x = Mine(p) => op'[x] = op[x]
      BY <1>0, <3>2 DEF Operation
    <3> QED BY <3>1, <3>3
  <2>9. CASE Conclude(p)
    <3>1. op'[x] = op[x] \/ op'[x] = [op[x] EXCEPT !.terminal = TRUE]
      BY <2>9 DEF Conclude, Rotates, Typed
    <3>2. op'[x] \in Operation
      BY <1>0, <3>1 DEF Operation
    <3> QED BY <1>0, <3>1, <3>2, AbsenceOK DEF Operation
  <2>10. CASE Validate(p)
    <3>1. x # Mine(p) => op'[x] = op[x]
      BY <2>10 DEF Validate, Rotates, Typed
    <3>2. x = Mine(p) =>
            op'[x] = [op[x] EXCEPT !.phase = "imported", !.target = call[p].found,
                                   !.candidate = None]
      BY <2>10 DEF Validate, Mine, Rotates, Typed
    <3>3. x = Mine(p) => op'[x].phase = "imported" /\ op'[x] # None
      <4> SUFFICES ASSUME x = Mine(p) PROVE op'[x].phase = "imported" /\ op'[x] # None
        OBVIOUS
      <4>1. call[p].found \in Id
        BY <2>10, <2>0, Stands DEF Standing, At, During, Validate
      <4>2. op'[x] \in Operation
        BY <1>0, <3>2, <4>1 DEF Operation
      <4> QED BY <1>0, <3>2, <4>2, AbsenceOK DEF Operation
    <3> QED BY <3>1, <3>3
  <2>11. CASE Retire(p)
    BY <2>11, <2>0, <1>0, Stands DEF Retire, Standing, At, Before, After, Rotates, Typed
  <2> QED BY <1>1, <2>1, <2>2, <2>3, <2>4, <2>5, <2>6, <2>7, <2>8, <2>9, <2>10, <2>11
             DEF Step
<1>2. ASSUME NEW p \in Process, NEW b \in Binding,
             Assess(p, b) \/ AssessRefused(p, b) \/ Materialize(p, b)
      PROVE  op'[x] # None /\ (op'[x].candidate = op[x].candidate \/ op'[x].phase = "imported")
  <2>1. CASE Assess(p, b)
    BY <2>1, <1>0 DEF Assess, Maintain, KeptReceipts, KeptOperations
  <2>2. CASE AssessRefused(p, b)
    BY <2>2, <1>0 DEF AssessRefused, OverCapacity, Maintain, KeptReceipts, KeptOperations
  <2>3. CASE Materialize(p, b)
    BY <2>3 DEF Materialize, Durable
  <2> QED BY <1>2, <2>1, <2>2, <2>3
<1>3. ASSUME NEW b \in Binding,
             NativeImports(b) \/ NativeEnds(b) \/ HostImports(b) \/ AuthorizationAges(b)
               \/ ReservationAges(b) \/ ReceiptAges(b)
      PROVE  op'[x] # None /\ (op'[x].candidate = op[x].candidate \/ op'[x].phase = "imported")
  <2>1. CASE \/ NativeImports(b) \/ NativeEnds(b) \/ HostImports(b)
             \/ AuthorizationAges(b) \/ ReservationAges(b) \/ ReceiptAges(b)
    BY <2>1
       DEF NativeImports, NativeEnds, HostImports, AuthorizationAges, ReservationAges,
           ReceiptAges, Durable
  <2> QED BY <1>3, <2>1
<1>4. ASSUME NEW c \in Content, ArtifactAges(c)
      PROVE  op'[x] # None /\ (op'[x].candidate = op[x].candidate \/ op'[x].phase = "imported")
  BY <1>4 DEF ArtifactAges
<1>5. CASE ChangeRoute
  BY <1>5 DEF ChangeRoute, Durable
<1>6. CASE UNCHANGED vars
  BY <1>6 DEF vars
<1> QED BY <1>1, <1>2, <1>3, <1>4, <1>5, <1>6 DEF Next

\* No update of the settings comes between the check of a selection and the receipt that
\* says it was settled.
THEOREM ReceiptIsCurrent == Spec => SettledIsCurrent
<1>1. IInv /\ [Next]_vars =>
        [\A b \in Binding :
           receipt'[b] # None /\ receipt'[b] # receipt[b] /\ receipt'[b].age = "kept"
             => receipt'[b].selection = route']_vars
  BY ReceiptStep DEF IInv
<1> QED BY <1>1, Invariant, PTL DEF Spec, SettledIsCurrent

\* The session id an import reported outlives every retry until the operation has it as its
\* target.
THEOREM CandidateStays == Spec => CandidateIsKept
<1>1. IInv /\ [Next]_vars =>
        [\A b \in Binding :
           op[b] # None /\ op[b].candidate # None
             => /\ op'[b] # None
                /\ op'[b].candidate = op[b].candidate \/ op'[b].phase = "imported"]_vars
  BY CandidateStep DEF IInv
<1> QED BY <1>1, Invariant, PTL DEF Spec, CandidateIsKept

=============================================================================
