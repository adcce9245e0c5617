-------------------------- MODULE SettingsStoreProofs --------------------------
(***************************************************************************)
(* Proofs, for every number of processes, calls, request ids and records   *)
(* and for every limit of the file, of what the settings store promises a  *)
(* host that retries: applied once, answered again, recorded, and no       *)
(* version that means two things.                                          *)
(***************************************************************************)
EXTENDS SettingsStore, FiniteSetTheorems, TLAPS

Event == [sequence : Nat, prior : Records, result : Records]

Store ==
  [schema : {"old", "current"}, records : Records, history : Seq(Event),
   receipts : [Name -> {None} \cup Receipt]]

Transaction == [call : CallId, view : Store]

Typed ==
  /\ store \in Store
  /\ token \in Token
  /\ sent \in [CallId -> {None} \cup Params]
  /\ txn \in [Process -> {None} \cup Transaction]
  /\ promise \in [CallId -> {None} \cup Result]
  /\ applied \in [CallId -> Nat]
  /\ windows \in [CallId -> Nat]

\* The file is within the limits once it is written.
Limited ==
  /\ Len(store.history) <= MaxHistory
  /\ store.schema = "current" => Fits(store)

\* One transaction at a time, about a call that was sent; what it read is still the file.
Exclusive ==
  \A p \in Process : txn[p] # None =>
    /\ sent[txn[p].call] # None
    /\ txn[p].view = Upgraded(store)
    /\ \A q \in Process : txn[q] # None => q = p

\* No record and no caller knows a version that was not given yet.
VersionsGiven ==
  /\ \A i \in Id : store.records[i] # None => store.records[i].version <= token
  /\ \A c \in CallId : sent[c] # None => sent[c].version <= token

\* The answer of a call is on file, and its window is open.
InWindow(c) ==
  LET r == store.receipts[sent[c].name]
  IN  r # None /\ r.call = c /\ r.age = "kept"

Changes(c) == sent[c].op \in {"update", "delete"}

\* An update or a deletion that was applied left no record with the version it asked for.
\* Every other publication of a call has a window, closed or open.
Counted ==
  \A c \in CallId :
    /\ applied[c] <= token
    /\ sent[c] = None => applied[c] = 0 /\ promise[c] = None
    /\ sent[c] # None /\ Changes(c) =>
         /\ sent[c].on # {}
         /\ applied[c] <= 1
         /\ applied[c] # 0 => \A i \in sent[c].on :
              store.records[i] # None => store.records[i].version # sent[c].version
    /\ sent[c] # None /\ ~Changes(c) =>
         applied[c] <= windows[c] + (IF InWindow(c) THEN 1 ELSE 0)

\* What a call was promised is the answer on file.
Promised ==
  \A c \in CallId : promise[c] # None =>
    InWindow(c) /\ store.receipts[sent[c].name].result = promise[c]

\* The events kept of a history end with the present records and the last publication.
Told(h) ==
  /\ \A k \in 1..Len(h) - 1 :
       h[k + 1].sequence = h[k].sequence + 1 /\ h[k + 1].prior = h[k].result
  /\ IF h = <<>> THEN token = 0
     ELSE h[Len(h)].result = store.records /\ h[Len(h)].sequence = token

Chronicled ==
  /\ Told(store.history)
  /\ store.schema = "old" => store.history = <<>>

IInv == Typed /\ Limited /\ Exclusive /\ VersionsGiven /\ Counted /\ Promised /\ Chronicled

-----------------------------------------------------------------------------
(***************************************************************************)
(* The file                                                                *)
(***************************************************************************)

\* Reading a predecessor's file as the current one changes no version.
LEMMA UpgradedKeeps ==
  ASSUME NEW s \in Store
  PROVE  /\ Upgraded(s) \in Store
         /\ Upgraded(s).schema = "current"
         /\ Upgraded(s).history = s.history
         /\ Upgraded(s).receipts = s.receipts
         /\ s.schema = "current" => Upgraded(s) = s
         /\ \A i \in Id : Upgraded(s).records[i] # None =>
              s.records[i] # None /\ Upgraded(s).records[i].version = s.records[i].version
<1> DEFINE read == [i \in Id |-> IF s.records[i] = None THEN None
                                 ELSE [s.records[i] EXCEPT !.values = Projected(@)]]
<1>1. CASE s.schema = "current"
  BY <1>1 DEF Upgraded, Store
<1>2. CASE s.schema # "current"
  <2>1. ASSUME NEW i \in Id, s.records[i] # None
        PROVE  read[i] \in Record /\ read[i].version = s.records[i].version
    <3>1. s.records[i] \in Record
      BY <2>1 DEF Store, Records
    <3>2. \A v \in Value : Projected(v) \in Value
      BY DEF Projected, Value, Routable
    <3> QED BY <2>1, <3>1, <3>2 DEF Record
  <2>2. read \in Records
    BY <2>1 DEF Records
  <2>3. Upgraded(s) = [s EXCEPT !.schema = "current", !.records = read]
    BY <1>2 DEF Upgraded
  <2>4. \A i \in Id : read[i] # None => s.records[i] # None
    OBVIOUS
  <2> HIDE DEF read
  <2> QED BY <1>2, <2>1, <2>2, <2>3, <2>4 DEF Store
<1> QED BY <1>1, <1>2

\* A mutation keeps a record, removes it, or gives it a version never given before.
LEMMA MutatedGives ==
  ASSUME Typed, token < MaxToken, NEW q \in Params, NEW records \in Records
  PROVE  /\ Mutated(q, records) \in Records
         /\ \A i \in Id : \/ Mutated(q, records)[i] = records[i]
                          \/ Mutated(q, records)[i] = None
                          \/ Mutated(q, records)[i].version = Fresh
<1>1. Fresh \in Token /\ token \in Nat
  BY ConstantsOK DEF Typed, Token, Fresh
<1>2. [version |-> Fresh, values |-> q.values] \in Record
  BY <1>1 DEF Record, Params
<1>3. ASSUME NEW ids
      PROVE  /\ Put(records, ids, q.values) \in Records
             /\ \A i \in Id : \/ Put(records, ids, q.values)[i] = records[i]
                              \/ Put(records, ids, q.values)[i].version = Fresh
  BY <1>2 DEF Put, Records
<1>4. /\ Deleted(q, records) \in Records
      /\ \A i \in Id : Deleted(q, records)[i] \in {records[i], None}
  BY DEF Deleted, Records
<1>5. q.op \in {"create", "update", "delete", "migrate"}
  BY DEF Params, Operation
<1>6. CASE q.op = "delete"
  <2>1. Mutated(q, records) = Deleted(q, records)
    BY <1>6 DEF Mutated
  <2> QED BY <1>4, <2>1
<1>7. CASE q.op # "delete"
  <2>1. PICK ids : Mutated(q, records) = Put(records, ids, q.values)
    BY <1>5, <1>7 DEF Mutated, Created, Updated, Migrated
  <2> QED BY <1>3, <2>1
<1> QED BY <1>6, <1>7

\* An update or a deletion leaves no record it is about at the version it asked for.
LEMMA MutatedLeaves ==
  ASSUME Typed, NEW q \in Params, q.version <= token, NEW records \in Records,
         q.op \in {"update", "delete"}
  PROVE  \A i \in q.on : Mutated(q, records)[i] # None =>
           Mutated(q, records)[i].version # q.version
<1>1. Fresh # q.version
  BY DEF Fresh, Typed, Token, Params
<1>2. q.on \subseteq Id
  BY DEF Params
<1>3. CASE q.op = "update"
  <2>1. Mutated(q, records) = Put(records, q.on, q.values)
    BY <1>3 DEF Mutated, Updated
  <2> QED BY <1>1, <1>2, <2>1 DEF Put
<1>4. CASE q.op = "delete"
  <2>1. Mutated(q, records) = Deleted(q, records)
    BY <1>4 DEF Mutated
  <2> QED BY <1>2, <2>1 DEF Deleted
<1> QED BY <1>3, <1>4

\* An event appended to a history that tells of the present leaves one that tells of the
\* records it led to, as far back as the file remembers.
LEMMA AppendedTells ==
  ASSUME Typed, NEW h \in Seq(Event), NEW before \in Records, NEW after \in Records,
         \A k \in 1..Len(h) - 1 :
           h[k + 1].sequence = h[k].sequence + 1 /\ h[k + 1].prior = h[k].result,
         h = <<>> => token = 0,
         h # <<>> => h[Len(h)].result = before /\ h[Len(h)].sequence = token,
         NEW g, g = Appended(h, before, after)
  PROVE  /\ g \in Seq(Event) /\ Len(g) <= MaxHistory /\ g # <<>>
         /\ \A k \in 1..Len(g) - 1 :
              g[k + 1].sequence = g[k].sequence + 1 /\ g[k + 1].prior = g[k].result
         /\ g[Len(g)].result = after /\ g[Len(g)].sequence = token + 1
<1> DEFINE event == [sequence |-> Sequence(h), prior |-> before, result |-> after]
<1> DEFINE n == Len(h)
<1> DEFINE all == Append(h, event)
<1>1. /\ Sequence(h) = token + 1 /\ token \in Nat /\ token + 1 \in Nat
      /\ MaxHistory \in Nat /\ MaxHistory >= 1 /\ n \in Nat
  BY ConstantsOK DEF Sequence, Typed, Token
<1>2. event \in Event /\ event.sequence = token + 1 /\ event.prior = before /\ event.result = after
  BY <1>1 DEF Event
<1> HIDE DEF event
<1>3. /\ all \in Seq(Event) /\ Len(all) = n + 1 /\ all[n + 1] = event
      /\ \A k \in 1..n : all[k] = h[k]
  BY <1>2
<1>4. \A k \in 1..n : all[k + 1].sequence = all[k].sequence + 1 /\ all[k + 1].prior = all[k].result
  <2> TAKE k \in 1..n
  <2>1. CASE k = n
    <3>1. h # <<>> /\ all[k + 1] = event /\ all[k] = h[n]
      BY <1>1, <1>3, <2>1
    <3>2. h[n].result = before /\ h[n].sequence = token
      BY <3>1
    <3> QED BY <1>2, <3>1, <3>2
  <2>2. CASE k # n
    <3>1. k \in 1..n - 1 /\ k + 1 \in 1..n
      BY <1>1, <2>2
    <3>2. all[k] = h[k] /\ all[k + 1] = h[k + 1]
      BY <1>3, <3>1
    <3> QED BY <3>1, <3>2
  <2> QED BY <2>1, <2>2
<1>5. g = IF Len(all) > MaxHistory THEN SubSeq(all, Len(all) - MaxHistory + 1, Len(all)) ELSE all
  BY DEF Appended, event
<1> HIDE DEF all, n
<1>6. CASE n + 1 <= MaxHistory
  <2>1. g = all
    BY <1>1, <1>3, <1>5, <1>6
  <2> QED BY <1>1, <1>2, <1>3, <1>4, <1>6, <2>1
<1>7. CASE n + 1 > MaxHistory
  <2> DEFINE d == n + 1 - MaxHistory
  <2>1. d \in Nat /\ d <= n /\ MaxHistory = n + 1 - d
    BY <1>1, <1>7
  <2>2. /\ g \in Seq(Event) /\ Len(g) = MaxHistory
        /\ \A k \in 1..MaxHistory : g[k] = all[k + d] /\ k + d \in 1..n + 1
    <3>1. Len(all) = n + 1 /\ Len(all) - MaxHistory + 1 = d + 1
      BY <1>1, <1>3, <2>1
    <3>2. g = SubSeq(all, d + 1, n + 1)
      BY <1>1, <1>3, <1>5, <1>7, <3>1
    <3> HIDE DEF d
    <3>3. /\ SubSeq(all, d + 1, n + 1) \in Seq(Event)
          /\ Len(SubSeq(all, d + 1, n + 1)) = n + 1 - d
          /\ \A k \in 1..n + 1 - d : SubSeq(all, d + 1, n + 1)[k] = all[k + d]
      BY <1>1, <1>3, <2>1
    <3>4. \A k \in 1..MaxHistory : k + d \in 1..n + 1
      BY <1>1, <2>1
    <3> QED BY <2>1, <3>2, <3>3, <3>4
  <2>3. \A k \in 1..MaxHistory - 1 : k + d \in 1..n /\ (k + 1) + d = (k + d) + 1
    BY <1>1, <2>1
  <2>4. MaxHistory + d = n + 1 /\ MaxHistory \in 1..MaxHistory
    BY <1>1
  <2> HIDE DEF d
  <2>5. \A k \in 1..MaxHistory - 1 : g[k] = all[k + d] /\ g[k + 1] = all[(k + d) + 1]
    BY <1>1, <2>2, <2>3
  <2>6. g[MaxHistory] = event
    BY <1>3, <2>2, <2>4
  <2>7. \A k \in 1..MaxHistory - 1 :
          g[k + 1].sequence = g[k].sequence + 1 /\ g[k + 1].prior = g[k].result
    BY <1>4, <2>3, <2>5
  <2> QED BY <1>1, <1>2, <2>2, <2>6, <2>7
<1> QED BY <1>1, <1>6, <1>7

-----------------------------------------------------------------------------
(***************************************************************************)
(* What a publication does to the file                                     *)
(***************************************************************************)

\* Whom a transaction answers, and what it read.
LEMMA OpenTransaction ==
  ASSUME IInv, NEW p \in Process, txn[p] # None
  PROVE  /\ txn[p].call \in CallId /\ sent[txn[p].call] \in Params
         /\ sent[txn[p].call] # None
         /\ txn[p].view = Upgraded(store) /\ txn[p].view \in Store
         /\ \A q \in Process : txn[q] # None => q = p
<1>1. txn[p] \in Transaction
  BY DEF IInv, Typed
<1>2. sent[txn[p].call] # None /\ txn[p].view = Upgraded(store)
      /\ \A q \in Process : txn[q] # None => q = p
  BY DEF IInv, Exclusive
<1> QED BY <1>1, <1>2 DEF Transaction, IInv, Typed

\* The receipts a publication leaves: the windows that were open stay open, and the
\* mutation's own is opened.
LEMMA ReceiptsAfter ==
  ASSUME NEW receipts \in [Name -> {None} \cup Receipt], NEW n \in Name, receipts[n] = None,
         NEW r \in Receipt, r.age = "kept",
         NEW after, after = [Pruned(receipts) EXCEPT ![n] = r]
  PROVE  /\ after \in [Name -> {None} \cup Receipt]
         /\ after[n] = r
         /\ \A m \in Name : receipts[m] # None /\ receipts[m].age = "kept" => after[m] = receipts[m]
         /\ \A m \in Name : after[m] # None => m = n \/ after[m] = receipts[m]
<1>1. /\ Pruned(receipts) \in [Name -> {None} \cup Receipt]
      /\ \A m \in Name : Pruned(receipts)[m] =
           IF receipts[m] # None /\ receipts[m].age = "expired" THEN None ELSE receipts[m]
  BY DEF Pruned
<1> QED BY <1>1

\* The receipt a publication leaves for a call, and what it promises.
Answers(c, r) ==
  /\ r.call = c /\ r.age = "kept"
  /\ store'.receipts = [Pruned(store.receipts) EXCEPT ![sent[c].name] = r]
  /\ promise' = [promise EXCEPT ![c] = r.result]

\* The file and the histories a publication leaves, in one place.
LEMMA PublicationLeaves ==
  ASSUME IInv, NEW p \in Process, Publish(p), NEW c, c = txn[p].call
  PROVE  /\ c \in CallId /\ sent[c] \in Params /\ sent[c] # None
         /\ sent' = sent /\ windows' = windows
         /\ token' = token + 1 /\ token < MaxToken
         /\ applied' = [applied EXCEPT ![c] = @ + 1]
         /\ txn' = [txn EXCEPT ![p] = None]
         /\ store' \in Store /\ store'.schema = "current" /\ Fits(store')
         /\ store'.records = Mutated(sent[c], Upgraded(store).records)
         /\ store'.history = Appended(store.history, Upgraded(store).records, store'.records)
         /\ Allowed(sent[c], Upgraded(store).records)
         /\ store.receipts[sent[c].name] = None
         /\ \E r \in Receipt : Answers(c, r)
<1> DEFINE q == sent[c]
<1> DEFINE view == txn[p].view
<1> DEFINE r == [call |-> c, result |-> [op |-> q.op, on |-> Touched(q), token |-> Fresh],
                 age |-> "kept"]
<1> DEFINE after == Mutated(q, view.records)
<1> DEFINE past == Appended(view.history, view.records, after)
<1> DEFINE receipts == [Pruned(view.receipts) EXCEPT ![q.name] = r]
<1>0. txn[p] # None
  BY DEF Publish
<1>1. c \in CallId /\ q \in Params /\ q # None /\ view = Upgraded(store) /\ view \in Store
  BY <1>0, OpenTransaction
<1>2. store \in Store /\ Typed
  BY DEF IInv, Typed
<1>3. /\ view.schema = "current" /\ view.history = store.history
      /\ view.receipts = store.receipts
  BY <1>1, <1>2, UpgradedKeeps
<1>4. /\ token < MaxToken /\ token' = token + 1
      /\ sent' = sent /\ windows' = windows
      /\ applied' = [applied EXCEPT ![c] = @ + 1]
      /\ txn' = [txn EXCEPT ![p] = None]
      /\ store' = Candidate(c, view) /\ Fits(store')
      /\ promise' = [promise EXCEPT ![c] = Candidate(c, view).receipts[q.name].result]
      /\ Allowed(q, view.records)
      /\ view.receipts[q.name] = None
  BY <1>0 DEF Publish, Conclude, Fresh, Known, Committed
<1>5. Candidate(c, view) = [view EXCEPT !.records = after, !.history = past, !.receipts = receipts]
  BY <1>1 DEF Candidate, Store
<1>6. r \in Receipt
  <2>1. Touched(q) \in SUBSET Id
    BY <1>1, <1>2, <1>4, ConstantsOK DEF Touched, Params, Id, Fresh, Typed, Token
  <2>2. Fresh \in Token
    BY <1>2, <1>4, ConstantsOK DEF Fresh, Typed, Token
  <2> QED BY <1>1, <2>1, <2>2 DEF Receipt, Result, Params
<1>7. after \in Records
  BY <1>1, <1>2, <1>4, MutatedGives DEF Store
<1>8. past \in Seq(Event)
  <2>1. view.history \in Seq(Event) /\ view.records \in Records
    BY <1>1 DEF Store
  <2>2. Told(view.history) /\ (view.history # <<>> => view.records = store.records)
    <3>1. Told(store.history) /\ (store.history # <<>> => store.schema = "current")
      BY <1>2 DEF IInv, Chronicled, Store
    <3> QED BY <1>1, <1>2, <1>3, <3>1, UpgradedKeeps
  <2> QED BY <1>2, <1>7, <2>1, <2>2, AppendedTells DEF Told
<1>9. receipts \in [Name -> {None} \cup Receipt] /\ receipts[q.name] = r
  <2>1. q.name \in Name /\ view.receipts \in [Name -> {None} \cup Receipt]
    BY <1>1 DEF Params, Store
  <2>2. r.age = "kept"
    OBVIOUS
  <2>3. receipts = [Pruned(view.receipts) EXCEPT ![q.name] = r] /\ view.receipts[q.name] = None
    BY <1>4
  <2> HIDE DEF r, receipts, q, view
  <2>4. Pruned(view.receipts) \in [Name -> {None} \cup Receipt]
    BY <2>1 DEF Pruned
  <2> QED BY <1>6, <2>1, <2>3, <2>4
<1> HIDE DEF receipts, past, after
<1>10. /\ store' \in Store /\ store'.schema = "current"
       /\ store'.records = after /\ store'.history = past /\ store'.receipts = receipts
  BY <1>1, <1>3, <1>4, <1>5, <1>7, <1>8, <1>9 DEF Store
<1>11. r.call = c /\ r.age = "kept"
  OBVIOUS
<1>12. promise' = [promise EXCEPT ![c] = r.result]
  BY <1>4, <1>9, <1>10
<1> HIDE DEF r
<1>13. store'.receipts = [Pruned(store.receipts) EXCEPT ![q.name] = r]
  BY <1>3, <1>10 DEF receipts
<1>14. /\ store'.records = Mutated(q, Upgraded(store).records)
       /\ store'.history = Appended(store.history, Upgraded(store).records, store'.records)
  BY <1>1, <1>3, <1>10 DEF after, past
<1>15. Answers(c, r)
  BY <1>11, <1>12, <1>13 DEF Answers
<1> QED BY <1>1, <1>3, <1>4, <1>6, <1>10, <1>14, <1>15

\* The receipts of a publication, call by call: an open window stays open with its answer,
\* and no window is open twice.
LEMMA WindowsAfter ==
  ASSUME IInv, NEW p \in Process, Publish(p), NEW c, c = txn[p].call
  PROVE  /\ ~InWindow(c) /\ promise[c] = None
         /\ InWindow(c)' /\ promise'[c] = store'.receipts[sent'[c].name].result
         /\ \A d \in CallId : d # c /\ sent[d] # None /\ InWindow(d) =>
              InWindow(d)' /\ store'.receipts[sent'[d].name] = store.receipts[sent[d].name]
<1>1. /\ c \in CallId /\ sent[c] \in Params /\ sent[c] # None
      /\ sent' = sent /\ store.receipts[sent[c].name] = None
      /\ store' \in Store
  BY PublicationLeaves
<1>0. PICK r \in Receipt : Answers(c, r)
  BY PublicationLeaves
<1>2. /\ r.call = c /\ r.age = "kept"
      /\ store'.receipts = [Pruned(store.receipts) EXCEPT ![sent[c].name] = r]
      /\ promise' = [promise EXCEPT ![c] = r.result]
  BY <1>0 DEF Answers
<1>3. store.receipts \in [Name -> {None} \cup Receipt] /\ sent[c].name \in Name
  BY <1>1 DEF IInv, Typed, Store, Params
<1>4. /\ store'.receipts[sent[c].name] = r
      /\ \A m \in Name : store.receipts[m] # None /\ store.receipts[m].age = "kept" =>
           m # sent[c].name /\ store'.receipts[m] = store.receipts[m]
  BY <1>1, <1>2, <1>3 DEF Pruned
<1>5. ~InWindow(c) /\ promise[c] = None
  BY <1>1 DEF InWindow, IInv, Promised
<1>6. InWindow(c)' /\ promise'[c] = store'.receipts[sent'[c].name].result
  <2>1. promise'[c] = r.result
    BY <1>1, <1>2 DEF IInv, Typed
  <2> QED BY <1>1, <1>2, <1>4, <2>1, AbsenceOK DEF InWindow
<1>7. ASSUME NEW d \in CallId, d # c, sent[d] # None, InWindow(d)
      PROVE  InWindow(d)' /\ store'.receipts[sent'[d].name] = store.receipts[sent[d].name]
  <2>1. sent[d].name \in Name
    BY <1>7 DEF IInv, Typed, Params
  <2> QED BY <1>1, <1>4, <1>7, <2>1 DEF InWindow
<1> QED BY <1>5, <1>6, <1>7

\* What a publication does to the records a call is about.
LEMMA RecordsAfter ==
  ASSUME IInv, NEW p \in Process, Publish(p)
  PROVE  \A i \in Id : store'.records[i] # None =>
           \/ store'.records[i].version = token + 1
           \/ store.records[i] # None /\ store'.records[i].version = store.records[i].version
<1> DEFINE c == txn[p].call
<1>1. /\ sent[c] \in Params /\ token < MaxToken
      /\ store'.records = Mutated(sent[c], Upgraded(store).records)
  BY PublicationLeaves
<1>2. store \in Store /\ Typed
  BY DEF IInv, Typed
<1>3. /\ Upgraded(store).records \in Records
      /\ \A i \in Id : Upgraded(store).records[i] # None =>
           store.records[i] # None
           /\ Upgraded(store).records[i].version = store.records[i].version
  BY <1>2, UpgradedKeeps DEF Store
<1> HIDE DEF c
<1>4. \A i \in Id : \/ store'.records[i] = Upgraded(store).records[i]
                    \/ store'.records[i] = None
                    \/ store'.records[i].version = Fresh
  BY <1>1, <1>2, <1>3, MutatedGives
<1> QED BY <1>3, <1>4 DEF Fresh

\* An update or a deletion is published for the first time, and leaves nothing to publish
\* it for again.
LEMMA ChangeIsFirst ==
  ASSUME IInv, NEW p \in Process, Publish(p), NEW c, c = txn[p].call, Changes(c)
  PROVE  /\ applied[c] = 0
         /\ \A i \in sent[c].on : store'.records[i] # None =>
              store'.records[i].version # sent[c].version
<1>1. /\ c \in CallId /\ sent[c] \in Params /\ sent[c] # None
      /\ store'.records = Mutated(sent[c], Upgraded(store).records)
      /\ Allowed(sent[c], Upgraded(store).records)
  BY PublicationLeaves
<1>2. store \in Store /\ Typed
  BY DEF IInv, Typed
<1>3. /\ Upgraded(store).records \in Records
      /\ \A i \in Id : Upgraded(store).records[i] # None =>
           store.records[i] # None
           /\ Upgraded(store).records[i].version = store.records[i].version
  BY <1>2, UpgradedKeeps DEF Store
<1>4. sent[c].op \in {"update", "delete"} /\ sent[c].on \subseteq Id
  BY <1>1 DEF Changes, Params
<1>5. /\ sent[c].on # {} /\ sent[c].version <= token
      /\ applied[c] # 0 => \A i \in sent[c].on :
           store.records[i] # None => store.records[i].version # sent[c].version
  BY <1>1 DEF IInv, Counted, VersionsGiven
<1>6. Current(sent[c], Upgraded(store).records)
  BY <1>1, <1>4 DEF Allowed
<1>7. applied[c] = 0
  BY <1>3, <1>4, <1>5, <1>6 DEF Current
<1>8. \A i \in sent[c].on : Mutated(sent[c], Upgraded(store).records)[i] # None =>
        Mutated(sent[c], Upgraded(store).records)[i].version # sent[c].version
  BY <1>1, <1>2, <1>3, <1>4, <1>5, MutatedLeaves
<1> QED BY <1>1, <1>7, <1>8

LEMMA PublishPreserves ==
  ASSUME IInv, NEW p \in Process, Publish(p)
  PROVE  IInv'
<1> PICK c : c = txn[p].call
  OBVIOUS
<1>1. /\ c \in CallId /\ sent[c] \in Params /\ sent[c] # None
      /\ sent' = sent /\ windows' = windows
      /\ token' = token + 1 /\ token < MaxToken
      /\ applied' = [applied EXCEPT ![c] = @ + 1]
      /\ txn' = [txn EXCEPT ![p] = None]
      /\ store' \in Store /\ store'.schema = "current" /\ Fits(store')
      /\ store'.history = Appended(store.history, Upgraded(store).records, store'.records)
  BY PublicationLeaves
<1>2. \E r \in Receipt : promise' = [promise EXCEPT ![c] = r.result]
  <2>1. PICK r \in Receipt : Answers(c, r)
    BY PublicationLeaves
  <2> QED BY <2>1 DEF Answers
<1>3. /\ ~InWindow(c) /\ InWindow(c)' /\ promise'[c] = store'.receipts[sent'[c].name].result
      /\ \A d \in CallId : d # c /\ sent[d] # None /\ InWindow(d) =>
           InWindow(d)' /\ store'.receipts[sent'[d].name] = store.receipts[sent[d].name]
  BY WindowsAfter
<1>4. Changes(c) =>
        /\ applied[c] = 0
        /\ \A i \in sent[c].on : store'.records[i] # None =>
             store'.records[i].version # sent[c].version
  BY ChangeIsFirst
<1>5. \A i \in Id : store'.records[i] # None =>
        \/ store'.records[i].version = token + 1
        \/ store.records[i] # None /\ store'.records[i].version = store.records[i].version
  BY RecordsAfter
<1>6. \A q \in Process : txn[q] # None => q = p
  BY OpenTransaction DEF Publish
<1>7. token \in Nat /\ token' \in Token /\ token' \in Nat
  BY <1>1, ConstantsOK DEF IInv, Typed, Token
<1>8. Typed'
  <2>1. applied' \in [CallId -> Nat]
    BY <1>1 DEF IInv, Typed
  <2>2. promise' \in [CallId -> {None} \cup Result]
    BY <1>1, <1>2 DEF IInv, Typed, Receipt
  <2> QED BY <1>1, <1>7, <2>1, <2>2 DEF IInv, Typed
<1>9. /\ Len(store'.history) <= MaxHistory /\ store'.history # <<>>
      /\ Told(store.history)'
  <2>1. store \in Store /\ Upgraded(store) \in Store /\ Typed
        /\ (store.schema = "current" => Upgraded(store) = store)
    BY UpgradedKeeps DEF IInv, Typed
  <2>2. Told(store.history) /\ (store.history # <<>> => store.schema = "current")
    BY <2>1 DEF IInv, Chronicled, Store
  <2>3. /\ store.history \in Seq(Event) /\ Upgraded(store).records \in Records
        /\ store'.records \in Records
    BY <1>1, <2>1 DEF Store
  <2>4. /\ \A k \in 1..Len(store.history) - 1 :
             /\ store.history[k + 1].sequence = store.history[k].sequence + 1
             /\ store.history[k + 1].prior = store.history[k].result
        /\ store.history = <<>> => token = 0
        /\ store.history # <<>> =>
             /\ store.history[Len(store.history)].result = Upgraded(store).records
             /\ store.history[Len(store.history)].sequence = token
    BY <2>1, <2>2 DEF Told
  <2>5. PICK h, before, after, g :
          /\ h = store.history /\ before = Upgraded(store).records /\ after = store'.records
          /\ g = store'.history
    OBVIOUS
  <2>6. h \in Seq(Event) /\ before \in Records /\ after \in Records
    BY <2>3, <2>5
  <2>7. /\ \A k \in 1..Len(h) - 1 :
             h[k + 1].sequence = h[k].sequence + 1 /\ h[k + 1].prior = h[k].result
        /\ h = <<>> => token = 0
        /\ h # <<>> => h[Len(h)].result = before /\ h[Len(h)].sequence = token
    BY <2>4, <2>5
  <2>8. g = Appended(h, before, after)
    BY <1>1, <2>5
  <2>9. /\ g \in Seq(Event) /\ Len(g) <= MaxHistory /\ g # <<>>
        /\ \A k \in 1..Len(g) - 1 :
              g[k + 1].sequence = g[k].sequence + 1 /\ g[k + 1].prior = g[k].result
        /\ g[Len(g)].result = after /\ g[Len(g)].sequence = token + 1
    BY <2>1, <2>6, <2>7, <2>8, AppendedTells
  <2> QED BY <1>1, <2>5, <2>9 DEF Told
<1>10. Limited' /\ Chronicled'
  BY <1>1, <1>9 DEF Limited, Chronicled, Fits, Names, Receipts
<1>11. Exclusive'
  BY <1>1, <1>6 DEF Exclusive, IInv, Typed
<1>12. VersionsGiven'
  <2>1. \A i \in Id : store.records[i] # None => store.records[i].version <= token
    BY DEF IInv, VersionsGiven
  <2>2. \A i \in Id : store.records[i] # None => store.records[i].version \in Nat
    BY DEF IInv, Typed, Store, Records, Record, Token
  <2>3. \A d \in CallId : sent[d] # None => sent[d].version <= token /\ sent[d].version \in Nat
    BY DEF IInv, VersionsGiven, Typed, Params, Token
  <2> QED BY <1>1, <1>5, <1>7, <2>1, <2>2, <2>3 DEF VersionsGiven
<1>13. Promised'
  BY <1>1, <1>2, <1>3 DEF Promised, IInv, Typed, Counted
<1>14. Counted'
  <2> SUFFICES ASSUME NEW d \in CallId
               PROVE  /\ applied'[d] <= token'
                      /\ sent'[d] = None => applied'[d] = 0 /\ promise'[d] = None
                      /\ sent'[d] # None /\ Changes(d)' =>
                           /\ sent'[d].on # {}
                           /\ applied'[d] <= 1
                           /\ applied'[d] # 0 => \A i \in sent'[d].on :
                                store'.records[i] # None =>
                                  store'.records[i].version # sent'[d].version
                      /\ sent'[d] # None /\ ~Changes(d)' =>
                           applied'[d] <= windows'[d] + (IF InWindow(d)' THEN 1 ELSE 0)
    BY DEF Counted
  <2>1. /\ applied[d] <= token /\ applied[d] \in Nat /\ windows[d] \in Nat
        /\ sent[d] = None => applied[d] = 0 /\ promise[d] = None
        /\ sent[d] # None /\ Changes(d) =>
             /\ sent[d].on # {}
             /\ applied[d] <= 1
             /\ applied[d] # 0 => \A i \in sent[d].on :
                  store.records[i] # None => store.records[i].version # sent[d].version
        /\ sent[d] # None /\ ~Changes(d) =>
             applied[d] <= windows[d] + (IF InWindow(d) THEN 1 ELSE 0)
    BY DEF IInv, Counted, Typed
  <2>2. Changes(d)' <=> Changes(d)
    BY <1>1 DEF Changes
  <2>3. CASE d = c
    <3>1. applied'[d] = applied[d] + 1 /\ sent'[d] = sent[d] /\ sent[d] # None
      BY <1>1, <2>3 DEF IInv, Typed
    <3> QED BY <1>1, <1>3, <1>4, <1>7, <2>1, <2>2, <2>3, <3>1
  <2>4. CASE d # c
    <3>1. applied'[d] = applied[d] /\ sent'[d] = sent[d] /\ promise'[d] = promise[d]
      BY <1>1, <1>2, <2>4 DEF IInv, Typed
    <3>2. sent[d] # None => sent[d].version <= token /\ sent[d].version \in Nat
                            /\ sent[d].on \subseteq Id
      BY DEF IInv, VersionsGiven, Typed, Params, Token
    <3>3. sent[d] # None /\ InWindow(d) => InWindow(d)'
      BY <1>3, <2>4
    <3>4. sent[d] # None /\ Changes(d) /\ applied[d] # 0 =>
            \A i \in sent[d].on : store'.records[i] # None =>
               store'.records[i].version # sent[d].version
      BY <1>5, <1>7, <2>1, <3>2
    <3> QED BY <1>1, <1>7, <2>1, <2>2, <3>1, <3>3, <3>4
  <2> QED BY <2>3, <2>4
<1> QED BY <1>8, <1>10, <1>11, <1>12, <1>13, <1>14 DEF IInv

-----------------------------------------------------------------------------
(***************************************************************************)
(* The other steps                                                         *)
(***************************************************************************)

LEMMA AskPreserves ==
  ASSUME IInv, NEW c \in CallId, Ask(c)
  PROVE  IInv'
<1>1. PICK q : /\ q \in Params /\ q.version <= token
               /\ q.op \in {"update", "delete"} => q.on # {}
               /\ sent' = [sent EXCEPT ![c] = q]
  <2>1. PICK name \in Name, op \in Operation, on \in {{}} \cup {{i} : i \in Id},
             version \in 0..token, values \in Routable :
               /\ op \in {"update", "delete"} => on # {}
               /\ sent' = [sent EXCEPT ![c] = [name |-> name, op |-> op, on |-> on,
                                               version |-> version, values |-> values]]
    BY DEF Ask
  <2>2. version \in Token /\ version <= token /\ on \in SUBSET Id /\ values \in Value
    BY ConstantsOK DEF IInv, Typed, Token, Value
  <2> QED BY <2>1, <2>2 DEF Params
<1>2. /\ sent[c] = None
      /\ UNCHANGED <<store, token, txn, promise, applied, windows>>
  BY DEF Ask
<1>3. Typed' /\ Limited' /\ Chronicled'
  BY <1>1, <1>2
     DEF IInv, Typed, Limited, Fits, Names, Receipts, Chronicled, Told
<1>4. Exclusive'
  <2>1. Upgraded(store)' = Upgraded(store)
    BY <1>2 DEF Upgraded
  <2> SUFFICES ASSUME NEW p \in Process, txn[p] # None
               PROVE  /\ sent'[txn[p].call] # None
                      /\ txn[p].view = Upgraded(store)
                      /\ \A other \in Process : txn[other] # None => other = p
    BY <1>2, <2>1 DEF Exclusive
  <2>2. txn[p].call # c
    BY <1>2, OpenTransaction
  <2> QED BY <1>1, <2>2, OpenTransaction DEF IInv, Typed
<1>5. VersionsGiven'
  <2>1. \A d \in CallId : d # c => sent'[d] = sent[d]
    BY <1>1 DEF IInv, Typed
  <2>2. sent'[c] = q
    BY <1>1 DEF IInv, Typed
  <2> QED BY <1>1, <1>2, <2>1, <2>2 DEF VersionsGiven, IInv
<1>6. ASSUME NEW d \in CallId, d # c
      PROVE  sent'[d] = sent[d] /\ (InWindow(d)' <=> InWindow(d)) /\ (Changes(d)' <=> Changes(d))
  BY <1>1, <1>2, <1>6 DEF IInv, Typed, InWindow, Changes
<1>7. Promised'
  <2>1. promise[c] = None
    BY <1>2 DEF IInv, Counted
  <2> QED BY <1>2, <1>6, <2>1 DEF IInv, Promised
<1>8. Counted'
  <2>1. applied[c] = 0 /\ promise[c] = None /\ windows[c] \in Nat /\ token \in Nat
    BY <1>2 DEF IInv, Counted, Typed, Token
  <2>2. sent'[c] = q /\ (Changes(c)' <=> q.op \in {"update", "delete"})
    BY <1>1 DEF IInv, Typed, Changes
  <2>3. ASSUME NEW d \in CallId
        PROVE  /\ applied[d] <= token
               /\ sent'[d] = None => applied[d] = 0 /\ promise[d] = None
               /\ sent'[d] # None /\ Changes(d)' =>
                    /\ sent'[d].on # {}
                    /\ applied[d] <= 1
                    /\ applied[d] # 0 => \A i \in sent'[d].on :
                         store.records[i] # None => store.records[i].version # sent'[d].version
               /\ sent'[d] # None /\ ~Changes(d)' =>
                    applied[d] <= windows[d] + (IF InWindow(d)' THEN 1 ELSE 0)
    <3>1. CASE d = c
      BY <1>1, <2>1, <2>2, <3>1
    <3>2. CASE d # c
      BY <1>6, <3>2 DEF IInv, Counted
    <3> QED BY <3>1, <3>2
  <2> QED BY <1>2, <2>3 DEF Counted
<1> QED BY <1>3, <1>4, <1>5, <1>7, <1>8 DEF IInv

\* A step that only opens or ends a transaction.
LEMMA TransactionPreserves ==
  ASSUME IInv, NEW p \in Process,
         UNCHANGED <<store, token, sent, promise, applied, windows>>,
         \/ Open(p)
         \/ txn' = [txn EXCEPT ![p] = None]
         \/ UNCHANGED txn
  PROVE  IInv'
<1>1. /\ Limited' /\ Chronicled' /\ VersionsGiven' /\ Counted' /\ Promised'
  BY DEF IInv, Limited, Fits, Names, Receipts, Chronicled, Told, VersionsGiven, Counted,
         Changes, InWindow, Promised
<1>2. Upgraded(store)' = Upgraded(store)
  BY DEF Upgraded
<1>3. CASE Open(p)
  <2>1. PICK c \in CallId :
          /\ sent[c] # None /\ LockFree
          /\ txn' = [txn EXCEPT ![p] = [call |-> c, view |-> Upgraded(store)]]
    BY <1>3 DEF Open
  <2>2. [call |-> c, view |-> Upgraded(store)] \in Transaction
    BY UpgradedKeeps DEF Transaction, IInv, Typed
  <2>3. Typed'
    BY <2>1, <2>2 DEF IInv, Typed
  <2>4. Exclusive'
    <3>1. \A q \in Process : txn'[q] # None => q = p
      BY <2>1 DEF LockFree, IInv, Typed
    <3>2. txn'[p].call = c /\ txn'[p].view = Upgraded(store)
      BY <2>1 DEF IInv, Typed
    <3> QED BY <1>2, <2>1, <3>1, <3>2 DEF Exclusive
  <2> QED BY <1>1, <2>3, <2>4 DEF IInv
<1>4. CASE txn' = [txn EXCEPT ![p] = None]
  <2>1. Typed'
    BY <1>4 DEF IInv, Typed
  <2>2. Exclusive'
    BY <1>2, <1>4 DEF IInv, Exclusive, Typed
  <2> QED BY <1>1, <2>1, <2>2 DEF IInv
<1>5. CASE UNCHANGED txn
  BY <1>1, <1>2, <1>5 DEF IInv, Typed, Exclusive
<1> QED BY <1>3, <1>4, <1>5

LEMMA ExpirePreserves ==
  ASSUME IInv, NEW n \in Name, Expire(n)
  PROVE  IInv'
<1> PICK r : r = store.receipts[n]
  OBVIOUS
<1>1. /\ r # None /\ r.age = "kept" /\ LockFree
      /\ store' = [store EXCEPT !.receipts[n].age = "expired"]
      /\ promise' = [promise EXCEPT ![r.call] = None]
      /\ windows' = [windows EXCEPT ![r.call] = @ + 1]
      /\ UNCHANGED <<token, sent, txn, applied>>
  BY DEF Expire
<1>2. store \in Store /\ store.receipts \in [Name -> {None} \cup Receipt] /\ r \in Receipt
  BY <1>1 DEF IInv, Typed, Store
<1>3. [r EXCEPT !.age = "expired"] \in Receipt /\ [r EXCEPT !.age = "expired"].age = "expired"
      /\ [r EXCEPT !.age = "expired"].call = r.call /\ r.call \in CallId
  BY <1>2 DEF Receipt
<1>4. /\ store' \in Store
      /\ store'.schema = store.schema /\ store'.records = store.records
      /\ store'.history = store.history
      /\ store'.receipts = [store.receipts EXCEPT ![n] = [r EXCEPT !.age = "expired"]]
  BY <1>1, <1>2, <1>3 DEF Store
<1>5. Typed'
  BY <1>1, <1>3, <1>4 DEF IInv, Typed
<1>6. Limited' /\ Chronicled'
  <2>1. [r EXCEPT !.age = "expired"] # None
    BY <1>3, AbsenceOK
  <2>2. Receipts(store') = Receipts(store)
    BY <1>1, <1>2, <1>4, <2>1 DEF Receipts
  <2>3. Names(store'.records) = Names(store.records)
    BY <1>4
  <2>4. Fits(store') <=> Fits(store)
    BY <2>2, <2>3 DEF Fits
  <2> QED BY <1>1, <1>4, <2>4 DEF IInv, Limited, Chronicled, Told, Fits, Names, Receipts
<1>7. Exclusive' /\ VersionsGiven'
  BY <1>1, <1>4 DEF IInv, Exclusive, LockFree, VersionsGiven
<1>8. ASSUME NEW d \in CallId, sent[d] # None
      PROVE  /\ store'.receipts[sent[d].name] =
                  IF sent[d].name = n THEN [r EXCEPT !.age = "expired"]
                  ELSE store.receipts[sent[d].name]
             /\ InWindow(d)' <=> InWindow(d) /\ sent[d].name # n
  <2>1. sent[d].name \in Name
    BY <1>8 DEF IInv, Typed, Params
  <2> QED BY <1>1, <1>2, <1>3, <1>4, <2>1 DEF InWindow
<1>9. Promised'
  <2> SUFFICES ASSUME NEW d \in CallId, promise'[d] # None
               PROVE  InWindow(d)' /\ store'.receipts[sent[d].name].result = promise'[d]
    BY <1>1 DEF Promised
  <2>1. d # r.call /\ promise'[d] = promise[d]
    BY <1>1, <1>3 DEF IInv, Typed
  <2>2. /\ InWindow(d) /\ store.receipts[sent[d].name].result = promise[d]
        /\ sent[d] # None
    BY <2>1 DEF IInv, Promised, Counted
  <2>3. sent[d].name # n
    BY <2>1, <2>2 DEF InWindow
  <2> QED BY <1>8, <2>1, <2>2, <2>3
<1>10. Counted'
  <2>1. ASSUME NEW d \in CallId
        PROVE  /\ applied[d] <= token
               /\ sent[d] = None => applied[d] = 0 /\ promise'[d] = None
               /\ sent[d] # None /\ Changes(d) =>
                    /\ sent[d].on # {}
                    /\ applied[d] <= 1
                    /\ applied[d] # 0 => \A i \in sent[d].on :
                         store'.records[i] # None => store'.records[i].version # sent[d].version
               /\ sent[d] # None /\ ~Changes(d) =>
                    applied[d] <= windows'[d] + (IF InWindow(d)' THEN 1 ELSE 0)
    <3>1. /\ applied[d] <= token
          /\ sent[d] = None => applied[d] = 0 /\ promise[d] = None
          /\ sent[d] # None /\ Changes(d) =>
               /\ sent[d].on # {}
               /\ applied[d] <= 1
               /\ applied[d] # 0 => \A i \in sent[d].on :
                    store.records[i] # None => store.records[i].version # sent[d].version
          /\ sent[d] # None /\ ~Changes(d) =>
               applied[d] <= windows[d] + (IF InWindow(d) THEN 1 ELSE 0)
      BY DEF IInv, Counted
    <3>2. promise'[d] = None \/ promise'[d] = promise[d]
      BY <1>1, <1>3 DEF IInv, Typed
    <3>3. /\ windows'[d] = IF d = r.call THEN windows[d] + 1 ELSE windows[d]
          /\ windows[d] \in Nat /\ applied[d] \in Nat
      BY <1>1, <1>3 DEF IInv, Typed
    <3>4. sent[d] # None /\ InWindow(d) => InWindow(d)' \/ d = r.call
      BY <1>8 DEF InWindow
    <3>5. sent[d] # None /\ ~Changes(d) =>
            applied[d] <= windows'[d] + (IF InWindow(d)' THEN 1 ELSE 0)
      BY <3>1, <3>3, <3>4
    <3> QED BY <1>4, <3>1, <3>2, <3>5
  <2>2. \A d \in CallId : Changes(d)' <=> Changes(d)
    BY <1>1 DEF Changes
  <2> QED BY <1>1, <2>1, <2>2 DEF Counted
<1> QED BY <1>5, <1>6, <1>7, <1>9, <1>10 DEF IInv

-----------------------------------------------------------------------------
(***************************************************************************)
(* The invariant                                                           *)
(***************************************************************************)

LEMMA InitEstablishes ==
  ASSUME Init
  PROVE  IInv
<1>1. /\ store \in Store /\ store.history = <<>>
      /\ \A i \in Id : store.records[i] # None => store.records[i].version = 0
      /\ store.schema = "current" => store = Empty
  <2>1. <<>> \in Seq(Event) /\ [n \in Name |-> None] \in [Name -> {None} \cup Receipt]
    OBVIOUS
  <2>2. CASE store = Empty
    <3>1. [i \in Id |-> None] \in Records
      BY DEF Records
    <3> QED BY <2>1, <2>2, <3>1 DEF Empty, Store
  <2>3. CASE store \in Predecessor
    <3>1. PICK r \in [Id -> {None} \cup [version : {0}, values : {"old", "broken"}]] :
            store = [schema |-> "old", records |-> r, history |-> <<>>,
                     receipts |-> [n \in Name |-> None]]
      BY <2>3 DEF Predecessor
    <3>2. r \in Records /\ \A i \in Id : r[i] # None => r[i].version = 0
      <4>1. 0 \in Token
        BY ConstantsOK DEF Token
      <4> QED BY <4>1 DEF Records, Record, Value
    <3> QED BY <2>1, <3>1, <3>2 DEF Store
  <2> QED BY <2>2, <2>3 DEF Init
<1>2. /\ token = 0 /\ sent = [c \in CallId |-> None] /\ txn = [p \in Process |-> None]
      /\ promise = [c \in CallId |-> None] /\ applied = [c \in CallId |-> 0]
      /\ windows = [c \in CallId |-> 0]
  BY DEF Init
<1>3. Typed
  BY <1>1, <1>2, ConstantsOK DEF Typed, Token
<1>4. Limited
  <2>1. Len(store.history) <= MaxHistory
    BY <1>1, ConstantsOK
  <2>2. ASSUME store = Empty PROVE Fits(store)
    <3>1. Names(store.records) = {} /\ Receipts(store) = {}
      BY <2>2 DEF Names, Receipts, Empty
    <3> QED BY <3>1, ConstantsOK, FS_EmptySet DEF Fits
  <2> QED BY <1>1, <2>1, <2>2 DEF Limited
<1>5. Exclusive /\ VersionsGiven /\ Counted /\ Promised
  BY <1>1, <1>2 DEF Exclusive, VersionsGiven, Counted, Promised
<1>6. Chronicled
  BY <1>1, <1>2 DEF Chronicled, Told
<1> QED BY <1>3, <1>4, <1>5, <1>6 DEF IInv

LEMMA NextPreserves ==
  ASSUME IInv, [Next]_vars
  PROVE  IInv'
<1>1. ASSUME NEW c \in CallId, Ask(c) PROVE IInv'
  BY <1>1, AskPreserves
<1>2. ASSUME NEW p \in Process, Open(p) \/ Replay(p) \/ Refuse(p) \/ Fail(p) PROVE IInv'
  BY <1>2, TransactionPreserves DEF Open, Replay, Refuse, Fail, Conclude
<1>3. ASSUME NEW p \in Process, Publish(p) PROVE IInv'
  BY <1>3, PublishPreserves
<1>4. ASSUME NEW n \in Name, Expire(n) PROVE IInv'
  BY <1>4, ExpirePreserves
<1>5. CASE UNCHANGED vars
  <2>1. UNCHANGED <<store, token, sent, txn, promise, applied, windows>>
    BY <1>5 DEF vars
  <2>2. Upgraded(store)' = Upgraded(store)
    BY <2>1 DEF Upgraded
  <2> QED BY <2>1, <2>2
          DEF IInv, Typed, Limited, Fits, Names, Receipts, Exclusive, VersionsGiven, Counted,
              Changes, InWindow, Promised, Chronicled, Told
<1> QED BY <1>1, <1>2, <1>3, <1>4, <1>5 DEF Next

\* The inductive invariant holds however often, and in whatever order, the host's calls
\* are sent, answered, lost and sent again.
THEOREM Invariant == Spec => []IInv
<1>1. Init => IInv
  BY InitEstablishes
<1>2. IInv /\ [Next]_vars => IInv'
  BY NextPreserves
<1> QED BY <1>1, <1>2, PTL DEF Spec

\* The file keeps its limits (check_settings_capacity), and everything kept beside it its
\* shape.
THEOREM TypeCorrect == Spec => []TypeOK
<1>1. IInv => TypeOK
  <2> SUFFICES ASSUME IInv PROVE TypeOK
    OBVIOUS
  <2>1. \A p \in Process : txn[p] # None => txn[p].call \in CallId
    BY OpenTransaction
  <2>2. applied \in [CallId -> 0..MaxToken]
    <3>1. \A c \in CallId : applied[c] \in 0..MaxToken
      BY ConstantsOK DEF IInv, Typed, Counted, Token
    <3> QED BY <3>1 DEF IInv, Typed
  <2> QED BY <2>1, <2>2 DEF IInv, Typed, Limited, Store, TypeOK
<1> QED BY <1>1, Invariant, PTL

\* A retry never applies a change twice, whether its receipt answers it or its version
\* stops it (find_mutation_receipt, ensure_version).
THEOREM ChangesApplyOnce == Spec => []AppliedOnce
<1>1. IInv => AppliedOnce
  <2> SUFFICES ASSUME IInv, NEW c \in CallId, sent[c] # None
               PROVE  applied[c] <= (IF sent[c].op \in {"update", "delete"} THEN 1
                                     ELSE 1 + windows[c])
    BY DEF AppliedOnce
  <2>1. applied[c] \in Nat /\ windows[c] \in Nat
    BY DEF IInv, Typed
  <2>2. /\ Changes(c) => applied[c] <= 1
        /\ ~Changes(c) => applied[c] <= windows[c] + (IF InWindow(c) THEN 1 ELSE 0)
    BY DEF IInv, Counted
  <2>3. windows[c] + (IF InWindow(c) THEN 1 ELSE 0) <= 1 + windows[c]
    BY <2>1
  <2> QED BY <2>1, <2>2, <2>3 DEF Changes
<1> QED BY <1>1, Invariant, PTL

\* What was committed is on file: the receipt for its window, and an unbroken chain of
\* events that ends with the present records (append_settings_history).
THEOREM CommitsStayOnFile == Spec => []CommitsAreRecorded
<1>1. IInv => CommittedIsKept
  BY DEF IInv, Promised, InWindow, CommittedIsKept
<1>2. IInv => HistoryChained
  BY ConstantsOK DEF IInv, Chronicled, Told, HistoryChained, Typed, Token
<1> QED BY <1>1, <1>2, Invariant, PTL DEF CommitsAreRecorded

\* A call that is sent again in its window hears the answer it was committed with, or that
\* the store could not be used (mutate_store answers from the receipt before it looks at
\* limits, versions or values).
THEOREM RetriesAreAnswered == Spec => RetryIsReplayed
<1> DEFINE Hears ==
      reply' # reply /\ reply' # None =>
        (promise[reply'.call] # None /\ reply'.kind # "unavailable"
           => reply'.result = promise[reply'.call])
<1>1. ASSUME IInv, [Next]_vars PROVE Hears
  <2>1. ASSUME NEW p \in Process, txn[p] # None, promise[txn[p].call] # None
        PROVE  /\ Known(p) /\ Committed(p).call = txn[p].call
               /\ Committed(p).result = promise[txn[p].call]
    <3>1. /\ txn[p].call \in CallId
          /\ txn[p].view.receipts = store.receipts
      BY <2>1, <1>1, OpenTransaction, UpgradedKeeps DEF IInv, Typed
    <3> QED BY <1>1, <2>1, <3>1 DEF IInv, Promised, InWindow, Known, Committed
  <2>2. ASSUME NEW p \in Process, Replay(p) PROVE Hears
    <3>1. txn[p] # None
      BY <2>2 DEF Replay, Known
    <3>2. CASE promise[txn[p].call] # None
      <4>1. /\ Committed(p).call = txn[p].call
            /\ Committed(p).result = promise[txn[p].call]
        BY <2>1, <3>1, <3>2
      <4>2. reply' = [call |-> txn[p].call, kind |-> "done", result |-> Committed(p).result]
        BY <2>2, <4>1 DEF Replay, Conclude
      <4> QED BY <4>1, <4>2
    <3>3. CASE promise[txn[p].call] = None
      <4>1. \E kind, result :
              reply' = [call |-> txn[p].call, kind |-> kind, result |-> result]
        BY <2>2 DEF Replay, Conclude
      <4> QED BY <3>3, <4>1
    <3> QED BY <3>2, <3>3
  <2>3. ASSUME NEW p \in Process, Refuse(p) \/ Publish(p) PROVE Hears
    <3>1. txn[p] # None /\ ~Known(p)
      BY <2>3 DEF Refuse, Publish
    <3>2. promise[txn[p].call] = None
      BY <2>1, <3>1
    <3>3. \E kind, result :
            reply' = [call |-> txn[p].call, kind |-> kind, result |-> result]
      BY <2>3 DEF Refuse, Publish, Conclude
    <3> QED BY <3>2, <3>3
  <2>4. ASSUME NEW p \in Process, Fail(p) PROVE Hears
    BY <2>4 DEF Fail, Conclude
  <2>5. ASSUME NEW p \in Process, Open(p) PROVE Hears
    BY <2>5 DEF Open
  <2>6. ASSUME NEW c \in CallId, Ask(c) PROVE Hears
    BY <2>6 DEF Ask
  <2>7. ASSUME NEW n \in Name, Expire(n) PROVE Hears
    BY <2>7 DEF Expire
  <2>8. CASE UNCHANGED vars
    BY <2>8 DEF vars
  <2> QED BY <1>1, <2>2, <2>3, <2>4, <2>5, <2>6, <2>7, <2>8 DEF Next
<1>2. [Next]_vars /\ IInv => [Hears]_vars
  BY <1>1
<1> QED BY <1>2, Invariant, PTL DEF Spec, RetryIsReplayed

\* A version that a reader resolved, with or without the projection of a predecessor's
\* values, means the same values after any step (upgrade_persisted_values, version_token).
THEOREM VersionsKeepTheirValues == Spec => VersionNamesValues
<1> DEFINE Means ==
      \A i \in Id :
        LET now == Resolved(store, i)
            next == Resolved(store', i)
        IN  now # None /\ next # None /\ now.version = next.version
              => now.values = next.values
<1>1. ASSUME IInv, [Next]_vars PROVE Means
  <2>1. ASSUME NEW p \in Process, Publish(p) PROVE Means
    <3> DEFINE records == Upgraded(store).records
    <3> DEFINE q == sent[txn[p].call]
    <3>1. /\ q \in Params /\ token < MaxToken
          /\ store' \in Store /\ store'.schema = "current"
          /\ store'.records = Mutated(q, records)
      BY <1>1, <2>1, PublicationLeaves
    <3>2. store \in Store /\ Typed
      BY <1>1 DEF IInv, Typed
    <3>3. /\ records \in Records
          /\ \A i \in Id : records[i] # None =>
               store.records[i] # None /\ records[i].version = store.records[i].version
      BY <3>2, UpgradedKeeps DEF Store
    <3>4. \A i \in Id : store.records[i] # None =>
            store.records[i].version <= token /\ store.records[i].version \in Nat
      BY <1>1, <3>2 DEF IInv, VersionsGiven, Store, Records, Record, Token
    <3>5. Upgraded(store') = store'
      BY <3>1 DEF Upgraded
    <3> HIDE DEF records, q
    <3>6. \A i \in Id : \/ Mutated(q, records)[i] = records[i]
                        \/ Mutated(q, records)[i] = None
                        \/ Mutated(q, records)[i].version = Fresh
      BY <3>1, <3>2, <3>3, MutatedGives
    <3>7. token \in Nat
      BY <3>2 DEF Typed, Token
    <3>8. \A i \in Id : Resolved(store, i) = records[i] /\ Resolved(store', i) = store'.records[i]
      BY <3>5 DEF Resolved, records
    <3> QED BY <3>1, <3>3, <3>4, <3>6, <3>7, <3>8 DEF Fresh
  <2>2. ASSUME NEW n \in Name, Expire(n) PROVE Means
    <3>1. store'.records = store.records /\ store'.schema = store.schema
      BY <1>1, <2>2 DEF Expire, IInv, Typed, Store
    <3>2. store' \in Store /\ store \in Store
      BY <1>1, <2>2, ExpirePreserves DEF IInv, Typed
    <3>3. Upgraded(store').records = Upgraded(store).records
      BY <3>1, <3>2 DEF Upgraded, Store
    <3> QED BY <3>3 DEF Resolved
  <2>3. CASE UNCHANGED store
    BY <2>3
  <2>4. ASSUME NEW p \in Process, Open(p) \/ Replay(p) \/ Refuse(p) \/ Fail(p)
        PROVE  UNCHANGED store
    BY <2>4 DEF Open, Replay, Refuse, Fail
  <2>5. ASSUME NEW c \in CallId, Ask(c) PROVE UNCHANGED store
    BY <2>5 DEF Ask
  <2> HIDE DEF Means
  <2> QED BY <1>1, <2>1, <2>2, <2>3, <2>4, <2>5 DEF Next, vars
<1>2. [Next]_vars /\ IInv => [Means]_vars
  BY <1>1
<1> QED BY <1>2, Invariant, PTL DEF Spec, VersionNamesValues
=============================================================================
