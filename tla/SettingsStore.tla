--------------------------- MODULE SettingsStore ---------------------------
(***************************************************************************)
(* The settings store of src/settings.rs: records, a chained history and   *)
(* the receipts of answered mutations, kept in one file that a mutation    *)
(* replaces as a whole under the store's lock.  Readers take no lock.      *)
(*                                                                         *)
(* A call is a request the host may send any number of times: it retries   *)
(* when an answer was lost, and again after the 24 hours a receipt is      *)
(* kept.  Two calls may, by mistake, carry the same request id.            *)
(*                                                                         *)
(* Identifiers and version tokens are digests over a clock and the values  *)
(* they name: a token here is the number of the publication that made it.  *)
(* A record has one size, so that the limit on records stands for the      *)
(* limit on bytes as well.                                                 *)
(***************************************************************************)
EXTENDS Integers, FiniteSets, Sequences

CONSTANTS
  Process,      \* invocations of the provider
  CallId,       \* requests the host makes
  Name,         \* their request ids
  Caller,       \* identifiers that predecessors and legacy tables already use
  MaxRecords,   \* MAX_SETTINGS_RECORDS
  MaxReceipts,  \* MAX_SETTINGS_MUTATION_RECEIPTS
  MaxHistory,   \* MAX_SETTINGS_HISTORY_EVENTS
  MaxToken,     \* publications considered
  None

ASSUME ConstantsOK ==
  /\ {MaxRecords, MaxReceipts, MaxHistory, MaxToken} \subseteq Nat \ {0}
  /\ Caller \cap Nat = {}

VARIABLES
  store,     \* the file
  token,     \* publications so far
  sent,      \* what the host asked with each call
  txn,       \* the transaction each process has open
  promise,   \* history: the answer a call was committed with, in its window
  applied,   \* history: how often a call's mutation was published
  windows,   \* history: how often its window closed
  reply      \* history: the last answer, and to whom

vars == <<store, token, sent, txn, promise, applied, windows, reply>>

-----------------------------------------------------------------------------
Id == Caller \cup 1..MaxToken

Token == 0..MaxToken

\* Accepted values, what a predecessor's values of the same meaning look like, and
\* values no schema routes.
Routable == {"v1", "v2"}

Value == Routable \cup {"old", "broken"}

Record == [version : Token, values : Value]

Operation == {"create", "update", "delete", "migrate"}

\* `on` is the record a call is about, or the identifiers of a legacy table.
Params == [name : Name, op : Operation, on : SUBSET Id, version : Token, values : Value]

Result == [op : Operation, on : SUBSET Id, token : Token]

Receipt == [call : CallId, result : Result, age : {"kept", "expired"}]

\* What is absent is not a receipt.
ASSUME AbsenceOK == None \notin Receipt

\* upgrade_persisted_values: the predecessor's shape read as the current one.
Projected(v) == IF v = "old" THEN "v1" ELSE v

Names(records) == {i \in Id : records[i] # None}

Receipts(s) == {n \in Name : s.receipts[n] # None}

\* upgrade_persisted_store.  `recovery` says how much the file may hold, never what is
\* written back.
Upgraded(s) ==
  IF s.schema = "current" THEN s
  ELSE [s EXCEPT !.schema = "current",
                 !.records = [i \in Id |->
                    IF s.records[i] = None THEN None
                    ELSE [s.records[i] EXCEPT !.values = Projected(@)]]]

\* What list, get and the resolution of a launch's or rotation's settings find, without the
\* lock: find_record in the file as it is, brought to the current schema in memory.
Resolved(s, i) == Upgraded(s).records[i]

\* A store of a predecessor, which knew neither history nor receipts and kept more records.
Predecessor ==
  {[schema |-> "old", records |-> r, history |-> <<>>, receipts |-> [n \in Name |-> None]] :
     r \in {f \in [Id -> {None} \cup [version : {0}, values : {"old", "broken"}]] :
              Names(f) \subseteq Caller}}

\* SettingsStore::default.
Empty ==
  [schema |-> "current", records |-> [i \in Id |-> None], history |-> <<>>,
   receipts |-> [n \in Name |-> None]]

Init ==
  /\ store \in Predecessor \cup {Empty}
  /\ token = 0
  /\ sent = [c \in CallId |-> None]
  /\ txn = [p \in Process |-> None]
  /\ promise = [c \in CallId |-> None]
  /\ applied = [c \in CallId |-> 0]
  /\ windows = [c \in CallId |-> 0]
  /\ reply = None

-----------------------------------------------------------------------------
(***************************************************************************)
(* The mutations, on a store that was read                                 *)
(***************************************************************************)
\* version_token and unique_settings_id: never given before.
Fresh == token + 1

\* legacy_diagnostics: a table in which no provider is recognised is an error.
Recognised(q) == q.on # {}

\* find_record and ensure_version: the record is there, with the version the caller read.
Current(q, records) == \A i \in q.on : records[i] # None /\ records[i].version = q.version

\* Seeded fault: an update or delete takes whatever version it finds.
AllowedUnversioned(q, records) ==
  CASE q.op = "create" -> q.values \in Routable
    [] q.op = "update" -> q.values \in Routable /\ q.on \subseteq Names(records)
    [] q.op = "delete" -> q.on \subseteq Names(records)
    [] q.op = "migrate" -> Recognised(q)

\* What a mutation refuses: values that do not validate, a record that is not there, a
\* version that is not the record's.  A migration takes what it finds.
Allowed(q, records) ==
  CASE q.op = "create" -> q.values \in Routable
    [] q.op = "update" -> q.values \in Routable /\ Current(q, records)
    [] q.op = "delete" -> Current(q, records)
    [] q.op = "migrate" -> Recognised(q)

\* Seeded fault: a record that is there keeps its version.
PutInPlace(records, ids, values) ==
  [i \in Id |->
     IF i \notin ids THEN records[i]
     ELSE [version |-> IF records[i] = None THEN Fresh ELSE records[i].version,
           values |-> values]]

\* new_record and update_record: the values, under a version never given before.
Put(records, ids, values) ==
  [i \in Id |-> IF i \in ids THEN [version |-> Fresh, values |-> values] ELSE records[i]]

\* A creation makes up its identifier.
Created(q, records) == Put(records, {Fresh}, q.values)

Updated(q, records) == Put(records, q.on, q.values)

Deleted(q, records) == [i \in Id |-> IF i \in q.on THEN None ELSE records[i]]

\* Each recognised name of the table becomes, or replaces, the record of that name.
Migrated(q, records) == Put(records, q.on, q.values)

Mutated(q, records) ==
  CASE q.op = "create" -> Created(q, records)
    [] q.op = "update" -> Updated(q, records)
    [] q.op = "delete" -> Deleted(q, records)
    [] q.op = "migrate" -> Migrated(q, records)

\* The records an answer names.
Touched(q) == IF q.op = "create" THEN {Fresh} ELSE q.on

Sequence(history) == IF history = <<>> THEN 1 ELSE history[Len(history)].sequence + 1

\* append_settings_history, with the records where the event holds their digests.
Appended(history, before, after) ==
  LET event == [sequence |-> Sequence(history), prior |-> before, result |-> after]
      all == Append(history, event)
  IN  IF Len(all) > MaxHistory THEN SubSeq(all, Len(all) - MaxHistory + 1, Len(all)) ELSE all

Pruned(receipts) ==
  [n \in Name |->
     IF receipts[n] # None /\ receipts[n].age = "expired" THEN None ELSE receipts[n]]

\* The file a call leaves: mutate_store between its receipt and its capacity checks.
Candidate(c, s) ==
  LET q == sent[c]
      after == Mutated(q, s.records)
      result == [op |-> q.op, on |-> Touched(q), token |-> Fresh]
  IN  [s EXCEPT
         !.records = after,
         !.history = Appended(@, s.records, after),
         !.receipts = [Pruned(@) EXCEPT
                         ![q.name] = [call |-> c, result |-> result, age |-> "kept"]]]

\* Seeded fault: a predecessor's store may still be above the steady-state limits.
FitsEither(s) == store.schema = "old" \/ Cardinality(Names(s.records)) <= MaxRecords

\* The steady-state limits, which the file of a predecessor is not exempt from.
Fits(s) ==
  /\ Cardinality(Names(s.records)) <= MaxRecords
  /\ Cardinality(Receipts(s)) <= MaxReceipts

\* A window full of receipts refuses the next mutation, except the one that takes a
\* predecessor's store into the steady state.
WindowFull(s) ==
  store.schema = "current" /\ Cardinality(Receipts([s EXCEPT !.receipts = Pruned(@)])) >= MaxReceipts

-----------------------------------------------------------------------------
(***************************************************************************)
(* Calls                                                                   *)
(***************************************************************************)
\* The host asks.  It has read the record it wants to change, now or earlier.
Ask(c) ==
  /\ sent[c] = None
  /\ \E name \in Name, op \in Operation, on \in {{}} \cup {{i} : i \in Id},
        version \in 0..token, values \in Routable :
       /\ op = "create" => on = {} /\ version = 0
       /\ op = "migrate" => on # {} /\ on \subseteq Caller /\ version = 0
       /\ op \in {"update", "delete"} => on # {} /\ on \subseteq Caller \cup 1..token
       /\ op = "delete" => values = "v1"
       /\ sent' = [sent EXCEPT ![c] =
            [name |-> name, op |-> op, on |-> on, version |-> version, values |-> values]]
  /\ UNCHANGED <<store, token, txn, promise, applied, windows, reply>>

\* Seeded fault: the lock does not keep others out.
LockFreeAlways == TRUE

LockFree == \A p \in Process : txn[p] = None

\* The lock is taken, the file is read and brought to the current schema.
Open(p) ==
  \E c \in CallId :
    /\ sent[c] # None /\ txn[p] = None /\ LockFree
    /\ txn' = [txn EXCEPT ![p] = [call |-> c, view |-> Upgraded(store)]]
    /\ UNCHANGED <<store, token, sent, promise, applied, windows, reply>>

\* A call hears a result, or why there is none.
Conclude(p, kind, result) ==
  /\ txn' = [txn EXCEPT ![p] = None]
  /\ reply' = [call |-> txn[p].call, kind |-> kind, result |-> result]

Committed(p) == txn[p].view.receipts[sent[txn[p].call].name]

\* Seeded fault: a full window refuses before the receipt is looked for.
KnownUnlessFull(p) ==
  /\ txn[p] # None
  /\ Committed(p) # None
  /\ ~WindowFull(txn[p].view)

\* The request id has an answer on record, whatever its age.
Known(p) == txn[p] # None /\ Committed(p) # None

\* The recorded answer, when it is this call's, and a conflict otherwise.
Replay(p) ==
  /\ Known(p)
  /\ IF Committed(p).call = txn[p].call
     THEN Conclude(p, "done", Committed(p).result)
     ELSE Conclude(p, "conflict", None)
  /\ UNCHANGED <<store, token, sent, promise, applied, windows>>

Refuse(p) ==
  /\ txn[p] # None /\ ~Known(p)
  /\ LET s == txn[p].view
         c == txn[p].call
     IN  \/ WindowFull(s)
         \/ ~Allowed(sent[c], s.records)
         \/ token < MaxToken /\ ~Fits(Candidate(c, s))
  /\ Conclude(p, "refused", None)
  /\ UNCHANGED <<store, token, sent, promise, applied, windows>>

\* write_store_path: the rename makes the candidate the file.  Syncing the directory may
\* still fail, and the host may die or lose interest before it hears.
Publish(p) ==
  /\ txn[p] # None /\ ~Known(p) /\ token < MaxToken
  /\ LET c == txn[p].call
         s == Candidate(c, txn[p].view)
     IN  /\ ~WindowFull(txn[p].view)
         /\ Allowed(sent[c], txn[p].view.records)
         /\ Fits(s)
         /\ store' = s
         /\ token' = Fresh
         /\ promise' = [promise EXCEPT ![c] = s.receipts[sent[c].name].result]
         /\ applied' = [applied EXCEPT ![c] = @ + 1]
         /\ \/ Conclude(p, "done", promise'[c])
            \/ Conclude(p, "unavailable", None)
  /\ UNCHANGED <<sent, windows>>

\* The process dies, or fails before the rename.
Fail(p) ==
  /\ txn[p] # None
  /\ Conclude(p, "unavailable", None)
  /\ UNCHANGED <<store, token, sent, promise, applied, windows>>

\* Twenty-four hours pass over a receipt.
Expire(n) ==
  LET r == store.receipts[n]
  IN  /\ r # None /\ r.age = "kept" /\ LockFree
      /\ store' = [store EXCEPT !.receipts[n].age = "expired"]
      /\ promise' = [promise EXCEPT ![r.call] = None]
      /\ windows' = [windows EXCEPT ![r.call] = @ + 1]
      /\ reply' = None
      /\ UNCHANGED <<token, sent, txn, applied>>

Next ==
  \/ \E c \in CallId : Ask(c)
  \/ \E p \in Process : Open(p) \/ Replay(p) \/ Refuse(p) \/ Publish(p) \/ Fail(p)
  \/ \E n \in Name : Expire(n)

Spec == Init /\ [][Next]_vars

-----------------------------------------------------------------------------
(***************************************************************************)
(* Properties                                                              *)
(***************************************************************************)
Records == [Id -> {None} \cup Record]

\* The shape of every variable, and of the file above all: it is within the limits once it
\* is written, as a predecessor's store enters them in one step or stays as it is.
TypeOK ==
  /\ store.schema \in {"old", "current"}
  /\ store.records \in Records
  /\ Len(store.history) <= MaxHistory
  /\ store.schema = "current" => Fits(store)
  /\ store.receipts \in [Name -> {None} \cup Receipt]
  /\ token \in Token
  /\ sent \in [CallId -> {None} \cup Params]
  /\ \A p \in Process : txn[p] # None => txn[p].call \in CallId
  /\ promise \in [CallId -> {None} \cup Result]
  /\ applied \in [CallId -> 0..MaxToken]

\* However often a call is sent, an update or a deletion is applied once for ever, also
\* when the receipt is gone: no later record carries the version it asked for.  A creation
\* or a migration is applied once in every window of its receipt.
AppliedOnce ==
  \A c \in CallId :
    sent[c] # None =>
      applied[c] <= (IF sent[c].op \in {"update", "delete"} THEN 1 ELSE 1 + windows[c])

\* A published mutation stays answerable for its window: no transaction of another process
\* that read the file earlier takes its receipt away.
CommittedIsKept ==
  \A c \in CallId :
    promise[c] # None =>
      LET r == store.receipts[sent[c].name]
      IN  r # None /\ r.call = c /\ r.result = promise[c]

\* In its window a call that is sent again hears the answer it was committed with, however
\* full the store is and whatever happened to the record since, or that the store could
\* not be used.
RetryIsReplayed ==
  [][reply' # reply /\ reply' # None =>
       (promise[reply'.call] # None /\ reply'.kind # "unavailable"
          => reply'.result = promise[reply'.call])]_vars

\* The kept history is a gapless tail: numbered one by one, every event starting from the
\* records the event before it left, and the last one leaving the records of the file.
HistoryChained ==
  LET h == store.history
  IN  /\ \A k \in 1..Len(h) - 1 :
           h[k + 1].sequence = h[k].sequence + 1 /\ h[k + 1].prior = h[k].result
      /\ h # <<>> => h[Len(h)].result = store.records
      /\ h # <<>> /\ token > MaxHistory => h[Len(h)].sequence > MaxHistory

\* What was committed stays on file for its window: the receipt that answers for it and
\* the chain of events that led to the present records.
CommitsAreRecorded == CommittedIsKept /\ HistoryChained

\* A launch that resolved a record and its version before another process brought the file
\* to the current schema would resolve the same version to the same values afterwards.
VersionNamesValues ==
  [][\A i \in Id :
       LET now == Resolved(store, i)
           next == Resolved(store', i)
       IN  now # None /\ next # None /\ now.version = next.version
             => now.values = next.values]_vars

=============================================================================
