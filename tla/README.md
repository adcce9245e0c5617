# Formal models of agent-runner-opencode

`agent-runner-opencode` is a provider: a program the host starts once per
request, which answers one JSON request and exits. It has no server and no
memory. Everything that makes it correct is therefore in files: what each
process finds there, in which order it writes, which `flock` it holds while it
does, and what is left when it dies half way. These modules model that.

Paths below are relative to the repository (`src/launch.rs` there is
`src/src/launch.rs` in `PROJECT.json`).

## 1. Inventory

### 1.1 Shape of the system

One process serves one request: `main.rs` decodes the envelope, `dispatch.rs`
routes it to a capability, the capability answers. Two processes interact only
through

* files below the data root (records, indexes, snapshots, ledgers),
* advisory locks on lock files (released by the kernel when the holder dies),
* signals to recorded native process groups, and
* what the native program (`opencode`) has stored meanwhile.

So the actors are operating-system processes and native groups; a step is one
durable write, one lock transition or one signal; a crash falls between any two
steps; and a retry is another process with the same request id. There are no
messages to lose, but every answer to the host can be lost, which is why every
effectful operation is written to be retried.

### 1.2 Components

| component | state it keeps | operations | what is hard | what makes it correct |
|---|---|---|---|---|
| launch request custody (`launch.rs`) | one record per request id, its lock, active marker, pre-effect entry, replay owner | preflight replay, admission, spawn behind an exec gate, actor publication, gate release, conclusion, settlement, handoff; exact retry: settle the recorded group, recover from the native store, reconcile or readmit | crash between any two writes; retries racing the first process; cleaners of other requests; recovery that is unavailable | a native turn is submitted at most once; a group that may act is always named by a durable record; recorded observations are true and stay |
| launch event stream (`launch.rs`, `terminal.rs`, `shell.rs`) | none durable | drain threads, supervision loop, deadline and grace timers, deferred spool | events queued when the child exits; timers around the exit | evidence is recorded before it is reported; one final status, on all the evidence |
| replay table and active index (`request_custody.rs`) | slots, reservations, owners, markers, pre-effect shards | reserve, own, write slot, displace, retire, complete an interrupted placement | chains of writes cut anywhere, finished by others; full table | bounded; nothing leaks; nothing is placed twice; nothing goes before its successor is durable |
| request lock file and pins (`request_custody.rs`, `launch.rs`) | `<stem>.lock`, `<stem>.pin` | open, pin, lock, unlink | a name can change its inode between open and flock | mutual exclusion |
| native process groups (`native_process.rs`, `child_custody.rs`) | pid, group, start identity | spawn gated, release, terminate, two-signal grace | parent death; group id reuse | only the recorded group is signalled |
| session enumeration (`session_enumeration.rs`) | at most `MAX_ENUMERATION_SNAPSHOTS` directories: rows, manifest with the last page claim | first page, page by cursor, exact retry, expiry, displacement | listing outside the lock; rival readers of a cursor; recreated snapshots; half-written or half-removed directories | each row of an instance goes to one consumer; a cursor never reads another instance; retention |
| quota credential refresh (`quota_auth_refresh.rs`) | an operation record per request, an effect lock per credential file | prepare, admit the effect, publish and settle the actor, record the reconciliation | two requests refreshing one credential; death after admission | no second refresh without a reconciliation |
| rotation (`rotation.rs`) | binding record and operation, import candidate, artifact | prepare, import in a native actor, preserve the candidate, validate, commit | three durable steps after the import; a retry resumes after any | one import per operation; committed means validated |
| settings store (`settings.rs`) | one JSON store: records, receipts, history | create, update, delete, migrate, replay by receipt | a retry after the receipt expired; capacity | a mutation is applied once in the receipt window; the history chain matches the records |
| activity ledger (`activity.rs`) | two event files and a head | append, rotate, repair the tail | append before head; rotation | no committed event is lost, no uncommitted one survives |
| native identity rebind (`native_identity_rebind.rs`) | per-cycle slots: planned and observed evidence, phase, expiry | Plan, Seal, Observe, Release, retry | steps repeated, delayed or reordered; the executable and the record change meanwhile | requests are let in again only on the record that was observed; a sealed cycle is settled |
| native runtime (`native_runtime.rs`, `native_implementation_manifest.rs`, `runtime_selection.rs`) | per-account runtime record | resolve under the account's lock: keep, upgrade, admit a replacement | the executable is replaced between two looks at it | a record names one file: its stamp, its content and its version belong together |
| resumed-turn observation (`resume_observation.rs`) | none | match a nonce in a native transcript export | unavailable or partial exports | attributes a turn only to its own nonce |
| session turn pages (`session_turn_pages.rs`, `session.rs`) | the tokens the host carries; one key file | first page, next page, resumption after a completed snapshot | several queries per page on a store that is being written | the pages of a snapshot show the prefix it froze; nothing between two pages is lost |
| migration artifacts (`migration.rs`) | bounded artifact directory | export, import | capacity | bounded |
| quota reading (`quota.rs`, `quota_adapter.rs`, `quota_observer.rs`) | none | translate native quota answers | - | - |
| policy, models, setup reports (`policy.rs`, `models.rs`, `setup.rs`, `discovery.rs`, `account.rs`) | none | map parameters to options | - | - |
| dispatch shell (`main.rs`, `lib.rs`, `dispatch.rs`, `envelope.rs`, `schema.rs`, `config.rs`, `encoding.rs`) | none | decode, route, encode | - | - |
| native command adapter (`opencode.rs`) | none | build and parse command lines | - | environment of the models |
| durable file helpers (`durable_fs.rs`, `path_guard.rs`) | none | atomic replace, fsync | - | the models take one atomic durable write per call |
| OpenCode tool (`integrations/`) | none shared | a TypeScript tool inside the native harness | - | - |

`PROJECT.json` repeats this list with the status of each component, and lists
under "hazards" what in this code is hard to test, each at its line.

### 1.3 Interactions

* *launch* uses *request custody*: admission marks the id active, the finished
  request is handed to the replay table, and both clean up after other
  requests (reaping a pre-effect candidate of the same shard, displacing an old
  replay). These visits by other requests are the `Reaper` and the `Evictor`
  of `LaunchRequest`, and the other workers of `ReplayTable`.
* *launch* uses *process groups*: the child runs nothing but an exec gate until
  its actor is durable in the record. From the opened gate to the exit event the
  same process supervises it (`LaunchStream`); the two models meet at the record's
  phases, which `LaunchStream` writes and `LaunchRequest` recovers.
* *launch* recovery uses the *native store*: session listing (new sessions) and
  transcript export (resumed sessions).
* *rotation* and *quota refresh* use the same request custody with other
  roots. Rotation takes the settings lock for its last transaction, so that no
  settings mutation comes between the check of the selection and the receipt.
* *rebind* decides on the *runtime record*, which ordinary requests resolve and
  may change meanwhile: `IdentityRebind` extends `NativeRuntime` and runs both.
* every request is recorded in the *activity ledger* by the *dispatch shell*,
  before its capability runs and after; a failure to record is a warning.
* *session enumeration* only shares its own directory among its own calls.

## 2. The modules

| module | what it models | source |
|---|---|---|
| `LaunchRequest` | every process ever started with one request id, its shared record and its native groups | `launch.rs`, parts of `request_custody.rs`, `native_process.rs` |
| `OneTurn` | what a launch request promises the host: an abstract specification without files | - |
| `ReplayTable` | the table shared by all requests | `request_custody.rs` (distributed policy) |
| `RequestLock` | the lock file behind the mutex that `LaunchRequest` assumes | `launch.rs` 1960-2000, 2429-2441; `request_custody.rs` |
| `SessionEnumeration` | snapshots, page claims and retention | `session_enumeration.rs` |
| `QuotaRefresh` | `auth list` effects of several requests on one shared credential file | `quota_auth_refresh.rs`, parts of `opencode.rs`, `child_custody.rs`, `native_process.rs` |
| `TurnPages` | pages of a native session while the native program writes it | `session_turn_pages.rs` |
| `Rotation` | calls over several bindings, their import actors and the target account | `rotation.rs` |
| `SettingsStore` | mutations of the settings file, their receipts and its history | `settings.rs`, `settings_definition.rs` |
| `NativeRuntime` | the runtime record of an account and the executable at its path | `native_runtime.rs`, `native_implementation_manifest.rs` |
| `IdentityRebind` | the rebind cycles, composed with `NativeRuntime`, and the host that keeps requests out | `native_identity_rebind.rs` |
| `LaunchStream` | one launch from its opened gate to its exit event | `launch.rs`, `terminal.rs` |
| `ActivityLedger` | two segments and a head under calls that append and die | `activity.rs`, parts of `dispatch.rs` |
| `LaunchRequestProofs` | proofs about `LaunchRequest`, and that it implements `OneTurn` | - |
| `SessionProofs` | proofs about `TurnPages` and `SessionEnumeration` | - |
| `QuotaRefreshProofs` | proofs about `QuotaRefresh` | - |
| `IdentityRebindProofs` | proofs about `IdentityRebind` and `NativeRuntime` | - |
| `EvidenceProofs` | proofs about `LaunchStream` and `ActivityLedger` | - |
| `RotationProofs` | proofs about `Rotation` | - |
| `SettingsStoreProofs` | proofs about `SettingsStore` | - |
| `ReplayTableProofs` | proofs about `ReplayTable` | - |
| `MC*` | small instances for TLC | - |

### 2.1 LaunchRequest

State: `rec` is `<stem>.json` (phase, actor, whether the actor is durably gone,
input identity), `marker` the active marker with the input it is bound to,
`owner` the replay owner, `candidate` the entry in the pre-effect shard, `lock`
the flock. Per process: `pc`, `stage` (why it holds the lock: preflight,
admission, abandonment), `ask` (its input), `mem` (the record in its
`LaunchRequestGuard`) and `native` (its group: `none`, `gated`, `running`,
`dead`). The native store is `submitted` and `completed`; `retired` remembers
which submissions belong to a record that has aged out.

The actions follow the code in its order, one durable write or signal each:

1. `Start`, `PolicyAccepts/Rejects`, `Lock`, `LockTimeout`: preflight looks for a
   record *before* it locks, admission comes after the policy.
2. `Classify`, `Handoff`, `HandoffMarker`, `Read`:
   `acquire_launch_request_lock` and the read of the record.
3. `Settle`, `SettleWrite`, `InterpretNewSession`, `InterpretResume`, `Remove`,
   `Orphan*`: an exact retry ends the recorded group, makes that durable, asks
   the native store, and reconciles, refuses or readmits.
4. `Prepare`, `Spawn`, `Abandon`, `ObserveActor`, `ReleaseGate`,
   `ObserveSession`, `Finish`, `StreamFails`: the turn.
5. `DropCustody`, `SettleOwn`, `Release`, `Publish`, `PublishMarker`: the
   finalizer; publication follows the unlock.
6. `Fail`, `Crash`: an error unwinds the guards and ends the group; a dead
   process loses its flock, closes an unreleased gate, and may leave a released
   group behind.
7. `NativeSubmits/Completes/Exits`: the native program.
8. `Reap`, `ReapMarker`, `Evict`, `EvictOwner`, `CleanerCrash`: other requests.

A native listing may be unavailable, and it may show or hide the turns of an
evicted predecessor (`Sightings`); it always shows the turn of the present
record, which is what the code's clock tolerance and nonce provide.

`OneTurn` has two variables: the live group and whether the turn is taken.
`ImplementsOneTurn` instantiates it with `live` = the running group and `turn` =
whether a submission stands that has not aged out.

### 2.2 ReplayTable

State: per request its record, marker and owner; per slot the occupant and the
reservation; the flocks of requests and slots; per worker (process) its
position and what it has read. A placement is the chain reserve, own, write
slot, retire the displaced request, retire its owner, clear, unreserve, unmark;
a worker can stop after each, and `Retry` resumes at `Start` with whatever owner
it finds (`Complete`, `Recheck`). Probing goes over the slots in any order, and
in a second pass may displace. In this policy a placement's sequence is its
slot number, so slots hold requests.

`Exposed` says whether the request's own lock is dropped before publication
(the code) or held: the passing run takes FALSE, the configuration
`ReplayExposed` TRUE.

### 2.3 RequestLock

An flock belongs to an inode; descriptors are modelled by the inode they refer
to and the two names by the inode they link to. Callers open the pin, share it,
open the lock file, lock it, release the pin; owners of a withdrawn request,
reapers and evictors unlink.

### 2.4 SessionEnumeration

State: `snap`, one directory per initial request (absent, partial, ready, torn;
instance, number of rows, last page claim, terminal claim, expiry), the lock,
the pages the host has received (`served`), and per process its position, its
call, the length of its native listing and the page it will answer.
`Look`/`List`/`Persist`/`Evict`/`Create`/`Publish` are the call without a
cursor, `Load`/`LoadRefused` the call with one, `Return` and `Stop` its end
(an answer may be lost after its page was claimed), `Expire` the clock. A
process serves one call, so the number of processes bounds the number of calls
including retries. Its specification is `EnumSpec`: the names are kept apart from
those of `TurnPages`, as `SessionProofs` reads both.

### 2.5 QuotaRefresh

State: `op`, the operation of each request (phase, input, actor and whether it
is terminal, the evidence of a reconciliation and the digest that resolved it,
whether it reports a refresh); the flock of each request; `effect`, the
credential's lock; `cred` and `latest`, the credential file as the number of
the write that made its content, so that a content never comes back. Per
process: `pc`, `call` (request, input, digest offered), `native` (its group),
`before` (its first snapshot) and `out` (what it knows of its native turn).
`wrote` and `past` are history.

A group is `gated`, `running`, `lingering` (the leader is gone, descendants are
not) or `ended`. A dead provider takes its leader with it, as the parent-death
signal does, and leaves the descendants.

1. `Start`, `Lock`, `LockTimeout`, `Answer`, `Prepare`, `Resume`: one process
   per call, exact retries and conflicting reuse of a request id included.
2. `Retry`, `Settle`, `SettleWrite`: an admitted effect whose provider is gone
   is ended and becomes a reconciliation. `Reconcile`, `Accept`, `Stale`: the
   caller's digest against the file, under the effect lock.
3. `EffectLock`, `Spawn`, `SpawnFails`, `Publish`, `Release`, `ReleaseFails`,
   `LeaderReturns`, `LeaderTimesOut`, `SettleOwn`, `Snapshot`, `Conclude`: the
   effect, in the order of `refresh_auth_params`.
4. `Stop`: an error return or death, anywhere. `NativeWrites`, `NativeRemoves`,
   `NativeExits`: the native program. `Evict`: the replay ring forgets.

Admission into the fixed request index (capacity lock, reservation, pin) is one
step, `Lock`.

### 2.6 TurnPages

State: `src`, the messages of the session in source order, each finished or
not, with its row ids, version and text; `other`, the greatest row ids of the
store's other sessions; `rev` and `gen`, the revision and the generation of the
database. Per process: `pc`, its `call` and what it has read so far (`view`).
`host` is the page token and the resume token the host holds: the provider keeps
nothing but the key that authenticates them, so a token carries its snapshot
(the place before the first message that may still change) and its guard.

A read is a chain of queries, each a process of its own without a transaction
around them; `OpenCode`, which appends, completes, rewrites what is unfinished and
replaces the database between any two, is the environment. Two constants let it do
more: with `Edits` it also rewrites finished messages, with `Withdraws` it deletes
messages. A token is either continued, resumed after
a completed snapshot, or refused; the two projections (`canonical_ingest` and
the user turns) differ in `Matches`. `frozen`, `base` and `got` in a token are
history: what the snapshot held and what the host was given.

### 2.7 Rotation

State, per binding: the assessment's authorization, the reservation, the
operation with its actor, candidate and target, and the receipt; per content the
source artifact; what the target account holds under each session id; the
import's process group; `route`, the settings selection in force. Per process
`pc` and `call`.

`Assess` and `Materialize` start calls. A first one goes `Reserve`, `Export`,
`Prepare`, `Handoff`, `Admit` (the actor named, behind its gate), `Release`,
`Observe`, `Preserve` (the candidate), `Settle`, `Conclude`, `Validate`,
`Finalize`, `WriteReceipt`, `Retire`, `Revoke`; a retry `Replay`, `Recover`,
`RecordTerminal`, `Recheck`, `Resume`, and from there into the same chain.
`Fail` unwinds, `Crash` leaves the files and perhaps the group. `Maintain`, which
every call runs under the capacity lock, drops what is old. The binding's lock
is held by whoever is under way for it, the settings lock from `Finalize` on.

### 2.8 SettingsStore

State: `store`, the file (schema, records, history, receipts); `token`, the
number of publications, which stands for the digests that name versions and
made-up identifiers; `sent`, what the host asked with each call; `txn`, the
transaction a process has open. `promise`, `applied`, `windows` and `reply` are
history. `Ask` fixes a call, which is then sent any number of times: `Open`
takes the lock and reads, `Replay` answers from the receipt, `Refuse` and
`Publish` decide the mutation, `Fail` is an error or death, `Expire` the
24 hours. Readers take no lock: `Resolved` is what they see of a file, and
`VersionNamesValues` is stated over it.

### 2.9 NativeRuntime and IdentityRebind

`files` is the sequence of contents that have been at the executable's path,
whose length is its stamp, `record` the account's runtime record, `job` the
resolution each process is in. A resolution looks at the executable five times
(`preview`, `hash`, `check`, `probe`, `final`); `Update` may replace it before
each.

`IdentityRebind` adds `cycle`, the cycle records, `call`, a Seal or Observe that
has read the record and not yet taken the component's lock, and the host: `hold`
(the cycle it keeps requests out for), `sealed`, `validated`, `told`, `seen`.
`Plan`, `Release` are one step under the lock, `SealRead`/`Seal` and
`ObserveRead`/`Observe` two. `Stage` is the operator, `Request` an ordinary
request, `Age` the clock, `Abort` a host that gives up before it sealed. The
host follows the choreography the README describes.

### 2.10 LaunchStream

State: the process group that holds the pipes (`holders`: the child and a helper
that stands for any descendant), the child's exit `code`, what was written and
read per pipe, the drain threads, the bounded channel; of `LaunchState` the
final and the forced status, the done flags, the parser's open line, what was
heard of a resumed turn, the session, the loss; `spool` and `out`, the deferred
and the written events; `record`, the phase and session of the request record.
`pc` is the supervision loop.

`Begin`, then one of the timers (`EnforceDeadline`, `CompleteResume`,
`CloseLingering`) or `Pass`, then `Take` or `Idle`, is one turn of the loop.
`FinishTail`, `SettleResume`, `Conclude`, `Discharge` are `finish`. `Fail` is a
write that fails, anywhere. What never got a child starts at `finish`.

### 2.11 ActivityLedger

State: the two segments (events, and whether the last line is torn), the head,
the lock, how far each call is. Each call records twice, before and after its
capability: `Acquire` or `Skip` (the ledger never waits), `Open` (take the head,
or derive one of a ledger that had none), `Repair`, `AppendEvent` or `Rotate`,
`Publish` the head; `Tear` is an append cut in the middle, `Die` a death,
`Refuse` a ledger that does not validate. `committed` is history: the events a
head has named. An entry carries where its line ends, so a segment is as long as
its last line says, and what a repair cuts off is what ends behind the head.

A ledger without a head is taken over as it is if its chain holds and it can be
read (`read_file_bounded`). The head written for it is checked only afterwards
(`activity.rs` 327-345): one with more than `MAX_ACTIVITY_EVENTS` lines gets a head
that `validate_activity_head` refuses for ever, so that nothing is recorded until an
operator removes it. `Oversized` names that state, and `NeverRefused` excepts it and
nothing else. Whether a predecessor ever left so long a ledger is not in this
repository.

## 3. What is checked

| run | instance | result |
|---|---|---|
| `launch_request` | 3 processes; inputs: a new session, another one, a resume; reaper and evictor | passes, 1.54 million states |
| `replay_table` | 3 requests, 2 slots, 2 workers | passes, 35 thousand states |
| `session_enumeration` | 3 calls, 3 requests, page sizes 1 and 2, up to 3 rows, 2 snapshots | passes, 620 thousand states |
| `quota_refresh` | 2 calls, 2 requests, 2 inputs, 2 writes of the file | passes, 63 thousand states |
| `turn_pages` | 1 reader, 3 places in the session, 3 writes, pages of 1 turn | passes, 1.81 million states |
| `rotation` | 2 calls, 2 bindings of one session, 1 place | passes, 2.36 million states |
| `settings_store` | 2 processes, 2 calls, 2 request ids, 3 names; 2 records, 1 receipt, 2 events, 5 publications | passes, 106 thousand states |
| `identity_rebind` | 2 processes, 1 delayed Seal or Observe, 3 cycles for 2 places, 2 programs, 2 stamps | passes, 1.58 million states |
| `launch_stream` | 2 chunks on stdout, 1 on stderr, a channel of 1, 1 heartbeat, 3 kinds of request | passes, 1.14 million states |
| `activity_ledger` | 4 calls (8 records), segments of 3 events or 4 bytes, sizes 1 and 2, 7 legacy ledgers | passes, 210 thousand states |
| `launch_readable` | as `launch_request` | violates `RecordsReadable` |
| `request_lock` | 2 callers, 1 reaper, 4 inodes | violates `SupervisorIsGone` |

Why these bounds suffice. *launch_request*: the interesting histories need a
first process that dies, a second that recovers its record, and a third that
races the second or comes back after an eviction; two inputs of one kind can
conflict, and one of the other kind gives kind conflicts and the resume
protocol. *replay_table*: three requests for two slots force displacement; of
two workers one can die in a chain while the other displaces, and then resume
it. *session_enumeration*: a first page and two rivals for the next; a snapshot,
its successor under the same request, and a stale cursor; three snapshots for two
places. *quota_refresh*: one process dies with descendants left, and the other
settles its request, reconciles it, or refreshes the credential under the other
request; two writes are one by each of two groups, or an early and a late one of
the same group (`QuotaThree` lets a third call reconcile what a second settled).
*turn_pages*: a frozen prefix, the message that may still change, and one behind
it; three writes are one between each two of the queries of a page, or on each
side of a page boundary. *rotation*: a call, its retry, and a call of another
binding that shares the artifact, competes for the one place and runs the
maintenance; the number of retries is not bounded. *settings_store*: two calls
with the same or different ids, a full receipt window, a history that is cut,
five publications to fill, expire and fill it again. *identity_rebind*: three
cycles for two places force pruning; a second replacement of the executable
during the admission of the first; one delayed request beside two in flight.
*launch_stream*: an open line needs two chunks, the other pipe a third, and a
channel of one makes the drains wait; the loop's turns are not bounded.
*activity_ledger*: eight records fill both segments and come back to the first;
an event that is too large can be followed by one that still fits.

`CHECK_DEADLOCK FALSE` stands where the actors run out of things to do: a
process ends and starts no other. `replay_table`, whose workers always return,
does check it. Symmetry is used where actors are interchangeable, and only in
runs that check no liveness: `quota_refresh` and `launch_stream` have none.

### 3.1 The properties

* `LaunchRequest`: `EffectsAreHeld` (a group that may act is named by the durable
  record; at most one turn is submitted; a retry never ends a group whose
  provider still supervises it), `FilesAreTrue` (no lost update; every record can
  be found from a bounded index; only settled history can age out; a recorded
  observation has happened), `EvidenceIsKept`, and the refinement of `OneTurn`.
* `ReplayTable`: `Consistent` (nothing leaks, nothing is placed twice, the
  code's own integrity errors cannot occur, a durable reservation survives its
  author, the table is bounded), `SuccessorFirst`.
* `SessionEnumeration`: `EnumerationIsExact` (each row to one consumer, a cursor
  bound to its instance, the directory within its bound), `Retention`.
* `QuotaRefresh`: `EffectIsHeld` (no history leaves an operation the decoder
  refuses; a group that may act is named; one effect per request),
  `NoHiddenChange` (a refresh reported as none changed nothing, late writes of
  descendants included), `AcceptsTheCurrent`, `Answered` (a started process ends).
* `TurnPages`: `FrozenPrefix` (the pages of a snapshot show exactly what it held,
  with the text it had), `NothingSkipped` (a host that resumes after a completed
  snapshot has been given every message up to there, and none unfinished).
* `Rotation`: `ImportIsExact` (one import per rotation, named by its operation
  while it runs, and the reported target is whole), `SettledIsCurrent` (no
  update of the settings comes between check and receipt), `CandidateIsKept`.
* `SettingsStore`: `AppliedOnce` (an update or deletion once for ever, a creation
  or migration once in each window of its receipt), `CommitsAreRecorded` (receipt
  and history chain), `RetryIsReplayed`, `VersionNamesValues` (a version resolves
  to the same values before and after the upgrade of the file).
* `NativeRuntime`, `IdentityRebind`: `AdmittedIsWhole` (a record's stamp, content
  and version are those of one file), `ReleaseIsTrue`, `ActiveIsKept`.
* `LaunchStream`: `WithheldUntilRecorded`, `InReceiptOrder`, `AttestsTheWhole`
  (the completion marker counts every data event, and covers all that was ever
  written), `ConcludesOnAllEvidence` (what was still queued at the exit decides
  with the rest), `Ends`.
* `ActivityLedger`: `LedgerIsSound` (the head's events are there, whole and
  chained; both segments keep their limits; no death makes the ledger one that the
  next call refuses),
  `CommittedIsKept`.

Each is tied to a mutant: a seeded fault next to the definition it replaces
(for instance `SightingsOrNothing`, which reads an unavailable listing as an
empty one), under which TLC must find the property violated.

### 3.2 Fairness

Two runs claim liveness.

`Answered` (`quota_refresh`) assumes weak fairness of each process's own steps
(`WF_vars(Step(p))`): the scheduler runs a started process, which is one
loop-free path through the code. It holds because the code itself bounds every
wait: the locks by `lock_exclusive_for` and the native command by
`wait_with_bounded_output_timeout`; the mutant `ObservedUnbounded` takes the
second limit away.

`Ends` (`launch_stream`) assumes weak fairness of the loop and of the drain
threads, and strong fairness of the timers: the loop comes back to its timers
within the wait of `recv_timeout` (at most one heartbeat interval), the clock
advances, and so a running timer
that is looked at again and again is found expired. A launch with a deadline, an
exited child or a confirmed resume then ends; one without any of the three may
go on for ever, as it does in the code.

Nothing is assumed of the native program (it may hang for ever), of other
processes, of the host, or of clean-up. Elsewhere no fairness is assumed: the
launch code tries slot locks without waiting, so neither the scheduler nor the
kernel owes a handoff its turn, and what the code promises is the safety of what
is postponed.

### 3.3 Where the code and its documents part

Two runs report a disagreement:

1. `launch_readable`: a resumed launch that died before it named its actor,
   retried while the export is unavailable, is written as `unresolved` without
   an actor (`launch.rs` 1603), which the decoder refuses from then on; the
   README promises that exact retries re-run the observer.
2. `request_lock`: the inode that is locked is never compared with the name
   again, and cleaners may proceed without a pin; two callers can own one
   request.

Further configurations show histories that the passing runs leave out, or other
sentences of the documents. `tlc -config <name>.cfg <module>` reproduces each.

| configuration | module | violated | history |
|---|---|---|---|
| `LaunchDisplaced` | `MCLaunchRequest` | `OnlyReplayAgesOut` | The finalizer retires the marker last and without the lock (`launch.rs` 640-643). If the slot is displaced in between and the id admitted again, the late removal uncovers the new attempt, whose record can then age out while it names an actor. |
| `ReplayExposed` | `MCReplayTable` | `NoFault` | For the same reason, an exact retry that read "no owner" before the finalizer wrote it fails with an integrity error. |
| `QuotaSerialized` | `MCQuotaRefresh` | `Serialized` | The parent-death signal reaches the leader of a group only. The descendants of a dead provider's command act on the credential inside another request's before/effect/after interval; the README says that such invocations serialize. |
| `TurnEdits` | `MCTurnPages` | `FrozenPrefix` | With `Edits`, the native program rewrites a finished message. Combined with any append this passes the guard (`session_turn_pages.rs` 1119-1181), so later pages show another prefix than the one frozen (README 590-594). |
| `TurnWithdrawn` | `MCTurnPages` | `FrozenPrefix` | With `Withdraws`, an unfinished message whose place lies inside the frozen prefix is inserted and completed, which the guard must refuse; but when it is deleted again before the guard looks, and anything else is appended, the guard passes (the same lines) although the page in between was read with it. |
| `RotationArtifact` | `MCRotation` | `ArtifactIsKept` | An export that finds its artifact on disk leaves it with its old time (`rotation.rs` 2138-2155). Expired and not yet referenced, it is removed by another call's maintenance (1180-1198) before the operation that names it is written (277): that operation can never be resumed (README 610-612, 642-644). |
| `RotationPlaces` | `MCRotation` | `PlacesSuffice` | A death between the write of the operation (277) and the removal of its reservation (278) leaves both. Retried and settled under the same binding, the reservation counts beside the receipt, and maintenance (1046-1054) refuses every other rotation until it is two minutes old (README 1074-1077). |
| `StreamExit` | `MCLaunchStream` | `ExitIsReal` | When the group of a confirmed resume is ended, the exit event has code 0 and the forced status stands in a marker (`launch.rs` 3828-3831); the README (548-551) says that the exit event retains the real signal. |
| `StreamVisible` | `MCLaunchStream` | `StaysVisible` | A heartbeat is written only when a receive times out (`launch.rs` 1319-1321). A child whose output never pauses, but is all withheld, shows nothing to the host; the README (354) says that heartbeats keep such a launch visibly live. |
| `ActivityForks` | `MCActivityLedger` | `OneChain` | After a rotation whose head was never written, a smaller event may still fit the active segment and be appended there with the sequence the alternate already holds: the two segments fork (README 748, 761-764). The committed chain is unaffected. |

`QuotaThree` is a larger instance of `quota_refresh` without liveness (3 calls,
144 thousand states), which passes.

The passing runs and the proofs of the launch modules are about the system
without the lock and displacement histories: they take the request lock to be a
mutex, and (`DisplaceDuringHandoff = FALSE`, `Exposed = FALSE`) nobody to
interfere between the release of the lock and the removal of the marker.
`turn_pages` takes finished messages to be immutable (`Edits = FALSE`), as the
code does, and messages not to be deleted (`Withdraws = FALSE`). Nothing else is assumed away: an unreadable record is refused by
`Read` as the code does, and descendants that outlive their provider, lost
artifacts and leftover reservations are part of the runs.

## 4. What is proved

TLC explores the instances above. The theorems below hold for every value of
the constants: any number of processes, inputs, requests, rows and snapshots.

### 4.1 LaunchRequest (`LaunchRequestProofs`)

Assumptions: `ConstantsOK` (the constants are sets of the stated kinds and the
named actors are distinct); `Undisturbed`, that is `DisplaceDuringHandoff =
FALSE`, which excludes the history of `LaunchDisplaced`. That the request lock
is a mutex (which `request_lock` denies) is part of the model, not an assumption
of a theorem.

`Invariant` is `Spec => []IInv`. The safety properties are not inductive alone:
whether a group may be ended, a record removed or a turn readmitted depends on
what the process at that point has read, and on nobody having changed it since.
`IInv` says that in five parts:

* `TypeOK`;
* `Bookkeeping`: who is under the lock holds it; a visit by a cleaner has
  already withdrawn the record; a record names an input; an unreleased gate has
  its supervisor;
* `Custody`: the properties `EffectHasCustody`, `GuardMatchesFile`, `Indexed`
  and `ReplayIsSettled`, which need each other;
* `Located`: what the lock holder may rely on at each place, `AtHandoff` and
  `AtRead` before the turn and `AtTurn` in it. In a retry the essential line is
  that at `interpret` no group runs and the record says so durably, and that at
  `remove` no submission stands: it is what makes readmission safe;
* `Evidence`: a standing submission is that of the recorded actor, an actor is
  recorded only after it was prepared, a recorded observation is true, and the
  settled record stays as it is while its author publishes without the lock.

From it follow `TypeCorrect`, `EffectsAreInCustody`, `SubmittedAtMostOnce`,
`KillsOnlyAbandoned`, `NoLostUpdate`, `AlwaysIndexed`, `ReplayOnlySettled` and
`RecordIsTruthful`, and the two that the run checks as one, `EffectsStayHeld`
and `FilesStayTrue`. The proof has one lemma per action, grouped as the
specification is.

`EvidenceOutlives` is an action property: under the invariant, no step
takes back a recorded session, submission or completion, except the eviction of
a settled request.

`RefinesOneTurn` is `Spec => ImplementsOneTurn`. `TurnStepMaps` shows that four
kinds of step are all there is to the abstract specification: releasing a gate
is `Begin`, a native submission is `Take`, the end of a running group is `End`,
the withdrawal of a settled request is `Forget`; every other step leaves the
groups and the submissions alone and stutters. The two that need the invariant
are `ReleaseGate` (no other group is running, by custody) and the eviction (the
record it withdraws is settled, so no group runs).

### 4.2 SessionEnumeration (`SessionProofs`)

Only `EnumConstantsOK` is assumed. `EnumInv` adds to `EnumTypeOK`:

* `Bookkeeping`: the lock, the agreement of a process's call with where it
  stands (`Addressed`), and that between an eviction and the new manifest there
  is room for one more directory (`Room`);
* `Apportioned`: each manifest's page claim is well formed (`AllSound`) and no two
  manifests share an instance (`Unique`); a page that was given away and belongs
  to an instance on disk is its current claim or lies behind it (`Behind`); a
  page's cursor is the end of a page the host has received (`Linked`); two
  different pages of an instance are disjoint (`Disjoint`).

The pages given away are those the host has and those a process is about to
answer; an answer that is lost leaves them, while its claim stays in the
manifest. A reader either repeats the current claim (`RepeatingPages`) or makes
the next one (`ClaimingPages`); these two lemmas carry `Apportioned` through every
action that answers a page. It gives `RowsGoToOneConsumer` and
`PagesAreChained` (together `EnumerationExact`). `DirectoryIsBounded` follows from `Room` with the
cardinality facts of `FiniteSetTheorems`; `OpenCursorsKeepTheirSnapshot` is an
action property.

### 4.3 QuotaRefresh (`QuotaRefreshProofs`)

Only `ConstantsOK` is assumed; descendants that outlive their provider are part
of the system proved about. None of the safety properties is inductive: that a
group was let through once follows from what the record says, what the record
says from who may write it, and that from where the lock holders stand. `IInv`
adds to `TypeOK`:

* `Bookkeeping`: the locks belong to those who stand where they are needed, a
  process under way has a request and an input, and a process's location says
  what its group may be doing (`Supervised`);
* `Located`: at each location, the phase of the request's record; in the turn,
  that its actor is this process; before `SettleWrite`, that the recorded group
  is over;
* `Custody`: `RecordsReadable`, `EffectIsNamed`, and that whatever ran is the
  recorded actor until the request is forgotten (`Remembered`, `ActorPast`);
* `Truth`: a group that wrote left the file newer than its process's first
  snapshot, or gone (`WritesAreNewer`); a verdict of no change is final
  (`VerdictIsTrue`); `NoHiddenChange`.

`WritesAreNewer` is what makes two equal snapshots evidence: it holds only if
the second one is taken after the group's end, which is where `Supervised` comes
in. The lemmas on operations (`PreparedShape` to `ConcludedShape`) say that each
write makes a record the decoder accepts of one it accepted. From `IInv` follow
`TypeCorrect`, `OperationsStayReadable`, `EffectsAreNamed`, `OneEffect` (together
`EffectsAreHeld`) and `NoChangeIsHidden`; `AcceptanceIsCurrent` is an action property, by the one
lemma that only `Accept` records a digest.

### 4.4 IdentityRebind (`IdentityRebindProofs`)

Assumptions: `RuntimeConstantsOK`, `RebindConstantsOK` and `AbsenceOK` (the value
for "absent" is no cycle, disposition or evidence). `AdmittedIsWhole` and
`ReleaseIsTrue` both need to know what a process has learned at each look at an
executable that anyone may replace. `IInv` has four parts:

* `Runtime`: everything is typed, the record is `Whole` (its stamp names the
  file that has its content and its version), and each job is `Examined`: at
  each look, what it knows already belongs to the stamp it took first;
* `Cycles`: each cycle record is `Sound` (phase, observation and disposition fit
  each other) and there are at most `MaxCycles`;
* `Calls`: a delayed Seal or Observe carries evidence that was whole when read;
* `Host`: what the host was told is whole too. It must be, as the operator may
  put the planned record back.

The key step is in the admission: if the stamp at the last look is the one
taken first, then no replacement happened between, because stamps only grow; so
the content that was hashed and the version that was probed are of one file.
From `IInv` follow `TypeCorrect`, `AdmissionIsWhole`, `ReleasesAreTrue` and
`ObligationsAreKept`; the bound on cycles uses the cardinality facts of
`FiniteSetTheorems`.

### 4.5 LaunchStream (`EvidenceProofs`)

No assumption beyond the module's own is used; the number of chunks, the
capacity and the requests are arbitrary. `InReceiptOrder` and
`WithheldUntilRecorded` are about `out`, but what is written later is in the spool
now. So `IInv` is about `Emitted`, the written events followed by the withheld ones:

* `Numbered`: the chunks in it are in order, and each is preceded by all that
  were received before it;
* `Covers`: it holds all chunks received so far, unless the launch failed (a
  conflict of sessions takes a chunk and emits nothing);
* `Withheld`: while the record is `prepared` nothing is admitted and only the
  route marker is out.

`EmitAppends` is what makes this work: written or spooled, an event goes behind
everything emitted before it (its mutant `EmitNewFirst` breaks exactly that).
`ChunkKeepsOrder` and `MarkersKeepOrder` then say what an appended chunk or
marker does to the order, and every action is one of these or silent.
`InReceiptOrder` follows because `out` is a prefix of `Emitted`
(`ChunksComeInOrder`, `NothingIsShownEarly`).

`AttestsTheWhole` and `ConcludesOnAllEvidence` compare the last events with all
that the child ever wrote, over three actors with a queue between them. `Evidence`
adds to `IInv` what links the ends:

* `Accounted`: of each pipe, what the drain read is what the loop took and what
  waits in the channel;
* `Drained`: a done message, waiting or received, is behind all the drain's
  data, and is there only when the pipe is closed or its read failed;
* `Staged`: what the loop's place implies for the tail, the record and the group;
* `Understood`: what was heard of a turn is what the chunks taken say, but for the
  line that is open;
* `Going` or `Ended`: a launch under way has emitted neither a completion nor an
  exit, and an ended one has its exit last, its completion just before it, and in
  them what the properties ask.

`Taken` counts positions of `received`, so that one more chunk is one more
element of a finite set (`OccurrencesAppend`, with the facts of `FiniteSetTheorems`);
`Conclude` is the step in which `Accounted` and `Drained` make `Ended` of `Going`.
From `Evidence` follow `TypeCorrect`, `CompletionIsTrue` and `ConclusionIsTrue`.

### 4.6 Rotation (`RotationProofs`)

Assumptions: `ConstantsOK` and `AbsenceOK` (the value for "absent" is no record
and no session id). That a binding's lock excludes is not assumed: it is
`Exclusive`, part of the invariant, as the locks are where the calls are.

`IInv` is `Rotates` and `Places`. `Rotates` says:

* `Typed`, and `Exclusive`: a binding has one call under way;
* `Sound`, of each binding: the parts of its operation fit each other and its
  receipt (`Shaped`); an import that may act is named by the operation, one
  behind its gate has its call, and there was at most one (`Named`); what was
  imported is whole (`Whole`);
* `Located`: what the call may rely on where it stands, `Before` it has an
  operation, `During` the import, `After` it.

A step of a call writes only its own binding's entries, so the others' invariant
is kept by `OwnStep`, and each action's lemma is left with its own binding and
the place it goes to. Maintenance is the exception: it writes every binding's
entries, under a lock the binding's owner need not hold. `MaintainLocated` says
why that is safe: what it removes is an operation that has its receipt, an old
receipt or a reservation with no owner, and no call that relies on one of these
is under way, since the one that has both an operation and a receipt
(`retire`) holds the capacity lock.

`ImportOnce` follows from `Named` and from the place: the import is let through
at `release` only, whose operation has had no effect, and a retry finds an actor
and goes to `validate`. `Whole` survives a host that imports by hand and a
native import that writes again, because neither is possible once the operation
is `imported`. `Places` bounds the rotations under way or kept: only `Reserve`
adds one, and the bound is that of the three collections after maintenance
(`ReservePlaces`, with the cardinality facts of `FiniteSetTheorems`); every
other step keeps them (`PlacesKept`). From it follow `TypeCorrect`,
`ImportExact`, and the action properties `ReceiptIsCurrent` and
`CandidateStays`.

### 4.7 ReplayTable (`ReplayTableProofs`)

Assumptions: `ConstantsOK` (the slots are a finite set; the value for "absent"
is no request, slot or worker) and `Undisturbed`, that is `Exposed = FALSE`.
Without it the theorems are false, as `ReplayExposed` shows. That the flocks
exclude is not assumed: it follows from what the actions do to the two lock
tables.

`NoLeak`, `PlacedOnce`, `Exclusive` and `Bounded` are not inductive, as each
speaks of finished placements and a worker can stop between any two writes of
one. `IInv` is `TypeOK`, `Located` and `Files`:

* `Located`, of each worker: the locks it holds where it stands (`Holds`), and
  what it may still believe of the files (`Knows`): while it places r into s and
  displaces v, that r's owner says so, that s is reserved for r, and what s
  names;
* `Files`, of the files alone, so that it survives the death of every worker: an
  active request is marked and a marked one has its record (`Recorded`); a slot
  names a request whose owner names the slot (`Owned`); an owner that has
  something to retire has its reservation (`Reserving`); a reservation whose owner
  is durable keeps the slot (`Exclusive`); and a settled request without a marker
  is in its slot or named by a placement that has yet to retire it (`Reached`).

A worker writes a request's record and owner only under its lock, a slot and its
reservation only under the slot's lock or if that is free, and takes a slot only
from a request it has locked (`Guarded`); hence what the others know stays true
(`OthersKnow`), and the lemma of an action is left with its own worker and with
`Files`. The delicate steps are three. `Forfeit` withdraws an owner whose slot
went to another request: by `Reached` a placement names it, and no worker is
about to clear that placement, since `clear` knows that the displaced request
has no owner of the slot. `Dropped` withdraws the displaced request's owner: that
owner had nothing left to retire, since the slot's reservation is another's.
`Clear` makes the placement forget whom it displaced, whose record is gone or
which is owned elsewhere or active again. That `Reclaim` withdraws a reservation
under no lock is safe because a stale one belongs to no owner (`Reclaiming`).

`Bounded` follows by counting: the settled requests without a marker are among
the occupants of the slots and what the reservations displace (`History`, with
the cardinality facts of `FiniteSetTheorems`).

### 4.8 SettingsStore (`SettingsStoreProofs`)

Assumptions: `ConstantsOK` and `AbsenceOK` (the value for "absent" is no receipt).
`IInv` has seven parts: `Typed`; `Limited`, the file within its limits; `Exclusive`,
one transaction at a time, whose view is still the file; `VersionsGiven`, no record
and no caller knows a version that was not given yet; and

* `Counted`: an update or a deletion that was applied left no record with the
  version it asked for; every other publication of a call has a receipt window,
  closed or open;
* `Promised`: what a call was promised is the answer on file, as long as its window
  is open;
* `Chronicled`: the events kept of the history follow one another and end with the
  present records and the last publication.

`ChangesApplyOnce` (`AppliedOnce`) rests on `Counted` and `VersionsGiven`: a version
is given once, so a change whose version is gone never fits again, whether or not
its receipt has expired; creations and migrations are held by their windows. `CommitsStayOnFile` (`CommitsAreRecorded`) is
`Chronicled`; its lemma `AppendedTells` says that appending and cutting keep a
history that tells the present. `RetriesAreAnswered` and `VersionsKeepTheirValues`
are the action properties: a promised answer is replayed, and a version that a
reader can see names the same values before and after any step, also the first
write that upgrades a predecessor's file.

### 4.9 TurnPages (`SessionProofs`)

Assumptions: `ConstantsOK`, and for all but `TypeCorrect` the hypothesis `Grows`
(`~Edits /\ ~Withdraws`). Without it the theorems are false: `TurnEdits` and
`TurnWithdrawn` are the counterexamples, one for each half. The number of readers,
places, turns per page and writes is arbitrary.

A reader sees the store only through single queries, each of another state. The
invariant, `TypeInv /\ PagesInv`, therefore says of every token and of every view
under way what it is worth *now*:

* `Faithful`: as long as nothing `Intrudes` on the snapshot, it froze what the
  store still holds below its high place, all of it immutable; and an unchanged
  revision means that nothing intruded;
* `Progress`: the host was given what it was frozen with, as far as the cursor;
* `Caught`: between two places the host was given all that did not come late
  behind it;
* `Capturing`: what was seen on the way to a snapshot is still so unless the
  revision has moved, which `Seal` compares; `Reading`: what was listed and taken
  for a page is what the snapshot holds there, unless something intruded.

`Intrudes` is a row id above the guard's inside the prefix. The three lemmas that
carry the proof: `Grown` says what a write of a program that only grows the store
can do, and in particular that an intrusion stays one; `Rests`, that every other
step leaves all tokens as they were; and what `GuardHolds` lets through was read
as frozen, because the guard is looked at after the bodies, and what had intruded
by then would still be there. This is where a deletion breaks the argument.
`PrefixStaysFrozen` (`FrozenPrefix`) and `NothingIsSkipped` (`NothingSkipped`) are
then properties of the tokens the host holds.

### 4.10 ActivityLedger (`EvidenceProofs`)

The calls, the limits, the sizes and the ledgers taken over are arbitrary. Of a
ledger that is taken over only what a file cannot lack is assumed: its lines do not
overlap, and its digests are numbered (`LedgerConstantsOK`); it may be torn, broken,
too long or too large. `LedgerIInv` adds to `LedgerIsSound`:

* `HeadStands`, `Backed`: where the head says its lines end, one ends, and it is the
  line the head names. This is what the repair and the tail check rest on: in a
  segment whose lines follow each other (`LaidOut`) the cut at that length leaves
  exactly the counted lines (`KeptIs`, `RepairedIs`), so the check always holds
  (`BackedIsAdmissible`);
* `OneWriter`, `Progressing`: only the holder of the lock is past it; while it
  authors, nothing is behind the head; while it publishes, what it is about to name
  is on the disk, in whichever segment, and follows what was named last (`Pending`);
* `TailIsNew`: what is behind the head was never committed. Without it a repair
  might cut off a committed event.

`SegmentReplaced` carries the steps that write a segment: such a step keeps the disk
part of the invariant if it leaves the lines of the head, whatever it puts behind
them or into the other segment. `LedgerStaysSound` (`LedgerIsSound`) and
`CommittedEventsAreKept` (`CommittedIsKept`) follow.

### 4.11 What is only model-checked

The liveness properties, as liveness under fairness and `ENABLED` are beyond the
prover; and the findings, which are counterexamples and need no proof. Every safety
invariant and every action property of a passing run is a theorem, under the
assumption its section above names where it names one. Induction over
data is beyond the prover too, so no model computes by recursion or by a fold what a
proof needs: the ledger's entries carry their ends instead of being summed up.

## 5. What is not modelled, and why

* Of `launch.rs`: the order in which admission writes the marker, the pre-effect
  entry and the record is kept to what a cleaner can see between them.
* Of the event stream: heartbeats are counted and not placed; the events of one
  step are written at once; exit codes are success or a signal; only the first
  session named in a chunk counts, as in the code. A descendant that leaves the
  process group and keeps a pipe is outside the model, as it is outside what the
  code can end. The bytes of an event and the NDJSON encoding are left out. The
  record's custody across a crash is `LaunchRequest`'s.
* Of `resume_observation.rs`: matching a nonce in an exported transcript is text;
  the models take its promise (a turn is attributed by its nonce alone, an
  unavailable export shows nothing).
* Of `request_custody.rs`: the upgrade of an older index, the head sequences
  of the non-distributed policy, the deterministic order of slot probes (any
  order is allowed instead). Pins occur only in `RequestLock`.
* Of `native_process.rs`: reuse of process group numbers. Actors carry the
  start identity the code compares, so a stranger is never taken for one.
* Of `session_enumeration.rs`: the contents of rows, filters and their hash. A
  call names its request, and a request whose filter differs is another request.
* Of `quota_auth_refresh.rs`: how a request enters the fixed index (capacity
  lock, reservation, pins, withdrawal of an orphan), which is one step here;
  the two locks on a credential, on its path and on the file, which are one;
  the binding to an account, a runtime and an observer, whose later change is an
  error return (`Stop`); the availability
  probe, which changes nothing. All requests share one credential, as requests
  with different ones share nothing. A content that is written back is taken
  for a new one, where the code, which compares bytes, sees no change.
* Of `session_turn_pages.rs`: the creation of the token key; the settings and
  runtime binding of a token, which is its scope and generation; two readers at
  once, who share nothing but the store. Of `session.rs`: export and live
  capture.
* Of `rotation.rs`: the caps on artifacts and decisions and the decision
  receipts; each binding has session ids of its own in the target account; a
  lock stripe belongs to one binding; time passes for a receipt only while its
  binding is free, and for an artifact not while the call that wrote it runs.
* Of `settings.rs`: the report on setup readiness (634-775), which only reads.
  The limit on bytes is the limit on records; a predecessor's store has no
  history and no receipts; a migration names one identifier.
* Of the runtime and the rebind: a launch's conflict between selector and
  program, setup previews, the repair of a selector of another account, the
  selection of the environment, the wrapper script of schema 1; the record of
  the quota observer, a second component of the same cycle code. The evidence
  that `Release` reads is read in the step that writes.
* Of `activity.rs`: targets and redaction, which are the length of a line here;
  power loss of data that was not synced is a torn append.
* Durable writes are atomic and ordered: what `durable_fs.rs` does with rename
  and fsync is taken as what the kernel promises. A torn append is the exception,
  as the ledger is the one file that is appended to.
* The components with status `not_modelled` in `PROJECT.json`: runtime
  selection, quota reading, policy, models and setup reports, the dispatch shell
  and the native command adapter translate, look up and encode, and keep nothing
  a step of another process could see; migration artifacts are one lock around a
  bounded directory; the durable file helpers are what the models stand on; the
  OpenCode tool runs outside this program.

## 6. Plan

What is left, in this order:

1. Proofs: the ledger as a refinement of a sequence of committed events; promises
   without files, as `OneTurn` is one, for the settings store and the enumeration.
2. `FixedCustody`: the fixed request index that quota refresh and rotation use:
   capacity lock, reservation, pin, withdrawal of an orphan, an index walked one
   entry at a time. A crash between the removal of a marker and of its lock file
   (`quota_auth_refresh.rs` 745-752) leaves a request that every retry takes for
   one that is still retiring: does a later visit clear it?
3. `RequestLock` with the name compared again after the lock: a passing run that
   says what closes the second finding. And incarnations of process group
   numbers, for the check before a signal.
4. `TurnPages` with two readers and the creation of the token key; the decision
   receipts of `Rotation`; the observer's record in `IdentityRebind`.
