------------------------- MODULE SessionEnumeration -------------------------
(***************************************************************************)
(* session.enumerate: paged reading of the native session list through     *)
(* durable snapshots (src/session_enumeration.rs).                         *)
(*                                                                         *)
(* Every call is a process of its own.  A call without a cursor owns the   *)
(* snapshot derived from its request: it replays it, or lists the native   *)
(* sessions (without the snapshot lock) and persists a new one.  A call    *)
(* with a cursor claims the next page of the snapshot the cursor names.    *)
(* All calls share one directory and one lock; the answer leaves the       *)
(* process after the lock has been released.                               *)
(*                                                                         *)
(* The rows of a snapshot are numbered from 0, and known by the instance   *)
(* they belong to.  Filters are the same for every call here: a cursor     *)
(* used with other filters is refused before anything is read.             *)
(***************************************************************************)
EXTENDS Integers, FiniteSets

CONSTANTS
  Caller,         \* provider processes
  Request,        \* request ids
  Limit,          \* page sizes asked for (at most MAX_ENUMERATION_PAGE_SIZE)
  MaxRows,        \* MAX_ENUMERATED_SESSIONS
  MaxSnapshots,   \* MAX_ENUMERATION_SNAPSHOTS
  Nobody

ASSUME EnumConstantsOK ==
  /\ Limit \subseteq Nat \ {0}
  /\ MaxRows \in Nat /\ MaxSnapshots \in Nat \ {0}
  /\ Nobody \notin Caller

VARIABLES
  snap,     \* the directory of each initial request
  made,     \* instances published so far: instance n is the n-th
  served,   \* pages the host has received
  lock,     \* holder of .snapshots.lock
  at,       \* where each process is
  query,    \* what each process was asked
  total,    \* rows each process found in its native listing
  page      \* the page each process is about to answer with

enumVars == <<snap, made, served, lock, at, query, total, page>>

(***************************************************************************)
(* Calls, cursors, pages and snapshots                                     *)
(***************************************************************************)
InitialKey == [req : Request, limit : Limit]

Cursor == [snap : InitialKey, inst : Nat, offset : Nat]

NoCursor == [inst |-> 0]

Query == [key : InitialKey, cursor : Cursor \cup {NoCursor}]

NoQuery == [cursor |-> NoCursor]

Initial(k) == [key |-> k, cursor |-> NoCursor]

\* The directory a call reads: the one of its own request, or its cursor's.
SourceOf(c) == IF c.cursor = NoCursor THEN c.key ELSE c.cursor.snap

Start(c) == IF c.cursor = NoCursor THEN 0 ELSE c.cursor.offset

Page == [query : Query, inst : Nat, from : Nat, to : Nat, last : BOOLEAN]

NoPage == [inst |-> 0]

Least(a, b) == IF a <= b THEN a ELSE b

\* The end of the page a call asks for.
PageEnd(c, rows) == Least(Start(c) + c.key.limit, rows)

\* The cursor a page carries to its successor.
Successor(p) == [snap |-> SourceOf(p.query), inst |-> p.inst, offset |-> p.to]

\* "partial" has no manifest yet (or any more), "torn" has lost its rows.
Snapshot == [state    : {"absent", "partial", "ready", "torn"},
             inst     : Nat,
             rows     : Nat,                    \* total_sessions
             claim    : Query \cup {NoQuery},   \* last_page_claim_request_sha256
             from     : Nat,                    \* last_page_claim_start
             next     : Nat,                    \* last_page_claim_end, next_cursor_offset
             terminal : Query \cup {NoQuery},
             expired  : BOOLEAN]

Gone == [state |-> "absent", inst |-> 0, rows |-> 0, claim |-> NoQuery, from |-> 0,
         next |-> 0, terminal |-> NoQuery, expired |-> FALSE]

HasManifest(s) == s.state \in {"ready", "torn"}

Terminal(s) == HasManifest(s) /\ s.terminal # NoQuery

Claimed(s) == [query |-> s.claim, inst |-> s.inst, from |-> s.from, to |-> s.next,
               last |-> s.next = s.rows]

EnumInit ==
  /\ snap = [k \in InitialKey |-> Gone]
  /\ made = 0 /\ served = {}
  /\ lock = Nobody
  /\ at = [w \in Caller |-> "idle"]
  /\ query = [w \in Caller |-> NoQuery]
  /\ total = [w \in Caller |-> 0]
  /\ page = [w \in Caller |-> NoPage]

MoveTo(w, l) == at' = [at EXCEPT ![w] = l]

AnswerPage(w, p) ==
  /\ page' = [page EXCEPT ![w] = p]
  /\ MoveTo(w, "respond")
  /\ UNCHANGED <<query, total>>

Continue(w, l) ==
  /\ MoveTo(w, l)
  /\ UNCHANGED <<query, total, page>>

\* The process ends, and nothing of it remains.
Leave(w) ==
  /\ MoveTo(w, "done")
  /\ query' = [query EXCEPT ![w] = NoQuery]
  /\ total' = [total EXCEPT ![w] = 0]
  /\ page' = [page EXCEPT ![w] = NoPage]

-----------------------------------------------------------------------------
(***************************************************************************)
(* Retention                                                               *)
(***************************************************************************)
\* prune_enumeration_snapshots: what has expired or never got a manifest.
Pruned ==
  [k \in InitialKey |-> IF HasManifest(snap[k]) /\ ~snap[k].expired THEN snap[k] ELSE Gone]

Retained(dirs) == {k \in InitialKey : HasManifest(dirs[k])}

OldestTerminal(k, dirs) ==
  /\ Terminal(dirs[k])
  /\ \A j \in InitialKey : Terminal(dirs[j]) => dirs[k].inst <= dirs[j].inst

Full(dirs) == Cardinality(Retained(dirs)) >= MaxSnapshots

(***************************************************************************)
(* A call without a cursor                                                 *)
(***************************************************************************)
\* The immutable first page may be replayed until its successor is claimed.
ReplaysInitial(c, s) ==
  /\ s.state = "ready"
  /\ s.terminal = IF PageEnd(c, s.rows) = s.rows THEN c ELSE NoQuery
  /\ s.claim = c /\ s.from = 0 /\ s.next = PageEnd(c, s.rows)

\* replay_claimed_initial_snapshot_page
Look(w) ==
  LET c == query[w]
      s == Pruned[c.key]
  IN
  /\ at[w] = "look" /\ lock = Nobody
  /\ snap' = Pruned
  /\ \/ s.state = "absent" /\ Continue(w, "list")
     \/ s.state # "absent" /\ ReplaysInitial(c, s) /\ AnswerPage(w, Claimed(s))
     \/ s.state # "absent" /\ ~ReplaysInitial(c, s) /\ Leave(w)
  /\ UNCHANGED <<made, served, lock>>

\* The native listing runs without the lock, and sees what is there by then.
List(w) ==
  /\ at[w] = "list"
  /\ \E n \in 0..MaxRows : total' = [total EXCEPT ![w] = n]
  /\ MoveTo(w, "persist")
  /\ UNCHANGED <<snap, made, served, lock, query, page>>

\* Seeded fault: the claim is not looked for again after the listing.
PersistBlindly(w) ==
  /\ at[w] = "persist" /\ lock = Nobody
  /\ snap' = Pruned
  /\ lock' = w /\ Continue(w, "create")
  /\ UNCHANGED <<made, served>>

\* persist_enumeration_snapshot, up to the decision to make room
Persist(w) ==
  LET c == query[w]
      s == Pruned[c.key]
  IN
  /\ at[w] = "persist" /\ lock = Nobody
  /\ snap' = Pruned
  /\ \/ s.state # "absent" /\ ReplaysInitial(c, s) /\ AnswerPage(w, Claimed(s)) /\ UNCHANGED lock
     \/ s.state # "absent" /\ ~ReplaysInitial(c, s) /\ Leave(w) /\ UNCHANGED lock
     \/ s.state = "absent" /\ ~Full(Pruned) /\ lock' = w /\ Continue(w, "create")
     \/ /\ s.state = "absent" /\ Full(Pruned) /\ \E k \in InitialKey : Terminal(Pruned[k])
        /\ lock' = w /\ Continue(w, "evict")
     \/ /\ s.state = "absent" /\ Full(Pruned) /\ ~\E k \in InitialKey : Terminal(Pruned[k])
        /\ Leave(w) /\ UNCHANGED lock
  /\ UNCHANGED <<made, served>>

Evict(w) ==
  /\ at[w] = "evict"
  /\ \E k \in InitialKey : OldestTerminal(k, snap) /\ snap' = [snap EXCEPT ![k] = Gone]
  /\ Continue(w, "create")
  /\ UNCHANGED <<made, served, lock>>

\* The removal of a directory is interrupted by a crash or an I/O error.
EvictHalfway(w) ==
  /\ at[w] = "evict"
  /\ \E k \in InitialKey :
       /\ OldestTerminal(k, snap)
       /\ \/ snap' = [snap EXCEPT ![k] = [Gone EXCEPT !.state = "partial"]]
          \/ snap' = [snap EXCEPT ![k].state = "torn"]
  /\ lock' = Nobody
  /\ Leave(w)
  /\ UNCHANGED <<made, served>>

\* The directory, its rows and its warnings: not yet a snapshot.
Create(w) ==
  /\ at[w] = "create"
  /\ snap' = [snap EXCEPT ![query[w].key] = [Gone EXCEPT !.state = "partial"]]
  /\ Continue(w, "publish")
  /\ UNCHANGED <<made, served, lock>>

NewSnapshot(w) ==
  LET c == query[w]
      end == PageEnd(c, total[w])
  IN [state |-> "ready", inst |-> made + 1, rows |-> total[w], claim |-> c, from |-> 0,
      next |-> end, terminal |-> IF end = total[w] THEN c ELSE NoQuery, expired |-> FALSE]

\* The manifest makes the snapshot, and claims its first page.
Publish(w) ==
  /\ at[w] = "publish"
  /\ snap' = [snap EXCEPT ![query[w].key] = NewSnapshot(w)]
  /\ made' = made + 1
  /\ lock' = Nobody
  /\ AnswerPage(w, Claimed(NewSnapshot(w)))
  /\ UNCHANGED served

(***************************************************************************)
(* A call with a cursor: load_enumeration_snapshot_page                    *)
(***************************************************************************)
Valid(c, s) ==
  /\ s.state = "ready" /\ ~s.expired
  /\ s.inst = c.cursor.inst
  /\ c.cursor.offset < s.rows

\* Seeded fault: a retry is recognised by the page it asks for.
ExactRange(c, s) == s.from = c.cursor.offset /\ s.next = PageEnd(c, s.rows)

ExactRetry(c, s) ==
  /\ s.claim = c
  /\ s.from = c.cursor.offset /\ s.next = PageEnd(c, s.rows)

Advances(c, s) == s.next = c.cursor.offset

Admits(c, s) ==
  /\ Valid(c, s)
  /\ IF s.terminal # NoQuery THEN s.terminal = c /\ ExactRetry(c, s)
                            ELSE Advances(c, s) \/ ExactRetry(c, s)

\* Seeded fault: the manifest written for a page omits the terminal claim.
ClaimWithoutTerminal(c, s) ==
  [state |-> s.state, inst |-> s.inst, rows |-> s.rows, claim |-> c,
   from |-> c.cursor.offset, next |-> PageEnd(c, s.rows), expired |-> s.expired]

\* Claim the page for this call, before it is answered.
Claim(c, s) ==
  LET end == PageEnd(c, s.rows) IN
  [s EXCEPT !.claim = c, !.from = c.cursor.offset, !.next = end,
            !.terminal = IF end = s.rows THEN c ELSE @]

Load(w) ==
  LET c == query[w]
      s == snap[c.cursor.snap]
  IN
  /\ at[w] = "load" /\ lock = Nobody
  /\ Admits(c, s)
  /\ snap' = IF Advances(c, s) THEN [snap EXCEPT ![c.cursor.snap] = Claim(c, s)] ELSE snap
  /\ AnswerPage(w, [query |-> c, inst |-> s.inst, from |-> c.cursor.offset,
                to |-> PageEnd(c, s.rows), last |-> PageEnd(c, s.rows) = s.rows])
  /\ UNCHANGED <<made, served, lock>>

LoadRefused(w) ==
  /\ at[w] = "load" /\ lock = Nobody
  /\ ~Admits(query[w], snap[query[w].cursor.snap])
  /\ Leave(w)
  /\ UNCHANGED <<snap, made, served, lock>>

(***************************************************************************)
(* Processes and time                                                      *)
(***************************************************************************)
\* The host uses the cursors it has received, with any request id and limit.
Asked ==
  {Initial(k) : k \in InitialKey}
    \cup {[key |-> k, cursor |-> Successor(p)] :
            k \in InitialKey, p \in {q \in served : ~q.last}}

Begin(w) ==
  /\ at[w] = "idle"
  /\ \E c \in Asked :
       /\ query' = [query EXCEPT ![w] = c]
       /\ MoveTo(w, IF c.cursor = NoCursor THEN "look" ELSE "load")
  /\ UNCHANGED <<snap, made, served, lock, total, page>>

Return(w) ==
  /\ at[w] = "respond"
  /\ served' = served \cup {page[w]}
  /\ Leave(w)
  /\ UNCHANGED <<snap, made, lock>>

\* The process dies, an operation fails, or the lock is not free in time.
Stop(w) ==
  /\ at[w] \notin {"idle", "done"}
  /\ Leave(w)
  /\ lock' = IF lock = w THEN Nobody ELSE lock
  /\ UNCHANGED <<snap, made, served>>

\* All snapshots live equally long, so the oldest expires first.
Expire(k) ==
  /\ HasManifest(snap[k]) /\ ~snap[k].expired
  /\ \A j \in InitialKey : HasManifest(snap[j]) /\ snap[j].inst < snap[k].inst => snap[j].expired
  /\ snap' = [snap EXCEPT ![k].expired = TRUE]
  /\ UNCHANGED <<made, served, lock, at, query, total, page>>

-----------------------------------------------------------------------------
CallStep(w) ==
  \/ Begin(w) \/ Look(w) \/ List(w) \/ Persist(w) \/ Evict(w) \/ EvictHalfway(w)
  \/ Create(w) \/ Publish(w) \/ Load(w) \/ LoadRefused(w) \/ Return(w) \/ Stop(w)

EnumNext == (\E w \in Caller : CallStep(w)) \/ (\E k \in InitialKey : Expire(k))

EnumSpec == EnumInit /\ [][EnumNext]_enumVars

-----------------------------------------------------------------------------
(***************************************************************************)
(* Properties                                                              *)
(***************************************************************************)
PC == {"idle", "look", "list", "persist", "evict", "create", "publish", "load",
       "respond", "done"}

EnumTypeOK ==
  /\ snap \in [InitialKey -> Snapshot]
  /\ made \in Nat
  /\ served \subseteq Page
  /\ lock \in Caller \cup {Nobody}
  /\ at \in [Caller -> PC]
  /\ query \in [Caller -> Query \cup {NoQuery}]
  /\ total \in [Caller -> 0..MaxRows]
  /\ page \in [Caller -> Page \cup {NoPage}]

\* Two pages of one instance that share a row are the same page, given to
\* the same request: no row reaches two consumers, however calls with one
\* cursor race, are retried, or lose their answers.
PagesPartition ==
  \A p, q \in served :
    p.inst = q.inst => p = q \/ p.to <= q.from \/ q.to <= p.from

\* Every page continues one of the same instance where that one ended, back
\* to the first: no gap, and no page of a snapshot recreated meanwhile.
CursorsAreBound ==
  \A p \in served :
    p.query.cursor # NoCursor =>
      \E q \in served : q.inst = p.inst /\ q.to = p.from /\ SourceOf(q.query) = SourceOf(p.query)

\* At most MaxSnapshots directories exist, complete or not, whatever crashed.
Bounded == Cardinality({k \in InitialKey : snap[k].state # "absent"}) <= MaxSnapshots

\* The pages of an instance are one chain in which every row has one consumer, and the
\* directory they are kept in stays within its capacity.
EnumerationIsExact == PagesPartition /\ CursorsAreBound /\ Bounded

\* A snapshot with an open cursor survives until it expires; one whose last
\* page is claimed is given up, before it expires, only for lack of room.
Retention ==
  [][ \A k \in InitialKey :
        LET s == snap[k] IN
        s.state = "ready" /\ ~s.expired /\ ~(snap'[k].inst = s.inst /\ snap'[k].state = "ready")
          => Terminal(s) /\ Full(snap) ]_enumVars

=============================================================================
