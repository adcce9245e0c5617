----------------------------- MODULE TurnPages -----------------------------
(***************************************************************************)
(* session.read_turns: pages of a session's turns, read from the SQLite    *)
(* store that OpenCode keeps writing (src/session_turn_pages.rs).          *)
(*                                                                         *)
(* A read is a series of database queries, each a process of its own, with *)
(* no transaction around them.  What ties the pages of one snapshot        *)
(* together is in the tokens the host carries: a high watermark before the *)
(* first message that may still change, and a guard, which is the revision *)
(* of the store and the greatest row ids of its two tables.  The provider  *)
(* keeps nothing but the key it authenticates tokens with.                 *)
(*                                                                         *)
(* The messages of the session are named by their place in source order    *)
(* (time_created, id); 0 is the place before all of them.                  *)
(***************************************************************************)
EXTENDS Integers, FiniteSets, FiniteSetsExt

CONSTANTS
  Invocation,    \* provider processes the host has reading at the same time
  MaxKey,        \* places in source order
  MaxWrites,     \* bound on the writes to the store
  MaxTurns,      \* max_turns
  Edits,         \* whether OpenCode also rewrites what is immutable
  Withdraws,     \* whether it deletes messages
  None

ASSUME ConstantsOK ==
  /\ MaxKey \in Nat /\ MaxWrites \in Nat /\ MaxTurns \in Nat \ {0}
  /\ Edits \in BOOLEAN /\ Withdraws \in BOOLEAN /\ None \notin Invocation

VARIABLES
  src,       \* the messages of the session
  other,     \* greatest row ids of the other sessions' messages and parts
  rev,       \* database and WAL revision: changes with every write
  gen,       \* source generation: device, inode and schema
  pc,
  call,      \* the token and mode each process was called with
  view,      \* what each process has read so far
  host,      \* the page token and the resume token the host holds
  reached,   \* history: the farthest position of a resume token
  late       \* history: messages that appeared at or before that position

vars == <<src, other, rev, gen, pc, call, view, host, reached, late>>

Source == <<src, other, rev, gen>>

History == <<reached, late>>

Key == 1 .. MaxKey

Place == 0 .. MaxKey

-----------------------------------------------------------------------------
(***************************************************************************)
(* The store                                                               *)
(***************************************************************************)
\* `row` and `part` are the message's row id and the greatest row id of its parts;
\* `ver` and `text` change when the message and the text of its parts do.
Message == [role : {"user", "assistant"}, done : BOOLEAN, row : Nat, part : Nat,
            ver : Nat, text : Nat]

NoMessage == [role |-> "none", done |-> FALSE, row |-> 0, part |-> 0, ver |-> 0, text |-> 0]

Present == {k \in Key : src[k].role # "none"}

MessageTop == Max({other.message} \cup {src[k].row : k \in Key})

PartTop == Max({other.part} \cup {src[k].part : k \in Key})

Immutable(m) == m.role = "user" \/ m.done

\* The first message that may still change; nothing from there on is in a snapshot.
Gaps == {k \in Present : ~Immutable(src[k])}

Matches(m, projection) == projection = "canonical_ingest" \/ m.role = "user"

Projection == {"canonical_ingest", "user_observation"}

-----------------------------------------------------------------------------
(***************************************************************************)
(* Tokens                                                                  *)
(***************************************************************************)
\* A turn is a message and the text it was read with.
Turn == Key \X Nat

Guard == [rev : Nat, message : Nat, part : Nat]

\* `base` and `start` are what the snapshot resumed from, `frozen` the turns it
\* promises and `got` those the host has been given on the way here (history).
Token == [kind : {"page", "resume"}, gen : Nat,
          projection : Projection, high : Place, guard : Guard, cursor : Place,
          origin : Place, start : Place, base : SUBSET Turn, frozen : SUBSET Turn,
          got : SUBSET Turn]

Mode == {"beginning", "tail", "continuation"}

NoCall == [mode |-> "beginning", projection |-> "canonical_ingest", token |-> None]

NoGuard == [rev |-> 0, message |-> 0, part |-> 0]

\* `rows` are message metadata: places with the version they were listed with.
NoView == [gen |-> 0, guard |-> NoGuard, high |-> 0, gap |-> 0,
           cursor |-> 0, start |-> 0, origin |-> 0, base |-> {}, frozen |-> {}, got |-> {},
           rows |-> {}, turns |-> {}, upto |-> 0]

Location == {"idle", "open", "guard", "watermark", "revision", "frontier",
             "gap", "high", "seal", "metadata", "messages", "bodies", "final"}

\* A session that has just begun, or has its first message.
FirstMessage ==
  [role |-> "user", done |-> TRUE, row |-> 1, part |-> 1, ver |-> 1, text |-> 1]

Init ==
  /\ src \in {[k \in Key |-> NoMessage],
              [k \in Key |-> IF k = 1 THEN FirstMessage ELSE NoMessage]}
  /\ other = [message |-> 1, part |-> 1]
  /\ rev = 0 /\ gen = 0
  /\ pc = [i \in Invocation |-> "idle"]
  /\ call = [i \in Invocation |-> NoCall]
  /\ view = [i \in Invocation |-> NoView]
  /\ host = [page |-> None, resume |-> None]
  /\ reached = 0 /\ late = {}

Goto(i, l) == pc' = [pc EXCEPT ![i] = l]

See(i, v) == view' = [view EXCEPT ![i] = v]

\* The process ends and the host is told, or not, and drops what it was told is void.
End(i, h) ==
  /\ Goto(i, "idle")
  /\ call' = [call EXCEPT ![i] = NoCall]
  /\ view' = [view EXCEPT ![i] = NoView]
  /\ host' = h

\* snapshot_invalidated, invalid_session_page_token: restart from the last durable
\* resume token or the source beginning.
Refuse(i) ==
  /\ \E h \in {[host EXCEPT !.page = None], [page |-> None, resume |-> None]} : End(i, h)
  /\ UNCHANGED <<Source, History>>

\* Every query checks, before and after, that the database file is still the same.
SameSource(i) == view[i].gen = gen

-----------------------------------------------------------------------------
(***************************************************************************)
(* The call                                                                *)
(***************************************************************************)
Call(i) ==
  /\ pc[i] = "idle"
  /\ \/ host.page # None /\
        call' = [call EXCEPT ![i] = [mode |-> "continuation", token |-> host.page,
                                     projection |-> host.page.projection]]
     \/ host.page = None /\ host.resume # None /\
        call' = [call EXCEPT ![i] = [mode |-> "beginning", token |-> host.resume,
                                     projection |-> host.resume.projection]]
     \/ host.page = None /\ \E p \in Projection :
        call' = [call EXCEPT ![i] = [mode |-> "beginning", token |-> None, projection |-> p]]
     \/ host.page = None /\
        call' = [call EXCEPT ![i] = [mode |-> "tail", token |-> None,
                                     projection |-> "user_observation"]]
  /\ Goto(i, "open")
  /\ UNCHANGED <<Source, view, host, History>>

\* What a token must agree with.  Its settings version, runtime identity and key
\* refuse it as another source generation does.
InScope(t) == t.gen = gen

\* What a process knows once it has resolved the database and its generation.
Fresh == [NoView EXCEPT !.gen = gen]

\* A page token continues its snapshot, a resume token starts the next one after it.
Continuation(t) == [Fresh EXCEPT
  !.guard = t.guard, !.high = t.high, !.cursor = t.cursor, !.start = t.start,
  !.origin = t.origin, !.base = t.base, !.frozen = t.frozen, !.got = t.got]

Resumption(t) == [Fresh EXCEPT
  !.cursor = t.cursor, !.start = t.cursor, !.origin = t.origin, !.base = t.got, !.got = t.got]

Open(i) ==
  LET t == call[i].token IN
  /\ pc[i] = "open"
  /\ \/ t = None /\ See(i, Fresh) /\ Goto(i, "revision")
     \/ t # None /\ InScope(t) /\ call[i].mode = "continuation"
          /\ See(i, Continuation(t)) /\ Goto(i, "guard")
     \/ t # None /\ InScope(t) /\ call[i].mode = "beginning"
          /\ See(i, Resumption(t)) /\ Goto(i, "revision")
  /\ UNCHANGED <<Source, call, host, History>>

OpenRefused(i) ==
  /\ pc[i] = "open" /\ call[i].token # None /\ ~InScope(call[i].token)
  /\ Refuse(i)

-----------------------------------------------------------------------------
(***************************************************************************)
(* The snapshot guard                                                      *)
(***************************************************************************)
\* A change that is not an append beyond the frontier, or an append inside.
Unappended(g) ==
  \/ MessageTop < g.message
  \/ PartTop < g.part
  \/ MessageTop = g.message /\ PartTop = g.part

Intrudes(g, high) ==
  \E k \in Present : k <= high /\ (src[k].row > g.message \/ src[k].part > g.part)

\* Seeded fault: a message inserted inside the prefix goes unnoticed.
GuardHoldsForParts(g, high) ==
  \/ rev = g.rev
  \/ ~Unappended(g) /\ ~\E k \in Present : k <= high /\ src[k].part > g.part

GuardHolds(g, high) == rev = g.rev \/ (~Unappended(g) /\ ~Intrudes(g, high))

CheckGuard(i) ==
  /\ pc[i] = "guard" /\ SameSource(i) /\ GuardHolds(view[i].guard, view[i].high)
  /\ Goto(i, IF view[i].high = 0 THEN "metadata" ELSE "watermark")
  /\ UNCHANGED <<Source, call, view, host, History>>

GuardRefused(i) ==
  /\ pc[i] = "guard" /\ ~(SameSource(i) /\ GuardHolds(view[i].guard, view[i].high))
  /\ Refuse(i)

\* load_message_at_key
WatermarkStands(i) ==
  SameSource(i) /\ view[i].high \in Present /\ Immutable(src[view[i].high])

Watermark(i) ==
  /\ pc[i] = "watermark" /\ WatermarkStands(i)
  /\ Goto(i, "metadata")
  /\ UNCHANGED <<Source, call, view, host, History>>

WatermarkRefused(i) == pc[i] = "watermark" /\ ~WatermarkStands(i) /\ Refuse(i)

-----------------------------------------------------------------------------
(***************************************************************************)
(* Capturing a snapshot                                                    *)
(***************************************************************************)
Revision(i) ==
  /\ pc[i] = "revision" /\ SameSource(i)
  /\ See(i, [view[i] EXCEPT !.guard.rev = rev])
  /\ Goto(i, "frontier")
  /\ UNCHANGED <<Source, call, host, History>>

Frontier(i) ==
  /\ pc[i] = "frontier" /\ SameSource(i)
  /\ See(i, [view[i] EXCEPT !.guard.message = MessageTop, !.guard.part = PartTop])
  /\ Goto(i, "gap")
  /\ UNCHANGED <<Source, call, host, History>>

Gap(i) ==
  /\ pc[i] = "gap" /\ SameSource(i)
  /\ See(i, [view[i] EXCEPT !.gap = IF Gaps = {} THEN 0 ELSE Min(Gaps)])
  /\ Goto(i, "high")
  /\ UNCHANGED <<Source, call, host, History>>

\* The last message before the gap, which must still be one.
High(i) ==
  LET gap == view[i].gap
  IN
  /\ pc[i] = "high" /\ SameSource(i)
  /\ gap # 0 => gap \in Gaps
  /\ See(i, [view[i] EXCEPT !.high =
               Max({0} \cup {k \in Present : gap # 0 => k < gap})])
  /\ Goto(i, "seal")
  /\ UNCHANGED <<Source, call, host, History>>

\* A turn as it is read: the message, and the text of the parts it has.
Body(k) == <<k, src[k].text>>

Frozen(i) ==
  {Body(k) : k \in {j \in Present : j <= view[i].high /\
                                Matches(src[j], call[i].projection)}}

\* The high watermark is immutable, nothing was written since the first step, and
\* the position to resume from is not beyond it.
Sealed(i) ==
  /\ SameSource(i) /\ rev = view[i].guard.rev
  /\ view[i].high # 0 => view[i].high \in Present /\ Immutable(src[view[i].high])
  /\ view[i].cursor <= view[i].high

\* A tail read starts, and ends, at the watermark.
Seal(i) ==
  LET tail == call[i].mode = "tail"
      from == IF tail THEN view[i].high ELSE view[i].cursor
  IN
  /\ pc[i] = "seal" /\ Sealed(i)
  /\ See(i, [view[i] EXCEPT !.cursor = from, !.start = from, !.upto = from,
                            !.origin = IF tail THEN from ELSE view[i].origin,
                            !.frozen = Frozen(i)])
  /\ Goto(i, IF tail THEN "final" ELSE "metadata")
  /\ UNCHANGED <<Source, call, host, History>>

CaptureRefused(i) ==
  /\ \/ pc[i] \in {"revision", "frontier", "gap", "high"} /\ ~SameSource(i)
     \/ pc[i] = "high" /\ view[i].gap # 0 /\ view[i].gap \notin Gaps
     \/ pc[i] = "seal" /\ ~Sealed(i)
  /\ Refuse(i)

-----------------------------------------------------------------------------
(***************************************************************************)
(* Reading a page                                                          *)
(***************************************************************************)
\* The messages after the cursor, as far as the row limit or the byte budget goes.
Ahead(i) == {k \in Present : view[i].cursor < k /\ k <= view[i].high}

Upto(s, k) == {j \in s : j <= k}

Metadata(i) ==
  /\ pc[i] = "metadata" /\ SameSource(i)
  /\ \/ /\ Ahead(i) = {}
        /\ See(i, [view[i] EXCEPT !.upto = view[i].cursor])
        /\ Goto(i, "final")
     \/ /\ \E k \in Ahead(i) :
             /\ call[i].projection = "canonical_ingest" =>
                  Cardinality(Upto(Ahead(i), k)) <= MaxTurns + 1
             /\ See(i, [view[i] EXCEPT !.rows = {<<j, src[j].ver>> : j \in Upto(Ahead(i), k)}])
        /\ Goto(i, "messages")
  /\ UNCHANGED <<Source, call, host, History>>

Listed(i) == {r[1] : r \in view[i].rows}

\* Each listed message is loaded and is still the one that was listed.
Unchanged(i) == \A r \in view[i].rows : r[1] \in Present /\ src[r[1]].ver = r[2]

Messages(i) ==
  /\ pc[i] = "messages" /\ SameSource(i) /\ Unchanged(i)
  /\ Goto(i, "bodies")
  /\ UNCHANGED <<Source, call, view, host, History>>

\* The listed messages whose parts are read.
Relevant(i) == {k \in Listed(i) : Matches(src[k], call[i].projection)}

\* Turns are taken until there are max_turns or until the next one exceeds a budget;
\* the messages that are not relevant are passed over.
Bodies(i) ==
  /\ pc[i] = "bodies" /\ SameSource(i)
  /\ \E s \in SUBSET Relevant(i) :
       LET rest == Relevant(i) \ s
           next == IF rest = {} THEN MaxKey + 1 ELSE Min(rest)
           taken == {k \in Listed(i) : k < next}
       IN
       /\ Cardinality(s) <= MaxTurns /\ s \subseteq taken /\ taken # {}
       /\ See(i, [view[i] EXCEPT !.turns = {Body(k) : k \in s},
                                 !.upto = Max(taken)])
  /\ Goto(i, "final")
  /\ UNCHANGED <<Source, call, host, History>>

PageRefused(i) ==
  /\ \/ pc[i] \in {"metadata", "messages", "bodies"} /\ ~SameSource(i)
     \/ pc[i] = "messages" /\ ~Unchanged(i)
  /\ Refuse(i)

\* Not even one turn fits in the budgets the host has set, or a query times out.
PageFails(i) ==
  /\ pc[i] \notin {"idle"}
  /\ End(i, host)
  /\ UNCHANGED <<Source, History>>

-----------------------------------------------------------------------------
(***************************************************************************)
(* The answer                                                              *)
(***************************************************************************)
TokenFor(i, complete) ==
  LET v == view[i]
  IN [kind |-> IF complete THEN "resume" ELSE "page",
      gen |-> v.gen, projection |-> call[i].projection,
      high |-> v.high, guard |-> v.guard, cursor |-> v.upto, origin |-> v.origin,
      start |-> v.start, base |-> v.base, frozen |-> v.frozen, got |-> v.got \cup v.turns]

\* Seeded fault: a page without turns never completes its snapshot.
AnswerTurns(i) == TokenFor(i, view[i].upto = view[i].high /\ view[i].turns # {})

\* The snapshot is complete when the watermark is reached.
Answer(i) == TokenFor(i, view[i].upto = view[i].high)

\* The host receives the page, or the answer is lost.
Deliver(i) ==
  /\ pc[i] = "final"
  /\ \E h \in {IF Answer(i).kind = "page" THEN [host EXCEPT !.page = Answer(i)]
               ELSE [page |-> None, resume |-> Answer(i)], host} : End(i, h)
  /\ reached' = IF Answer(i).kind = "resume" THEN Max({reached, Answer(i).cursor}) ELSE reached
  /\ UNCHANGED <<Source, late>>

\* Seeded fault: the page is answered without looking at the guard again.
RespondUnchecked(i) == SameSource(i) /\ Deliver(i)

Respond(i) == SameSource(i) /\ GuardHolds(view[i].guard, view[i].high) /\ Deliver(i)

RespondRefused(i) ==
  /\ pc[i] = "final" /\ ~(SameSource(i) /\ GuardHolds(view[i].guard, view[i].high))
  /\ Refuse(i)

-----------------------------------------------------------------------------
(***************************************************************************)
(* OpenCode                                                                *)
(***************************************************************************)
Written == rev < MaxWrites /\ rev' = rev + 1

Reader == <<pc, call, view, host>>

Insert(k) ==
  /\ k \notin Present /\ Written
  /\ \E role \in {"user", "assistant"} :
       src' = [src EXCEPT ![k] = [role |-> role, done |-> role = "user",
                                  row |-> MessageTop + 1, part |-> 0, ver |-> 1, text |-> 0]]
  /\ late' = IF k <= reached THEN late \cup {k} ELSE late
  /\ UNCHANGED <<other, gen, Reader, reached>>

InsertPart(k) ==
  /\ k \in Present /\ Written
  /\ src' = [src EXCEPT ![k].part = PartTop + 1, ![k].text = @ + 1]
  /\ UNCHANGED <<other, gen, Reader, History>>

Complete(k) ==
  /\ k \in Gaps /\ Written
  /\ src' = [src EXCEPT ![k].done = TRUE, ![k].ver = @ + 1]
  /\ UNCHANGED <<other, gen, Reader, History>>

InsertElsewhere ==
  /\ Written
  /\ other' = [other EXCEPT !.message = MessageTop + 1]
  /\ UNCHANGED <<src, gen, Reader, History>>

Edited(m) == {[m EXCEPT !.text = @ + 1]} \cup IF Withdraws THEN {NoMessage} ELSE {}

\* What is unfinished is rewritten; what is finished, only with Edits.
Edit(k) ==
  /\ k \in IF Edits THEN Present ELSE Gaps
  /\ Written
  /\ \E m \in Edited(src[k]) : src' = [src EXCEPT ![k] = m]
  /\ UNCHANGED <<other, gen, Reader, History>>

\* Another database under the same path.
Replace ==
  /\ gen = 0 /\ Written
  /\ gen' = 1
  /\ src' = [k \in Key |-> NoMessage]
  /\ other' = [message |-> 0, part |-> 0]
  /\ reached' = 0 /\ late' = {}
  /\ UNCHANGED Reader

-----------------------------------------------------------------------------
Step(i) ==
  \/ Open(i) \/ OpenRefused(i)
  \/ CheckGuard(i) \/ GuardRefused(i) \/ Watermark(i) \/ WatermarkRefused(i)
  \/ Revision(i) \/ Frontier(i) \/ Gap(i) \/ High(i) \/ Seal(i) \/ CaptureRefused(i)
  \/ Metadata(i) \/ Messages(i) \/ Bodies(i) \/ PageRefused(i)
  \/ Respond(i) \/ RespondRefused(i)

OpenCode ==
  \/ \E k \in Key : Insert(k) \/ InsertPart(k) \/ Complete(k) \/ Edit(k)
  \/ InsertElsewhere \/ Replace

Next ==
  \/ \E i \in Invocation : Call(i) \/ Step(i) \/ PageFails(i)
  \/ OpenCode

Spec == Init /\ [][Next]_vars

-----------------------------------------------------------------------------
(***************************************************************************)
(* Properties                                                              *)
(***************************************************************************)
Held == {host.page, host.resume} \ {None}

\* The store, the tokens and the processes have the values they are meant to have, and
\* a page token always has something left to read.
TypeOK ==
  /\ src \in [Key -> Message \cup {NoMessage}]
  /\ rev \in 0 .. MaxWrites /\ gen \in {0, 1}
  /\ pc \in [Invocation -> Location]
  /\ \A i \in Invocation : call[i].mode \in Mode /\ call[i].token \in Token \cup {None}
  /\ host.page \in Token \cup {None} /\ host.resume \in Token \cup {None}
  /\ host.page # None => host.page.kind = "page" /\ host.page.cursor < host.page.high
  /\ host.resume # None => host.resume.kind = "resume"

\* README.md 591-594: the pages of a snapshot show the prefix that was frozen when it
\* was captured: no turn of it is missing, none was added, and each has the text it
\* had then, however the store is written between the queries of the pages.
FrozenPrefix ==
  \A t \in Held : t.got = t.base \cup {x \in t.frozen : t.start < x[1] /\ x[1] <= t.cursor}

\* README.md 580-583: a host that resumes from the token of a completed snapshot
\* has been given every message up to there, but those that appeared behind it, and
\* none that was unfinished: an unfinished message is neither shown nor passed over.
NothingSkipped ==
  \A t \in Held : t.gen = gen =>
    /\ t.kind = "resume" =>
         {k \in Present : t.origin < k /\ k <= t.cursor /\ Matches(src[k], t.projection)} \ late
           \subseteq {x[1] : x \in t.got}
    /\ \A x \in t.got : Immutable(src[x[1]])
=============================================================================
