--------------------------- MODULE ActivityLedger ---------------------------
(***************************************************************************)
(* The ledger of src/activity.rs.  Every enveloped operation and every     *)
(* launch records its start before the capability runs and its end after   *)
(* (src/dispatch.rs).  An event is appended to the active one of two       *)
(* segments, or starts the other one when the active is full, and counts   *)
(* from the moment the head names it: what a process that died left behind *)
(* the head is cut off by the next one.                                    *)
(*                                                                         *)
(* Recording never waits: a call that finds the ledger locked, or cannot   *)
(* write it, goes on without its evidence.                                 *)
(*                                                                         *)
(* EvidenceProofs extends this module and LaunchStream: what both would    *)
(* call Init or Next has a name of its own here.                           *)
(***************************************************************************)
EXTENDS Integers, SequencesExt

CONSTANTS
  Call,        \* invocations of the provider
  Size,        \* encoded sizes of entries
  MaxEvents,   \* MAX_ACTIVITY_EVENTS
  MaxBytes,    \* MAX_ACTIVITY_BYTES
  Legacy,      \* ledgers of a predecessor that had no head
  None

VARIABLES
  file,       \* the two segments
  head,       \* the head file
  lock,       \* the call that holds the ledger's lock
  call,       \* how far each call is
  authored,   \* events authored so far: their times make their digests differ
  committed   \* the events a head has named, oldest first

ledgerVars == <<file, head, lock, call, authored, committed>>

-----------------------------------------------------------------------------
(***************************************************************************)
(* Segments and the head                                                   *)
(***************************************************************************)
Segment == {"operations", "alternate"}

\* An entry names its predecessor's digest, 0 for none, and ends where it ends in its segment.
Entry(sequence, prior, id, end) ==
  [sequence |-> sequence, prior |-> prior, id |-> id, end |-> end]

Entries == [sequence : Nat, prior : Nat, id : Nat, end : Nat]

Bytes(events) == IF events = <<>> THEN 0 ELSE Last(events).end

\* A segment is lines and, after an interrupted append, part of one.
Lines(events) == [events |-> events, torn |-> FALSE]

Segments == [events : Seq(Entries), torn : BOOLEAN]

\* Lines follow each other in a segment.
LaidOut(events) ==
  /\ \A k \in DOMAIN events : events[k].end > 0
  /\ \A j, k \in DOMAIN events : j < k => events[j].end < events[k].end

LedgerHead(active, sequence, last, count, bytes) ==
  [active |-> active, sequence |-> sequence, last |-> last, count |-> count, bytes |-> bytes]

Heads == [active : Segment, sequence : Nat, last : Nat, count : Nat, bytes : Nat]

\* None stands for what is absent. What an earlier ledger holds is a file: its lines do not
\* overlap. Its digests are numbered; nothing else is known of it.
ASSUME LedgerConstantsOK ==
  /\ None \notin Call \cup Heads
  /\ MaxEvents \in Nat \ {0} /\ MaxBytes \in Nat
  /\ Size \subseteq 1 .. MaxBytes
  /\ Legacy \subseteq Segments
  /\ \A l \in Legacy :
       /\ LaidOut(l.events)
       /\ \A k \in DOMAIN l.events : l.events[k].id <= Len(l.events)

\* Every event follows the one before it.
Chained(events) ==
  \A k \in 1 .. Len(events) - 1 :
    events[k + 1].sequence = events[k].sequence + 1 /\ events[k + 1].prior = events[k].id

\* validate_ledger: what is taken over has to be whole, and read_file_bounded reads it.
Valid(segment) ==
  /\ ~segment.torn /\ Bytes(segment.events) <= MaxBytes
  /\ segment.events # <<>> => segment.events[1].sequence > 0
  /\ Chained(segment.events)

\* The head of a ledger that had none.
Initial ==
  LET events == file["operations"].events
      n == Len(events)
  IN  IF n = 0 THEN LedgerHead("operations", 0, 0, 0, 0)
      ELSE LedgerHead("operations", events[n].sequence, events[n].id, n, Bytes(events))

\* validate_activity_head
Consistent(h) ==
  /\ h.active \in Segment
  /\ h.count <= MaxEvents /\ h.bytes <= MaxBytes
  /\ h.count = 0 => h.sequence = 0 /\ h.last = 0 /\ h.bytes = 0

\* The lines up to the committed length, and whether that is where a line ends.
Kept(segment, bytes) ==
  LET fit == {k \in 0 .. Len(segment.events) : Bytes(SubSeq(segment.events, 1, k)) <= bytes}
      whole == SubSeq(segment.events, 1, CHOOSE k \in fit : \A other \in fit : other <= k)
  IN  [events |-> whole, torn |-> Bytes(whole) # bytes]

\* Seeded fault: what lies behind the committed length is left there.
RepairedNever(segment, bytes) == segment

\* repair_activity_tail, for a segment that is at least as long as the head says.
Repaired(segment, bytes) ==
  IF Bytes(segment.events) > bytes \/ segment.torn THEN Kept(segment, bytes) ELSE segment

\* validate_activity_tail: the last line is the event the head names.
TailFits(segment, h) ==
  h.count > 0 =>
    /\ ~segment.torn /\ segment.events # <<>>
    /\ Last(segment.events).sequence = h.sequence
    /\ Last(segment.events).id = h.last

\* Whether the next call that takes the lock may append.
Admissible ==
  /\ Consistent(head)
  /\ Bytes(file[head.active].events) >= head.bytes
  /\ TailFits(Repaired(file[head.active], head.bytes), head)

-----------------------------------------------------------------------------
(***************************************************************************)
(* A call                                                                  *)
(***************************************************************************)
Phase == {"started", "completed", "over"}
At == {"lock", "open", "repair", "author", "publish"}

LedgerInit ==
  /\ file \in {[s \in Segment |-> IF s = "operations" THEN l ELSE Lines(<<>>)] : l \in Legacy}
  /\ head = None
  /\ lock = None
  /\ call = [c \in Call |-> [phase |-> "started", at |-> "lock", next |-> None]]
  /\ authored = Len(file["operations"].events)
  /\ committed = <<>>

On(c, at) == call[c].phase # "over" /\ call[c].at = at

To(c, at) == call' = [call EXCEPT ![c].at = at]

\* The capability runs between the two records, whether or not the first was written, and
\* the answer follows the second.
GoOn(c) ==
  /\ call' = [call EXCEPT ![c] =
       [phase |-> IF @.phase = "started" THEN "completed" ELSE "over",
        at |-> "lock", next |-> None]]
  /\ lock' = IF lock = c THEN None ELSE lock

Acquire(c) ==
  /\ On(c, "lock") /\ lock = None
  /\ lock' = c /\ To(c, "open")
  /\ UNCHANGED <<file, head, authored, committed>>

\* The ledger is busy.
Skip(c) ==
  /\ On(c, "lock") /\ lock # None
  /\ GoOn(c)
  /\ UNCHANGED <<file, head, authored, committed>>

\* read_or_initialize_activity_head
Open(c) ==
  /\ On(c, "open")
  /\ IF head # None THEN UNCHANGED <<head, committed>>
     ELSE /\ Valid(file["operations"])
          /\ head' = Initial
          /\ committed' = file["operations"].events
  /\ To(c, "repair")
  /\ UNCHANGED <<file, lock, authored>>

Repair(c) ==
  /\ On(c, "repair") /\ Admissible
  /\ file' = [file EXCEPT ![head.active] = Repaired(@, head.bytes)]
  /\ To(c, "author")
  /\ UNCHANGED <<head, lock, authored, committed>>

\* A chain that does not hold is left to the operator.
Refuse(c) ==
  /\ \/ On(c, "open") /\ head = None /\ ~Valid(file["operations"])
     \/ On(c, "repair") /\ ~Admissible
  /\ GoOn(c)
  /\ UNCHANGED <<file, head, authored, committed>>

Rotates(size) == head.count >= MaxEvents \/ head.bytes + size > MaxBytes

\* Seeded fault: the alternation is forgotten.
OtherIsFirst(s) == "operations"

Other(s) == IF s = "operations" THEN "alternate" ELSE "operations"

Authored(end) == Entry(head.sequence + 1, head.last, authored + 1, end)

\* The event is in the active segment, not in the head.
AppendEvent(c, size) ==
  /\ On(c, "author") /\ ~Rotates(size)
  /\ LET event == Authored(head.bytes + size)
     IN  /\ file' = [file EXCEPT ![head.active].events = Append(@, event)]
         /\ call' = [call EXCEPT ![c].at = "publish", ![c].next =
              [head |-> LedgerHead(head.active, event.sequence, event.id, head.count + 1,
                             event.end),
               event |-> event]]
  /\ authored' = authored + 1
  /\ UNCHANGED <<head, lock, committed>>

\* The other segment is replaced by one that starts with the event.
Rotate(c, size) ==
  /\ On(c, "author") /\ Rotates(size)
  /\ LET event == Authored(size)
         other == Other(head.active)
     IN  /\ file' = [file EXCEPT ![other] = Lines(<<event>>)]
         /\ call' = [call EXCEPT ![c].at = "publish", ![c].next =
              [head |-> LedgerHead(other, event.sequence, event.id, 1, size), event |-> event]]
  /\ authored' = authored + 1
  /\ UNCHANGED <<head, lock, committed>>

\* The append is cut short.
Tear(c, size) ==
  /\ On(c, "author") /\ ~Rotates(size)
  /\ file' = [file EXCEPT ![head.active].torn = TRUE]
  /\ GoOn(c)
  /\ UNCHANGED <<head, authored, committed>>

\* write_activity_head
Publish(c) ==
  /\ On(c, "publish")
  /\ head' = call[c].next.head
  /\ committed' = Append(committed, call[c].next.event)
  /\ GoOn(c)
  /\ UNCHANGED <<file, authored>>

\* Reading, writing or synchronizing fails: a warning, and the call goes on.
GiveUp(c) ==
  /\ lock = c
  /\ GoOn(c)
  /\ UNCHANGED <<file, head, authored, committed>>

Die(c) ==
  /\ call[c].phase # "over"
  /\ call' = [call EXCEPT ![c] = [phase |-> "over", at |-> "lock", next |-> None]]
  /\ lock' = IF lock = c THEN None ELSE lock
  /\ UNCHANGED <<file, head, authored, committed>>

LedgerNext ==
  \E c \in Call :
    \/ Acquire(c) \/ Skip(c) \/ Open(c) \/ Repair(c) \/ Refuse(c) \/ Publish(c)
    \/ GiveUp(c) \/ Die(c)
    \/ \E size \in Size : AppendEvent(c, size) \/ Rotate(c, size) \/ Tear(c, size)

LedgerSpec == LedgerInit /\ [][LedgerNext]_ledgerVars

-----------------------------------------------------------------------------
(***************************************************************************)
(* Properties                                                              *)
(***************************************************************************)
LedgerTypeOK ==
  /\ file \in [Segment -> Segments] /\ head \in {None} \cup Heads
  /\ lock \in Call \cup {None}
  /\ \A c \in Call : call[c].phase \in Phase /\ call[c].at \in At

\* A ledger without a head may have grown past what a segment may hold, in events: it is
\* taken over, by a head that no call then accepts.
Oversized == head # None /\ head.count > MaxEvents

\* Evidence takes constant space: neither segment grows past its limits, whatever is left
\* behind the head.
StaysBounded ==
  head # None /\ ~Oversized =>
    \A s \in Segment : Bytes(file[s].events) <= MaxBytes /\ Len(file[s].events) <= MaxEvents

\* The committed lines of a head are there, the last events of one unbroken chain.
StandsOn(h, events, named) ==
  /\ Chained(named)
  /\ h.count <= Len(named) /\ h.count <= Len(events)
  /\ Len(named) > 0 => h.count > 0 /\ h.last = named[Len(named)].id
  /\ \A k \in 1 .. h.count : events[k] = named[Len(named) - h.count + k]

\* The head stands on the segment it names, whatever a dying process appended behind its
\* lines or wrote into the other segment.
HeadIsBacked == head # None => StandsOn(head, file[head.active].events, committed)

\* Once it has a head no sequence of deaths and failures makes the ledger one that the next
\* call refuses: recording stops only for a chain that was broken from outside, and for
\* one that was too long when it was taken over.
NeverRefused == head # None /\ ~Oversized => Admissible

LedgerIsSound == LedgerTypeOK /\ StaysBounded /\ HeadIsBacked /\ NeverRefused

Present(files) == {k \in DOMAIN committed : \E s \in Segment : Contains(files[s].events, committed[k])}

\* A committed event leaves the ledger only when the segment it is not in is full: a full
\* segment of newer events is there in its place.
CommittedIsKept ==
  [][Present(file) \ Present(file') # {} =>
       /\ head.count >= MaxEvents \/ \E size \in Size : head.bytes + size > MaxBytes
       /\ \A k \in Present(file) \ Present(file') : k <= Len(committed) - head.count]_ledgerVars

\* README.md 748, 761-764: one hash-chained ledger in two alternating segments.
OneChain ==
  \A s, t \in Segment, i, j \in 1 .. MaxEvents :
    (i <= Len(file[s].events) /\ j <= Len(file[t].events)
       /\ file[s].events[i].sequence = file[t].events[j].sequence) => s = t /\ i = j

=============================================================================
