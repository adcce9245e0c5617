---------------------------- MODULE EvidenceProofs ----------------------------
(***************************************************************************)
(* Proofs about the two accounts a launch gives of itself: the stream of   *)
(* events its host reads, and the entries in the activity ledger before    *)
(* and after it.                                                           *)
(*                                                                         *)
(* Of LaunchStream, for every number of chunks, every capacity of the      *)
(* channel and every set of requests: nothing is shown early, out of       *)
(* order, twice or with a gap; the completion marker counts all that the   *)
(* process group wrote; the record and the exit status rest on every       *)
(* chunk.                                                                  *)
(*                                                                         *)
(* Of ActivityLedger, for every set of calls, every limit of a segment and *)
(* every ledger that is taken over: no death or failure makes the ledger   *)
(* one the next call refuses, and a committed event is lost only to a full *)
(* segment of newer ones.                                                  *)
(***************************************************************************)
EXTENDS LaunchStream, ActivityLedger, SequenceTheorems, FunctionTheorems,
        FiniteSetTheorems, TLAPS

-----------------------------------------------------------------------------
(***************************************************************************)
(* The stream                                                              *)
(***************************************************************************)
Kind == {"route", "data", "session", "submitted", "produced", "unresolved",
         "loss", "forced", "complete", "exit"}
EventRecord == [is : Kind, n : Nat, status : Status]
Session == {"none", "s1", "s2"}
Record ==
  [phase : {"none", "prepared", "session", "terminal",
            "submitted", "completed", "unresolved"},
   session : Session]

\* What was emitted so far, whether it is written or still withheld.
Emitted == out \o spool

DataAt(s) == {i \in DOMAIN s : s[i].is = "data"}

\* The chunks of a sequence of events are numbered one after the other.
Numbered(s) ==
  \A j \in DataAt(s) :
    /\ \A i \in DataAt(s) : i < j => s[i].n < s[j].n
    /\ \A n \in 1 .. s[j].n - 1 : \E i \in DataAt(s) : i < j /\ s[i].n = n

\* The chunks of a sequence of events are those that were received.
Covers(s, top) ==
  /\ \A i \in DataAt(s) : s[i].n \in 1 .. top
  /\ \A n \in 1 .. top : \E i \in DataAt(s) : s[i].n = n

Shape ==
  /\ out \in Seq(EventRecord) /\ spool \in Seq(EventRecord)
  /\ received \in Seq({"stdout", "stderr"})
  /\ admitted \in BOOLEAN
  /\ admitted => spool = <<>>
  /\ record \in Record
  /\ heard \in {"none", "submitted", "completed"}

\* Only a launch that failed received a chunk that it never emits.
InOrder ==
  /\ Numbered(Emitted)
  /\ pc \notin {"failed", "over"} => Covers(Emitted, Len(received))

\* As long as nothing is observed, nothing is admitted.
Withheld ==
  record.phase = "prepared" =>
    ~admitted /\ \A i \in DOMAIN out : out[i].is = "route"

Statuses ==
  code \in Exit \cup {"none"} /\ final \in Status /\ forced \in Exit \cup {"none"}

StreamInv == Shape /\ InOrder /\ Withheld

IInv == StreamInv /\ Statuses

\* Events that carry no chunk.
Markers == {s \in Seq(EventRecord) : \A i \in DOMAIN s : s[i].is # "data"}

-----------------------------------------------------------------------------
(***************************************************************************)
(* Emitting                                                                *)
(***************************************************************************)

\* Whether it is spooled or written, an event comes after what was emitted before it.
LEMMA EmitAppends ==
  ASSUME Shape, NEW events \in Seq(EventRecord), NEW admit, Emit(events, admit)
  PROVE  /\ out' \in Seq(EventRecord) /\ spool' \in Seq(EventRecord)
         /\ admitted' \in BOOLEAN /\ (admitted' => spool' = <<>>)
         /\ Emitted' = Emitted \o events
<1>1. CASE admitted'
  <2>1. spool' = <<>> /\ out' = out \o spool \o events
    BY <1>1 DEF Emit
  <2> QED BY <1>1, <2>1 DEF Shape, Emitted
<1>2. CASE ~admitted'
  <2>1. spool' = spool \o events /\ out' = out /\ admitted' \in BOOLEAN
    BY <1>2 DEF Emit, Opened, Shape
  <2>2. out \o (spool \o events) = (out \o spool) \o events
    BY DEF Shape
  <2> QED BY <1>2, <2>1, <2>2 DEF Shape, Emitted
<1> QED BY <1>1, <1>2

\* Events that carry no chunk do not change the chunks.
LEMMA MarkersKeepOrder ==
  ASSUME NEW s \in Seq(EventRecord), NEW events \in Markers,
         Numbered(s), NEW top \in Nat
  PROVE  /\ Numbered(s \o events)
         /\ Covers(s, top) => Covers(s \o events, top)
<1> DEFINE t == s \o events
<1>1. /\ t \in Seq(EventRecord) /\ Len(t) = Len(s) + Len(events)
      /\ \A i \in 1 .. Len(t) : t[i] = IF i <= Len(s) THEN s[i] ELSE events[i - Len(s)]
  BY ConcatProperties DEF Markers
<1> HIDE DEF t
<1>2. /\ DataAt(t) = DataAt(s)
      /\ \A i \in DataAt(s) : t[i] = s[i]
  <2>1. /\ DOMAIN s = 1 .. Len(s) /\ DOMAIN t = 1 .. Len(t) /\ DOMAIN events = 1 .. Len(events)
        /\ Len(s) \in Nat /\ Len(events) \in Nat
    BY <1>1 DEF Markers
  <2>2. \A i \in 1 .. Len(s) : i \in DOMAIN t /\ t[i] = s[i]
    BY <1>1, <2>1
  <2>3. ASSUME NEW i \in DOMAIN t, i \notin DOMAIN s
        PROVE  t[i].is # "data"
    <3>1. t[i] = events[i - Len(s)] /\ i - Len(s) \in DOMAIN events
      BY <1>1, <2>1, <2>3
    <3> QED BY <3>1 DEF Markers
  <2> QED BY <2>1, <2>2, <2>3 DEF DataAt
<1>3. Numbered(t)
  BY <1>2 DEF Numbered
<1>4. Covers(s, top) => Covers(t, top)
  BY <1>2 DEF Covers
<1> QED BY <1>3, <1>4 DEF t

\* The next chunk follows all that were received before.
LEMMA ChunkKeepsOrder ==
  ASSUME NEW s \in Seq(EventRecord), Numbered(s), NEW top \in Nat, Covers(s, top),
         NEW c \in EventRecord, c.is = "data", c.n = top + 1
  PROVE  /\ Numbered(s \o <<c>>)
         /\ Covers(s \o <<c>>, top + 1)
<1> DEFINE t == s \o <<c>>
<1> DEFINE last == Len(s) + 1
<1>1. <<c>> \in Seq(EventRecord) /\ Len(<<c>>) = 1 /\ <<c>>[1] = c
  OBVIOUS
<1>2. /\ t \in Seq(EventRecord) /\ Len(t) = last /\ last \in Nat
      /\ \A i \in 1 .. last : t[i] = IF i <= Len(s) THEN s[i] ELSE <<c>>[i - Len(s)]
  BY <1>1, ConcatProperties
<1>3. /\ DataAt(t) = DataAt(s) \cup {last}
      /\ \A i \in DataAt(s) : t[i] = s[i] /\ i < last /\ i \in Nat
      /\ t[last].n = top + 1
  <2>1. DOMAIN s = 1 .. Len(s) /\ DOMAIN t = 1 .. last /\ Len(s) \in Nat
    BY <1>2
  <2>2. \A i \in 1 .. Len(s) : t[i] = s[i] /\ i < last /\ i \in Nat
    BY <1>2, <2>1
  <2>3. t[last] = c
    BY <1>1, <1>2, <2>1
  <2> HIDE DEF t
  <2>4. 1 .. last = (1 .. Len(s)) \cup {last}
    BY <2>1
  <2> HIDE DEF last
  <2> QED BY <2>1, <2>2, <2>3, <2>4 DEF DataAt
<1> HIDE DEF t, last
<1>4. \A i \in DataAt(s) : s[i].n \in 1 .. top /\ s[i].n \in Nat /\ s[i].n < top + 1
  BY DEF Covers
<1>5. Numbered(t)
  <2>1. ASSUME NEW j \in DataAt(s)
        PROVE  /\ \A i \in DataAt(t) : i < j => t[i].n < t[j].n
               /\ \A n \in 1 .. t[j].n - 1 : \E i \in DataAt(t) : i < j /\ t[i].n = n
    <3>1. \A i \in DataAt(t) : i < j => i \in DataAt(s)
      BY <1>2, <1>3
    <3>2. \A i \in DataAt(s) : i < j => s[i].n < s[j].n
      BY DEF Numbered
    <3>3. \A n \in 1 .. s[j].n - 1 : \E i \in DataAt(s) : i < j /\ s[i].n = n
      BY DEF Numbered
    <3> QED BY <1>3, <3>1, <3>2, <3>3
  <2>2. /\ \A i \in DataAt(t) : i < last => t[i].n < t[last].n
        /\ \A n \in 1 .. t[last].n - 1 : \E i \in DataAt(t) : i < last /\ t[i].n = n
    <3>1. \A i \in DataAt(t) : i < last => i \in DataAt(s)
      BY <1>2, <1>3
    <3>2. \A n \in 1 .. top : \E i \in DataAt(s) : s[i].n = n
      BY DEF Covers
    <3>3. t[last].n - 1 = top
      BY <1>3
    <3> QED BY <1>3, <1>4, <3>1, <3>2, <3>3
  <2> QED BY <1>3, <2>1, <2>2 DEF Numbered
<1>6. Covers(t, top + 1)
  <2>1. \A n \in 1 .. top + 1 : n \in 1 .. top \/ n = top + 1
    OBVIOUS
  <2>2. \A i \in DataAt(t) : t[i].n \in 1 .. top + 1
    BY <1>3, <1>4
  <2>3. \A n \in 1 .. top : \E i \in DataAt(s) : s[i].n = n
    BY DEF Covers
  <2> QED BY <1>3, <2>1, <2>2, <2>3 DEF Covers
<1> QED BY <1>5, <1>6 DEF t

\* One event that carries no chunk, or none.
LEMMA WhenIsMarkers ==
  ASSUME NEW e \in EventRecord, e.is # "data", NEW holds
  PROVE  When(holds, e) \in Markers
<1>1. <<e>> \in Markers
  BY DEF Markers
<1>2. <<>> \in Markers
  BY DEF Markers
<1> QED BY <1>1, <1>2 DEF When

LEMMA MarkersConcat ==
  ASSUME NEW s \in Markers, NEW t \in Markers
  PROVE  s \o t \in Markers
<1>1. /\ s \o t \in Seq(EventRecord) /\ Len(s \o t) = Len(s) + Len(t)
      /\ \A i \in 1 .. Len(s) + Len(t) :
           (s \o t)[i] = IF i <= Len(s) THEN s[i] ELSE t[i - Len(s)]
  BY ConcatProperties DEF Markers
<1>2. /\ DOMAIN s = 1 .. Len(s) /\ DOMAIN t = 1 .. Len(t) /\ Len(s) \in Nat /\ Len(t) \in Nat
      /\ DOMAIN (s \o t) = 1 .. Len(s) + Len(t)
  BY <1>1 DEF Markers
<1>3. ASSUME NEW i \in DOMAIN (s \o t)
      PROVE  (s \o t)[i].is # "data"
  <2>1. CASE i <= Len(s)
    BY <1>1, <1>2, <1>3, <2>1 DEF Markers
  <2>2. CASE ~(i <= Len(s))
    <3>1. i - Len(s) \in DOMAIN t
      BY <1>2, <1>3, <2>2
    <3> QED BY <1>1, <1>2, <1>3, <2>2, <3>1 DEF Markers
  <2> QED BY <2>1, <2>2
<1> QED BY <1>1, <1>3 DEF Markers

\* A step that emits events which continue the order.
LEMMA EmissionPreserves ==
  ASSUME StreamInv, NEW events \in Seq(EventRecord), NEW admit, Emit(events, admit),
         received' \in Seq({"stdout", "stderr"}),
         Numbered(Emitted \o events), Covers(Emitted \o events, Len(received')),
         record' \in Record,
         heard' \in {"none", "submitted", "completed"},
         record'.phase = "prepared" => record.phase = "prepared" /\ ~admit
  PROVE  StreamInv'
<1>1. /\ out' \in Seq(EventRecord) /\ spool' \in Seq(EventRecord)
      /\ admitted' \in BOOLEAN /\ (admitted' => spool' = <<>>)
      /\ Emitted' = Emitted \o events
  BY EmitAppends DEF StreamInv
<1>2. Shape'
  BY <1>1 DEF StreamInv, Shape
<1>3. InOrder'
  <2>1. Numbered(Emitted') /\ Covers(Emitted', Len(received'))
    BY <1>1
  <2>2. Numbered(Emitted)' /\ Covers(Emitted, Len(received))'
    BY <2>1 DEF Numbered, Covers, DataAt
  <2> QED BY <2>2 DEF InOrder
<1>4. Withheld'
  BY DEF StreamInv, Withheld, Emit, Opened
<1> QED BY <1>2, <1>3, <1>4 DEF StreamInv

\* A step that emits markers only.
LEMMA MarkersPreserve ==
  ASSUME StreamInv, NEW events \in Markers, NEW admit, Emit(events, admit),
         UNCHANGED received, pc \notin {"failed", "over"},
         record' \in Record,
         heard' \in {"none", "submitted", "completed"},
         record'.phase = "prepared" => record.phase = "prepared" /\ ~admit
  PROVE  StreamInv'
<1>1. Emitted \in Seq(EventRecord) /\ Len(received) \in Nat
  BY DEF StreamInv, Shape, Emitted
<1>2. Numbered(Emitted \o events) /\ Covers(Emitted \o events, Len(received'))
  BY <1>1, MarkersKeepOrder DEF StreamInv, InOrder
<1>3. events \in Seq(EventRecord) /\ received' \in Seq({"stdout", "stderr"})
  BY DEF Markers, StreamInv, Shape
<1> QED BY <1>2, <1>3, EmissionPreserves

\* A step that emits the next chunk, and markers after it.
LEMMA ChunkPreserves ==
  ASSUME StreamInv, NEW p \in {"stdout", "stderr"}, received' = Append(received, p),
         NEW markers \in Markers, NEW admit,
         Emit(<<DataEvent(Len(received'))>> \o markers, admit),
         pc \notin {"failed", "over"},
         record' \in Record,
         heard' \in {"none", "submitted", "completed"},
         record'.phase = "prepared" => record.phase = "prepared" /\ ~admit
  PROVE  StreamInv'
<1> DEFINE top == Len(received)
<1> DEFINE c == DataEvent(top + 1)
<1>1. Emitted \in Seq(EventRecord) /\ top \in Nat
  BY DEF StreamInv, Shape, Emitted
<1>2. received' \in Seq({"stdout", "stderr"}) /\ Len(received') = top + 1
  BY DEF StreamInv, Shape
<1>3. c \in EventRecord /\ c.is = "data" /\ c.n = top + 1
  BY <1>1 DEF DataEvent, Event, EventRecord, Kind, Status
<1>4. Emit(<<c>> \o markers, admit)
  BY <1>2
<1> HIDE DEF top, c
<1>5. Numbered(Emitted \o <<c>>) /\ Covers(Emitted \o <<c>>, top + 1)
  <2>1. Numbered(Emitted) /\ Covers(Emitted, top)
    BY DEF StreamInv, InOrder, top
  <2> QED BY <1>1, <1>3, <2>1, ChunkKeepsOrder
<1>6. <<c>> \in Seq(EventRecord) /\ markers \in Seq(EventRecord)
  BY <1>3 DEF Markers
<1>7. /\ (Emitted \o <<c>>) \in Seq(EventRecord)
      /\ (Emitted \o <<c>>) \o markers = Emitted \o (<<c>> \o markers)
      /\ <<c>> \o markers \in Seq(EventRecord)
  BY <1>1, <1>6, ConcatAssociative, ConcatProperties
<1>8. /\ Numbered(Emitted \o (<<c>> \o markers))
      /\ Covers(Emitted \o (<<c>> \o markers), top + 1)
  <2> DEFINE t == Emitted \o <<c>>
  <2>1. t \in Seq(EventRecord) /\ Numbered(t) /\ Covers(t, top + 1) /\ top + 1 \in Nat
    BY <1>1, <1>5, <1>7
  <2> HIDE DEF t
  <2>2. Numbered(t \o markers) /\ Covers(t \o markers, top + 1)
    BY <2>1, MarkersKeepOrder
  <2> QED BY <1>7, <2>2 DEF t
<1> QED BY <1>2, <1>4, <1>7, <1>8, EmissionPreserves

\* A step that does not touch the stream.
LEMMA SilencePreserves ==
  ASSUME StreamInv, UNCHANGED <<out, spool, admitted, received, record>>,
         heard' \in {"none", "submitted", "completed"},
         pc \in {"failed", "over"} => pc' \in {"failed", "over"}
  PROVE  StreamInv'
<1>1. Shape' /\ Withheld'
  BY DEF StreamInv, Shape, Withheld
<1>2. Emitted' = Emitted
  BY DEF Emitted
<1>3. Numbered(Emitted)' /\ (pc \notin {"failed", "over"} => Covers(Emitted, Len(received))')
  BY <1>2 DEF StreamInv, InOrder, Numbered, Covers, DataAt
<1>4. InOrder'
  BY <1>3 DEF InOrder
<1> QED BY <1>1, <1>4 DEF StreamInv

-----------------------------------------------------------------------------
(***************************************************************************)
(* The actions                                                             *)
(***************************************************************************)

LEMMA SessionIsNamed ==
  ASSUME NEW events
  PROVE  FirstSession(events) \in Session
BY DEF Session, FirstSession, SessionOf

LEMMA HearsOneOf ==
  ASSUME StreamInv, NEW events, Learn(events)
  PROVE  heard' \in {"none", "submitted", "completed"}
BY DEF StreamInv, Shape, Learn, Hears

LEMMA MarkerIsMarker ==
  ASSUME NEW what \in Kind, what # "data", NEW holds
  PROVE  When(holds, Event(what)) \in Markers
<1>1. Event(what) \in EventRecord /\ Event(what).is = what
  BY DEF Event, EventRecord, Kind, Status
<1> QED BY <1>1, WhenIsMarkers

LEMMA TakeStdoutPreserves ==
  ASSUME StreamInv, pc = "receive", NEW c, TakeStdout(c)
  PROVE  StreamInv'
<1> DEFINE events == Parsed(c)
<1> DEFINE s == FirstSession(events)
<1>1. s \in Session
  BY SessionIsNamed
<1>2. heard' \in {"none", "submitted", "completed"}
  BY HearsOneOf DEF TakeStdout
<1>3. received' = Append(received, "stdout")
  BY DEF TakeStdout
<1>4. CASE Conflicts(s)
  <2>1. pc' = "failed" /\ UNCHANGED <<record, admitted, spool, out>>
    BY <1>4 DEF TakeStdout, stream
  <2>2. received' \in Seq({"stdout", "stderr"})
    BY <1>3 DEF StreamInv, Shape
  <2> QED BY <1>2, <2>1, <2>2
          DEF StreamInv, Shape, InOrder, Withheld, Emitted, Numbered, DataAt
<1>5. CASE ~Conflicts(s)
  <2>1. /\ record' = Recorded(s)
        /\ Emit(<<DataEvent(Len(received'))>> \o SessionMarker(s), AdmitsSession(s))
    BY <1>5 DEF TakeStdout
  <2> HIDE DEF s
  <2>2. SessionMarker(s) \in Markers
    BY MarkerIsMarker DEF SessionMarker, Kind
  <2>3. /\ record' \in Record
        /\ record'.phase = "prepared" => record.phase = "prepared" /\ ~AdmitsSession(s)
    BY <1>1, <2>1 DEF Recorded, Record, Session, AdmitsSession, StreamInv, Shape
  <2> QED BY <1>2, <1>3, <2>1, <2>2, <2>3, ChunkPreserves
<1> QED BY <1>4, <1>5

LEMMA TakePreserves ==
  ASSUME StreamInv, Take
  PROVE  StreamInv'
<1>1. CASE TakeEnd(Head(chan))
  BY <1>1, SilencePreserves DEF TakeEnd, stream, Take, StreamInv, Shape
<1>2. CASE TakeStderr
  <2>1. received' = Append(received, "stderr") /\ Emit(<<DataEvent(Len(received'))>>, FALSE)
        /\ UNCHANGED <<record, heard>>
    BY <1>2 DEF TakeStderr, parsed
  <2>2. <<>> \in Markers
    BY DEF Markers
  <2>3. <<DataEvent(Len(received'))>> \o <<>> = <<DataEvent(Len(received'))>>
    OBVIOUS
  <2> QED BY <2>1, <2>2, <2>3, ChunkPreserves DEF Take, StreamInv, Shape
<1>3. CASE \E c : TakeStdout(c)
  BY <1>3, TakeStdoutPreserves DEF Take
<1> QED BY <1>1, <1>2, <1>3 DEF Take

LEMMA FinishTailPreserves ==
  ASSUME StreamInv, FinishTail
  PROVE  StreamInv'
<1> DEFINE events == Parsed([native |-> "bad", whole |-> FALSE])
<1> DEFINE s == FirstSession(events)
<1>1. s \in Session
  BY SessionIsNamed
<1>2. heard' \in {"none", "submitted", "completed"}
  BY HearsOneOf DEF FinishTail
<1>3. CASE Conflicts(s)
  <2>1. pc' = "failed" /\ UNCHANGED <<record, admitted, spool, out, received>>
    BY <1>3 DEF FinishTail, stream
  <2> QED BY <1>2, <2>1, SilencePreserves
<1>4. CASE ~Conflicts(s)
  <2>1. /\ record' = IF ~Registered \/ ask.resume \/ Recorded(s).phase = "session"
                     THEN Recorded(s)
                     ELSE [record EXCEPT !.phase = "terminal"]
        /\ Emit(SessionMarker(s), ~ask.resume \/ ~Registered)
        /\ UNCHANGED received /\ pc = "finish"
    BY <1>4 DEF FinishTail
  <2> HIDE DEF s
  <2>2. SessionMarker(s) \in Markers
    BY MarkerIsMarker DEF SessionMarker, Kind
  <2>3. record' \in Record
    BY <1>1, <2>1 DEF Recorded, Record, Session, StreamInv, Shape
  <2>4. record'.phase = "prepared" =>
           record.phase = "prepared" /\ ~(~ask.resume \/ ~Registered)
    BY <1>1, <2>1 DEF Recorded, Record, Session, Registered, StreamInv, Shape
  <2> QED BY <1>2, <2>1, <2>2, <2>3, <2>4, MarkersPreserve
<1> QED BY <1>3, <1>4

LEMMA SettleResumePreserves ==
  ASSUME StreamInv, SettleResume
  PROVE  StreamInv'
<1>1. CASE ask.resume /\ Registered
  <2> DEFINE events == When(heard # "none", Event("submitted"))
                         \o When(heard = "completed", Event("produced"))
                         \o When(unresolved', Event("unresolved"))
  <2>1. /\ record' = [record EXCEPT !.phase = IF heard = "none" THEN "unresolved" ELSE heard]
        /\ Emit(events, TRUE)
        /\ UNCHANGED <<received, heard>> /\ pc = "settle"
    BY <1>1 DEF SettleResume, parsed
  <2>2. events \in Markers
    BY MarkerIsMarker, MarkersConcat DEF Kind
  <2>3. /\ record' \in Record /\ record'.phase # "prepared"
        /\ heard' \in {"none", "submitted", "completed"}
    BY <2>1 DEF StreamInv, Shape, Record
  <2> HIDE DEF events
  <2> QED BY <2>1, <2>2, <2>3, MarkersPreserve
<1>2. CASE ~(ask.resume /\ Registered)
  <2>1. UNCHANGED <<out, spool, admitted, received, record, heard>> /\ pc' = "conclude" /\ pc = "settle"
    BY <1>2 DEF SettleResume, stream, parsed
  <2> QED BY <2>1, SilencePreserves DEF StreamInv, Shape
<1> QED BY <1>1, <1>2

LEMMA ConcludePreserves ==
  ASSUME IInv, Conclude
  PROVE  StreamInv'
<1> DEFINE events == When(lost, Event("loss"))
                       \o When(forced # "none", StatusEvent("forced", forced))
                       \o When(Attests, CompleteEvent(Len(received)))
                       \o <<StatusEvent("exit", Finished)>>
<1>1. Emit(events, FALSE) /\ UNCHANGED <<received, heard, record>> /\ pc = "conclude"
  BY DEF Conclude, parsed
<1>2. /\ StatusEvent("forced", forced) \in EventRecord
      /\ StatusEvent("forced", forced).is = "forced"
  BY DEF StatusEvent, Event, EventRecord, Kind, Status, Exit, IInv, Statuses
<1>3. /\ CompleteEvent(Len(received)) \in EventRecord
      /\ CompleteEvent(Len(received)).is = "complete"
  BY DEF CompleteEvent, Event, EventRecord, Kind, Status, Exit, IInv, StreamInv, Shape
<1>4. /\ StatusEvent("exit", Finished) \in EventRecord
      /\ StatusEvent("exit", Finished).is = "exit"
  BY DEF StatusEvent, Event, EventRecord, Kind, Status, Exit, IInv, Statuses, Finished
<1>5. <<StatusEvent("exit", Finished)>> \in Markers
  BY <1>4, WhenIsMarkers DEF When
<1>6. events \in Markers
  <2>1. When(lost, Event("loss")) \in Markers
    BY MarkerIsMarker DEF Kind
  <2>2. When(forced # "none", StatusEvent("forced", forced)) \in Markers
    BY <1>2, WhenIsMarkers
  <2>3. When(Attests, CompleteEvent(Len(received))) \in Markers
    BY <1>3, WhenIsMarkers
  <2> QED BY <1>5, <2>1, <2>2, <2>3, MarkersConcat
<1> HIDE DEF events
<1> QED BY <1>1, <1>6, MarkersPreserve DEF IInv, StreamInv, Shape

-----------------------------------------------------------------------------
(***************************************************************************)
(* The invariant                                                           *)
(***************************************************************************)

LEMMA InitEstablishes ==
  ASSUME Init
  PROVE  IInv
<1>1. spool = <<>> /\ received = <<>> /\ heard = "none" /\ code = "none" /\ forced = "none"
  BY DEF Init, Quiet
<1>2. /\ out = <<Event("route")>> \/ out = <<>>
      /\ admitted \in BOOLEAN /\ final \in Status
      /\ record \in Record
      /\ record.phase = "prepared" => ~admitted
  <2>1. CASE Spawned
    BY <2>1 DEF Spawned, Record, Session, Status
  <2>2. CASE Unspawned
    BY <2>2 DEF Unspawned, NotSpawned, Rejected, Record, Session, Status
  <2> QED BY <2>1, <2>2 DEF Init
<1>3. Event("route") \in EventRecord /\ Event("route").is = "route"
  BY DEF Event, EventRecord, Kind, Status
<1>4. out \in Markers /\ \A i \in DOMAIN out : out[i].is = "route"
  <2>1. <<Event("route")>> \in Seq(EventRecord) /\ <<>> \in Seq(EventRecord)
    BY <1>3
  <2>2. out \in Seq(EventRecord) /\ \A i \in DOMAIN out : out[i].is = "route"
    <3>1. CASE out = <<>>
      BY <2>1, <3>1
    <3>2. CASE out = <<Event("route")>>
      <4>1. DOMAIN out = {1} /\ out[1] = Event("route")
        BY <3>2
      <4> QED BY <1>3, <2>1, <3>2, <4>1
    <3> QED BY <1>2, <3>1, <3>2
  <2> QED BY <2>2 DEF Markers
<1>5. Shape /\ Withheld /\ Statuses
  BY <1>1, <1>2, <1>4 DEF Shape, Withheld, Statuses, Markers
<1>6. InOrder
  <2>1. Emitted = out /\ Len(received) = 0
    BY <1>1, <1>4, ConcatEmptySeq DEF Emitted, Markers
  <2>2. DataAt(out) = {}
    BY <1>4 DEF DataAt
  <2> QED BY <2>1, <2>2 DEF InOrder, Numbered, Covers
<1> QED BY <1>5, <1>6 DEF IInv, StreamInv

LEMMA StatusesStay ==
  ASSUME Statuses, [Next]_vars
  PROVE  Statuses'
<1>1. CASE UNCHANGED vars
  BY <1>1 DEF Statuses, vars, actor, conclusion
<1>2. ASSUME NEW c \in Exit, ChildExits(c)
      PROVE  Statuses'
  BY <1>2 DEF ChildExits, Statuses, conclusion, Exit
<1>3. CASE Begin
  BY <1>3 DEF Begin, Statuses, actor, Status
<1>4. CASE Timers
  BY <1>4 DEF Timers, EnforceDeadline, CompleteResume, CloseLingering, Enforces, Terminate,
              Statuses, Exit, Status
<1>5. CASE Pass \/ Take \/ Idle \/ FinishTail \/ SettleResume \/ Conclude \/ Discharge \/ Fail
  BY <1>5 DEF Pass, Take, Idle, FinishTail, SettleResume, Conclude, Discharge, Fail, Discharged,
              Statuses, actor, conclusion
<1>6. ASSUME NEW p \in Pipe,
             Drain(p) \/ DrainFails(p) \/ \E c \in Prints(p) : NativeWrites(p, c)
      PROVE  Statuses'
  BY <1>6 DEF Drain, DrainFails, NativeWrites, Statuses, actor, conclusion
<1>7. ASSUME NEW m \in Member, LetsGo(m)
      PROVE  Statuses'
  BY <1>7 DEF LetsGo, Statuses, conclusion
<1> QED BY <1>1, <1>2, <1>3, <1>4, <1>5, <1>6, <1>7 DEF Next, Supervise

LEMMA NextPreserves ==
  ASSUME IInv, [Next]_vars
  PROVE  IInv'
<1>1. Statuses'
  BY StatusesStay DEF IInv
<1>2. StreamInv /\ heard \in {"none", "submitted", "completed"}
  BY DEF IInv, StreamInv, Shape
<1> SUFFICES StreamInv'
  BY <1>1 DEF IInv
<1>3. CASE UNCHANGED vars
  BY <1>2, <1>3, SilencePreserves DEF vars, stream, parsed, StreamInv
<1>4. CASE Take
  BY <1>2, <1>4, TakePreserves
<1>5. CASE FinishTail
  BY <1>2, <1>5, FinishTailPreserves
<1>6. CASE SettleResume
  BY <1>2, <1>6, SettleResumePreserves
<1>7. CASE Conclude
  BY <1>7, ConcludePreserves
<1>8. CASE Begin \/ Pass \/ Timers \/ Idle
  BY <1>2, <1>8, SilencePreserves
     DEF Begin, Pass, Timers, EnforceDeadline, CompleteResume, CloseLingering, Enforces, Idle,
         parsed, stream
<1>9. CASE Discharge \/ Fail
  BY <1>2, <1>9, SilencePreserves DEF Discharge, Fail, Discharged, parsed, stream
<1>10. ASSUME NEW p \in Pipe,
              Drain(p) \/ DrainFails(p) \/ \E c \in Prints(p) : NativeWrites(p, c)
       PROVE  StreamInv'
  BY <1>2, <1>10, SilencePreserves DEF Drain, DrainFails, NativeWrites, parsed, stream
<1>11. ASSUME NEW m \in Member, LetsGo(m)
       PROVE  StreamInv'
  BY <1>2, <1>11, SilencePreserves DEF LetsGo, parsed, stream
<1>12. ASSUME NEW c \in Exit, ChildExits(c)
       PROVE  StreamInv'
  BY <1>2, <1>12, SilencePreserves DEF ChildExits, parsed, stream
<1> QED BY <1>3, <1>4, <1>5, <1>6, <1>7, <1>8, <1>9, <1>10, <1>11, <1>12
        DEF Next, Supervise

\* The inductive invariant holds of every launch, however many chunks its
\* process writes, in whatever order the loop and the drains meet them.
THEOREM Invariant == Spec => []IInv
<1>1. Init => IInv
  BY InitEstablishes
<1>2. IInv /\ [Next]_vars => IInv'
  BY NextPreserves
<1> QED BY <1>1, <1>2, PTL DEF Spec

\* Nothing that followed the opened gate is shown to the host before the
\* record says what it belongs to (admit_projection and its callers).
THEOREM NothingIsShownEarly == Spec => []WithheldUntilRecorded
<1>1. IInv => WithheldUntilRecorded
  BY DEF IInv, StreamInv, Withheld, WithheldUntilRecorded
<1> QED BY <1>1, Invariant, PTL

\* The host reads the chunks in the order the loop took them, each once and
\* none left out, replayed from the spool or live (write_event).
THEOREM ChunksComeInOrder == Spec => []InReceiptOrder
<1>1. IInv => InReceiptOrder
  <2> SUFFICES ASSUME IInv PROVE InReceiptOrder
    OBVIOUS
  <2>1. /\ out \in Seq(EventRecord) /\ spool \in Seq(EventRecord) /\ Numbered(Emitted)
    BY DEF IInv, StreamInv, Shape, InOrder
  <2>2. /\ Len(Emitted) = Len(out) + Len(spool) /\ Emitted \in Seq(EventRecord)
        /\ \A i \in 1 .. Len(out) + Len(spool) :
             Emitted[i] = IF i <= Len(out) THEN out[i] ELSE spool[i - Len(out)]
    BY <2>1, ConcatProperties DEF Emitted
  <2>3. /\ DOMAIN out = 1 .. Len(out) /\ DOMAIN Emitted = 1 .. Len(Emitted)
        /\ Len(out) \in Nat /\ Len(spool) \in Nat
    BY <2>1, <2>2
  <2>4. \A i \in DOMAIN out : i \in DOMAIN Emitted /\ Emitted[i] = out[i] /\ i \in Nat
    BY <2>2, <2>3
  <2>5. \A j \in DOMAIN out : \A i \in DOMAIN Emitted : i < j => i \in DOMAIN out
    BY <2>2, <2>3
  <2> HIDE DEF Emitted
  <2>6. ASSUME NEW j \in Written("data")
        PROVE  /\ \A i \in Written("data") : i < j => out[i].n < out[j].n
               /\ \A n \in 1 .. out[j].n - 1 :
                    \E i \in Written("data") : i < j /\ out[i].n = n
    BY <2>1, <2>4, <2>5, <2>6 DEF Numbered, DataAt, Written
  <2> QED BY <2>6 DEF InReceiptOrder
<1> QED BY <1>1, Invariant, PTL

-----------------------------------------------------------------------------
(***************************************************************************)
(* What the conclusion rests on: everything a drain read is accounted for, *)
(* a pipe's end is its last message, what was heard is what was taken.     *)
(***************************************************************************)

Chunk == [native : Native, whole : BOOLEAN]
Location ==
  {"top", "enforce", "receive", "finish", "settle", "conclude", "close", "failed", "over"}
Messages == [pipe : Pipe, is : {"data", "done", "error"}]

Typed ==
  /\ ask \in Requests /\ holders \subseteq Member
  /\ wrote \in [Pipe -> Seq(Chunk)] /\ got \in [Pipe -> Nat]
  /\ reading \subseteq Pipe /\ done \subseteq Pipe
  /\ chan \in Seq(Messages) /\ Len(chan) <= Capacity
  /\ pc \in Location
  /\ pending \in Native \cup {"none"} /\ session \in Session
  /\ lost \in BOOLEAN /\ readFailed \in BOOLEAN /\ unresolved \in BOOLEAN
  /\ beats \in 0 .. MaxBeats

\* How often a value occurs in a sequence.
Occurrences(s, v) == Cardinality({i \in DOMAIN s : s[i] = v})

\* What a drain read is in the channel or was taken, until the channel goes.
Accounted ==
  \A p \in Pipe :
    /\ got[p] <= Len(wrote[p])
    /\ Taken(p) + Occurrences(chan, Message(p, "data")) <= got[p]
    /\ pc # "over" => Taken(p) + Occurrences(chan, Message(p, "data")) = got[p]

\* The end of a pipe is the last message of its drain, and an end that is no failure
\* comes when the group holds the pipes no more and all of the pipe was read.
Drained ==
  /\ \A i, j \in DOMAIN chan : i < j /\ chan[i].is # "data" => chan[j].pipe # chan[i].pipe
  /\ \A p \in Pipe :
       /\ p \in reading => p \notin done
       /\ p \in reading => \A i \in DOMAIN chan : chan[i].pipe = p => chan[i].is = "data"
       /\ p \in done => \A i \in DOMAIN chan : chan[i].pipe # p
       /\ p \notin reading /\ pc # "over" =>
            \/ readFailed \/ Message(p, "error") \in ToSet(chan)
            \/ holders = {} /\ got[p] = Len(wrote[p])

\* How far the conclusion is.
Staged ==
  /\ pc \in {"finish", "settle", "conclude", "close"} => done = Pipe
  /\ pc \in {"settle", "conclude", "close"} => pending = "none"
  /\ pc = "settle" => admitted \/ (ask.resume /\ Registered)
  /\ pc \in {"conclude", "close"} =>
       /\ admitted
       /\ ask.resume /\ Registered =>
            /\ record.phase = "completed" <=> heard = "completed"
            /\ unresolved <=> heard # "completed"
  /\ readFailed => lost
  /\ ask.resume /\ ~Registered =>
       /\ final = "refused" /\ received = <<>> /\ heard = "none" /\ pending = "none"
       /\ pc \notin {"top", "enforce", "receive"}

\* What was heard is what was taken, but for the line that is open.
Understood ==
  /\ \A i \in DOMAIN wrote["stdout"] :
       wrote["stdout"][i].native = "bad" => wrote["stdout"][i].whole
  /\ "bad" \in Said => lost
  /\ ask.resume => ("stop" \in Said <=> heard = "completed" \/ pending = "stop")

\* Events that are not the last of a launch.
Plain == {s \in Seq(EventRecord) : \A i \in DOMAIN s : s[i].is \notin {"complete", "exit"}}

\* The exit is the last event, the completion the one before it; what they say holds.
Ended ==
  /\ pc \in {"close", "over"} /\ spool = <<>>
  /\ out # <<>> /\ out[Len(out)].is = "exit"
  /\ \A i \in DOMAIN out : out[i].is = "exit" => i = Len(out)
  /\ \A i \in DOMAIN out : out[i].is = "complete" =>
       i = Len(out) - 1 /\ out[i].n = Len(received) /\ ~readFailed
  /\ Covers(out, Len(received))
  /\ ~readFailed => holders = {} /\ \A p \in Pipe : Taken(p) = Len(wrote[p])
  /\ ask.resume => (record.phase = "completed" <=> "stop" \in Said)
  /\ out[Len(out)].status = "exit0" =>
       "bad" \notin Said /\ ~readFailed /\ (ask.resume => "stop" \in Said)

Going == pc # "close" /\ out \in Plain /\ spool \in Plain

Evidence ==
  /\ Typed /\ Accounted /\ Drained /\ Staged /\ Understood
  /\ Going \/ Ended

-----------------------------------------------------------------------------
(***************************************************************************)
(* Counting                                                                *)
(***************************************************************************)

\* An appended value occurs once more.
LEMMA OccurrencesAppend ==
  ASSUME NEW S, NEW s \in Seq(S), NEW w \in S, NEW v
  PROVE  /\ Occurrences(s, v) \in Nat
         /\ Occurrences(Append(s, w), v) = Occurrences(s, v) + (IF w = v THEN 1 ELSE 0)
<1> DEFINE at == {i \in DOMAIN s : s[i] = v}
<1> DEFINE last == Len(s) + 1
<1>1. DOMAIN s = 1 .. Len(s) /\ Len(s) \in Nat
  OBVIOUS
<1>2. IsFiniteSet(at) /\ Cardinality(at) \in Nat
  <2>1. at \subseteq 1 .. Len(s) /\ IsFiniteSet(1 .. Len(s))
    BY <1>1, FS_Interval
  <2> QED BY <2>1, FS_Subset, FS_CardinalityType
<1>3. /\ DOMAIN Append(s, w) = 1 .. last /\ Append(s, w)[last] = w
      /\ \A i \in 1 .. Len(s) : Append(s, w)[i] = s[i]
  BY <1>1, AppendProperties
<1>4. last \notin at /\ 1 .. last = (1 .. Len(s)) \cup {last}
  BY <1>1
<1> HIDE DEF last
<1>5. {i \in DOMAIN Append(s, w) : Append(s, w)[i] = v} = IF w = v THEN at \cup {last} ELSE at
  BY <1>1, <1>3, <1>4
<1>6. Cardinality(at \cup {last}) = Cardinality(at) + 1
  BY <1>2, <1>4, FS_AddElement
<1>7. Occurrences(s, v) = Cardinality(at)
  BY DEF Occurrences
<1>8. Occurrences(Append(s, w), v) = Cardinality(IF w = v THEN at \cup {last} ELSE at)
  BY <1>5 DEF Occurrences
<1> HIDE DEF at
<1> QED BY <1>2, <1>6, <1>7, <1>8

\* The head of a sequence is taken out of its tail.
LEMMA OccurrencesTail ==
  ASSUME NEW S, NEW s \in Seq(S), s # <<>>, NEW v
  PROVE  Occurrences(Tail(s), v) = Occurrences(s, v) - (IF Head(s) = v THEN 1 ELSE 0)
<1> DEFINE at == {i \in DOMAIN s : s[i] = v}
<1> DEFINE rest == {i \in DOMAIN Tail(s) : Tail(s)[i] = v}
<1> DEFINE f == [i \in rest |-> i + 1]
<1>1. DOMAIN s = 1 .. Len(s) /\ Len(s) \in Nat /\ Len(s) # 0
  OBVIOUS
<1>2. DOMAIN Tail(s) = 1 .. Len(s) - 1 /\ (\A i \in 1 .. Len(s) - 1 : Tail(s)[i] = s[i + 1])
  BY <1>1, HeadTailProperties
<1>3. IsFiniteSet(at) /\ IsFiniteSet(rest)
  <2>1. at \subseteq 1 .. Len(s) /\ rest \subseteq 1 .. Len(s) - 1
    BY <1>1, <1>2
  <2>2. IsFiniteSet(1 .. Len(s)) /\ IsFiniteSet(1 .. Len(s) - 1)
    BY <1>1, FS_Interval
  <2> QED BY <2>1, <2>2, FS_Subset
<1>4. f \in Bijection(rest, at \ {1})
  <2>1. \A i \in rest : i + 1 \in at \ {1}
    BY <1>1, <1>2
  <2>2. \A i, j \in rest : f[i] = f[j] => i = j
    BY <1>2
  <2>3. \A k \in at \ {1} : k - 1 \in rest /\ f[k - 1] = k
    BY <1>1, <1>2
  <2>4. f \in [rest -> at \ {1}]
    BY <2>1
  <2> HIDE DEF f, rest, at
  <2>5. \A k \in at \ {1} : \E i \in rest : f[i] = k
    BY <2>3
  <2> QED BY <2>2, <2>4, <2>5, Fun_IsBij
<1>5. Cardinality(at \ {1}) = Cardinality(rest)
  BY <1>3, <1>4, FS_Bijection DEF ExistsBijection
<1>6. Cardinality(at \ {1}) = IF 1 \in at THEN Cardinality(at) - 1 ELSE Cardinality(at)
  BY <1>3, FS_RemoveElement
<1>7. 1 \in at <=> Head(s) = v
  BY <1>1
<1>8. Cardinality(at) \in Nat
  BY <1>3, FS_CardinalityType
<1> HIDE DEF at, rest, f
<1>9. Cardinality(rest) = Cardinality(at) - (IF Head(s) = v THEN 1 ELSE 0)
  BY <1>5, <1>6, <1>7, <1>8
<1> QED BY <1>9 DEF Occurrences, at, rest

\* What is nowhere occurs not at all, and what occurs is somewhere.
LEMMA OccurrencesNone ==
  ASSUME NEW S, NEW s \in Seq(S), NEW v
  PROVE  /\ Occurrences(s, v) = 0 <=> \A i \in DOMAIN s : s[i] # v
         /\ Occurrences(s, v) \in Nat
<1> DEFINE at == {i \in DOMAIN s : s[i] = v}
<1>1. IsFiniteSet(at) /\ Cardinality(at) \in Nat
  <2>1. at \subseteq 1 .. Len(s) /\ IsFiniteSet(1 .. Len(s))
    BY FS_Interval
  <2> QED BY <2>1, FS_Subset, FS_CardinalityType
<1>2. Cardinality(at) = 0 <=> at = {}
  BY <1>1, FS_EmptySet
<1> QED BY <1>1, <1>2 DEF Occurrences

LEMMA TakenCounts ==
  ASSUME NEW p
  PROVE  Taken(p) = Occurrences(received, p)
BY DEF Taken, Occurrences

\* Chunks that are numbered without a gap, each once, are as many as the last number says.
LEMMA ChunksAreCounted ==
  ASSUME NEW s \in Seq(EventRecord), Numbered(s), NEW top \in Nat, Covers(s, top)
  PROVE  Cardinality(DataAt(s)) = top
<1> DEFINE f == [i \in DataAt(s) |-> s[i].n]
<1>1. DataAt(s) \subseteq 1 .. Len(s) /\ Len(s) \in Nat /\ IsFiniteSet(DataAt(s))
  <2>1. DataAt(s) \subseteq 1 .. Len(s) /\ Len(s) \in Nat
    BY DEF DataAt
  <2>2. IsFiniteSet(1 .. Len(s))
    BY <2>1, FS_Interval
  <2> QED BY <2>1, <2>2, FS_Subset
<1>2. f \in Bijection(DataAt(s), 1 .. top)
  <2>1. \A i \in DataAt(s) : s[i].n \in 1 .. top
    BY DEF Covers
  <2>2. \A i, j \in DataAt(s) : f[i] = f[j] => i = j
    <3> SUFFICES ASSUME NEW i \in DataAt(s), NEW j \in DataAt(s), s[i].n = s[j].n, i # j
                 PROVE  FALSE
      OBVIOUS
    <3>1. i \in Int /\ j \in Int /\ s[i].n \in Int
      BY <1>1, <2>1
    <3>2. i < j => s[i].n < s[j].n
      BY DEF Numbered
    <3>3. j < i => s[j].n < s[i].n
      BY DEF Numbered
    <3> QED BY <3>1, <3>2, <3>3
  <2>3. \A n \in 1 .. top : \E i \in DataAt(s) : f[i] = n
    BY DEF Covers
  <2> QED BY <2>1, <2>2, <2>3, Fun_IsBij
<1>3. Cardinality(1 .. top) = Cardinality(DataAt(s))
  BY <1>1, <1>2, FS_Bijection DEF ExistsBijection
<1>4. Cardinality(1 .. top) = top
  BY FS_Interval
<1> QED BY <1>3, <1>4

-----------------------------------------------------------------------------
(***************************************************************************)
(* What is said and what stays                                             *)
(***************************************************************************)

LEMMA SaidIs ==
  ASSUME NEW e
  PROVE  e \in Said <=> \E i \in 1 .. Taken("stdout") : wrote["stdout"][i].native = e
BY DEF Said, ToSet

\* The loop took no more than was read, and no more was read than is written.
LEMMA TakenIsBounded ==
  ASSUME Shape, Typed, Accounted, NEW p \in Pipe
  PROVE  /\ Taken(p) \in Nat /\ Occurrences(chan, Message(p, "data")) \in Nat
         /\ got[p] \in Nat /\ wrote[p] \in Seq(Chunk) /\ Len(wrote[p]) \in Nat
         /\ Taken(p) <= got[p] /\ got[p] <= Len(wrote[p])
<1>1. Taken(p) \in Nat
  BY TakenCounts, OccurrencesNone DEF Shape
<1>2. Occurrences(chan, Message(p, "data")) \in Nat
  BY OccurrencesNone DEF Typed
<1>3. got[p] \in Nat /\ wrote[p] \in Seq(Chunk) /\ Len(wrote[p]) \in Nat
  BY DEF Typed
<1>4. Taken(p) + Occurrences(chan, Message(p, "data")) <= got[p] /\ got[p] <= Len(wrote[p])
  BY DEF Accounted
<1> QED BY <1>1, <1>2, <1>3, <1>4

\* More output does not change what was taken of it.
LEMMA SaidStays ==
  ASSUME Shape, Typed, Accounted, received' = received,
         \/ wrote' = wrote
         \/ \E p \in Pipe, c \in Chunk : wrote' = [wrote EXCEPT ![p] = Append(@, c)]
  PROVE  /\ Said' = Said
         /\ \A p \in Pipe : Taken(p)' = Taken(p)
<1>1. \A p : Taken(p)' = Taken(p)
  BY DEF Taken
<1>2. \A i \in 1 .. Taken("stdout") : wrote'["stdout"][i] = wrote["stdout"][i]
  <2>1. CASE wrote' = wrote
    BY <2>1
  <2>2. CASE \E p \in Pipe, c \in Chunk : wrote' = [wrote EXCEPT ![p] = Append(@, c)]
    <3>1. PICK p \in Pipe, c \in Chunk : wrote' = [wrote EXCEPT ![p] = Append(@, c)]
      BY <2>2
    <3>2. "stdout" \in Pipe /\ wrote["stdout"] \in Seq(Chunk)
      BY DEF Typed, Pipe
    <3>3. Taken("stdout") <= Len(wrote["stdout"]) /\ Taken("stdout") \in Nat
      BY <3>2, TakenIsBounded
    <3>4. CASE p = "stdout"
      <4>1. wrote'["stdout"] = Append(wrote["stdout"], c)
        BY <3>1, <3>2, <3>4 DEF Typed
      <4> QED BY <3>2, <3>3, <4>1
    <3>5. CASE p # "stdout"
      BY <3>1, <3>2, <3>5 DEF Typed
    <3> QED BY <3>4, <3>5
  <2> QED BY <2>1, <2>2
<1> QED BY <1>1, <1>2 DEF Said, ToSet

\* What the last events say stays true of a launch that goes on only in its process group.
LEMMA EndedStays ==
  ASSUME Ended, UNCHANGED <<ask, out, spool, received, record, readFailed>>,
         pc' \in {"close", "over"}, holders' \subseteq holders,
         readFailed \/ UNCHANGED wrote,
         Said' = Said, \A p \in Pipe : Taken(p)' = Taken(p)
  PROVE  Ended'
<1>1. Covers(out, Len(received))'
  BY DEF Ended, Covers, DataAt
<1> QED BY <1>1 DEF Ended

LEMMA NativeWritesPreserves ==
  ASSUME Shape, Evidence, NEW p \in Pipe, NEW c \in Prints(p), NativeWrites(p, c)
  PROVE  Evidence'
<1>1. c \in Chunk /\ (c.native = "bad" => c.whole)
  BY DEF Prints, Chunk, Native, Pipe
<1>2. /\ holders # {} /\ wrote' = [wrote EXCEPT ![p] = Append(@, c)]
      /\ UNCHANGED <<ask, holders, code, got, reading, chan, pc, final, forced, unresolved, done,
                     pending, heard, session, lost, readFailed, received,
                     admitted, spool, out, beats, record>>
  BY DEF NativeWrites, drains, conclusion, parsed, stream
<1>3. Typed /\ Accounted
  BY DEF Evidence
<1>4. Typed'
  BY <1>1, <1>2, <1>3 DEF Typed
<1>5. Said' = Said /\ \A q \in Pipe : Taken(q)' = Taken(q)
  BY <1>1, <1>2, <1>3, SaidStays
<1>6. Accounted'
  <2>1. \A q \in Pipe : Len(wrote'[q]) >= Len(wrote[q]) /\ Len(wrote'[q]) \in Nat
    BY <1>1, <1>2, <1>3 DEF Typed
  <2>2. \A q \in Pipe : got[q] \in Nat /\ Len(wrote[q]) \in Nat
    BY <1>3 DEF Typed
  <2>3. \A q \in Pipe : got[q] <= Len(wrote'[q])
    BY <1>3, <2>1, <2>2 DEF Accounted
  <2>4. \A q \in Pipe : Occurrences(chan, Message(q, "data"))' = Occurrences(chan, Message(q, "data"))
    BY <1>2 DEF Occurrences, Message
  <2> QED BY <1>2, <1>3, <1>5, <2>3, <2>4 DEF Accounted
<1>7. Drained'
  BY <1>2 DEF Evidence, Drained, Message
<1>8. Staged'
  BY <1>2 DEF Evidence, Staged, Registered
<1>9. Understood'
  <2>1. \A i \in DOMAIN wrote'["stdout"] :
          wrote'["stdout"][i].native = "bad" => wrote'["stdout"][i].whole
    <3>1. wrote["stdout"] \in Seq(Chunk)
      BY <1>3 DEF Typed, Pipe
    <3>2. \A i \in DOMAIN wrote["stdout"] :
            wrote["stdout"][i].native = "bad" => wrote["stdout"][i].whole
      BY DEF Evidence, Understood
    <3>3. wrote'["stdout"] = wrote["stdout"] \/ wrote'["stdout"] = Append(wrote["stdout"], c)
      BY <1>2, <1>3 DEF Typed, Pipe
    <3> QED BY <1>1, <3>1, <3>2, <3>3
  <2> QED BY <1>2, <1>5, <2>1 DEF Evidence, Understood
<1>10. Going' \/ Ended'
  <2>1. CASE Going
    BY <1>2, <2>1 DEF Going
  <2>2. CASE Ended
    BY <1>2, <1>5, <2>2, EndedStays DEF Ended
  <2> QED BY <2>1, <2>2 DEF Evidence
<1> QED BY <1>4, <1>6, <1>7, <1>8, <1>9, <1>10 DEF Evidence

\* The group loses members, and the loop's state other than what was heard moves on.
LEMMA GroupShrinks ==
  ASSUME Shape, Evidence, holders' \subseteq holders,
         UNCHANGED <<ask, wrote, got, reading, chan, unresolved, done, pending, heard, session,
                     lost, readFailed, received, admitted, spool, out, record>>,
         \/ UNCHANGED <<pc, final, beats>>
         \/ /\ pc \in {"top", "enforce", "receive"}
            /\ pc' \in {"top", "enforce", "receive", "finish"}
            /\ pc' = "finish" => done = Pipe
            /\ beats' \in 0 .. MaxBeats
  PROVE  Evidence'
<1>1. Typed /\ Accounted
  BY DEF Evidence
<1>2. Said' = Said /\ \A q \in Pipe : Taken(q)' = Taken(q)
  BY <1>1, SaidStays
<1>3. Typed'
  BY <1>1 DEF Typed, Location
<1>4. Accounted'
  BY <1>1, <1>2 DEF Accounted, Occurrences, Message
<1>5. Drained'
  BY DEF Evidence, Drained, Message
<1>6. Staged'
  BY DEF Evidence, Staged, Registered
<1>7. Understood'
  BY <1>2 DEF Evidence, Understood
<1>8. Going' \/ Ended'
  <2>1. CASE Going
    BY <2>1 DEF Going
  <2>2. CASE Ended
    BY <1>2, <2>2, EndedStays DEF Ended
  <2> QED BY <2>1, <2>2 DEF Evidence
<1> QED BY <1>3, <1>4, <1>5, <1>6, <1>7, <1>8 DEF Evidence

\* A drain queues a chunk, or its end.
LEMMA DrainPreserves ==
  ASSUME Shape, Evidence, NEW p \in Pipe, Drain(p) \/ DrainFails(p)
  PROVE  Evidence'
<1>1. /\ p \in reading /\ Len(chan) < Capacity /\ pc # "over"
      /\ UNCHANGED <<ask, holders, code, wrote, pc, final, forced, unresolved, done,
                     pending, heard, session, lost, readFailed, received,
                     admitted, spool, out, beats, record>>
  BY DEF Drain, DrainFails, HasRoom, actor, conclusion, parsed, stream
<1>2. PICK m \in Messages :
        /\ m.pipe = p /\ chan' = Append(chan, m)
        /\ \/ /\ m.is = "data" /\ got[p] < Len(wrote[p])
              /\ got' = [got EXCEPT ![p] = @ + 1] /\ reading' = reading
           \/ /\ m.is = "done" /\ got[p] = Len(wrote[p]) /\ holders = {}
              /\ got' = got /\ reading' = reading \ {p}
           \/ m.is = "error" /\ got' = got /\ reading' = reading \ {p}
  <2>1. \A what \in {"data", "done", "error"} :
          /\ Message(p, what) \in Messages
          /\ Message(p, what).pipe = p /\ Message(p, what).is = what
    BY DEF Message, Messages
  <2> QED BY <2>1 DEF Drain, DrainFails
<1>3. Typed /\ Accounted /\ Drained
  BY DEF Evidence
<1>4. chan \in Seq(Messages) /\ Len(chan) \in Nat /\ p \notin done
  BY <1>1, <1>3 DEF Typed, Drained
<1>5. Typed'
  <2>1. got' \in [Pipe -> Nat] /\ reading' \subseteq Pipe
    <3>1. got \in [Pipe -> Nat] /\ got[p] + 1 \in Nat /\ reading \subseteq Pipe
      BY <1>3 DEF Typed
    <3>2. [got EXCEPT ![p] = @ + 1] \in [Pipe -> Nat]
      BY <3>1
    <3> QED BY <1>2, <3>1, <3>2
  <2>2. chan' \in Seq(Messages) /\ Len(chan') <= Capacity
    BY <1>1, <1>2, <1>4, StreamAssumption
  <2> QED BY <1>1, <1>3, <2>1, <2>2 DEF Typed
<1>6. Said' = Said /\ \A q \in Pipe : Taken(q)' = Taken(q)
  BY <1>1, <1>3, SaidStays
<1>7. Accounted'
  <2> SUFFICES ASSUME NEW q \in Pipe
               PROVE  /\ got'[q] <= Len(wrote[q])
                      /\ Taken(q) + Occurrences(chan', Message(q, "data")) = got'[q]
    <3>1. \A other \in Pipe : got'[other] \in Nat
      BY <1>5 DEF Typed
    <3> QED BY <1>1, <1>6, <3>1 DEF Accounted, Occurrences, Message
  <2>1. /\ Taken(q) + Occurrences(chan, Message(q, "data")) = got[q]
        /\ got[q] <= Len(wrote[q]) /\ got[q] \in Nat /\ Len(wrote[q]) \in Nat
        /\ Taken(q) \in Nat /\ Occurrences(chan, Message(q, "data")) \in Nat
    BY <1>1, <1>3, TakenIsBounded DEF Accounted
  <2>2. Occurrences(chan', Message(q, "data")) =
          Occurrences(chan, Message(q, "data")) + (IF m = Message(q, "data") THEN 1 ELSE 0)
    BY <1>2, <1>4, OccurrencesAppend
  <2>3. m = Message(q, "data") <=> q = p /\ m.is = "data"
    BY <1>2 DEF Message, Messages
  <2>4. got'[q] = IF q = p /\ m.is = "data" THEN got[q] + 1 ELSE got[q]
    BY <1>2, <1>3 DEF Typed
  <2>5. q = p /\ m.is = "data" => got[q] < Len(wrote[q])
    BY <1>2
  <2> QED BY <2>1, <2>2, <2>3, <2>4, <2>5
<1>8. Drained'
  <2>1. /\ DOMAIN chan' = 1 .. Len(chan) + 1 /\ DOMAIN chan = 1 .. Len(chan)
        /\ chan'[Len(chan) + 1] = m
        /\ \A i \in 1 .. Len(chan) : chan'[i] = chan[i]
    BY <1>2, <1>4, AppendProperties
  <2>2. \A i \in DOMAIN chan' : (i \in DOMAIN chan /\ chan'[i] = chan[i]) \/ i = Len(chan) + 1
    BY <1>4, <2>1
  <2>3. \A i \in DOMAIN chan : chan[i].pipe = p => chan[i].is = "data"
    BY <1>1, <1>3 DEF Drained
  <2>4. ASSUME NEW i \in DOMAIN chan', NEW j \in DOMAIN chan', i < j, chan'[i].is # "data"
        PROVE  chan'[j].pipe # chan'[i].pipe
    <3>1. i \in DOMAIN chan /\ chan'[i] = chan[i]
      BY <1>4, <2>1, <2>2, <2>4
    <3>2. CASE j \in DOMAIN chan
      BY <1>3, <2>1, <2>4, <3>1, <3>2 DEF Drained
    <3>3. CASE j = Len(chan) + 1
      BY <1>2, <2>1, <2>3, <2>4, <3>1, <3>3
    <3> QED BY <2>2, <3>2, <3>3
  <2>5. ASSUME NEW q \in Pipe, q \in reading'
        PROVE  /\ q \notin done
               /\ \A i \in DOMAIN chan' : chan'[i].pipe = q => chan'[i].is = "data"
    <3>1. q \in reading /\ (q = p => m.is = "data")
      BY <1>2, <2>5
    <3> QED BY <1>2, <1>3, <2>1, <2>2, <3>1 DEF Drained
  <2>6. ASSUME NEW q \in Pipe, q \in done
        PROVE  \A i \in DOMAIN chan' : chan'[i].pipe # q
    BY <1>2, <1>3, <1>4, <2>1, <2>2, <2>6 DEF Drained
  <2>7. ASSUME NEW q \in Pipe, q \notin reading'
        PROVE  \/ readFailed \/ Message(q, "error") \in ToSet(chan')
               \/ holders = {} /\ got'[q] = Len(wrote[q])
    <3>1. CASE q = p /\ m.is = "error"
      <4>1. m = Message(q, "error") /\ Len(chan) + 1 \in DOMAIN chan'
        BY <1>2, <1>4, <2>1, <3>1 DEF Message, Messages
      <4> QED BY <2>1, <4>1 DEF ToSet
    <3>2. CASE q = p /\ m.is # "error"
      BY <1>1, <1>2, <2>7, <3>2
    <3>3. CASE q # p
      <4>1. q \notin reading /\ got'[q] = got[q]
        BY <1>2, <1>3, <2>7, <3>3 DEF Typed
      <4>2. ToSet(chan) \subseteq ToSet(chan')
        BY <1>4, <2>1 DEF ToSet
      <4> QED BY <1>1, <1>3, <4>1, <4>2 DEF Drained
    <3> QED BY <3>1, <3>2, <3>3
  <2> QED BY <1>1, <2>4, <2>5, <2>6, <2>7 DEF Drained, Message
<1>9. Staged'
  BY <1>1 DEF Evidence, Staged, Registered
<1>10. Understood'
  BY <1>1, <1>6 DEF Evidence, Understood
<1>11. Going' \/ Ended'
  <2>1. CASE Going
    BY <1>1, <2>1 DEF Going
  <2>2. CASE Ended
    BY <1>1, <1>6, <2>2, EndedStays DEF Ended
  <2> QED BY <2>1, <2>2 DEF Evidence
<1> QED BY <1>5, <1>7, <1>8, <1>9, <1>10, <1>11 DEF Evidence

-----------------------------------------------------------------------------
(***************************************************************************)
(* The loop                                                                *)
(***************************************************************************)

LEMMA WaitingPreserves ==
  ASSUME Shape, Evidence, Begin \/ Pass \/ Timers
  PROVE  Evidence'
<1>1. CASE Begin
  <2>1. /\ pc = "top" /\ pc' \in {"enforce", "finish"}
        /\ pc' = "finish" => done = Pipe
        /\ UNCHANGED <<ask, holders, code, wrote, got, reading, chan, unresolved, done, pending,
                       heard, session, lost, readFailed, received, admitted, spool, out, beats,
                       record>>
    BY <1>1 DEF Begin, Complete, actor, drains, parsed, stream
  <2>2. beats \in 0 .. MaxBeats
    BY DEF Evidence, Typed
  <2> QED BY <2>1, <2>2, GroupShrinks
<1>2. CASE Pass \/ Timers
  <2>1. /\ pc = "enforce" /\ pc' = "receive" /\ holders' \subseteq holders
        /\ UNCHANGED <<ask, wrote, got, reading, chan, unresolved, done, pending,
                       heard, session, lost, readFailed, received, admitted, spool, out, beats,
                       record>>
    BY <1>2 DEF Pass, Timers, EnforceDeadline, CompleteResume, CloseLingering, Enforces,
                Terminate, actor, drains, conclusion, parsed, stream
  <2>2. beats \in 0 .. MaxBeats
    BY DEF Evidence, Typed
  <2> QED BY <2>1, <2>2, GroupShrinks
<1> QED BY <1>1, <1>2

LEMMA IdlePreserves ==
  ASSUME Shape, Evidence, Idle
  PROVE  Evidence'
<1>1. /\ pc = "receive" /\ chan = <<>> /\ pc' = "top"
      /\ UNCHANGED <<ask, holders, code, wrote, got, reading, chan, final, forced, unresolved,
                     pending, heard, session, lost, readFailed, received, admitted, spool, out,
                     record>>
      /\ beats' \in {beats, beats + 1} /\ (beats' # beats => beats < MaxBeats)
      /\ done' = done \/ (done' = Pipe /\ reading = {})
  BY DEF Idle, actor, drains, conclusion, parsed, stream
<1>2. beats' \in 0 .. MaxBeats
  BY <1>1, StreamAssumption DEF Evidence, Typed
<1>3. CASE done' = done
  BY <1>1, <1>2, <1>3, GroupShrinks
<1>4. CASE done' = Pipe /\ reading = {}
  <2>1. Typed /\ Accounted
    BY DEF Evidence
  <2>2. Said' = Said /\ \A q \in Pipe : Taken(q)' = Taken(q)
    BY <1>1, <2>1, SaidStays
  <2>3. Typed'
    BY <1>1, <1>2, <1>4, <2>1 DEF Typed, Location
  <2>4. Accounted'
    BY <1>1, <2>1, <2>2 DEF Accounted, Occurrences, Message
  <2>5. Drained'
    BY <1>1, <1>4 DEF Evidence, Drained, Message
  <2>6. Staged'
    BY <1>1 DEF Evidence, Staged, Registered
  <2>7. Understood'
    BY <1>1, <2>2 DEF Evidence, Understood
  <2>8. Going'
    BY <1>1 DEF Evidence, Going, Ended
  <2> QED BY <2>3, <2>4, <2>5, <2>6, <2>7, <2>8 DEF Evidence
<1> QED BY <1>1, <1>3, <1>4

\* Sequences of events that are not the last.
LEMMA PlainConcat ==
  ASSUME NEW s \in Plain, NEW t \in Plain
  PROVE  s \o t \in Plain
<1>1. /\ s \o t \in Seq(EventRecord) /\ Len(s \o t) = Len(s) + Len(t)
      /\ \A i \in 1 .. Len(s) + Len(t) :
           (s \o t)[i] = IF i <= Len(s) THEN s[i] ELSE t[i - Len(s)]
  BY ConcatProperties DEF Plain
<1>2. /\ DOMAIN s = 1 .. Len(s) /\ DOMAIN t = 1 .. Len(t) /\ Len(s) \in Nat /\ Len(t) \in Nat
      /\ DOMAIN (s \o t) = 1 .. Len(s) + Len(t)
  BY <1>1 DEF Plain
<1>3. ASSUME NEW i \in DOMAIN (s \o t)
      PROVE  (s \o t)[i].is \notin {"complete", "exit"}
  <2>1. CASE i <= Len(s)
    BY <1>1, <1>2, <1>3, <2>1 DEF Plain
  <2>2. CASE ~(i <= Len(s))
    <3>1. i - Len(s) \in DOMAIN t
      BY <1>2, <1>3, <2>2
    <3> QED BY <1>1, <1>2, <1>3, <2>2, <3>1 DEF Plain
  <2> QED BY <2>1, <2>2
<1> QED BY <1>1, <1>3 DEF Plain

LEMMA PlainWhen ==
  ASSUME NEW e \in EventRecord, e.is \notin {"complete", "exit"}, NEW holds
  PROVE  When(holds, e) \in Plain /\ <<e>> \in Plain
<1>1. <<e>> \in Plain
  BY DEF Plain
<1>2. <<>> \in Plain
  BY DEF Plain
<1> QED BY <1>1, <1>2 DEF When

LEMMA PlainMarker ==
  ASSUME NEW what \in Kind \ {"complete", "exit"}, NEW holds
  PROVE  When(holds, Event(what)) \in Plain
<1>1. Event(what) \in EventRecord /\ Event(what).is = what
  BY DEF Event, EventRecord, Kind, Status
<1> QED BY <1>1, PlainWhen

\* A launch that emits what is not the last goes on.
LEMMA PlainGoesOn ==
  ASSUME Shape, Going, NEW events \in Plain, NEW admit, Emit(events, admit), pc' # "close"
  PROVE  Going'
<1>1. \/ spool' = <<>> /\ out' = out \o spool \o events
      \/ spool' = spool \o events /\ out' = out
  BY DEF Emit
<1>2. <<>> \in Plain
  BY DEF Plain
<1>3. out \in Plain /\ spool \in Plain /\ pc' # "close"
  BY DEF Going
<1>4. out \o spool \in Plain /\ spool \o events \in Plain
  BY <1>3, PlainConcat
<1>5. (out \o spool) \o events \in Plain
  BY <1>4, PlainConcat
<1> QED BY <1>1, <1>2, <1>3, <1>4, <1>5 DEF Going

\* What the lines completed by a chunk say.
LEMMA ParsedSays ==
  ASSUME NEW c
  PROVE  ToSet(Parsed(c)) =
           (IF pending = "none" THEN {} ELSE {pending}) \cup (IF c.whole THEN {c.native} ELSE {})
<1>1. CASE pending = "none" /\ c.whole
  <2>1. Parsed(c) = <<c.native>>
    BY <1>1 DEF Parsed, When
  <2> QED BY <1>1, <2>1 DEF ToSet
<1>2. CASE pending = "none" /\ ~c.whole
  <2>1. Parsed(c) = <<>>
    BY <1>2 DEF Parsed, When
  <2> QED BY <1>2, <2>1 DEF ToSet
<1>3. CASE pending # "none" /\ c.whole
  <2> DEFINE S == {pending, c.native}
  <2>1. <<pending>> \in Seq(S) /\ <<c.native>> \in Seq(S)
    OBVIOUS
  <2>2. Parsed(c) = <<pending>> \o <<c.native>>
    BY <1>3 DEF Parsed, When
  <2>3. /\ DOMAIN Parsed(c) = 1 .. 2
        /\ Parsed(c)[1] = pending /\ Parsed(c)[2] = c.native
    BY <2>1, <2>2, ConcatProperties
  <2>4. 1 .. 2 = {1, 2}
    OBVIOUS
  <2> QED BY <1>3, <2>3, <2>4 DEF ToSet
<1>4. CASE pending # "none" /\ ~c.whole
  <2>1. Parsed(c) = <<pending>>
    BY <1>4 DEF Parsed, When
  <2> QED BY <1>4, <2>1 DEF ToSet
<1> QED BY <1>1, <1>2, <1>3, <1>4

\* What the loop takes out of the channel stays accounted for.
LEMMA ChannelPreserves ==
  ASSUME Shape, Evidence, chan # <<>>, chan' = Tail(chan), NEW m, m = Head(chan),
         UNCHANGED <<holders, wrote, got, reading>>, pc # "over", pc' # "over",
         received' = IF m.is = "data" THEN Append(received, m.pipe) ELSE received,
         done' = IF m.is = "data" THEN done ELSE done \cup {m.pipe},
         readFailed' = (readFailed \/ m.is = "error")
  PROVE  /\ m \in Messages
         /\ chan' \in Seq(Messages) /\ Len(chan') <= Capacity
         /\ Accounted' /\ Drained'
         /\ \A p \in Pipe : Taken(p)' = Taken(p) + (IF m = Message(p, "data") THEN 1 ELSE 0)
         /\ m = Message("stdout", "data") =>
              Taken("stdout") + 1 \in DOMAIN wrote["stdout"]
<1>1. Typed /\ Accounted /\ Drained
  BY DEF Evidence
<1>2. chan \in Seq(Messages) /\ Len(chan) <= Capacity
  BY <1>1 DEF Typed
<1>3. /\ m \in Messages /\ m = chan[1]
      /\ chan' \in Seq(Messages) /\ Len(chan') = Len(chan) - 1
      /\ \A i \in 1 .. Len(chan') : chan'[i] = chan[i + 1]
      /\ Len(chan) \in Nat /\ Len(chan) # 0
  BY <1>2, HeadTailProperties
<1>4. Len(chan') <= Capacity
  BY <1>2, <1>3, StreamAssumption
<1>5. \A p \in Pipe : (m = Message(p, "data") <=> m.pipe = p /\ m.is = "data")
  BY <1>3 DEF Message, Messages
<1>6. ASSUME NEW p \in Pipe
      PROVE  /\ Taken(p) \in Nat /\ got[p] \in Nat
             /\ Occurrences(chan, Message(p, "data")) \in Nat
             /\ Taken(p) + Occurrences(chan, Message(p, "data")) = got[p]
             /\ got[p] <= Len(wrote[p]) /\ Len(wrote[p]) \in Nat
             /\ Taken(p)' = Taken(p) + (IF m = Message(p, "data") THEN 1 ELSE 0)
             /\ Occurrences(chan', Message(p, "data")) =
                  Occurrences(chan, Message(p, "data"))
                    - (IF m = Message(p, "data") THEN 1 ELSE 0)
             /\ Occurrences(chan', Message(p, "data")) \in Nat
  <2>1. Taken(p)' = Taken(p) + (IF m = Message(p, "data") THEN 1 ELSE 0)
    <3>1. Taken(p) = Occurrences(received, p) /\ Taken(p)' = Occurrences(received', p)
      BY DEF Taken, Occurrences
    <3>2. received \in Seq(Pipe) /\ m.pipe \in Pipe
      BY <1>3 DEF Shape, Pipe, Messages
    <3>3. /\ Occurrences(received, p) \in Nat
          /\ Occurrences(Append(received, m.pipe), p) =
               Occurrences(received, p) + (IF m.pipe = p THEN 1 ELSE 0)
      BY <3>2, OccurrencesAppend
    <3> QED BY <1>5, <3>1, <3>3
  <2>2. Occurrences(chan', Message(p, "data")) =
          Occurrences(chan, Message(p, "data")) - (IF m = Message(p, "data") THEN 1 ELSE 0)
    BY <1>2, OccurrencesTail
  <2>3. Occurrences(chan', Message(p, "data")) \in Nat
    BY <1>3, OccurrencesNone
  <2> QED BY <1>1, <2>1, <2>2, <2>3, TakenIsBounded DEF Accounted
<1>7. Accounted'
  <2>1. \A p \in Pipe : /\ got[p] <= Len(wrote[p]) /\ got[p] <= got[p]
                        /\ Taken(p)' + Occurrences(chan', Message(p, "data")) = got[p]
    BY <1>6
  <2>2. \A p \in Pipe : Occurrences(chan, Message(p, "data"))' = Occurrences(chan', Message(p, "data"))
    BY DEF Occurrences, Message
  <2> QED BY <2>1, <2>2 DEF Accounted
<1>8. Drained'
  <2>1. /\ DOMAIN chan' = 1 .. Len(chan) - 1 /\ DOMAIN chan = 1 .. Len(chan)
        /\ \A i \in DOMAIN chan' : i + 1 \in DOMAIN chan /\ chan'[i] = chan[i + 1] /\ 1 < i + 1
        /\ 1 \in DOMAIN chan
    BY <1>2, <1>3
  <2>2. ASSUME NEW i \in DOMAIN chan', NEW j \in DOMAIN chan', i < j, chan'[i].is # "data"
        PROVE  chan'[j].pipe # chan'[i].pipe
    <3>1. i + 1 < j + 1
      BY <1>3, <2>1, <2>2
    <3> QED BY <1>1, <2>1, <2>2, <3>1 DEF Drained
  <2>3. ASSUME NEW q \in Pipe, q \in reading
        PROVE  /\ q \notin done'
               /\ \A i \in DOMAIN chan' : chan'[i].pipe = q => chan'[i].is = "data"
    <3>1. /\ q \notin done
          /\ \A i \in DOMAIN chan : chan[i].pipe = q => chan[i].is = "data"
      BY <1>1, <2>3 DEF Drained
    <3> QED BY <1>3, <2>1, <3>1
  <2>4. ASSUME NEW q \in Pipe, q \in done'
        PROVE  \A i \in DOMAIN chan' : chan'[i].pipe # q
    <3>1. CASE q \in done
      BY <1>1, <2>1, <3>1 DEF Drained
    <3>2. CASE m.is # "data" /\ q = m.pipe
      <4>1. \A k \in DOMAIN chan : 1 < k => chan[k].pipe # m.pipe
        BY <1>1, <1>3, <2>1, <3>2 DEF Drained
      <4> QED BY <2>1, <3>2, <4>1
    <3> QED BY <2>4, <3>1, <3>2
  <2>5. ASSUME NEW q \in Pipe, q \notin reading
        PROVE  \/ readFailed' \/ Message(q, "error") \in ToSet(chan')
               \/ holders = {} /\ got[q] = Len(wrote[q])
    <3>1. \/ readFailed \/ Message(q, "error") \in ToSet(chan)
          \/ holders = {} /\ got[q] = Len(wrote[q])
      BY <1>1, <2>5 DEF Drained
    <3>2. ASSUME Message(q, "error") \in ToSet(chan), ~readFailed'
          PROVE  Message(q, "error") \in ToSet(chan')
      <4>1. PICK k \in DOMAIN chan : chan[k] = Message(q, "error")
        BY <3>2 DEF ToSet
      <4>2. k # 1
        <5>1. m.is # "error"
          BY <3>2
        <5>2. Message(q, "error").is = "error"
          BY DEF Message
        <5> QED BY <1>3, <4>1, <5>1, <5>2
      <4>3. k - 1 \in DOMAIN chan' /\ chan'[k - 1] = Message(q, "error")
        BY <1>3, <2>1, <4>1, <4>2
      <4> QED BY <4>3 DEF ToSet
    <3> QED BY <3>1, <3>2
  <2> QED BY <2>2, <2>3, <2>4, <2>5 DEF Drained, Message
<1>9. m = Message("stdout", "data") => Taken("stdout") + 1 \in DOMAIN wrote["stdout"]
  <2>1. "stdout" \in Pipe /\ wrote["stdout"] \in Seq(Chunk)
    BY <1>1 DEF Pipe, Typed
  <2> QED BY <1>6, <2>1
<1> QED BY <1>3, <1>4, <1>6, <1>7, <1>8, <1>9

LEMMA DataIsPlain ==
  ASSUME NEW n \in Nat
  PROVE  <<DataEvent(n)>> \in Plain
<1>1. DataEvent(n) \in EventRecord /\ DataEvent(n).is = "data"
  BY DEF DataEvent, Event, EventRecord, Kind, Status
<1> QED BY <1>1, PlainWhen

\* A chunk is understood, whole or as the beginning of a line.
LEMMA TakeStdoutKeepsEvidence ==
  ASSUME IInv, IInv', Evidence, Take, Head(chan) = Message("stdout", "data"),
         NEW c, c = wrote["stdout"][Taken("stdout") + 1], TakeStdout(c)
  PROVE  Evidence'
<1> DEFINE events == Parsed(c)
<1> DEFINE s == FirstSession(events)
<1>1. /\ pc = "receive" /\ chan # <<>> /\ chan' = Tail(chan)
      /\ UNCHANGED <<ask, holders, code, wrote, got, reading, final, forced, unresolved,
                     done, readFailed>>
      /\ received' = Append(received, "stdout")
      /\ pending' = IF c.whole THEN "none" ELSE c.native
      /\ heard' = Hears(events) /\ lost' = (lost \/ "bad" \in ToSet(events))
      /\ pc' \in {"failed", "top"}
      /\ beats' = beats
  BY DEF Take, TakeStdout, Learn, actor, drains, conclusion, Emit, stream
<1>2. Shape /\ Typed /\ Accounted
  BY DEF IInv, StreamInv, Evidence
<1>3. /\ chan' \in Seq(Messages) /\ Len(chan') <= Capacity
      /\ Accounted' /\ Drained'
      /\ \A p \in Pipe : Taken(p)' =
           Taken(p) + (IF Head(chan) = Message(p, "data") THEN 1 ELSE 0)
      /\ Taken("stdout") + 1 \in DOMAIN wrote["stdout"]
  <2>1. PICK m : m = Head(chan)
    OBVIOUS
  <2>2. m.is = "data" /\ m.pipe = "stdout"
    BY <2>1 DEF Message
  <2>3. /\ received' = IF m.is = "data" THEN Append(received, m.pipe) ELSE received
        /\ done' = IF m.is = "data" THEN done ELSE done \cup {m.pipe}
        /\ readFailed' = (readFailed \/ m.is = "error")
        /\ pc # "over" /\ pc' # "over"
    BY <1>1, <1>2, <2>2 DEF Typed
  <2> QED BY <1>1, <1>2, <2>1, <2>3, ChannelPreserves
<1>4. Taken("stdout")' = Taken("stdout") + 1 /\ Taken("stdout") \in Nat
  BY <1>2, <1>3, TakenIsBounded DEF Pipe
<1>5. c \in Chunk
  <2>1. wrote["stdout"] \in Seq(Chunk)
    BY <1>2 DEF Typed, Pipe
  <2> QED BY <1>3, <2>1
<1>6. c.native = "bad" => c.whole
  BY <1>3 DEF Evidence, Understood
<1>7. s \in Session
  BY SessionIsNamed
<1>8. \/ UNCHANGED <<session, record, admitted, spool, out>> /\ pc' = "failed"
      \/ /\ record' = Recorded(s)
         /\ session' = IF session = "none" THEN s ELSE session
         /\ Emit(<<DataEvent(Len(received'))>> \o SessionMarker(s), AdmitsSession(s))
         /\ pc' = "top"
  BY DEF TakeStdout, stream
<1> HIDE DEF s
<1>9. ToSet(events) =
        (IF pending = "none" THEN {} ELSE {pending}) \cup (IF c.whole THEN {c.native} ELSE {})
  BY ParsedSays
<1> HIDE DEF events
<1>10. Typed'
  <2>1. pending' \in Native \cup {"none"}
    BY <1>1, <1>5 DEF Chunk
  <2>2. session' \in Session
    BY <1>2, <1>7, <1>8 DEF Typed
  <2>3. lost' \in BOOLEAN
    BY <1>1, <1>2 DEF Typed
  <2> QED BY <1>1, <1>2, <1>3, <2>1, <2>2, <2>3 DEF Typed, Location
<1>11. Staged'
  <2>1. ask.resume /\ ~Registered' => ~Registered
    BY <1>8 DEF Recorded, Registered
  <2>2. ~(ask.resume /\ ~Registered) /\ (readFailed => lost)
    BY <1>1 DEF Evidence, Staged
  <2> QED BY <1>1, <2>1, <2>2 DEF Staged
<1>12. Understood'
  <2>1. \A e : e \in Said' <=> e \in Said \/ e = c.native
    <3>1. /\ \A e : e \in Said <=> \E i \in 1 .. Taken("stdout") : wrote["stdout"][i].native = e
          /\ \A e : e \in Said' <=>
               \E i \in 1 .. Taken("stdout") + 1 : wrote["stdout"][i].native = e
      BY <1>1, <1>4 DEF Said, ToSet
    <3>2. \A i : i \in 1 .. Taken("stdout") + 1 <=>
                   i \in 1 .. Taken("stdout") \/ i = Taken("stdout") + 1
      BY <1>4
    <3> QED BY <3>1, <3>2
  <2>2. "bad" \in Said' => lost'
    BY <1>1, <1>6, <1>9, <2>1 DEF Evidence, Understood
  <2>3. ask.resume => ("stop" \in Said' <=> heard' = "completed" \/ pending' = "stop")
    BY <1>1, <1>9, <2>1 DEF Evidence, Understood, Hears
  <2> QED BY <1>1, <2>2, <2>3 DEF Understood, Evidence
<1>13. Going'
  <2>1. Going
    BY <1>1 DEF Evidence, Ended
  <2>2. CASE UNCHANGED <<out, spool>> /\ pc' = "failed"
    BY <2>1, <2>2 DEF Going
  <2>3. CASE Emit(<<DataEvent(Len(received'))>> \o SessionMarker(s), AdmitsSession(s))
    <3>1. Len(received') \in Nat
      BY DEF IInv, StreamInv, Shape
    <3>2. SessionMarker(s) \in Plain
      BY PlainMarker DEF SessionMarker, Kind
    <3>3. <<DataEvent(Len(received'))>> \o SessionMarker(s) \in Plain
      BY <3>1, <3>2, DataIsPlain, PlainConcat
    <3>4. pc' # "close"
      BY <1>1
    <3> QED BY <1>2, <2>1, <2>3, <3>3, <3>4, PlainGoesOn
  <2> QED BY <1>8, <2>2, <2>3
<1> QED BY <1>3, <1>10, <1>11, <1>12, <1>13 DEF Evidence

\* The other messages: output of the other pipe, and the ends.
LEMMA TakeOtherKeepsEvidence ==
  ASSUME IInv, IInv', Evidence, Take, Head(chan) # Message("stdout", "data")
  PROVE  Evidence'
<1> PICK m : m = Head(chan)
  OBVIOUS
<1>1. /\ pc = "receive" /\ chan # <<>> /\ chan' = Tail(chan) /\ pc' = "top"
      /\ UNCHANGED <<ask, holders, code, wrote, got, reading, final, forced, unresolved,
                     pending, heard, session, record>>
      /\ beats' = beats
      /\ received' = IF m.is = "data" THEN Append(received, m.pipe) ELSE received
      /\ done' = IF m.is = "data" THEN done ELSE done \cup {m.pipe}
      /\ readFailed' = (readFailed \/ m.is = "error")
      /\ lost' = (lost \/ m.is = "error")
      /\ \/ UNCHANGED <<admitted, spool, out>>
         \/ Emit(<<DataEvent(Len(received'))>>, FALSE)
      /\ m \in Messages
  <2>1. m \in Messages
    BY DEF Evidence, Typed, Take
  <2>2. CASE m.is # "data"
    <3>1. TakeEnd(m)
      BY <2>2 DEF Take
    <3> QED BY <2>1, <2>2, <3>1 DEF Take, TakeEnd, actor, drains, conclusion, stream
  <2>3. CASE m.is = "data"
    <3>1. m.pipe = "stderr"
      BY <2>1, <2>3 DEF Messages, Message, Pipe
    <3> QED BY <2>1, <2>3, <3>1
            DEF Take, TakeStderr, actor, drains, conclusion, parsed, Emit, Evidence, Typed
  <2> QED BY <2>2, <2>3
<1>2. Shape /\ Typed /\ Accounted
  BY DEF IInv, StreamInv, Evidence
<1>3. /\ chan' \in Seq(Messages) /\ Len(chan') <= Capacity
      /\ Accounted' /\ Drained'
      /\ \A p \in Pipe : Taken(p)' = Taken(p) + (IF m = Message(p, "data") THEN 1 ELSE 0)
  BY <1>1, <1>2, ChannelPreserves
<1>4. Typed'
  <2>1. done' \subseteq Pipe /\ readFailed' \in BOOLEAN /\ lost' \in BOOLEAN
    BY <1>1, <1>2 DEF Typed, Messages
  <2> QED BY <1>1, <1>2, <1>3, <2>1 DEF Typed, Location
<1>5. Staged'
  BY <1>1 DEF Evidence, Staged, Registered
<1>6. Understood'
  <2>1. Taken("stdout")' = Taken("stdout")
    BY <1>2, <1>3, TakenIsBounded DEF Pipe
  <2>2. Said' = Said
    BY <1>1, <2>1 DEF Said
  <2> QED BY <1>1, <2>2 DEF Evidence, Understood
<1>7. Going'
  <2>1. Going
    BY <1>1 DEF Evidence, Ended
  <2>2. CASE UNCHANGED <<admitted, spool, out>>
    BY <1>1, <2>1, <2>2 DEF Going
  <2>3. CASE Emit(<<DataEvent(Len(received'))>>, FALSE)
    <3>1. Len(received') \in Nat
      BY DEF IInv, StreamInv, Shape
    <3>2. <<DataEvent(Len(received'))>> \in Plain
      BY <3>1, DataIsPlain
    <3>3. pc' # "close"
      BY <1>1
    <3> QED BY <1>2, <2>1, <2>3, <3>2, <3>3, PlainGoesOn
  <2> QED BY <1>1, <2>2, <2>3
<1> QED BY <1>3, <1>4, <1>5, <1>6, <1>7 DEF Evidence

-----------------------------------------------------------------------------
(***************************************************************************)
(* The conclusion                                                          *)
(***************************************************************************)

\* The line that was left open is heard, and the record gets its phase.
LEMMA FinishTailKeepsEvidence ==
  ASSUME IInv, Evidence, FinishTail
  PROVE  Evidence'
<1> DEFINE events == Parsed([native |-> "bad", whole |-> FALSE])
<1> DEFINE s == FirstSession(events)
<1>1. /\ pc = "finish" /\ pc' \in {"failed", "settle"}
      /\ UNCHANGED <<ask, holders, code, wrote, got, reading, chan, final, forced, unresolved,
                     done, readFailed, received>>
      /\ pending' = "none"
      /\ heard' = Hears(events) /\ lost' = (lost \/ "bad" \in ToSet(events))
      /\ beats' = beats
  BY DEF FinishTail, Learn, actor, drains, conclusion, Emit, stream
<1>2. Shape /\ Typed /\ Accounted
  BY DEF IInv, StreamInv, Evidence
<1>3. \/ UNCHANGED <<session, record, admitted, spool, out>> /\ pc' = "failed"
      \/ /\ record' = IF ~Registered \/ ask.resume \/ Recorded(s).phase = "session"
                      THEN Recorded(s)
                      ELSE [record EXCEPT !.phase = "terminal"]
         /\ session' = IF session = "none" THEN s ELSE session
         /\ Emit(SessionMarker(s), ~ask.resume \/ ~Registered)
         /\ pc' = "settle"
  BY DEF FinishTail, stream
<1>4. s \in Session
  BY SessionIsNamed
<1> HIDE DEF s
<1>5. ToSet(events) = IF pending = "none" THEN {} ELSE {pending}
  BY ParsedSays
<1> HIDE DEF events
<1>6. Said' = Said /\ \A p \in Pipe : Taken(p)' = Taken(p)
  BY <1>1, <1>2, SaidStays
<1>7. ask.resume => record' = record
  BY <1>3 DEF Recorded
<1>8. Typed'
  <2>1. session' \in Session
    BY <1>2, <1>3, <1>4 DEF Typed
  <2>2. lost' \in BOOLEAN
    BY <1>1, <1>2 DEF Typed
  <2> QED BY <1>1, <1>2, <2>1, <2>2 DEF Typed, Location
<1>9. Accounted'
  BY <1>1, <1>2, <1>6 DEF Accounted, Occurrences, Message
<1>10. Drained'
  BY <1>1 DEF Evidence, Drained, Message
<1>11. Staged'
  <2>1. done = Pipe /\ (readFailed => lost')
    BY <1>1 DEF Evidence, Staged
  <2>2. pc' = "settle" => admitted' \/ (ask.resume /\ Registered')
    BY <1>3, <1>7 DEF Emit, Opened, Registered
  <2>3. ask.resume /\ ~Registered' =>
          /\ final = "refused" /\ received = <<>> /\ heard' = "none"
    BY <1>1, <1>5, <1>7 DEF Evidence, Staged, Registered, Hears
  <2> QED BY <1>1, <2>1, <2>2, <2>3 DEF Staged
<1>12. Understood'
  <2>1. "bad" \in Said => lost'
    BY <1>1 DEF Evidence, Understood
  <2>2. ask.resume => ("stop" \in Said <=> heard' = "completed" \/ pending' = "stop")
    BY <1>1, <1>5 DEF Evidence, Understood, Hears
  <2> QED BY <1>1, <1>6, <2>1, <2>2 DEF Evidence, Understood
<1>13. Going'
  <2>1. Going
    BY <1>1 DEF Evidence, Ended
  <2>2. CASE UNCHANGED <<admitted, spool, out>>
    BY <1>1, <2>1, <2>2 DEF Going
  <2>3. CASE Emit(SessionMarker(s), ~ask.resume \/ ~Registered)
    <3>1. SessionMarker(s) \in Plain
      BY PlainMarker DEF SessionMarker, Kind
    <3>2. pc' # "close"
      BY <1>1
    <3> QED BY <1>2, <2>1, <2>3, <3>1, <3>2, PlainGoesOn
  <2> QED BY <1>3, <2>2, <2>3
<1> QED BY <1>8, <1>9, <1>10, <1>11, <1>12, <1>13 DEF Evidence

\* The record of a resume says what was heard.
LEMMA SettleResumeKeepsEvidence ==
  ASSUME IInv, Evidence, SettleResume
  PROVE  Evidence'
<1> DEFINE events == When(heard # "none", Event("submitted"))
                       \o When(heard = "completed", Event("produced"))
                       \o When(unresolved', Event("unresolved"))
<1>1. /\ pc = "settle" /\ pc' = "conclude"
      /\ UNCHANGED <<ask, holders, code, wrote, got, reading, chan, final, forced,
                     pending, heard, session, lost, done, readFailed, received>>
      /\ beats' = beats
  BY DEF SettleResume, actor, drains, parsed, Emit, stream
<1>2. \/ /\ ask.resume /\ Registered
         /\ unresolved' = (heard # "completed")
         /\ record' = [record EXCEPT !.phase = IF heard = "none" THEN "unresolved" ELSE heard]
         /\ Emit(events, TRUE)
      \/ /\ ~(ask.resume /\ Registered)
         /\ UNCHANGED <<unresolved, record, admitted, spool, out>>
  BY DEF SettleResume, stream
<1>3. Shape /\ Typed /\ Accounted
  BY DEF IInv, StreamInv, Evidence
<1>4. events \in Plain
  BY PlainMarker, PlainConcat DEF Kind
<1> HIDE DEF events
<1>5. Said' = Said /\ \A p \in Pipe : Taken(p)' = Taken(p)
  BY <1>1, <1>3, SaidStays
<1>6. Typed'
  <2>1. unresolved' \in BOOLEAN
    BY <1>2, <1>3 DEF Typed
  <2> QED BY <1>1, <1>3, <2>1 DEF Typed, Location
<1>7. Accounted'
  BY <1>1, <1>3, <1>5 DEF Accounted, Occurrences, Message
<1>8. Drained'
  BY <1>1 DEF Evidence, Drained, Message
<1>9. Staged'
  <2>1. done = Pipe /\ pending = "none" /\ (readFailed => lost)
        /\ (admitted \/ (ask.resume /\ Registered))
    BY <1>1 DEF Evidence, Staged
  <2>2. admitted'
    BY <1>2, <2>1 DEF Emit, Opened
  <2>3. CASE ask.resume /\ Registered
    <3>1. /\ record'.phase = IF heard = "none" THEN "unresolved" ELSE heard
          /\ unresolved' = (heard # "completed")
          /\ heard \in {"none", "submitted", "completed"}
      BY <1>2, <1>3, <2>3 DEF Shape, Record
    <3>2. record'.phase = "completed" <=> heard = "completed"
      BY <3>1
    <3>3. record'.phase # "none"
      BY <3>1
    <3>4. unresolved' <=> heard # "completed"
      BY <3>1
    <3> QED BY <1>1, <2>1, <2>2, <3>2, <3>3, <3>4 DEF Staged, Registered
  <2>4. CASE ~(ask.resume /\ Registered)
    <3>1. UNCHANGED <<unresolved, record>>
      BY <1>2, <2>4
    <3> QED BY <1>1, <2>1, <2>2, <2>4, <3>1 DEF Evidence, Staged, Registered
  <2> QED BY <2>3, <2>4
<1>10. Understood'
  BY <1>1, <1>5 DEF Evidence, Understood
<1>11. Going'
  <2>1. Going
    BY <1>1 DEF Evidence, Ended
  <2>2. CASE UNCHANGED <<admitted, spool, out>>
    BY <1>1, <2>1, <2>2 DEF Going
  <2>3. CASE Emit(events, TRUE)
    <3>1. pc' # "close"
      BY <1>1
    <3> QED BY <1>3, <1>4, <2>1, <2>3, <3>1, PlainGoesOn
  <2> QED BY <1>2, <2>2, <2>3
<1> QED BY <1>6, <1>7, <1>8, <1>9, <1>10, <1>11 DEF Evidence

\* A pipe that is done was taken to its end, unless reading it failed.
LEMMA DoneIsTaken ==
  ASSUME Shape, Evidence, done = Pipe, pc # "over", ~readFailed
  PROVE  holders = {} /\ \A p \in Pipe : Taken(p) = Len(wrote[p])
<1>1. ASSUME NEW p \in Pipe
      PROVE  holders = {} /\ Taken(p) = Len(wrote[p])
  <2>1. \A i \in DOMAIN chan : chan[i].pipe # p
    BY DEF Evidence, Drained
  <2>2. \A what : Message(p, what).pipe = p
    BY DEF Message
  <2>3. Message(p, "error") \notin ToSet(chan)
    BY <2>1, <2>2 DEF ToSet
  <2>4. holders = {} /\ got[p] = Len(wrote[p])
    BY <2>3 DEF Evidence, Drained
  <2>5. Occurrences(chan, Message(p, "data")) = 0
    BY <2>1, <2>2, OccurrencesNone DEF Evidence, Typed
  <2>6. Taken(p) + Occurrences(chan, Message(p, "data")) = got[p] /\ Taken(p) \in Nat
    BY TakenIsBounded DEF Evidence, Accounted
  <2> QED BY <2>4, <2>5, <2>6
<1> QED BY <1>1 DEF Pipe


LEMMA ConcatElements ==
  ASSUME NEW r \in Seq(EventRecord), NEW s \in Seq(EventRecord)
  PROVE  /\ r \o s \in Seq(EventRecord) /\ Len(r \o s) = Len(r) + Len(s)
         /\ \A i \in 1 .. Len(r) + Len(s) :
              (r \o s)[i] = IF i <= Len(r) THEN r[i] ELSE s[i - Len(r)]
BY ConcatProperties

\* The completion, if it is due.
Completion(w) ==
  /\ w \in Seq(EventRecord) /\ Len(w) \in {0, 1}
  /\ \A i \in DOMAIN w : w[i].is = "complete"

\* A sequence of events that the completion w, if it is due, and the exit x end.
EndsWith(t, w, x) ==
  /\ t # <<>> /\ t[Len(t)] = x
  /\ \A i \in DOMAIN t : t[i].is = "exit" => i = Len(t)
  /\ \A i \in DOMAIN t :
       t[i].is = "complete" => i = Len(t) - 1 /\ Len(w) = 1 /\ t[i] = w[1]

LEMMA LastEvents ==
  ASSUME NEW b \in Plain, NEW w, Completion(w),
         NEW e \in Seq(EventRecord), Len(e) = 1, e[1].is = "exit"
  PROVE  EndsWith((b \o w) \o e, w, e[1])
<1> PICK t : t = (b \o w) \o e
  OBVIOUS
<1>0. w \in Seq(EventRecord) /\ Len(w) \in {0, 1} /\ \A i \in DOMAIN w : w[i].is = "complete"
  BY DEF Completion
<1> PICK u : u = b \o w
  OBVIOUS
<1>1. b \in Seq(EventRecord)
  BY DEF Plain
<1>2. /\ u \in Seq(EventRecord) /\ Len(u) = Len(b) + Len(w)
      /\ \A i \in 1 .. Len(b) + Len(w) : u[i] = IF i <= Len(b) THEN b[i] ELSE w[i - Len(b)]
  BY <1>0, <1>1, ConcatProperties
<1>3. Len(b) \in Nat /\ Len(u) \in Nat /\ DOMAIN b = 1 .. Len(b)
  BY <1>1, <1>2
<1>4. /\ t \in Seq(EventRecord) /\ Len(t) = Len(u) + 1
      /\ \A i \in 1 .. Len(u) + 1 : t[i] = IF i <= Len(u) THEN u[i] ELSE e[i - Len(u)]
  <2>1. /\ u \o e \in Seq(EventRecord) /\ Len(u \o e) = Len(u) + Len(e)
        /\ \A i \in 1 .. Len(u) + Len(e) :
             (u \o e)[i] = IF i <= Len(u) THEN u[i] ELSE e[i - Len(u)]
    BY <1>2, ConcatElements
  <2> QED BY <2>1
<1>5. DOMAIN t = 1 .. Len(u) + 1
  BY <1>4
<1>6. t[Len(u) + 1] = e[1]
  <2>1. Len(u) + 1 \in 1 .. Len(u) + 1 /\ ~(Len(u) + 1 <= Len(u)) /\ Len(u) + 1 - Len(u) = 1
    BY <1>3
  <2> QED BY <1>4, <2>1
<1>7. ASSUME NEW i \in 1 .. Len(u)
      PROVE  \/ i \in DOMAIN b /\ t[i] = b[i]
             \/ Len(w) = 1 /\ i = Len(u) /\ t[i] = w[1]
  <2>1. t[i] = u[i]
    BY <1>3, <1>4
  <2>2. CASE i <= Len(b)
    BY <1>2, <1>3, <2>1, <2>2
  <2>3. CASE ~(i <= Len(b))
    <3>1. Len(w) = 1 /\ i = Len(u) /\ i - Len(b) = 1
      <4>1. Len(w) = 0 \/ Len(w) = 1
        BY <1>0
      <4>2. i \in Int /\ i > Len(b) /\ i <= Len(b) + Len(w)
        BY <1>2, <1>3, <2>3
      <4> PICK n, k : n = Len(b) /\ k = Len(w)
        OBVIOUS
      <4>3. n \in Nat /\ (k = 0 \/ k = 1) /\ Len(u) = n + k /\ i > n /\ i <= n + k
        BY <1>2, <1>3, <4>1, <4>2
      <4>4. k = 1 /\ i = n + 1
        BY <4>2, <4>3
      <4> QED BY <4>3, <4>4
    <3>2. u[i] = w[i - Len(b)]
      BY <1>0, <1>2, <1>3, <2>3
    <3> QED BY <2>1, <3>1, <3>2
  <2> QED BY <2>2, <2>3
<1>8. \A i \in DOMAIN b : b[i].is # "exit" /\ b[i].is # "complete"
  BY DEF Plain
<1>9. Len(w) = 1 => w[1].is = "complete" /\ w[1].is # "exit"
  BY <1>0
<1>10. t # <<>> /\ Len(t) - 1 = Len(u)
  BY <1>3, <1>4
<1>11. ASSUME NEW i \in DOMAIN t
       PROVE  i = Len(t) \/ i \in 1 .. Len(u)
  <2> PICK n : n = Len(u)
    OBVIOUS
  <2>1. n \in Nat /\ i \in 1 .. n + 1 /\ Len(t) = n + 1
    BY <1>3, <1>4, <1>5
  <2> QED BY <2>1
<1>12. \A i \in DOMAIN t : t[i].is = "exit" => i = Len(t)
  BY <1>7, <1>8, <1>9, <1>11
<1>13. \A i \in DOMAIN t :
         t[i].is = "complete" => i = Len(t) - 1 /\ Len(w) = 1 /\ t[i] = w[1]
  <2>1. e[1].is # "complete"
    OBVIOUS
  <2> QED BY <1>4, <1>6, <1>7, <1>8, <1>10, <1>11, <2>1
<1> QED BY <1>4, <1>6, <1>10, <1>12, <1>13 DEF EndsWith

\* What the conclusion says holds.
LEMMA ConcludeKeepsEvidence ==
  ASSUME IInv, IInv', Evidence, Conclude
  PROVE  Evidence'
<1> DEFINE lead == When(lost, Event("loss")) \o When(forced # "none", StatusEvent("forced", forced))
<1> DEFINE last == StatusEvent("exit", Finished)
<1> DEFINE whole == CompleteEvent(Len(received))
<1>1. /\ pc = "conclude" /\ pc' = "close"
      /\ UNCHANGED <<ask, holders, code, wrote, got, reading, chan, final, forced, unresolved,
                     done, pending, heard, session, lost, readFailed, received, record>>
      /\ beats' = beats
  BY DEF Conclude, actor, drains, conclusion, parsed, Emit
<1>2. /\ Shape /\ Typed /\ Accounted /\ Staged /\ Understood /\ Statuses
      /\ Going
  BY <1>1 DEF IInv, StreamInv, Evidence, Ended
<1>3. admitted /\ spool = <<>> /\ out \in Plain
  BY <1>1, <1>2 DEF Staged, Shape, Going
<1>4. lead \in Plain
  <2>1. When(lost, Event("loss")) \in Plain
    BY PlainMarker DEF Kind
  <2>2. /\ StatusEvent("forced", forced) \in EventRecord
        /\ StatusEvent("forced", forced).is \notin {"complete", "exit"}
    BY <1>2 DEF StatusEvent, Event, EventRecord, Kind, Status, Exit, Statuses
  <2>3. When(forced # "none", StatusEvent("forced", forced)) \in Plain
    BY <2>2, PlainWhen
  <2> QED BY <2>1, <2>3, PlainConcat
<1>5. last \in EventRecord /\ last.is = "exit" /\ last.status = Finished
  BY <1>2 DEF StatusEvent, Event, EventRecord, Kind, Status, Exit, Statuses, Finished
<1>6. whole \in EventRecord /\ whole.is = "complete" /\ whole.n = Len(received)
  BY <1>2 DEF CompleteEvent, Event, EventRecord, Kind, Status, Shape
<1>7. /\ spool' = <<>>
      /\ out' = (out \o spool) \o ((lead \o When(Attests, whole)) \o <<last>>)
  BY <1>3 DEF Conclude, Emit, Opened
<1>8. Said' = Said /\ \A p \in Pipe : Taken(p)' = Taken(p)
  BY <1>1, <1>2, SaidStays
<1> HIDE DEF lead, last, whole
<1>9. out' = ((out \o lead) \o When(Attests, whole)) \o <<last>>
  <2>1. /\ out \in Seq(EventRecord) /\ lead \in Seq(EventRecord)
        /\ When(Attests, whole) \in Seq(EventRecord) /\ <<last>> \in Seq(EventRecord)
    BY <1>3, <1>4, <1>5, <1>6 DEF Plain, When
  <2>2. out \o spool = out
    BY <1>3, <2>1
  <2>3. lead \o When(Attests, whole) \in Seq(EventRecord)
    BY <2>1, ConcatProperties
  <2>4. out \o ((lead \o When(Attests, whole)) \o <<last>>) =
          (out \o (lead \o When(Attests, whole))) \o <<last>>
    BY <2>1, <2>3, ConcatAssociative
  <2>5. out \o (lead \o When(Attests, whole)) = (out \o lead) \o When(Attests, whole)
    BY <2>1, ConcatAssociative
  <2> QED BY <1>7, <2>2, <2>4, <2>5
<1>10. out \o lead \in Plain
  BY <1>3, <1>4, PlainConcat
<1>11. Attests \in BOOLEAN
  BY DEF Attests
<1>12. /\ out' # <<>> /\ out'[Len(out')] = last
       /\ \A i \in DOMAIN out' : out'[i].is = "exit" => i = Len(out')
       /\ \A i \in DOMAIN out' :
            out'[i].is = "complete" => i = Len(out') - 1 /\ Attests /\ out'[i] = whole
  <2> DEFINE w == When(Attests, whole)
  <2>1. Completion(w) /\ (Len(w) = 1 => Attests /\ w[1] = whole)
    BY <1>6 DEF When, Completion
  <2>2. <<last>> \in Seq(EventRecord) /\ Len(<<last>>) = 1 /\ <<last>>[1] = last
    BY <1>5
  <2> HIDE DEF w
  <2>3. \A e \in Seq(EventRecord) : Len(e) = 1 /\ e[1].is = "exit"
                                      => EndsWith(((out \o lead) \o w) \o e, w, e[1])
    BY <1>10, <2>1, LastEvents
  <2>4. EndsWith(((out \o lead) \o w) \o <<last>>, w, last)
    BY <1>5, <2>2, <2>3
  <2>5. EndsWith(out', w, last)
    BY <1>9, <2>4 DEF w
  <2> QED BY <2>1, <2>5 DEF EndsWith
<1>13. Covers(out', Len(received'))
  <2>1. Covers(Emitted, Len(received))'
    BY <1>1 DEF IInv, StreamInv, InOrder
  <2>2. Emitted' = out'
    <3>1. out' \in Seq(EventRecord)
      BY DEF IInv, StreamInv, Shape
    <3> QED BY <1>7, <3>1 DEF Emitted
  <2> QED BY <2>1, <2>2 DEF Covers, DataAt
<1>14. ~readFailed => holders = {} /\ \A p \in Pipe : Taken(p) = Len(wrote[p])
  <2>1. done = Pipe /\ pc # "over"
    BY <1>1, <1>2 DEF Staged
  <2> QED BY <1>2, <2>1, DoneIsTaken
<1>15. ask.resume => (record.phase = "completed" <=> "stop" \in Said)
  <2>1. ask.resume => ("stop" \in Said <=> heard = "completed")
    BY <1>1, <1>2 DEF Staged, Understood
  <2>2. ask.resume /\ Registered => (record.phase = "completed" <=> heard = "completed")
    BY <1>1, <1>2 DEF Staged
  <2>3. ask.resume /\ ~Registered => record.phase # "completed" /\ heard # "completed"
    BY <1>2 DEF Staged, Registered
  <2> QED BY <2>1, <2>2, <2>3
<1>16. Finished = "exit0" =>
         "bad" \notin Said /\ ~readFailed /\ (ask.resume => "stop" \in Said)
  <2> SUFFICES ASSUME Finished = "exit0"
               PROVE  "bad" \notin Said /\ ~readFailed /\ (ask.resume => "stop" \in Said)
    OBVIOUS
  <2>1. final = "exit0" /\ ~lost /\ ~unresolved
    BY DEF Finished
  <2>2. "bad" \notin Said /\ ~readFailed
    BY <1>2, <2>1 DEF Staged, Understood
  <2>3. ask.resume => Registered
    BY <1>2, <2>1 DEF Staged
  <2>4. ask.resume => heard = "completed"
    BY <1>1, <1>2, <2>1, <2>3 DEF Staged
  <2>5. ask.resume => "stop" \in Said
    BY <1>2, <2>4 DEF Understood
  <2> QED BY <2>2, <2>5
<1>17. Ended'
  <2>1. pc' \in {"close", "over"} /\ spool' = <<>>
    BY <1>1, <1>7
  <2>2. \A i \in DOMAIN out' : out'[i].is = "complete" =>
          i = Len(out') - 1 /\ out'[i].n = Len(received') /\ ~readFailed'
    BY <1>1, <1>6, <1>12 DEF Attests
  <2>3. ~readFailed' => holders' = {} /\ \A p \in Pipe : Taken(p)' = Len(wrote'[p])
    BY <1>1, <1>8, <1>14
  <2>4. ask'.resume => (record'.phase = "completed" <=> "stop" \in Said')
    BY <1>1, <1>8, <1>15
  <2>5. out'[Len(out')].status = "exit0" =>
          "bad" \notin Said' /\ ~readFailed' /\ (ask'.resume => "stop" \in Said')
    BY <1>1, <1>5, <1>8, <1>12, <1>16
  <2>6. out'[Len(out')].is = "exit"
    BY <1>5, <1>12
  <2>7. Covers(out, Len(received))'
    BY <1>13 DEF Covers, DataAt
  <2> QED BY <1>12, <2>1, <2>2, <2>3, <2>4, <2>5, <2>6, <2>7 DEF Ended
<1>18. Typed'
  BY <1>1, <1>2 DEF Typed, Location
<1>19. Accounted'
  BY <1>1, <1>2, <1>8 DEF Accounted, Occurrences, Message
<1>20. Drained'
  BY <1>1 DEF Evidence, Drained, Message
<1>21. Staged'
  <2>1. admitted'
    BY <1>3 DEF Conclude, Emit, Opened
  <2> QED BY <1>1, <1>2, <2>1 DEF Staged, Registered
<1>22. Understood'
  BY <1>1, <1>2, <1>8 DEF Understood
<1> QED BY <1>17, <1>18, <1>19, <1>20, <1>21, <1>22 DEF Evidence

\* The group is gone and the channel with it.
LEMMA DischargeKeepsEvidence ==
  ASSUME Shape, Evidence, Discharge \/ Fail
  PROVE  Evidence'
<1>1. /\ pc' = "over" /\ holders' = {} /\ chan' = <<>>
      /\ UNCHANGED <<ask, code, wrote, got, reading, final, forced, unresolved, done, pending,
                     heard, session, lost, readFailed, received, admitted, spool, out, beats,
                     record>>
  BY DEF Discharge, Fail, Discharged, drains, conclusion, parsed, stream
<1>2. Typed /\ Accounted
  BY DEF Evidence
<1>3. Said' = Said /\ \A q \in Pipe : Taken(q)' = Taken(q)
  BY <1>1, <1>2, SaidStays
<1>4. Typed'
  <2>1. chan' \in Seq(Messages) /\ Len(chan') = 0
    BY <1>1
  <2> QED BY <1>1, <1>2, <2>1, StreamAssumption DEF Typed, Location
<1>5. Accounted'
  <2> SUFFICES ASSUME NEW p \in Pipe
               PROVE  /\ got[p] <= Len(wrote[p])
                      /\ Taken(p) + Occurrences(chan', Message(p, "data")) <= got[p]
    BY <1>1, <1>3 DEF Accounted, Occurrences, Message
  <2>1. /\ Taken(p) + Occurrences(chan, Message(p, "data")) <= got[p] /\ got[p] <= Len(wrote[p])
        /\ Taken(p) \in Nat /\ Occurrences(chan, Message(p, "data")) \in Nat /\ got[p] \in Nat
    BY <1>2, TakenIsBounded DEF Accounted
  <2>2. Occurrences(chan', Message(p, "data")) = 0
    <3>1. chan' \in Seq(Messages) /\ DOMAIN chan' = {}
      BY <1>1
    <3> QED BY <3>1, OccurrencesNone
  <2> QED BY <2>1, <2>2
<1>6. Drained'
  <2>1. DOMAIN chan' = {}
    BY <1>1
  <2> QED BY <1>1, <2>1 DEF Evidence, Drained, Message
<1>7. Staged'
  BY <1>1 DEF Evidence, Staged, Registered
<1>8. Understood'
  BY <1>1, <1>3 DEF Evidence, Understood
<1>9. Going' \/ Ended'
  <2>1. CASE Going
    BY <1>1, <2>1 DEF Going
  <2>2. CASE Ended
    BY <1>1, <1>3, <2>2, EndedStays
  <2> QED BY <2>1, <2>2 DEF Evidence
<1> QED BY <1>4, <1>5, <1>6, <1>7, <1>8, <1>9 DEF Evidence

-----------------------------------------------------------------------------
(***************************************************************************)
(* Every launch                                                            *)
(***************************************************************************)

LEMMA InitHasEvidence ==
  ASSUME Init
  PROVE  Evidence
<1>1. Quiet /\ IInv
  BY InitEstablishes DEF Init
<1>2. /\ holders \subseteq Member /\ reading \subseteq Pipe /\ done \subseteq Pipe
      /\ pc \in {"top", "finish"} /\ out \in {<<Event("route")>>, <<>>}
      /\ \A p \in Pipe : p \in reading => p \notin done
      /\ \A p \in Pipe : p \notin reading => holders = {}
      /\ pc = "finish" => done = Pipe
      /\ pc = "top" => record.phase = "prepared"
      /\ record.phase # "prepared" => final = "refused"
  BY DEF Init, Spawned, Unspawned, NotSpawned, Rejected, Member
<1>3. Typed
  <2>1. wrote \in [Pipe -> Seq(Chunk)] /\ got \in [Pipe -> Nat] /\ chan \in Seq(Messages)
    BY <1>1 DEF Quiet
  <2>2. Len(chan) <= Capacity /\ beats \in 0 .. MaxBeats
    BY <1>1, StreamAssumption DEF Quiet
  <2> QED BY <1>1, <1>2, <2>1, <2>2 DEF Quiet, Typed, Location, Session
<1>4. /\ DOMAIN chan = {} /\ received \in Seq(Pipe) /\ DOMAIN received = {}
      /\ chan \in Seq(Messages)
  BY <1>1 DEF Quiet
<1>5. \A p \in Pipe : Taken(p) = 0 /\ Occurrences(chan, Message(p, "data")) = 0
  BY <1>4, TakenCounts, OccurrencesNone
<1>6. \A p \in Pipe : got[p] = 0 /\ Len(wrote[p]) = 0 /\ DOMAIN wrote[p] = {}
  BY <1>1 DEF Quiet
<1>7. Accounted
  BY <1>5, <1>6 DEF Accounted
<1>8. Drained
  BY <1>2, <1>4, <1>6 DEF Drained
<1>9. Staged
  BY <1>1, <1>2 DEF Quiet, Staged, Registered
<1>10. Understood
  <2>1. Said = {}
    BY <1>5 DEF Said, ToSet, Pipe
  <2> QED BY <1>1, <1>6, <2>1 DEF Quiet, Understood, Pipe
<1>11. Going
  <2>1. spool = <<>> /\ <<>> \in Plain
    BY <1>1 DEF Quiet, Plain
  <2>2. Event("route") \in EventRecord /\ Event("route").is = "route"
    BY DEF Event, EventRecord, Kind, Status
  <2>3. <<Event("route")>> \in Plain
    BY <2>2, PlainWhen
  <2> QED BY <1>2, <2>1, <2>3 DEF Going
<1> QED BY <1>3, <1>7, <1>8, <1>9, <1>10, <1>11 DEF Evidence

LEMMA NextKeepsEvidence ==
  ASSUME IInv, IInv', Evidence, [Next]_vars
  PROVE  Evidence'
<1> USE DEF IInv, StreamInv
<1>1. CASE Begin \/ Pass \/ Timers
  BY <1>1, WaitingPreserves
<1>2. CASE Take
  <2>1. CASE Head(chan) = Message("stdout", "data")
    <3> PICK c : c = wrote["stdout"][Taken("stdout") + 1]
      OBVIOUS
    <3>1. Head(chan).is = "data" /\ Head(chan).pipe = "stdout"
      BY <2>1 DEF Message
    <3>2. TakeStdout(c)
      BY <1>2, <3>1 DEF Take
    <3> QED BY <1>2, <2>1, <3>2, TakeStdoutKeepsEvidence
  <2>2. CASE Head(chan) # Message("stdout", "data")
    BY <1>2, <2>2, TakeOtherKeepsEvidence
  <2> QED BY <2>1, <2>2
<1>3. CASE Idle
  BY <1>3, IdlePreserves
<1>4. CASE FinishTail
  BY <1>4, FinishTailKeepsEvidence
<1>5. CASE SettleResume
  BY <1>5, SettleResumeKeepsEvidence
<1>6. CASE Conclude
  BY <1>6, ConcludeKeepsEvidence
<1>7. CASE Discharge \/ Fail
  BY <1>7, DischargeKeepsEvidence
<1>8. ASSUME NEW p \in Pipe, Drain(p) \/ DrainFails(p)
      PROVE  Evidence'
  BY <1>8, DrainPreserves
<1>9. ASSUME NEW p \in Pipe, NEW c \in Prints(p), NativeWrites(p, c)
      PROVE  Evidence'
  BY <1>9, NativeWritesPreserves
<1>10. ASSUME NEW m \in Member, LetsGo(m)
       PROVE  Evidence'
  BY <1>10, GroupShrinks DEF LetsGo, drains, conclusion, parsed, stream
<1>11. ASSUME NEW c \in Exit, ChildExits(c)
       PROVE  Evidence'
  BY <1>11, GroupShrinks DEF ChildExits, drains, conclusion, parsed, stream
<1>12. CASE UNCHANGED vars
  BY <1>12, GroupShrinks DEF vars, actor, drains, conclusion, parsed, stream
<1> QED BY <1>1, <1>2, <1>3, <1>4, <1>5, <1>6, <1>7, <1>8, <1>9, <1>10, <1>11, <1>12
        DEF Next, Supervise

\* Whatever the process group writes and whenever it ends, the loop's evidence is whole:
\* no chunk that a drain read is lost on its way to the conclusion.
THEOREM EvidenceIsKept == Spec => [](IInv /\ Evidence)
<1>1. Init => IInv /\ Evidence
  BY InitEstablishes, InitHasEvidence
<1>2. (IInv /\ Evidence) /\ [Next]_vars => (IInv /\ Evidence)'
  BY NextPreserves, NextKeepsEvidence
<1> QED BY <1>1, <1>2, PTL DEF Spec

\* Every variable of the launch has its type: the channel never holds more than its capacity,
\* the loop takes no chunk that no drain read, and what is admitted is not withheld.
THEOREM TypeCorrect == Spec => []TypeOK
<1>1. IInv /\ Evidence => TypeOK
  <2> SUFFICES ASSUME IInv, Evidence PROVE TypeOK
    OBVIOUS
  <2>1. Shape /\ Statuses /\ Typed /\ Accounted
    BY DEF IInv, StreamInv, Evidence
  <2>2. ASSUME NEW p \in Pipe
        PROVE  /\ wrote[p] \in Seq([native : Native, whole : BOOLEAN])
               /\ got[p] \in 0 .. Len(wrote[p]) /\ Taken(p) \in 0 .. got[p]
    <3>1. wrote[p] \in Seq(Chunk)
      BY <2>1 DEF Typed
    <3>2. /\ Taken(p) \in Nat /\ got[p] \in Nat /\ Len(wrote[p]) \in Nat
          /\ Taken(p) <= got[p] /\ got[p] <= Len(wrote[p])
      BY <2>1, TakenIsBounded
    <3> QED BY <3>1, <3>2 DEF Chunk
  <2> QED BY <2>1, <2>2 DEF TypeOK, Typed, Shape, Statuses, Session
<1> QED BY <1>1, EvidenceIsKept, PTL

\* The completion marker counts the data events the host received, and these are all the process
\* group wrote: nothing is left in a pipe, in the channel or in the spool, and the
\* exit follows at once (emit_output_completion).
THEOREM CompletionIsTrue == Spec => []AttestsTheWhole
<1>1. IInv /\ Evidence => AttestsTheWhole
  <2> SUFFICES ASSUME IInv, Evidence, NEW i \in Written("complete")
               PROVE  /\ out[i].n = Cardinality(Written("data"))
                      /\ \A p \in Pipe : Taken(p) = Len(wrote[p])
                      /\ Exited => i = Len(out) - 1
    BY DEF AttestsTheWhole
  <2>1. Ended
    BY DEF Evidence, Going, Plain, Written
  <2>2. out \in Seq(EventRecord) /\ received \in Seq({"stdout", "stderr"}) /\ spool = <<>>
    BY <2>1 DEF IInv, StreamInv, Shape, Ended
  <2>3. i = Len(out) - 1 /\ out[i].n = Len(received) /\ ~readFailed
    BY <2>1 DEF Ended, Written
  <2>4. Numbered(out)
    <3>1. Emitted = out
      BY <2>2 DEF Emitted
    <3> QED BY <3>1 DEF IInv, StreamInv, InOrder
  <2>5. Cardinality(DataAt(out)) = Len(received)
    <3>1. Len(received) \in Nat /\ Covers(out, Len(received))
      BY <2>1, <2>2 DEF Ended
    <3> QED BY <2>2, <2>4, <3>1, ChunksAreCounted
  <2>6. \A p \in Pipe : Taken(p) = Len(wrote[p])
    BY <2>1, <2>3 DEF Ended
  <2> QED BY <2>3, <2>5, <2>6 DEF Written, DataAt
<1> QED BY <1>1, EvidenceIsKept, PTL

\* The record and the exit status of a concluded launch say what all of the output says,
\* the late and the unfinished lines included (finish, finished_status).
THEOREM ConclusionIsTrue == Spec => []ConcludesOnAllEvidence
<1>1. IInv /\ Evidence => ConcludesOnAllEvidence
  <2> SUFFICES ASSUME Evidence, Exited
               PROVE  /\ ask.resume => (record.phase = "completed" <=> "stop" \in Said)
                      /\ out[Len(out)].status = "exit0" =>
                           /\ "bad" \notin Said /\ ~readFailed
                           /\ ask.resume => "stop" \in Said
                      /\ readFailed \/ \A p \in Pipe : Taken(p) = Len(wrote[p])
    BY DEF ConcludesOnAllEvidence
  <2>1. Ended
    BY DEF Evidence, Going, Plain, Exited, Written
  <2> QED BY <2>1 DEF Ended
<1> QED BY <1>1, EvidenceIsKept, PTL

-----------------------------------------------------------------------------
(***************************************************************************)
(* The ledger                                                              *)
(***************************************************************************)
Pendings == [head : Heads, event : Entries]
Calls == [phase : Phase, at : At, next : {None} \cup Pendings]

LedgerShape ==
  /\ file \in [Segment -> Segments] /\ head \in {None} \cup Heads
  /\ authored \in Nat /\ committed \in Seq(Entries)

CallShape == lock \in {None} \cup Call /\ call \in [Call -> Calls]

\* Only the call that holds the lock is past it.
OneWriter ==
  \A c \in Call :
    /\ lock = c <=> call[c].at # "lock"
    /\ call[c].phase = "over" => call[c].at = "lock"

\* The lines of a head end where it says, and the last one is the one it names.
Backed(h, events) ==
  /\ h.count <= Len(events)
  /\ IF h.count = 0 THEN h.sequence = 0 /\ h.last = 0 /\ h.bytes = 0
     ELSE /\ events[h.count].sequence = h.sequence
          /\ events[h.count].id = h.last
          /\ events[h.count].end = h.bytes

\* A segment ends with what its head counts.
Exact(h, segment) == ~segment.torn /\ Len(segment.events) = h.count

Headless ==
  head = None =>
    /\ committed = <<>> /\ file["alternate"].events = <<>>
    /\ \A k \in DOMAIN file["operations"].events : file["operations"].events[k].id <= authored

\* What the head says of the segment it names and of the events committed.
HeadStands ==
  head # None =>
    /\ head.bytes <= MaxBytes
    /\ Backed(head, file[head.active].events)
    /\ Len(committed) > 0 => head.count > 0 /\ head.sequence = committed[Len(committed)].sequence

\* What was appended and never named is no committed event.
TailIsNew ==
  /\ \A k \in DOMAIN committed : committed[k].id <= authored
  /\ head # None =>
       \A j \in DOMAIN file[head.active].events, k \in DOMAIN committed :
         j > head.count => file[head.active].events[j].id # committed[k].id

\* The disk.
Ledger ==
  /\ LedgerShape /\ Headless /\ HeadStands /\ TailIsNew /\ StaysBounded /\ HeadIsBacked
  /\ \A s \in Segment : LaidOut(file[s].events)

\* What a call is about to name is on the disk, and follows what was named last.
Pending(next) ==
  /\ next \in Pendings
  /\ Backed(next.head, file[next.head.active].events)
  /\ Exact(next.head, file[next.head.active])
  /\ next.head.count \in 1 .. MaxEvents /\ next.head.bytes <= MaxBytes
  /\ next.event = file[next.head.active].events[next.head.count]
  /\ next.event.sequence = head.sequence + 1 /\ next.event.prior = head.last
  /\ \A k \in DOMAIN committed : committed[k].id # next.event.id
  /\ next.event.id <= authored
  /\ next.head.count = 1 \/ (next.head.active = head.active /\ next.head.count = head.count + 1)

Progressing ==
  \A c \in Call :
    /\ call[c].at \in {"repair", "author", "publish"} => head # None
    /\ call[c].at = "author" => ~Oversized /\ Exact(head, file[head.active])
    /\ call[c].at = "publish" => ~Oversized /\ Pending(call[c].next)

LedgerIInv == Ledger /\ CallShape /\ OneWriter /\ Progressing

\* The first lines of a sequence of lines.
LEMMA PrefixOf ==
  ASSUME NEW S, NEW s \in Seq(S), NEW n \in 0 .. Len(s)
  PROVE  /\ SubSeq(s, 1, n) \in Seq(S) /\ Len(SubSeq(s, 1, n)) = n
         /\ \A k \in 1 .. n : SubSeq(s, 1, n)[k] = s[k]
<1>1. CASE n = 0
  <2>1. SubSeq(s, 1, n) = << >>
    BY <1>1, SubSeqEmpty
  <2> QED
    BY <2>1, <1>1
<1>2. CASE n # 0
  <2>1. /\ SubSeq(s, 1, n) \in Seq(S)
        /\ Len(SubSeq(s, 1, n)) = IF 1 <= n THEN n - 1 + 1 ELSE 0
        /\ \A k \in 1 .. n - 1 + 1 : SubSeq(s, 1, n)[k] = s[1 + k - 1]
    <3>1. 1 \in 1 .. Len(s) + 1 /\ n \in 1 - 1 .. Len(s)
      BY <1>2
    <3> QED
      BY <3>1, SubSeqProperties
  <2> QED
    BY <2>1, <1>2
<1> QED
  BY <1>1, <1>2

\* A segment's length is where its last line ends.
LEMMA BytesValue ==
  ASSUME NEW events \in Seq(Entries)
  PROVE  /\ Bytes(events) \in Nat
         /\ events = << >> => Bytes(events) = 0
         /\ events # << >> => Len(events) > 0 /\ Bytes(events) = events[Len(events)].end
<1>1. CASE events = << >>
  BY <1>1 DEF Bytes
<1>2. CASE events # << >>
  <2>1. Len(events) \in DOMAIN events /\ Len(events) > 0
    BY <1>2, EmptySeq
  <2>2. events[Len(events)] \in Entries
    BY <2>1, ElementOfSeq
  <2> QED
    BY <1>2, <2>1, <2>2 DEF Bytes, Last, Entries
<1> QED
  BY <1>1, <1>2

\* A segment that holds the lines of a head is at least as long as the head says; exactly
\* as long if there is nothing behind them.
LEMMA BackedBytes ==
  ASSUME NEW h \in Heads, NEW events \in Seq(Entries), LaidOut(events), Backed(h, events)
  PROVE  /\ Bytes(events) >= h.bytes
         /\ Bytes(events) <= h.bytes => Len(events) = h.count
<1>1. h.count \in Nat /\ h.bytes \in Nat
  BY DEF Heads
<1>2. CASE Len(events) = 0
  <2>1. h.count = 0 /\ h.bytes = 0
    BY <1>1, <1>2 DEF Backed
  <2>2. Bytes(events) \in Nat
    BY BytesValue
  <2> QED
    BY <2>1, <2>2, <1>2
<1>3. CASE Len(events) # 0
  <2>1. /\ Len(events) \in 1 .. Len(events) /\ DOMAIN events = 1 .. Len(events)
        /\ events # << >>
    BY <1>3
  <2>2. Bytes(events) = events[Len(events)].end
    BY <2>1, BytesValue
  <2>3. events[Len(events)].end > 0 /\ events[Len(events)].end \in Nat
    BY <2>1, <2>2, BytesValue DEF LaidOut
  <2>4. CASE h.count = 0
    BY <2>2, <2>3, <2>4, <1>1, <1>3 DEF Backed
  <2>5. CASE h.count # 0 /\ h.count = Len(events)
    BY <2>2, <2>5, <2>3 DEF Backed
  <2>6. CASE h.count # 0 /\ h.count # Len(events)
    <3>1. h.count \in 1 .. Len(events) /\ h.count < Len(events)
      BY <2>6, <1>1 DEF Backed
    <3>2. events[h.count].end < events[Len(events)].end /\ events[h.count].end = h.bytes
      BY <3>1, <2>1, <2>6 DEF LaidOut, Backed
    <3> QED
      BY <3>2, <2>2, <2>3, <1>1
  <2> QED
    BY <2>4, <2>5, <2>6
<1> QED
  BY <1>2, <1>3

\* Cutting at the committed length leaves the lines of the head.
LEMMA KeptIs ==
  ASSUME NEW h \in Heads, NEW segment \in Segments,
         LaidOut(segment.events), Backed(h, segment.events)
  PROVE  Kept(segment, h.bytes) = Lines(SubSeq(segment.events, 1, h.count))
<1> DEFINE events == segment.events
           fit == {k \in 0 .. Len(events) : Bytes(SubSeq(events, 1, k)) <= h.bytes}
           top(k) == k \in fit /\ \A other \in fit : other <= k
<1>1. h.count \in 0 .. Len(events) /\ h.bytes \in Nat /\ events \in Seq(Entries)
  BY DEF Heads, Backed, Segments
<1>2. \A k \in 0 .. Len(events) :
        Bytes(SubSeq(events, 1, k)) = IF k = 0 THEN 0 ELSE events[k].end
  <2> TAKE k \in 0 .. Len(events)
  <2>1. /\ SubSeq(events, 1, k) \in Seq(Entries) /\ Len(SubSeq(events, 1, k)) = k
        /\ \A j \in 1 .. k : SubSeq(events, 1, k)[j] = events[j]
    BY <1>1, PrefixOf
  <2>2. CASE k = 0
    BY <2>1, <2>2, EmptySeq, BytesValue
  <2>3. CASE k # 0
    <3>1. SubSeq(events, 1, k) # << >> /\ k \in 1 .. k
      BY <2>1, <2>3
    <3> QED
      BY <3>1, <2>1, <2>3, BytesValue
  <2> QED
    BY <2>2, <2>3
<1>3. Bytes(SubSeq(events, 1, h.count)) = h.bytes
  BY <1>1, <1>2 DEF Backed
<1>4. h.count \in fit
  BY <1>1, <1>3
<1>5. \A other \in fit : other <= h.count
  <2> SUFFICES ASSUME NEW other \in 0 .. Len(events), other > h.count
               PROVE  ~(Bytes(SubSeq(events, 1, other)) <= h.bytes)
    BY <1>1
  <2>1. Bytes(SubSeq(events, 1, other)) = events[other].end /\ other \in DOMAIN events
    BY <1>1, <1>2
  <2>2. events[other] \in Entries
    BY <1>1, <2>1, ElementOfSeq
  <2>3. CASE h.count = 0
    BY <2>1, <2>2, <2>3 DEF LaidOut, Backed, Entries
  <2>4. CASE h.count # 0
    <3>1. h.count \in DOMAIN events
      BY <1>1, <2>4
    <3>2. events[h.count].end < events[other].end
      BY <3>1, <2>1 DEF LaidOut
    <3>3. events[h.count].end = h.bytes
      BY <2>4 DEF Backed
    <3>4. events[other].end \in Nat
      BY <2>2 DEF Entries
    <3> QED
      BY <3>2, <3>3, <3>4, <2>1, <1>1
  <2> QED
    BY <2>3, <2>4
<1>6. \A k \in fit : (\A other \in fit : other <= k) => k = h.count
  BY <1>1, <1>4, <1>5
<1>7. (CHOOSE k \in fit : \A other \in fit : other <= k) = h.count
  <2> HIDE DEF fit
  <2> QED
    BY <1>4, <1>5, <1>6
<1> QED
  BY <1>7, <1>3 DEF Kept, Lines

\* What a repair leaves of a segment that holds the lines of the head.
LEMMA RepairedIs ==
  ASSUME NEW h \in Heads, NEW segment \in Segments,
         LaidOut(segment.events), Backed(h, segment.events)
  PROVE  /\ Repaired(segment, h.bytes) \in Segments
         /\ Exact(h, Repaired(segment, h.bytes))
         /\ \A k \in 1 .. h.count : Repaired(segment, h.bytes).events[k] = segment.events[k]
<1>1. h.count \in 0 .. Len(segment.events) /\ h.bytes \in Nat /\ segment.events \in Seq(Entries)
  BY DEF Heads, Backed, Segments
<1>2. CASE Bytes(segment.events) > h.bytes \/ segment.torn
  <2>1. Repaired(segment, h.bytes) = Lines(SubSeq(segment.events, 1, h.count))
    BY <1>2, KeptIs DEF Repaired
  <2>2. /\ SubSeq(segment.events, 1, h.count) \in Seq(Entries)
        /\ Len(SubSeq(segment.events, 1, h.count)) = h.count
        /\ \A k \in 1 .. h.count : SubSeq(segment.events, 1, h.count)[k] = segment.events[k]
    BY <1>1, PrefixOf
  <2> QED
    BY <2>1, <2>2 DEF Lines, Segments, Exact
<1>3. CASE ~(Bytes(segment.events) > h.bytes \/ segment.torn)
  <2>1. Repaired(segment, h.bytes) = segment /\ ~segment.torn
    BY <1>3 DEF Repaired
  <2>2. Len(segment.events) = h.count
    BY <1>1, <1>3, BytesValue, BackedBytes
  <2> QED
    BY <2>1, <2>2 DEF Exact
<1> QED
  BY <1>2, <1>3

\* The length of a repaired segment: it is laid out still and no longer than it was.
LEMMA PrefixLaidOut ==
  ASSUME NEW events \in Seq(Entries), NEW kept \in Seq(Entries),
         LaidOut(events), Len(kept) <= Len(events), \A k \in 1 .. Len(kept) : kept[k] = events[k]
  PROVE  LaidOut(kept) /\ Bytes(kept) <= Bytes(events)
<1>1. LaidOut(kept)
  BY DEF LaidOut
<1>2. CASE kept = << >>
  <2>1. Bytes(kept) = 0 /\ Bytes(events) \in Nat
    BY <1>2, BytesValue
  <2> QED
    BY <1>1, <2>1
<1>3. CASE kept # << >>
  <2> SUFFICES Bytes(kept) <= Bytes(events)
    BY <1>1
  <2>1. /\ Len(kept) > 0 /\ Bytes(kept) = kept[Len(kept)].end
        /\ Bytes(kept) \in Nat /\ Bytes(events) \in Nat
    BY <1>3, BytesValue
  <2>2. events # << >> /\ Len(kept) \in DOMAIN events /\ Len(events) \in DOMAIN events
    BY <2>1
  <2>3. Bytes(events) = events[Len(events)].end
    BY <2>2, BytesValue
  <2>4. kept[Len(kept)] = events[Len(kept)]
    BY <2>1
  <2>5. CASE Len(kept) = Len(events)
    BY <2>1, <2>3, <2>4, <2>5
  <2>6. CASE Len(kept) # Len(events)
    <3>1. Len(kept) < Len(events)
      BY <2>6
    <3>2. events[Len(kept)].end < events[Len(events)].end
      BY <3>1, <2>2 DEF LaidOut
    <3> QED
      BY <3>2, <2>1, <2>3, <2>4
  <2> QED
    BY <2>5, <2>6
<1> QED
  BY <1>1, <1>2, <1>3

\* A line that ends behind all others may follow them.
LEMMA AppendedLaidOut ==
  ASSUME NEW events \in Seq(Entries), NEW event \in Entries, LaidOut(events),
         event.end > Bytes(events)
  PROVE  LaidOut(Append(events, event)) /\ Bytes(Append(events, event)) = event.end
<1> DEFINE longer == Append(events, event)
<1>1. /\ longer \in Seq(Entries) /\ Len(longer) = Len(events) + 1
      /\ \A k \in 1 .. Len(events) : longer[k] = events[k]
      /\ longer[Len(events) + 1] = event
  BY AppendProperties
<1>2. Bytes(longer) = event.end
  <2>1. longer # << >>
    BY <1>1
  <2> QED
    BY <1>1, <2>1, BytesValue
<1>3. \A k \in 1 .. Len(events) : events[k].end <= Bytes(events)
  <2> TAKE k \in 1 .. Len(events)
  <2>1. events # << >> /\ Len(events) \in DOMAIN events /\ k \in DOMAIN events
    OBVIOUS
  <2>2. Bytes(events) = events[Len(events)].end /\ Bytes(events) \in Nat
    BY <2>1, BytesValue
  <2>3. events[k] \in Entries
    BY <2>1, ElementOfSeq
  <2> QED
    <3>1. CASE k = Len(events)
      BY <3>1, <2>2
    <3>2. CASE k # Len(events)
      <4>1. events[k].end < events[Len(events)].end
        BY <3>2, <2>1 DEF LaidOut
      <4>2. events[k].end \in Nat
        BY <2>3 DEF Entries
      <4> QED
        BY <4>1, <4>2, <2>2
    <3> QED
      BY <3>1, <3>2
<1>4. \A k \in DOMAIN longer : longer[k].end > 0
  <2>1. Bytes(events) \in Nat /\ event.end \in Nat
    BY BytesValue DEF Entries
  <2> QED
    BY <1>1, <2>1 DEF LaidOut
<1>5. \A j, k \in DOMAIN longer : j < k => longer[j].end < longer[k].end
  <2> SUFFICES ASSUME NEW j \in DOMAIN longer, NEW k \in DOMAIN longer, j < k
               PROVE  longer[j].end < longer[k].end
    OBVIOUS
  <2>1. j \in 1 .. Len(events) /\ longer[j] = events[j] /\ events[j] \in Entries
    BY <1>1, ElementOfSeq
  <2>2. CASE k \in 1 .. Len(events)
    BY <2>1, <2>2, <1>1 DEF LaidOut
  <2>3. CASE k = Len(events) + 1
    <3>1. longer[j].end <= Bytes(events) /\ longer[k].end = event.end
      BY <2>1, <2>3, <1>1, <1>3
    <3>2. longer[j].end \in Nat /\ event.end \in Nat /\ Bytes(events) \in Nat
      BY <2>1, BytesValue DEF Entries
    <3> QED
      BY <3>1, <3>2
  <2> QED
    BY <2>2, <2>3, <1>1
<1> QED
  BY <1>2, <1>4, <1>5 DEF LaidOut

\* Every ledger a predecessor may have left starts well.
LEMMA LedgerStarts == LedgerInit => LedgerIInv
<1> SUFFICES ASSUME LedgerInit PROVE LedgerIInv
  OBVIOUS
<1> USE LedgerConstantsOK
<1>1. PICK l \in Legacy : file = [s \in Segment |-> IF s = "operations" THEN l ELSE Lines(<< >>)]
  BY DEF LedgerInit
<1>2. /\ l \in Segments /\ LaidOut(l.events) /\ l.events \in Seq(Entries)
      /\ \A k \in DOMAIN l.events : l.events[k].id <= Len(l.events)
  BY DEF Segments
<1>3. /\ file["operations"] = l /\ file["alternate"] = Lines(<< >>)
      /\ file \in [Segment -> Segments] /\ file["alternate"].events = << >>
  BY <1>1, <1>2 DEF Segment, Lines, Segments
<1>4. head = None /\ lock = None /\ committed = << >> /\ authored = Len(l.events)
  BY <1>3 DEF LedgerInit
<1>5. Ledger
  <2>1. LedgerShape
    BY <1>2, <1>3, <1>4 DEF LedgerShape
  <2>2. Headless
    BY <1>2, <1>3, <1>4 DEF Headless
  <2>3. HeadStands /\ TailIsNew /\ StaysBounded /\ HeadIsBacked
    BY <1>4 DEF HeadStands, TailIsNew, StaysBounded, HeadIsBacked
  <2>4. \A s \in Segment : LaidOut(file[s].events)
    BY <1>2, <1>3 DEF Segment, LaidOut
  <2> QED
    BY <2>1, <2>2, <2>3, <2>4 DEF Ledger
<1>6. call = [c \in Call |-> [phase |-> "started", at |-> "lock", next |-> None]]
  BY DEF LedgerInit
<1>7. CallShape
  BY <1>4, <1>6 DEF CallShape, Calls, Phase, At
<1>8. OneWriter /\ Progressing
  BY <1>4, <1>6 DEF OneWriter, Progressing
<1> QED
  BY <1>5, <1>7, <1>8 DEF LedgerIInv

\* What only moves calls, and none towards the ledger, leaves it as it is.
LEMMA LedgerUntouched ==
  ASSUME LedgerIInv, UNCHANGED <<file, head, authored, committed>>, CallShape', OneWriter',
         \A d \in Call : call'[d] = call[d] \/ call'[d].at \in {"lock", "open"}
  PROVE  LedgerIInv'
<1>1. Ledger'
  BY DEF LedgerIInv, Ledger, LedgerShape, Headless, HeadStands, TailIsNew, StaysBounded,
         Oversized, HeadIsBacked
<1>2. Progressing'
  <2> SUFFICES ASSUME NEW d \in Call, call'[d] = call[d]
               PROVE  /\ call'[d].at \in {"repair", "author", "publish"} => head' # None
                      /\ call'[d].at = "author" => ~Oversized' /\ Exact(head', file'[head'.active])
                      /\ call'[d].at = "publish" => ~Oversized' /\ Pending(call[d].next)'
    BY DEF Progressing
  <2>1. /\ call[d].at \in {"repair", "author", "publish"} => head # None
        /\ call[d].at = "author" => ~Oversized /\ Exact(head, file[head.active])
        /\ call[d].at = "publish" => ~Oversized /\ Pending(call[d].next)
    BY DEF LedgerIInv, Progressing
  <2> QED
    BY <2>1 DEF Oversized, Exact, Pending, Backed
<1> QED
  BY <1>1, <1>2 DEF LedgerIInv

\* A call that goes on gives the lock back.
LEMMA GoesOn ==
  ASSUME NEW c \in Call, CallShape, OneWriter, NEW after \in Phase,
         call' = [call EXCEPT ![c] = [phase |-> after, at |-> "lock", next |-> None]],
         lock' = IF lock = c THEN None ELSE lock
  PROVE  /\ CallShape' /\ OneWriter'
         /\ \A d \in Call : call'[d] = call[d] \/ call'[d].at \in {"lock", "open"}
         /\ \A d \in Call \ {c} : call'[d] = call[d]
         /\ call'[c].at = "lock"
<1> USE LedgerConstantsOK
<1>1. /\ \A d \in Call \ {c} : call'[d] = call[d]
      /\ call'[c] = [phase |-> after, at |-> "lock", next |-> None]
      /\ call' \in [Call -> Calls]
  BY DEF CallShape, Calls, At
<1>2. OneWriter'
  BY <1>1 DEF OneWriter, CallShape
<1> QED
  BY <1>1, <1>2 DEF CallShape

\* So does one that goes on because it was busy, refused or failed.
LEMMA GoOnReleases ==
  ASSUME NEW c \in Call, CallShape, OneWriter, GoOn(c)
  PROVE  /\ CallShape' /\ OneWriter'
         /\ \A d \in Call : call'[d] = call[d] \/ call'[d].at \in {"lock", "open"}
         /\ \A d \in Call \ {c} : call'[d] = call[d]
         /\ call'[c].at = "lock"
<1> DEFINE after == IF call[c].phase = "started" THEN "completed" ELSE "over"
<1>1. after \in Phase
  BY DEF Phase
<1>2. /\ call' = [call EXCEPT ![c] = [phase |-> after, at |-> "lock", next |-> None]]
      /\ lock' = IF lock = c THEN None ELSE lock
  BY DEF GoOn, CallShape
<1> HIDE DEF after
<1> QED
  BY <1>1, <1>2, GoesOn

\* Taking the lock.
LEMMA AcquireKeeps ==
  ASSUME LedgerIInv, NEW c \in Call, Acquire(c)
  PROVE  LedgerIInv'
<1> USE LedgerConstantsOK DEF LedgerIInv
<1>1. /\ \A d \in Call \ {c} : call'[d] = call[d]
      /\ call'[c].at = "open" /\ call'[c].phase = call[c].phase /\ call[c].phase # "over"
      /\ call' \in [Call -> Calls]
  BY DEF Acquire, To, On, CallShape, Calls, At
<1>2. lock = None /\ lock' = c
  BY DEF Acquire
<1>3. OneWriter'
  BY <1>1, <1>2 DEF OneWriter
<1>4. CallShape'
  BY <1>1, <1>2 DEF CallShape
<1>5. UNCHANGED <<file, head, authored, committed>>
  BY DEF Acquire
<1>6. \A d \in Call : call'[d] = call[d] \/ call'[d].at \in {"lock", "open"}
  BY <1>1
<1> QED
  BY <1>3, <1>4, <1>5, <1>6, LedgerUntouched

\* Going on without evidence.
LEMMA SkipKeeps ==
  ASSUME LedgerIInv, NEW c \in Call, Skip(c) \/ Refuse(c) \/ GiveUp(c)
  PROVE  LedgerIInv'
<1>1. GoOn(c) /\ UNCHANGED <<file, head, authored, committed>>
  BY DEF Skip, Refuse, GiveUp
<1> QED
  BY <1>1, GoOnReleases, LedgerUntouched DEF LedgerIInv

\* Dying at any point.
LEMMA DieKeeps ==
  ASSUME LedgerIInv, NEW c \in Call, Die(c)
  PROVE  LedgerIInv'
<1>1. /\ call' = [call EXCEPT ![c] = [phase |-> "over", at |-> "lock", next |-> None]]
      /\ lock' = IF lock = c THEN None ELSE lock
      /\ UNCHANGED <<file, head, authored, committed>>
  BY DEF Die
<1>2. "over" \in Phase
  BY DEF Phase
<1> QED
  BY <1>1, <1>2, GoesOn, LedgerUntouched DEF LedgerIInv

\* A step of the call that holds the lock.
LEMMA Alone ==
  ASSUME LedgerIInv, NEW c \in Call, call[c].at # "lock",
         \A d \in Call \ {c} : call'[d] = call[d],
         /\ call'[c].at \in {"repair", "author", "publish"} => head' # None
         /\ call'[c].at = "author" => ~Oversized' /\ Exact(head', file'[head'.active])
         /\ call'[c].at = "publish" => ~Oversized' /\ Pending(call[c].next)'
  PROVE  Progressing'
<1>1. \A d \in Call \ {c} : call'[d].at = "lock"
  BY DEF LedgerIInv, OneWriter
<1> SUFFICES ASSUME NEW d \in Call
             PROVE  /\ call'[d].at \in {"repair", "author", "publish"} => head' # None
                    /\ call'[d].at = "author" => ~Oversized' /\ Exact(head', file'[head'.active])
                    /\ call'[d].at = "publish" => ~Oversized' /\ Pending(call[d].next)'
  BY DEF Progressing
<1>2. CASE d = c
  BY <1>2
<1>3. CASE d # c
  BY <1>1, <1>3
<1> QED
  BY <1>2, <1>3

\* A call that moves on keeps the lock.
LEMMA Moves ==
  ASSUME NEW c \in Call, CallShape, OneWriter, NEW at \in At \ {"lock"}, On(c, at),
         NEW to \in At \ {"lock"}, To(c, to), UNCHANGED lock
  PROVE  /\ CallShape' /\ OneWriter' /\ call[c].at # "lock" /\ call'[c].at = to
         /\ \A d \in Call \ {c} : call'[d] = call[d]
<1>1. /\ \A d \in Call \ {c} : call'[d] = call[d]
      /\ call'[c].at = to /\ call'[c].phase = call[c].phase /\ call[c].phase # "over"
      /\ call' \in [Call -> Calls]
  BY DEF To, On, CallShape, Calls
<1>2. OneWriter'
  BY <1>1 DEF OneWriter, On
<1> QED
  BY <1>1, <1>2 DEF CallShape, On

\* What is known of a head and the segment it names.
LEMMA HeadFacts ==
  ASSUME Ledger, head # None
  PROVE  /\ head \in Heads /\ head.active \in Segment /\ head.count \in Nat
         /\ head.bytes \in Nat /\ head.sequence \in Nat /\ head.last \in Nat
         /\ file[head.active] \in Segments /\ file[head.active].events \in Seq(Entries)
         /\ LaidOut(file[head.active].events) /\ Backed(head, file[head.active].events)
  BY DEF Ledger, LedgerShape, HeadStands, Heads, Segments

\* Reading the head, or writing the first one for the ledger that is there.
LEMMA OpenKeeps ==
  ASSUME LedgerIInv, NEW c \in Call, Open(c)
  PROVE  LedgerIInv'
<1> USE LedgerConstantsOK
<1>1. /\ CallShape' /\ OneWriter' /\ call[c].at # "lock" /\ call'[c].at = "repair"
      /\ \A d \in Call \ {c} : call'[d] = call[d]
  <2>1. On(c, "open") /\ To(c, "repair") /\ UNCHANGED lock
    BY DEF Open
  <2>2. "open" \in At \ {"lock"} /\ "repair" \in At \ {"lock"}
    BY DEF At
  <2> QED
    BY <2>1, <2>2, Moves DEF LedgerIInv
<1>2. Ledger' /\ head' # None
  <2>1. CASE head # None
    <3>1. UNCHANGED <<file, head, authored, committed>>
      BY <2>1 DEF Open
    <3> QED
      BY <2>1, <3>1 DEF LedgerIInv, Ledger, LedgerShape, Headless, HeadStands, TailIsNew,
                       StaysBounded, Oversized, HeadIsBacked, StandsOn
  <2>2. CASE head = None
    <3> DEFINE segment == file["operations"]
               events == segment.events
               n == Len(events)
    <3>1. /\ UNCHANGED <<file, authored>> /\ Valid(segment)
          /\ head' = Initial /\ committed' = events
      BY <2>2 DEF Open
    <3>2. /\ segment \in Segments /\ events \in Seq(Entries) /\ n \in Nat
          /\ LaidOut(events) /\ file \in [Segment -> Segments]
          /\ file["alternate"].events = << >> /\ authored \in Nat
          /\ \A k \in DOMAIN events : events[k].id <= authored
      BY <2>2 DEF LedgerIInv, Ledger, LedgerShape, Headless, Segment, Segments
    <3>3. /\ Chained(events) /\ Bytes(events) <= MaxBytes
      BY <3>1 DEF Valid
    <3>4. /\ head' \in Heads /\ head'.active = "operations" /\ head'.count = n
          /\ head'.bytes = Bytes(events) /\ Backed(head', events)
          /\ n > 0 => head'.sequence = events[n].sequence /\ head'.last = events[n].id
      <4>1. CASE n = 0
        <5>1. head' = LedgerHead("operations", 0, 0, 0, 0)
          BY <3>1, <4>1 DEF Initial
        <5>2. Bytes(events) = 0
          BY <3>2, <4>1, EmptySeq, BytesValue
        <5> QED
          BY <5>1, <5>2, <4>1 DEF LedgerHead, Heads, Segment, Backed
      <4>2. CASE n # 0
        <5>1. head' = LedgerHead("operations", events[n].sequence, events[n].id, n, Bytes(events))
          BY <3>1, <4>2 DEF Initial
        <5>2. events[n] \in Entries
          BY <3>2, <4>2, ElementOfSeq
        <5>3. events # << >> /\ Bytes(events) = events[n].end /\ Bytes(events) \in Nat
          BY <3>2, <4>2, BytesValue
        <5> QED
          BY <5>1, <5>2, <5>3, <3>2, <4>2 DEF LedgerHead, Heads, Segment, Backed, Entries
      <4> QED
        BY <4>1, <4>2
    <3>5. head' # None
      BY <3>4
    <3>6. file'[head'.active].events = events
      BY <3>1, <3>4
    <3>7. LedgerShape'
      BY <3>1, <3>2, <3>4 DEF LedgerShape
    <3>8. Headless' /\ HeadStands'
      BY <3>1, <3>2, <3>3, <3>4, <3>5, <3>6 DEF Headless, HeadStands
    <3>9. TailIsNew'
      BY <3>1, <3>2, <3>4, <3>6 DEF TailIsNew
    <3>10. StaysBounded'
      <4>1. Bytes(file["alternate"].events) = 0 /\ Len(file["alternate"].events) = 0
        BY <3>2, EmptySeq DEF Bytes
      <4> QED
        BY <3>1, <3>2, <3>3, <3>4, <4>1 DEF StaysBounded, Oversized, Segment
    <3>11. HeadIsBacked'
      <4>1. /\ Chained(committed') /\ Len(committed') = n
            /\ head'.count = n /\ file'[head'.active].events = events
            /\ n > 0 => head'.last = committed'[n].id
            /\ \A k \in 1 .. n : events[k] = committed'[n - n + k]
        BY <3>1, <3>2, <3>3, <3>4, <3>6
      <4> QED
        BY <4>1, <3>2 DEF HeadIsBacked, StandsOn
    <3>12. \A s \in Segment : LaidOut(file'[s].events)
      BY <3>1 DEF LedgerIInv, Ledger
    <3> QED
      BY <3>5, <3>7, <3>8, <3>9, <3>10, <3>11, <3>12 DEF Ledger
  <2> QED
    BY <2>1, <2>2
<1>3. Progressing'
  BY <1>1, <1>2, Alone
<1> QED
  BY <1>1, <1>2, <1>3 DEF LedgerIInv

\* The disk after a step that leaves the lines of the head, the head and what was
\* committed.
LEMMA SegmentReplaced ==
  ASSUME Ledger, head # None, NEW s \in Segment, NEW segment \in Segments,
         file' = [file EXCEPT ![s] = segment], UNCHANGED <<head, committed>>,
         authored' \in Nat, authored' >= authored,
         LaidOut(segment.events),
         ~Oversized => Bytes(segment.events) <= MaxBytes /\ Len(segment.events) <= MaxEvents,
         s = head.active =>
           /\ head.count <= Len(segment.events)
           /\ \A k \in 1 .. head.count : segment.events[k] = file[s].events[k]
           /\ \A j \in DOMAIN segment.events, k \in DOMAIN committed :
                j > head.count => segment.events[j].id # committed[k].id
  PROVE  Ledger' /\ head' # None
<1>1. /\ file \in [Segment -> Segments] /\ file' \in [Segment -> Segments]
      /\ file'[s] = segment /\ \A t \in Segment \ {s} : file'[t] = file[t]
      /\ head' = head /\ committed' = committed
  BY DEF Ledger, LedgerShape
<1>2. /\ head.active \in Segment /\ head.count \in Nat /\ Backed(head, file[head.active].events)
  BY HeadFacts
<1> DEFINE old == file[head.active].events
           new == file'[head.active].events
<1>3. /\ head.count <= Len(new) /\ \A k \in 1 .. head.count : new[k] = old[k]
      /\ \A j \in DOMAIN new, k \in DOMAIN committed :
           j > head.count => new[j].id # committed[k].id
  <2>1. CASE s = head.active
    BY <1>1, <2>1
  <2>2. CASE s # head.active
    <3>1. new = old
      BY <1>1, <1>2, <2>2
    <3>2. head.count <= Len(old)
      BY <1>2 DEF Backed
    <3> QED
      BY <3>1, <3>2 DEF Ledger, TailIsNew
  <2> QED
    BY <2>1, <2>2
<1>4. LedgerShape' /\ Headless' /\ head' # None
  BY <1>1 DEF Ledger, LedgerShape, Headless
<1>5. HeadStands'
  <2>1. Backed(head, new)
    <3>1. head.count # 0 => head.count \in 1 .. head.count
      BY <1>2
    <3> QED
      BY <1>2, <1>3, <3>1 DEF Backed
  <2> QED
    BY <2>1, <1>1 DEF Ledger, HeadStands
<1>6. TailIsNew'
  <2>1. \A k \in DOMAIN committed : committed[k].id <= authored'
    <3> TAKE k \in DOMAIN committed
    <3>1. committed[k].id \in Nat /\ committed[k].id <= authored /\ authored \in Nat
      <4>1. committed[k] \in Entries
        BY ElementOfSeq DEF Ledger, LedgerShape
      <4> QED
        BY <4>1 DEF Ledger, LedgerShape, TailIsNew, Entries
    <3> QED
      BY <3>1
  <2> QED
    BY <1>1, <1>3, <2>1 DEF TailIsNew
<1>7. StaysBounded'
  BY <1>1 DEF Ledger, StaysBounded, Oversized
<1>8. HeadIsBacked'
  <2>1. \A k \in 1 .. head.count : new[k] = committed[Len(committed) - head.count + k]
    BY <1>3 DEF Ledger, HeadIsBacked, StandsOn
  <2> QED
    BY <1>1, <1>3, <2>1 DEF Ledger, HeadIsBacked, StandsOn
<1>9. \A t \in Segment : LaidOut(file'[t].events)
  BY <1>1 DEF Ledger
<1> QED
  BY <1>4, <1>5, <1>6, <1>7, <1>8, <1>9 DEF Ledger

\* The repair cuts exactly what is behind the head.
LEMMA RepairKeeps ==
  ASSUME LedgerIInv, NEW c \in Call, Repair(c)
  PROVE  LedgerIInv'
<1> USE LedgerConstantsOK
<1>1. /\ CallShape' /\ OneWriter' /\ call[c].at # "lock" /\ call'[c].at = "author"
      /\ \A d \in Call \ {c} : call'[d] = call[d]
  <2>1. On(c, "repair") /\ To(c, "author") /\ UNCHANGED lock
    BY DEF Repair
  <2>2. "repair" \in At \ {"lock"} /\ "author" \in At \ {"lock"}
    BY DEF At
  <2> QED
    BY <2>1, <2>2, Moves DEF LedgerIInv
<1>2. head # None
  BY DEF LedgerIInv, Progressing, Repair, On
<1> DEFINE old == file[head.active]
           new == Repaired(old, head.bytes)
<1>3. /\ head \in Heads /\ head.active \in Segment /\ head.count \in Nat
      /\ old \in Segments /\ old.events \in Seq(Entries)
      /\ LaidOut(old.events) /\ Backed(head, old.events)
  BY <1>2, HeadFacts DEF LedgerIInv
<1>4. /\ new \in Segments /\ Exact(head, new)
      /\ \A k \in 1 .. head.count : new.events[k] = old.events[k]
  BY <1>3, RepairedIs
<1>5. /\ file' = [file EXCEPT ![head.active] = new]
      /\ UNCHANGED <<head, authored, committed>>
  BY DEF Repair
<1> HIDE DEF new
<1>6. new.events \in Seq(Entries) /\ Len(new.events) = head.count
  BY <1>4 DEF Segments, Exact
<1>7. Len(new.events) <= Len(old.events)
  BY <1>3, <1>6 DEF Backed
<1>8. LaidOut(new.events) /\ Bytes(new.events) <= Bytes(old.events)
  BY <1>3, <1>4, <1>6, <1>7, PrefixLaidOut
<1>9. ~Oversized
  BY <1>3 DEF Repair, Admissible, Consistent, Oversized
<1>10. Bytes(new.events) <= MaxBytes /\ Len(new.events) <= MaxEvents
  <2>1. Bytes(old.events) <= MaxBytes /\ Len(old.events) <= MaxEvents
    BY <1>2, <1>3, <1>9 DEF LedgerIInv, Ledger, StaysBounded
  <2>2. Bytes(old.events) \in Nat /\ Bytes(new.events) \in Nat
    BY <1>3, <1>6, BytesValue
  <2> QED
    BY <2>1, <2>2, <1>3, <1>6, <1>7, <1>8
<1>11. Ledger' /\ head' # None
  <2>1. \A j \in DOMAIN new.events : ~(j > head.count)
    BY <1>6, <1>3
  <2>2. authored' \in Nat /\ authored' >= authored
    BY <1>5 DEF LedgerIInv, Ledger, LedgerShape
  <2>3. head.count <= Len(new.events)
    BY <1>6, <1>3
  <2> QED
    BY <1>2, <1>3, <1>4, <1>5, <1>8, <1>10, <2>1, <2>2, <2>3, SegmentReplaced DEF LedgerIInv
<1>12. Exact(head', file'[head'.active]) /\ ~Oversized'
  BY <1>3, <1>4, <1>5, <1>9 DEF LedgerIInv, Ledger, LedgerShape, Oversized
<1>13. Progressing'
  BY <1>1, <1>11, <1>12, Alone
<1> QED
  BY <1>1, <1>11, <1>13 DEF LedgerIInv

\* An append that is cut short leaves the lines of the head.
LEMMA TearKeeps ==
  ASSUME LedgerIInv, NEW c \in Call, NEW size \in Size, Tear(c, size)
  PROVE  LedgerIInv'
<1> USE LedgerConstantsOK
<1>1. /\ CallShape' /\ OneWriter' /\ call'[c].at = "lock" /\ call[c].at = "author"
      /\ \A d \in Call \ {c} : call'[d] = call[d]
  BY GoOnReleases DEF LedgerIInv, Tear, On
<1>2. head # None
  BY <1>1 DEF LedgerIInv, Progressing
<1> DEFINE old == file[head.active]
           new == [old EXCEPT !.torn = TRUE]
<1>3. /\ head.active \in Segment /\ head.count \in Nat /\ file \in [Segment -> Segments]
      /\ old \in Segments /\ LaidOut(old.events) /\ Backed(head, old.events)
  BY <1>2, HeadFacts DEF LedgerIInv, Ledger, LedgerShape
<1>4. new \in Segments /\ new.events = old.events
  BY <1>3 DEF Segments
<1>5. /\ file' = [file EXCEPT ![head.active] = new]
      /\ UNCHANGED <<head, authored, committed>>
  BY <1>3 DEF Tear
<1> HIDE DEF new
<1>6. Ledger' /\ head' # None
  <2>1. ~Oversized => Bytes(new.events) <= MaxBytes /\ Len(new.events) <= MaxEvents
    BY <1>2, <1>3, <1>4 DEF LedgerIInv, Ledger, StaysBounded
  <2>2. authored' \in Nat /\ authored' >= authored
    BY <1>5 DEF LedgerIInv, Ledger, LedgerShape
  <2>3. \A j \in DOMAIN new.events, k \in DOMAIN committed :
          j > head.count => new.events[j].id # committed[k].id
    BY <1>2, <1>4 DEF LedgerIInv, Ledger, TailIsNew
  <2>4. head.count <= Len(new.events)
    BY <1>3, <1>4 DEF Backed
  <2> QED
    BY <1>2, <1>3, <1>4, <1>5, <2>1, <2>2, <2>3, <2>4, SegmentReplaced DEF LedgerIInv
<1>7. Progressing'
  BY <1>1, <1>6, Alone
<1> QED
  BY <1>1, <1>6, <1>7 DEF LedgerIInv

\* A segment with nothing behind its head is as long as the head says.
LEMMA ExactBytes ==
  ASSUME NEW h \in Heads, NEW segment \in Segments, Backed(h, segment.events), Exact(h, segment)
  PROVE  Bytes(segment.events) = h.bytes
<1>1. /\ segment.events \in Seq(Entries) /\ h.count \in Nat /\ h.bytes \in Nat
      /\ Len(segment.events) = h.count
  BY DEF Segments, Heads, Exact
<1>2. CASE h.count = 0
  BY <1>1, <1>2, EmptySeq, BytesValue DEF Backed
<1>3. CASE h.count # 0
  <2>1. segment.events # << >>
    BY <1>1, <1>3
  <2> QED
    BY <1>1, <1>3, <2>1, BytesValue DEF Backed
<1> QED
  BY <1>2, <1>3

\* A call that authors an event found the head's segment repaired.
LEMMA AuthorFacts ==
  ASSUME LedgerIInv, NEW c \in Call, On(c, "author")
  PROVE  /\ head # None /\ head \in Heads /\ head.active \in Segment
         /\ head.count \in 0 .. MaxEvents /\ head.bytes \in 0 .. MaxBytes
         /\ head.sequence \in Nat /\ head.last \in Nat
         /\ file \in [Segment -> Segments] /\ file[head.active].events \in Seq(Entries)
         /\ LaidOut(file[head.active].events) /\ Backed(head, file[head.active].events)
         /\ ~file[head.active].torn /\ Len(file[head.active].events) = head.count
         /\ Bytes(file[head.active].events) = head.bytes
         /\ authored \in Nat
         /\ \A k \in DOMAIN committed : committed[k].id \in Nat /\ committed[k].id <= authored
<1> USE LedgerConstantsOK
<1>1. head # None /\ ~Oversized /\ Exact(head, file[head.active])
  BY DEF LedgerIInv, Progressing, On
<1>2. /\ head \in Heads /\ head.active \in Segment /\ head.count \in Nat
      /\ head.bytes \in Nat /\ head.sequence \in Nat /\ head.last \in Nat
      /\ file[head.active] \in Segments /\ file[head.active].events \in Seq(Entries)
      /\ LaidOut(file[head.active].events) /\ Backed(head, file[head.active].events)
  BY <1>1, HeadFacts DEF LedgerIInv
<1>3. head.count \in 0 .. MaxEvents /\ head.bytes \in 0 .. MaxBytes
  BY <1>1, <1>2 DEF Oversized, LedgerIInv, Ledger, HeadStands
<1>4. Bytes(file[head.active].events) = head.bytes
  BY <1>1, <1>2, ExactBytes
<1>5. file \in [Segment -> Segments] /\ authored \in Nat
  BY DEF LedgerIInv, Ledger, LedgerShape
<1>6. \A k \in DOMAIN committed : committed[k].id \in Nat /\ committed[k].id <= authored
  <2> TAKE k \in DOMAIN committed
  <2>1. committed[k] \in Entries
    BY ElementOfSeq DEF LedgerIInv, Ledger, LedgerShape
  <2> QED
    BY <2>1 DEF LedgerIInv, Ledger, TailIsNew, Entries
<1> QED
  BY <1>1, <1>2, <1>3, <1>4, <1>5, <1>6 DEF Exact

\* A call that has something to name keeps the lock.
LEMMA Prepares ==
  ASSUME NEW c \in Call, CallShape, OneWriter, On(c, "author"), NEW next \in Pendings,
         call' = [call EXCEPT ![c].at = "publish", ![c].next = next], UNCHANGED lock
  PROVE  /\ CallShape' /\ OneWriter' /\ call[c].at # "lock"
         /\ call'[c].at = "publish" /\ call'[c].next = next
         /\ \A d \in Call \ {c} : call'[d] = call[d]
<1>1. /\ \A d \in Call \ {c} : call'[d] = call[d]
      /\ call'[c].at = "publish" /\ call'[c].phase = call[c].phase /\ call[c].phase # "over"
      /\ call'[c].next = next /\ call' \in [Call -> Calls]
  BY DEF On, CallShape, Calls, At
<1>2. OneWriter'
  BY <1>1 DEF OneWriter, On
<1> QED
  BY <1>1, <1>2 DEF CallShape, On

\* An append lays out the line the next head will count.
LEMMA AppendEventKeeps ==
  ASSUME LedgerIInv, NEW c \in Call, NEW size \in Size, AppendEvent(c, size)
  PROVE  LedgerIInv'
<1> USE LedgerConstantsOK
<1> DEFINE old == file[head.active]
<1>1. On(c, "author") /\ ~Rotates(size)
  BY DEF AppendEvent
<1>2. /\ head # None /\ head \in Heads /\ head.active \in Segment
      /\ head.count \in 0 .. MaxEvents /\ head.bytes \in 0 .. MaxBytes
      /\ head.sequence \in Nat /\ head.last \in Nat
      /\ file \in [Segment -> Segments] /\ old.events \in Seq(Entries)
      /\ LaidOut(old.events) /\ Backed(head, old.events)
      /\ ~old.torn /\ Len(old.events) = head.count /\ Bytes(old.events) = head.bytes
      /\ authored \in Nat
      /\ \A k \in DOMAIN committed : committed[k].id \in Nat /\ committed[k].id <= authored
  BY <1>1, AuthorFacts
<1>3. size \in Nat /\ size > 0 /\ head.count + 1 \in 1 .. MaxEvents /\ head.bytes + size \in 0 .. MaxBytes
  BY <1>1, <1>2 DEF Rotates
<1> PICK event : event = Authored(head.bytes + size)
  OBVIOUS
<1> PICK naming :
      naming = LedgerHead(head.active, event.sequence, event.id, head.count + 1, event.end)
  OBVIOUS
<1> PICK next : next = [head |-> naming, event |-> event]
  OBVIOUS
<1> PICK new : new = [old EXCEPT !.events = Append(old.events, event)]
  OBVIOUS
<1>4. /\ event \in Entries /\ event.end = head.bytes + size
      /\ event.sequence = head.sequence + 1 /\ event.prior = head.last /\ event.id = authored + 1
  <2>1. event = [sequence |-> head.sequence + 1, prior |-> head.last, id |-> authored + 1,
                 end |-> head.bytes + size]
    BY DEF Authored, Entry
  <2>2. /\ head.sequence + 1 \in Nat /\ head.last \in Nat /\ authored + 1 \in Nat
        /\ head.bytes + size \in Nat
    <3>1. head.sequence \in Nat /\ head.last \in Nat /\ authored \in Nat
      BY <1>2
    <3>2. head.bytes + size \in Nat
      BY <1>3
    <3> QED
      BY <3>1, <3>2
  <2> QED
    BY <2>1, <2>2 DEF Entries
<1>5. /\ naming \in Heads /\ naming.active = head.active /\ naming.count = head.count + 1
      /\ naming.sequence = event.sequence /\ naming.last = event.id /\ naming.bytes = event.end
  BY <1>2, <1>3, <1>4 DEF LedgerHead, Heads, Entries
<1>6. next \in Pendings /\ next.head = naming /\ next.event = event
  BY <1>4, <1>5 DEF Pendings
<1>7. /\ file' = [file EXCEPT ![head.active] = new]
      /\ call' = [call EXCEPT ![c].at = "publish", ![c].next = next]
      /\ authored' = authored + 1 /\ UNCHANGED <<head, lock, committed>>
  BY DEF AppendEvent
<1>8. /\ new.events = Append(old.events, event) /\ new.torn = old.torn
      /\ new \in Segments
  <2>1. Append(old.events, event) \in Seq(Entries) /\ old \in Segments
    BY <1>2, <1>4, AppendProperties
  <2> QED
    BY <2>1 DEF Segments
<1>9. /\ Len(new.events) = head.count + 1 /\ new.events[head.count + 1] = event
      /\ \A k \in 1 .. head.count : new.events[k] = old.events[k]
  <2>1. old.events \in Seq(Entries) /\ Len(old.events) = head.count
    BY <1>2
  <2>2. /\ Len(Append(old.events, event)) = Len(old.events) + 1
        /\ \A k \in 1 .. Len(old.events) : Append(old.events, event)[k] = old.events[k]
        /\ Append(old.events, event)[Len(old.events) + 1] = event
    BY <2>1, <1>4, AppendProperties
  <2> QED
    BY <2>1, <2>2, <1>8
<1>10. LaidOut(new.events) /\ Bytes(new.events) = event.end
  BY <1>2, <1>3, <1>4, <1>8, AppendedLaidOut
<1>11. /\ CallShape' /\ OneWriter' /\ call[c].at # "lock"
       /\ call'[c].at = "publish" /\ call'[c].next = next
       /\ \A d \in Call \ {c} : call'[d] = call[d]
  BY <1>1, <1>6, <1>7, Prepares DEF LedgerIInv
<1>12. Ledger' /\ head' # None
  <2>1. Bytes(new.events) <= MaxBytes /\ Len(new.events) <= MaxEvents
    BY <1>3, <1>4, <1>9, <1>10
  <2>2. authored' \in Nat /\ authored' >= authored
    BY <1>2, <1>7
  <2>3. head.count <= Len(new.events)
    BY <1>2, <1>9
  <2>4. \A j \in DOMAIN new.events, k \in DOMAIN committed :
          j > head.count => new.events[j].id # committed[k].id
    <3> TAKE j \in DOMAIN new.events, k \in DOMAIN committed
    <3> HAVE j > head.count
    <3>1. j = head.count + 1
      BY <1>2, <1>9
    <3>2. new.events[j].id = authored + 1
      BY <3>1, <1>4, <1>9
    <3>3. committed[k].id \in Nat /\ committed[k].id <= authored /\ authored \in Nat
      BY <1>2
    <3>4. new.events[j].id # committed[k].id
      BY <3>2, <3>3
    <3> QED
      BY <3>4
  <2> QED
    BY <1>2, <1>7, <1>8, <1>9, <1>10, <2>1, <2>2, <2>3, <2>4, SegmentReplaced DEF LedgerIInv
<1>13. file'[naming.active] = new
  BY <1>2, <1>5, <1>7
<1>14. ~Oversized' /\ Pending(next)'
  <2>1. ~Oversized'
    <3>1. ~Oversized
      BY <1>1 DEF LedgerIInv, Progressing, On
    <3>2. head' = head
      BY <1>7
    <3> QED
      BY <3>1, <3>2 DEF Oversized
  <2>2. Backed(naming, new.events)
    <3>1. naming.count # 0 /\ naming.count <= Len(new.events)
      BY <1>2, <1>5, <1>9
    <3>2. new.events[naming.count] = event
      BY <1>5, <1>9
    <3> QED
      BY <3>1, <3>2, <1>5 DEF Backed
  <2>3. Exact(naming, new)
    BY <1>2, <1>5, <1>8, <1>9 DEF Exact
  <2>4. \A k \in DOMAIN committed : committed[k].id # event.id
    <3> TAKE k \in DOMAIN committed
    <3>1. committed[k].id \in Nat /\ committed[k].id <= authored /\ authored \in Nat
      BY <1>2
    <3>2. event.id = authored + 1
      BY <1>4
    <3> QED
      BY <3>1, <3>2
  <2>5. next.head = naming /\ next.event = event /\ file'[naming.active] = new
    BY <1>6, <1>13
  <2>6. naming.count \in 1 .. MaxEvents /\ naming.bytes <= MaxBytes
    BY <1>3, <1>4, <1>5
  <2>7. event = new.events[naming.count]
    BY <1>5, <1>9
  <2>8. event.sequence = head'.sequence + 1 /\ event.prior = head'.last
    BY <1>4, <1>7
  <2>9. event.id <= authored'
    BY <1>2, <1>4, <1>7
  <2>10. naming.active = head'.active /\ naming.count = head'.count + 1 /\ committed' = committed
    BY <1>5, <1>7
  <2> QED
    BY <2>1, <2>2, <2>3, <2>4, <2>5, <2>6, <2>7, <2>8, <2>9, <2>10, <1>6 DEF Pending
<1>15. Progressing'
  BY <1>11, <1>12, <1>14, Alone
<1> QED
  BY <1>11, <1>12, <1>15 DEF LedgerIInv

\* A rotation writes only the segment the head does not name.
LEMMA RotateKeeps ==
  ASSUME LedgerIInv, NEW c \in Call, NEW size \in Size, Rotate(c, size)
  PROVE  LedgerIInv'
<1> USE LedgerConstantsOK
<1>1. On(c, "author")
  BY DEF Rotate
<1>2. /\ head # None /\ head.active \in Segment /\ head.count \in 0 .. MaxEvents
      /\ head.sequence \in Nat /\ head.last \in Nat
      /\ file \in [Segment -> Segments] /\ authored \in Nat
      /\ \A k \in DOMAIN committed : committed[k].id \in Nat /\ committed[k].id <= authored
  BY <1>1, AuthorFacts
<1>3. size \in Nat /\ size > 0 /\ size <= MaxBytes
  OBVIOUS
<1> PICK event : event = Authored(size)
  OBVIOUS
<1> PICK other : other = Other(head.active)
  OBVIOUS
<1> PICK naming : naming = LedgerHead(other, event.sequence, event.id, 1, size)
  OBVIOUS
<1> PICK next : next = [head |-> naming, event |-> event]
  OBVIOUS
<1> PICK new : new = Lines(<<event>>)
  OBVIOUS
<1>4. /\ event \in Entries /\ event.end = size
      /\ event.sequence = head.sequence + 1 /\ event.prior = head.last /\ event.id = authored + 1
  <2>1. event = [sequence |-> head.sequence + 1, prior |-> head.last, id |-> authored + 1,
                 end |-> size]
    BY DEF Authored, Entry
  <2>2. head.sequence + 1 \in Nat /\ head.last \in Nat /\ authored + 1 \in Nat /\ size \in Nat
    BY <1>2, <1>3
  <2> QED
    BY <2>1, <2>2 DEF Entries
<1>5. other \in Segment /\ other # head.active
  BY <1>2 DEF Other, Segment
<1>6. /\ naming \in Heads /\ naming.active = other /\ naming.count = 1
      /\ naming.sequence = event.sequence /\ naming.last = event.id /\ naming.bytes = size
  BY <1>3, <1>4, <1>5 DEF LedgerHead, Heads, Entries
<1>7. next \in Pendings /\ next.head = naming /\ next.event = event
  BY <1>4, <1>6 DEF Pendings
<1>8. /\ file' = [file EXCEPT ![other] = new]
      /\ call' = [call EXCEPT ![c].at = "publish", ![c].next = next]
      /\ authored' = authored + 1 /\ UNCHANGED <<head, lock, committed>>
  BY DEF Rotate
<1>9. /\ new.events = <<event>> /\ new.torn = FALSE /\ new \in Segments
      /\ Len(new.events) = 1 /\ new.events[1] = event /\ DOMAIN new.events = {1}
  BY <1>4 DEF Lines, Segments
<1>10. LaidOut(new.events) /\ Bytes(new.events) = size
  <2>1. LaidOut(new.events)
    BY <1>3, <1>4, <1>9 DEF LaidOut
  <2>2. new.events \in Seq(Entries) /\ new.events # << >>
    BY <1>9 DEF Segments
  <2> QED
    BY <1>4, <1>9, <2>1, <2>2, BytesValue
<1>11. /\ CallShape' /\ OneWriter' /\ call[c].at # "lock"
       /\ call'[c].at = "publish" /\ call'[c].next = next
       /\ \A d \in Call \ {c} : call'[d] = call[d]
  BY <1>1, <1>7, <1>8, Prepares DEF LedgerIInv
<1>12. Ledger' /\ head' # None
  <2>1. Bytes(new.events) <= MaxBytes /\ Len(new.events) <= MaxEvents
    <3>1. 1 <= MaxEvents
      OBVIOUS
    <3> QED
      BY <3>1, <1>3, <1>9, <1>10
  <2>2. authored' \in Nat /\ authored' >= authored /\ UNCHANGED <<head, committed>>
    BY <1>2, <1>8
  <2> QED
    BY <1>2, <1>5, <1>8, <1>9, <1>10, <2>1, <2>2, SegmentReplaced DEF LedgerIInv
<1>13. file'[naming.active] = new
  BY <1>2, <1>5, <1>6, <1>8
<1>14. ~Oversized' /\ Pending(next)'
  <2>1. ~Oversized'
    <3>1. ~Oversized
      BY <1>1 DEF LedgerIInv, Progressing, On
    <3>2. head' = head
      BY <1>8
    <3> QED
      BY <3>1, <3>2 DEF Oversized
  <2>2. Backed(naming, new.events)
    BY <1>4, <1>6, <1>9 DEF Backed
  <2>3. Exact(naming, new)
    BY <1>6, <1>9 DEF Exact
  <2>4. \A k \in DOMAIN committed : committed[k].id # event.id
    <3> TAKE k \in DOMAIN committed
    <3>1. committed[k].id \in Nat /\ committed[k].id <= authored /\ authored \in Nat
      BY <1>2
    <3>2. event.id = authored + 1
      BY <1>4
    <3> QED
      BY <3>1, <3>2
  <2>5. 1 \in 1 .. MaxEvents /\ naming.bytes <= MaxBytes /\ event.id <= authored'
    BY <1>2, <1>3, <1>4, <1>6, <1>8
  <2> QED
    BY <2>1, <2>2, <2>3, <2>4, <2>5, <1>4, <1>6, <1>7, <1>8, <1>9, <1>13 DEF Pending
<1>15. Progressing'
  BY <1>11, <1>12, <1>14, Alone
<1> QED
  BY <1>11, <1>12, <1>15 DEF LedgerIInv

\* The chain goes on with an event that names the last one.
LEMMA ChainGrows ==
  ASSUME NEW events \in Seq(Entries), NEW event \in Entries, Chained(events),
         Len(events) > 0 => /\ event.sequence = events[Len(events)].sequence + 1
                            /\ event.prior = events[Len(events)].id
  PROVE  Chained(Append(events, event))
<1> PICK longer : longer = Append(events, event)
  OBVIOUS
<1>1. /\ Len(longer) = Len(events) + 1 /\ Len(events) \in Nat
      /\ \A k \in 1 .. Len(events) : longer[k] = events[k]
      /\ longer[Len(events) + 1] = event
  BY AppendProperties
<1> SUFFICES ASSUME NEW k \in 1 .. Len(longer) - 1
             PROVE  /\ longer[k + 1].sequence = longer[k].sequence + 1
                    /\ longer[k + 1].prior = longer[k].id
  BY DEF Chained
<1>2. CASE k = Len(events)
  BY <1>1, <1>2
<1>3. CASE k # Len(events)
  <2>1. k \in 1 .. Len(events) - 1 /\ k \in 1 .. Len(events) /\ k + 1 \in 1 .. Len(events)
    BY <1>1, <1>3
  <2> QED
    BY <2>1, <1>1 DEF Chained
<1> QED
  BY <1>2, <1>3

\* The new head names what is on the disk, and the chain goes on.
LEMMA PublishKeeps ==
  ASSUME LedgerIInv, NEW c \in Call, Publish(c)
  PROVE  LedgerIInv'
<1>1. /\ CallShape' /\ OneWriter' /\ call'[c].at = "lock" /\ call[c].at = "publish"
      /\ \A d \in Call \ {c} : call'[d] = call[d]
  BY GoOnReleases DEF LedgerIInv, Publish, On
<1> PICK next : next = call[c].next
  OBVIOUS
<1> PICK naming : naming = next.head
  OBVIOUS
<1> PICK event : event = next.event
  OBVIOUS
<1> PICK events : events = file[naming.active].events
  OBVIOUS
<1> PICK n : n = Len(committed)
  OBVIOUS
<1>2. head # None /\ ~Oversized /\ Pending(next)
  BY <1>1 DEF LedgerIInv, Progressing
<1>3. /\ next \in Pendings /\ naming \in Heads /\ event \in Entries
      /\ naming.active \in Segment /\ naming.count \in Nat
  BY <1>2 DEF Pending, Pendings, Heads
<1>4. /\ head' = naming /\ committed' = Append(committed, event)
      /\ UNCHANGED <<file, authored>>
  BY DEF Publish
<1>5. /\ committed \in Seq(Entries) /\ n \in Nat /\ file \in [Segment -> Segments]
      /\ authored \in Nat
  BY DEF LedgerIInv, Ledger, LedgerShape
<1>10. head.count \in Nat
  BY <1>2, HeadFacts DEF LedgerIInv
<1>11. /\ naming.count > 0 /\ naming.bytes <= MaxBytes
       /\ Backed(naming, events) /\ Len(events) = naming.count /\ events \in Seq(Entries)
  <2>1. /\ naming.count \in 1 .. MaxEvents /\ naming.bytes <= MaxBytes
        /\ Backed(naming, events) /\ Exact(naming, file[naming.active])
    BY <1>2 DEF Pending
  <2>2. events \in Seq(Entries)
    BY <1>3, <1>5 DEF Segments
  <2>3. Len(events) = naming.count
    BY <2>1 DEF Exact
  <2>4. naming.count > 0
    BY <2>1, LedgerConstantsOK
  <2> QED
    BY <2>1, <2>2, <2>3, <2>4
<1>12. event = events[naming.count] /\ event.sequence = naming.sequence /\ event.id = naming.last
  <2>1. event = events[naming.count]
    BY <1>2 DEF Pending
  <2>2. events[naming.count].sequence = naming.sequence /\ events[naming.count].id = naming.last
    <3>1. Backed(naming, events) /\ naming.count # 0
      BY <1>3, <1>11
    <3> QED
      BY <3>1 DEF Backed
  <2> QED
    BY <2>1, <2>2
<1>13. event.sequence = head.sequence + 1 /\ event.prior = head.last /\ event.id <= authored
  BY <1>2 DEF Pending
<1>14. naming.count = 1 \/ (naming.active = head.active /\ naming.count = head.count + 1)
  BY <1>2 DEF Pending
<1>15. /\ Chained(committed) /\ head.count <= n
       /\ n > 0 => /\ head.last = committed[n].id /\ head.sequence = committed[n].sequence
       /\ \A k \in 1 .. head.count :
            file[head.active].events[k] = committed[n - head.count + k]
  BY <1>2 DEF LedgerIInv, Ledger, HeadIsBacked, StandsOn, HeadStands
<1>6. /\ committed' \in Seq(Entries) /\ Len(committed') = n + 1
      /\ \A k \in 1 .. n : committed'[k] = committed[k]
      /\ committed'[n + 1] = event
  BY <1>3, <1>4, <1>5, AppendProperties
<1>7. head' # None
  BY <1>3, <1>4, LedgerConstantsOK
<1>8. Ledger'
  <2>1. LedgerShape' /\ Headless'
    BY <1>3, <1>4, <1>5, <1>6, <1>7 DEF LedgerShape, Headless
  <2>2. HeadStands'
    <3>1. /\ head'.bytes <= MaxBytes /\ head'.count > 0
          /\ file'[head'.active].events = events
          /\ head'.sequence = committed'[Len(committed')].sequence
      BY <1>4, <1>6, <1>11, <1>12
    <3>2. Backed(head', events)
      BY <1>4, <1>11
    <3> QED
      BY <3>1, <3>2 DEF HeadStands
  <2>3. TailIsNew'
    <3>1. \A k \in DOMAIN committed' : committed'[k].id <= authored
      <4> TAKE k \in DOMAIN committed'
      <4>1. CASE k \in 1 .. n
        BY <4>1, <1>6, <1>5 DEF LedgerIInv, Ledger, TailIsNew
      <4>2. CASE k = n + 1
        BY <4>2, <1>13, <1>6
      <4> QED
        BY <4>1, <4>2, <1>5, <1>6
    <3>2. \A j \in DOMAIN events : ~(j > naming.count)
      BY <1>3, <1>11
    <3> QED
      BY <3>1, <3>2, <1>4 DEF TailIsNew
  <2>4. StaysBounded'
    BY <1>2, <1>4 DEF LedgerIInv, Ledger, StaysBounded
  <2>5. HeadIsBacked'
    <3> PICK named : named = Append(committed, event)
      OBVIOUS
    <3>1. Chained(named)
      BY <1>3, <1>5, <1>13, <1>15, ChainGrows
    <3>2. /\ Len(named) = n + 1 /\ named[n + 1] = event
          /\ \A k \in 1 .. n : named[k] = committed[k]
      BY <1>4, <1>6
    <3>3. naming.count <= n + 1 /\ naming.count <= Len(events) /\ naming.count > 0
      BY <1>3, <1>5, <1>10, <1>11, <1>14, <1>15
    <3>4. naming.last = event.id
      BY <1>12
    <3>5. \A k \in 1 .. naming.count : events[k] = named[Len(named) - naming.count + k]
      <4> TAKE k \in 1 .. naming.count
      <4>1. CASE k = naming.count
        <5>1. Len(named) - naming.count + k = n + 1
          BY <4>1, <3>2, <1>3, <1>5
        <5> QED
          BY <5>1, <4>1, <1>12, <3>2
      <4>2. CASE k # naming.count
        <5>1. naming.active = head.active /\ naming.count = head.count + 1
          BY <4>2, <1>14
        <5>2. k \in 1 .. head.count
          BY <4>2, <5>1, <1>10
        <5>3. events[k] = committed[n - head.count + k]
          BY <5>1, <5>2, <1>15
        <5>4. n - head.count + k \in 1 .. n
          BY <5>2, <1>5, <1>10, <1>15
        <5>5. Len(named) - naming.count + k = n - head.count + k
          <6>1. Len(named) = n + 1 /\ n \in Int /\ head.count \in Int /\ k \in Int
            BY <5>2, <3>2, <1>5, <1>10
          <6>2. (n + 1) - (head.count + 1) + k = n - head.count + k
            BY <6>1
          <6>3. Len(named) = n + 1 /\ naming.count = head.count + 1
            BY <6>1, <5>1
          <6> QED
            BY <6>2, <6>3, Zenon
        <5> QED
          BY <5>3, <5>4, <5>5, <3>2
      <4> QED
        BY <4>1, <4>2
    <3>6. StandsOn(naming, events, named)
      <4>1. naming.count <= Len(named)
        BY <3>2, <3>3
      <4>2. naming.last = named[Len(named)].id
        BY <3>2, <3>4
      <4> QED
        BY <3>1, <3>3, <3>5, <4>1, <4>2 DEF StandsOn
    <3>7. StandsOn(head', file'[head'.active].events, committed')
      BY <3>6, <1>4
    <3> QED
      BY <3>7 DEF HeadIsBacked
  <2>6. \A s \in Segment : LaidOut(file'[s].events)
    BY <1>4 DEF LedgerIInv, Ledger
  <2> QED
    BY <2>1, <2>2, <2>3, <2>4, <2>5, <2>6 DEF Ledger
<1>9. Progressing'
  BY <1>1, Alone
<1> QED
  BY <1>1, <1>8, <1>9 DEF LedgerIInv

\* Every step keeps the invariant.
LEMMA LedgerStep ==
  ASSUME LedgerIInv, [LedgerNext]_ledgerVars
  PROVE  LedgerIInv'
<1>1. ASSUME NEW c \in Call, Acquire(c) PROVE LedgerIInv'
  BY <1>1, AcquireKeeps
<1>2. ASSUME NEW c \in Call, Skip(c) \/ Refuse(c) \/ GiveUp(c) PROVE LedgerIInv'
  BY <1>2, SkipKeeps
<1>3. ASSUME NEW c \in Call, Open(c) PROVE LedgerIInv'
  BY <1>3, OpenKeeps
<1>4. ASSUME NEW c \in Call, Repair(c) PROVE LedgerIInv'
  BY <1>4, RepairKeeps
<1>5. ASSUME NEW c \in Call, Publish(c) PROVE LedgerIInv'
  BY <1>5, PublishKeeps
<1>6. ASSUME NEW c \in Call, Die(c) PROVE LedgerIInv'
  BY <1>6, DieKeeps
<1>7. ASSUME NEW c \in Call, NEW size \in Size, AppendEvent(c, size) PROVE LedgerIInv'
  BY <1>7, AppendEventKeeps
<1>8. ASSUME NEW c \in Call, NEW size \in Size, Rotate(c, size) PROVE LedgerIInv'
  BY <1>8, RotateKeeps
<1>9. ASSUME NEW c \in Call, NEW size \in Size, Tear(c, size) PROVE LedgerIInv'
  BY <1>9, TearKeeps
<1>10. CASE UNCHANGED ledgerVars
  BY <1>10, LedgerUntouched DEF ledgerVars, LedgerIInv, CallShape, OneWriter
<1> QED
  BY <1>1, <1>2, <1>3, <1>4, <1>5, <1>6, <1>7, <1>8, <1>9, <1>10 DEF LedgerNext

\* The inductive invariant of the ledger.
THEOREM LedgerInvariant == LedgerSpec => []LedgerIInv
  BY LedgerStarts, LedgerStep, PTL DEF LedgerSpec

\* A head whose lines are there admits the next call.
LEMMA BackedIsAdmissible ==
  ASSUME Ledger, head # None, ~Oversized
  PROVE  Admissible
<1> DEFINE active == file[head.active]
<1>1. /\ head \in Heads /\ head.active \in Segment /\ head.count \in Nat /\ head.bytes \in Nat
      /\ active \in Segments /\ active.events \in Seq(Entries)
      /\ LaidOut(active.events) /\ Backed(head, active.events)
  BY HeadFacts
<1>2. Consistent(head)
  <2>1. head.bytes <= MaxBytes
    BY DEF Ledger, HeadStands
  <2>2. head.count <= MaxEvents
    BY <1>1, LedgerConstantsOK DEF Oversized
  <2>3. head.count = 0 => head.sequence = 0 /\ head.last = 0 /\ head.bytes = 0
    BY <1>1 DEF Backed
  <2> QED
    BY <1>1, <2>1, <2>2, <2>3 DEF Consistent
<1>3. Bytes(active.events) >= head.bytes
  BY <1>1, BackedBytes
<1>4. TailFits(Repaired(active, head.bytes), head)
  <2> PICK new : new = Repaired(active, head.bytes)
    OBVIOUS
  <2>1. /\ new \in Segments /\ Exact(head, new)
        /\ \A k \in 1 .. head.count : new.events[k] = active.events[k]
    BY <1>1, RepairedIs
  <2> SUFFICES ASSUME head.count > 0
               PROVE  /\ ~new.torn /\ new.events # << >>
                      /\ Last(new.events).sequence = head.sequence
                      /\ Last(new.events).id = head.last
    BY DEF TailFits
  <2>2. ~new.torn /\ Len(new.events) = head.count /\ new.events \in Seq(Entries)
    BY <2>1 DEF Exact, Segments
  <2>3. new.events # << >>
    BY <2>2, <1>1
  <2>4. Last(new.events) = active.events[head.count]
    <3>1. head.count \in 1 .. head.count
      BY <1>1
    <3> QED
      BY <2>1, <2>2, <3>1 DEF Last
  <2> QED
    BY <2>2, <2>3, <2>4, <1>1 DEF Backed
<1> QED
  BY <1>2, <1>3, <1>4 DEF Admissible

\* The head always stands on whole, chained lines, both segments stay within their limits,
\* and the next call may append, whatever calls died and wherever.
THEOREM LedgerStaysSound == LedgerSpec => []LedgerIsSound
<1>1. LedgerIInv => LedgerIsSound
  <2> SUFFICES ASSUME LedgerIInv PROVE LedgerIsSound
    OBVIOUS
  <2>1. LedgerTypeOK
    BY DEF LedgerIInv, Ledger, LedgerShape, CallShape, Calls, LedgerTypeOK
  <2>2. StaysBounded /\ HeadIsBacked
    BY DEF LedgerIInv, Ledger
  <2>3. NeverRefused
    BY BackedIsAdmissible DEF LedgerIInv, NeverRefused
  <2> QED
    BY <2>1, <2>2, <2>3 DEF LedgerIsSound
<1> QED
  BY <1>1, LedgerInvariant, PTL

\* Nothing is lost by a step that leaves the lines of the segments.
LEMMA SameLines ==
  ASSUME \A s \in Segment : file'[s].events = file[s].events
  PROVE  Present(file) \ Present(file') = {}
  BY DEF Present, Contains

\* What a repair cuts off was never committed.
LEMMA RepairLosesNothing ==
  ASSUME LedgerIInv, NEW c \in Call, Repair(c)
  PROVE  Present(file) \ Present(file') = {}
<1> USE LedgerConstantsOK
<1>1. head # None
  BY DEF LedgerIInv, Progressing, Repair, On
<1> PICK old : old = file[head.active]
  OBVIOUS
<1> PICK new : new = Repaired(old, head.bytes)
  OBVIOUS
<1>2. /\ head \in Heads /\ head.active \in Segment /\ head.count \in Nat
      /\ old \in Segments /\ LaidOut(old.events) /\ Backed(head, old.events)
  BY <1>1, HeadFacts DEF LedgerIInv
<1>3. /\ Exact(head, new) /\ \A k \in 1 .. head.count : new.events[k] = old.events[k]
  BY <1>2, RepairedIs
<1>4. /\ file'[head.active] = new /\ \A s \in Segment \ {head.active} : file'[s] = file[s]
  BY <1>2 DEF Repair, LedgerIInv, Ledger, LedgerShape
<1>5. Len(new.events) = head.count /\ Len(old.events) \in Nat
  BY <1>2, <1>3 DEF Exact, Segments
<1> SUFFICES ASSUME NEW k \in DOMAIN committed, NEW s \in Segment,
                    NEW i \in 1 .. Len(file[s].events), file[s].events[i] = committed[k]
             PROVE  \E t \in Segment : Contains(file'[t].events, committed[k])
  BY DEF Present, Contains
<1>6. CASE s # head.active
  BY <1>4, <1>6 DEF Contains
<1>7. CASE s = head.active
  <2>1. i \in 1 .. head.count
    <3>1. i \in DOMAIN file[head.active].events /\ file[head.active].events[i] = committed[k]
      BY <1>7
    <3>2. ~(i > head.count)
      BY <3>1, <1>1 DEF LedgerIInv, Ledger, TailIsNew
    <3> QED
      BY <3>2, <1>2
  <2>2. new.events[i] = committed[k]
    BY <2>1, <1>3, <1>7
  <2> QED
    BY <2>1, <2>2, <1>2, <1>4, <1>5 DEF Contains
<1> QED
  BY <1>6, <1>7

\* An append removes nothing.
LEMMA AppendLosesNothing ==
  ASSUME LedgerIInv, NEW c \in Call, NEW size \in Size, AppendEvent(c, size)
  PROVE  Present(file) \ Present(file') = {}
<1>1. On(c, "author")
  BY DEF AppendEvent
<1>2. /\ head.active \in Segment /\ file \in [Segment -> Segments]
      /\ file[head.active].events \in Seq(Entries)
  BY <1>1, AuthorFacts
<1> PICK event : event = Authored(head.bytes + size)
  OBVIOUS
<1> PICK old : old = file[head.active].events
  OBVIOUS
<1>3. /\ file'[head.active].events = Append(old, event)
      /\ \A s \in Segment \ {head.active} : file'[s] = file[s]
  BY <1>2 DEF AppendEvent, Segments
<1>4. event \in Entries
  BY <1>1, AuthorFacts, LedgerConstantsOK DEF Authored, Entry, Entries
<1>5. /\ Len(Append(old, event)) = Len(old) + 1 /\ Len(old) \in Nat
      /\ \A k \in 1 .. Len(old) : Append(old, event)[k] = old[k]
  BY <1>2, <1>4, AppendProperties
<1> SUFFICES ASSUME NEW k \in DOMAIN committed, NEW s \in Segment,
                    NEW i \in 1 .. Len(file[s].events), file[s].events[i] = committed[k]
             PROVE  \E t \in Segment : Contains(file'[t].events, committed[k])
  BY DEF Present, Contains
<1>6. CASE s # head.active
  BY <1>3, <1>6 DEF Contains
<1>7. CASE s = head.active
  <2>1. i \in 1 .. Len(Append(old, event)) /\ Append(old, event)[i] = committed[k]
    BY <1>5, <1>7
  <2> QED
    BY <2>1, <1>2, <1>3 DEF Contains
<1> QED
  BY <1>6, <1>7

\* A rotation removes committed events only from a segment that is not the head's, when
\* the head's is full.
LEMMA RotateLosesTheOldest ==
  ASSUME LedgerIInv, NEW c \in Call, NEW size \in Size, Rotate(c, size),
         NEW k \in Present(file) \ Present(file')
  PROVE  /\ head.count >= MaxEvents \/ \E s \in Size : head.bytes + s > MaxBytes
         /\ k <= Len(committed) - head.count
<1>1. On(c, "author") /\ Rotates(size)
  BY DEF Rotate
<1>2. /\ head # None /\ head.active \in Segment /\ head.count \in 0 .. MaxEvents
      /\ file \in [Segment -> Segments]
  BY <1>1, AuthorFacts
<1>3. head.count >= MaxEvents \/ \E s \in Size : head.bytes + s > MaxBytes
  BY <1>1 DEF Rotates
<1>4. file'[head.active] = file[head.active]
  <2>1. Other(head.active) # head.active
    BY <1>2 DEF Other, Segment
  <2> QED
    BY <2>1, <1>2 DEF Rotate
<1>5. ASSUME ~(k <= Len(committed) - head.count) PROVE FALSE
  <2>1. /\ k \in 1 .. Len(committed) /\ Len(committed) \in Nat /\ head.count \in Nat
    BY <1>2, LedgerConstantsOK DEF Present, LedgerIInv, Ledger, LedgerShape
  <2> PICK j : j = k - (Len(committed) - head.count)
    OBVIOUS
  <2>2. j \in 1 .. head.count /\ Len(committed) - head.count + j = k
    BY <2>1, <1>5
  <2>3. /\ head.count <= Len(file[head.active].events)
        /\ file[head.active].events[j] = committed[Len(committed) - head.count + j]
    BY <1>2, <2>2 DEF LedgerIInv, Ledger, HeadIsBacked, StandsOn
  <2>4. Contains(file'[head.active].events, committed[k])
    <3>1. Len(file[head.active].events) \in Nat
      BY <1>2 DEF Segments
    <3>2. j \in 1 .. Len(file[head.active].events)
      BY <2>1, <2>2, <2>3, <3>1
    <3> QED
      BY <2>2, <2>3, <3>2, <1>4 DEF Contains
  <2> QED
    BY <2>1, <2>4, <1>2 DEF Present
<1> QED
  BY <1>3, <1>5

\* A committed event leaves the ledger only when a full segment of newer events is there in
\* its place.
THEOREM CommittedEventsAreKept == LedgerSpec => CommittedIsKept
<1> DEFINE Lost == Present(file) \ Present(file')
           Kept1 == Lost # {} =>
             /\ head.count >= MaxEvents \/ \E size \in Size : head.bytes + size > MaxBytes
             /\ \A k \in Lost : k <= Len(committed) - head.count
<1>1. LedgerIInv /\ [LedgerNext]_ledgerVars => [Kept1]_ledgerVars
  <2> SUFFICES ASSUME LedgerIInv, LedgerNext PROVE Kept1
    OBVIOUS
  <2>1. ASSUME NEW c \in Call,
               \/ Acquire(c) \/ Skip(c) \/ Open(c) \/ Refuse(c) \/ Publish(c)
               \/ GiveUp(c) \/ Die(c)
        PROVE  Kept1
    <3>1. UNCHANGED file
      BY <2>1 DEF Acquire, Skip, Open, Refuse, Publish, GiveUp, Die
    <3> QED
      BY <3>1, SameLines
  <2>2. ASSUME NEW c \in Call, Repair(c) PROVE Kept1
    BY <2>2, RepairLosesNothing
  <2>3. ASSUME NEW c \in Call, NEW size \in Size, AppendEvent(c, size) PROVE Kept1
    BY <2>3, AppendLosesNothing
  <2>4. ASSUME NEW c \in Call, NEW size \in Size, Rotate(c, size) PROVE Kept1
    BY <2>4, RotateLosesTheOldest
  <2>5. ASSUME NEW c \in Call, NEW size \in Size, Tear(c, size) PROVE Kept1
    <3>1. \A s \in Segment : file'[s].events = file[s].events
      BY <2>5 DEF Tear, LedgerIInv, Ledger, LedgerShape, Segments
    <3> QED
      BY <3>1, SameLines
  <2> HIDE DEF Kept1
  <2> QED
    BY <2>1, <2>2, <2>3, <2>4, <2>5 DEF LedgerNext
<1> QED
  BY <1>1, LedgerInvariant, PTL DEF LedgerSpec, CommittedIsKept

=============================================================================
