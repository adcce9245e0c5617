---------------------------- MODULE LaunchStream ----------------------------
(***************************************************************************)
(* The supervision of one admitted launch, from the opened gate to the     *)
(* exit event: the native process group, the two drain threads and their   *)
(* bounded channel, the supervision loop with its three timers, the spool  *)
(* that withholds output until the request record says what it belongs to, *)
(* and the conclusion (src/src/launch.rs, LaunchState).                    *)
(*                                                                         *)
(* A chunk is what one read returns: the native event it carries, and      *)
(* whether that event's line ends in it.  The rest of an open line is the  *)
(* beginning of the next chunk.                                            *)
(*                                                                         *)
(* A launch that never got a child, because the policy rejected it or the  *)
(* spawn failed, is concluded by the same code.                            *)
(***************************************************************************)
EXTENDS Integers, FiniteSets, Sequences, SequencesExt

CONSTANTS
  MaxOut,      \* stdout chunks the native process writes
  MaxErr,      \* stderr chunks
  Capacity,    \* DRAIN_CHANNEL_CAPACITY
  MaxBeats,    \* heartbeats written
  Requests     \* the requests launched

Request == [resume : BOOLEAN, deadline : BOOLEAN, wanted : BOOLEAN]

ASSUME StreamAssumption ==
  /\ Requests \subseteq Request
  /\ MaxOut \in Nat /\ MaxErr \in Nat /\ MaxBeats \in Nat
  /\ Capacity \in Nat \ {0}

Pipe == {"stdout", "stderr"}
Most(p) == IF p = "stdout" THEN MaxOut ELSE MaxErr
\* A native event: a step of the session, its successful end, a step of
\* another session, a line that does not parse.
Native == {"step", "stop", "other", "bad"}
Member == {"child", "helper"}
\* A clean exit and every other end: a code, or a signal.
Exit == {"exit0", "signal"}
Status == Exit \cup {"none", "silence", "unknown", "refused"}

VARIABLES
  ask,        \* the request: new or resume, deadline, output_delivery
  holders,    \* members of the process group that hold the pipes open
  code,       \* the child's exit status, once it has one
  wrote,      \* chunks written into each pipe
  got,        \* how many of them its drain has read
  reading,    \* drain threads that have not ended
  chan,       \* the sync_channel between the drains and the loop
  pc,         \* the supervision loop
  final,      \* final_status
  forced,     \* forced_exit_status
  done,       \* stdout_done, stderr_done
  pending,    \* EventParser: the native event of an unfinished line
  heard,      \* stream_resume_observation
  session,    \* session_id of the session marker
  lost,       \* integrity_failures is not empty
  readFailed, \* pipe_read_failed
  unresolved, \* unresolved_resume_completion
  received,   \* output_summary: the pipes of the chunks the loop took
  admitted,   \* projection_admitted
  spool,      \* deferred_spool
  out,        \* the NDJSON stream, but for its heartbeats
  beats,      \* heartbeats, written past the spool
  record      \* the durable launch request: its phase and session

actor == <<holders, code, wrote>>
drains == <<got, reading>>
conclusion == <<final, forced, unresolved>>
parsed == <<pending, heard, session, lost>>
stream == <<admitted, spool, out, beats>>
vars == <<ask, actor, drains, chan, pc, conclusion, done, parsed, readFailed,
          received, stream, record>>

-----------------------------------------------------------------------------
(* Events and where they go.                                               *)

Event(what) == [is |-> what, n |-> 0, status |-> "none"]
DataEvent(n) == [Event("data") EXCEPT !.n = n]
CompleteEvent(n) == [Event("complete") EXCEPT !.n = n]
StatusEvent(what, s) == [Event(what) EXCEPT !.status = s]
When(holds, event) == IF holds THEN <<event>> ELSE <<>>

\* admit_projection
Opened(admit) == admitted \/ admit

\* Seeded fault: the events of the admission overtake the spooled ones.
EmitNewFirst(events, admit) ==
  /\ admitted' = Opened(admit)
  /\ spool' = IF admitted' THEN <<>> ELSE spool \o events
  /\ out' = IF admitted' THEN out \o events \o spool ELSE out
  /\ UNCHANGED beats

\* write_event: into the DeferredLaunchSpool, until the admission has replayed it.
Emit(events, admit) ==
  /\ admitted' = Opened(admit)
  /\ spool' = IF admitted' THEN <<>> ELSE spool \o events
  /\ out' = IF admitted' THEN out \o spool \o events ELSE out
  /\ UNCHANGED beats

-----------------------------------------------------------------------------
(* The native process group.                                               *)

\* What the native process of a request may print: a session that is resumed
\* is known, one that is new may turn out to be two.
Prints(p) ==
  IF p = "stderr" THEN [native : {"bad"}, whole : {TRUE}]
  ELSE {c \in [native : Native, whole : BOOLEAN] :
          /\ c.native # (IF ask.resume THEN "other" ELSE "stop")
          /\ c.whole \/ c.native \in {"step", "stop"}}

NativeWrites(p, c) ==
  /\ holders # {} /\ Len(wrote[p]) < Most(p)
  /\ wrote' = [wrote EXCEPT ![p] = Append(@, c)]
  /\ UNCHANGED <<ask, holders, code, drains, chan, pc, conclusion, done,
                 parsed, readFailed, received, stream, record>>

\* A member closes its output or exits.
LetsGo(m) ==
  /\ m \in holders /\ holders' = holders \ {m}
  /\ UNCHANGED <<ask, code, wrote, drains, chan, pc, conclusion, done, parsed,
                 readFailed, received, stream, record>>

ChildExits(c) ==
  /\ code = "none" /\ pc # "over"
  /\ code' = c /\ holders' = holders \ {"child"}
  /\ UNCHANGED <<ask, wrote, drains, chan, pc, conclusion, done, parsed,
                 readFailed, received, stream, record>>

\* terminate_child: TERM, a grace, KILL to the whole group, then wait.  A
\* child that exits by itself before the signal lands keeps its own status.
Terminate ==
  /\ holders' = {} /\ UNCHANGED wrote
  /\ code' \in IF code = "none" THEN Exit ELSE {code}

-----------------------------------------------------------------------------
(* The drain threads.                                                      *)

\* Seeded fault: the bound is tested after the message is queued.
HasRoomForOne == Len(chan) <= Capacity

HasRoom == Len(chan) < Capacity

Message(p, what) == [pipe |-> p, is |-> what]

Drain(p) ==
  /\ p \in reading /\ HasRoom /\ pc # "over"
  /\ \/ /\ got[p] < Len(wrote[p])
        /\ got' = [got EXCEPT ![p] = @ + 1]
        /\ chan' = Append(chan, Message(p, "data"))
        /\ UNCHANGED reading
     \/ /\ got[p] = Len(wrote[p]) /\ holders = {}
        /\ chan' = Append(chan, Message(p, "done"))
        /\ reading' = reading \ {p} /\ UNCHANGED got
  /\ UNCHANGED <<ask, actor, pc, conclusion, done, parsed, readFailed,
                 received, stream, record>>

DrainFails(p) ==
  /\ p \in reading /\ HasRoom /\ pc # "over"
  /\ chan' = Append(chan, Message(p, "error"))
  /\ reading' = reading \ {p}
  /\ UNCHANGED <<ask, actor, got, pc, conclusion, done, parsed, readFailed,
                 received, stream, record>>

-----------------------------------------------------------------------------
(* The supervision loop.                                                   *)

\* Seeded fault: an exit is the end of the launch, whatever is still queued.
CompleteAtExit == final # "none"

\* is_complete
Complete == final # "none" /\ done = Pipe

\* The loop's condition, then capture_child_exit.
Begin ==
  /\ pc = "top"
  /\ IF Complete
     THEN pc' = "finish" /\ UNCHANGED final
     ELSE /\ pc' = "enforce"
          /\ final' = IF final = "none" THEN code ELSE final
  /\ UNCHANGED <<ask, actor, drains, chan, forced, unresolved, done, parsed,
                 readFailed, received, stream, record>>

Enforces ==
  /\ pc = "enforce" /\ pc' = "receive" /\ Terminate
  /\ UNCHANGED <<ask, drains, chan, unresolved, done, parsed, readFailed,
                 received, stream, record>>

\* enforce_deadline
EnforceDeadline ==
  /\ ask.deadline /\ final = "none"
  /\ final' = "silence" /\ UNCHANGED forced
  /\ Enforces

\* complete_terminal_resume: the grace after the observed completion is over.
CompleteResume ==
  /\ heard = "completed" /\ final = "none"
  /\ final' = "exit0"
  /\ Enforces /\ forced' = code'

\* Seeded fault: only a failed child's group is closed.
LingersAfterFailure == final \notin {"none", "silence", "exit0"} /\ done # Pipe

\* child_exit_at is set, and the drains have not ended.
Lingers == final \notin {"none", "silence"} /\ done # Pipe

\* close_lingering_process_group: the grace after the exit is over.
CloseLingering ==
  /\ Lingers /\ UNCHANGED <<final, forced>>
  /\ Enforces

\* No timer has expired.
Pass ==
  /\ pc = "enforce" /\ pc' = "receive"
  /\ UNCHANGED <<ask, actor, drains, chan, conclusion, done, parsed,
                 readFailed, received, stream, record>>

-----------------------------------------------------------------------------
(* What a chunk says.                                                      *)

\* The native events completed by a chunk: the open line, then its own.
Parsed(c) ==
  (IF pending = "none" THEN <<>> ELSE <<pending>>)
    \o When(c.whole, c.native)

Named(events) == SelectSeq(events, LAMBDA e : e # "bad")
SessionOf(e) == IF e = "other" THEN "s2" ELSE "s1"
\* first_session_id
FirstSession(events) ==
  IF Named(events) = <<>> THEN "none" ELSE SessionOf(Head(Named(events)))

\* Seeded fault: the last observation wins, a completed one included.
HearsLast(events) ==
  LET mine == SelectSeq(events, LAMBDA e : e \in {"step", "stop"})
  IN IF ~ask.resume \/ mine = <<>> THEN heard
     ELSE IF Last(mine) = "stop" THEN "completed" ELSE "submitted"

\* record_opencode_events: completion is never taken back.
Hears(events) ==
  LET says == ToSet(events)
  IN IF ~ask.resume THEN heard
     ELSE IF heard = "completed" \/ "stop" \in says THEN "completed"
     ELSE IF "step" \in says THEN "submitted" ELSE heard

\* observe_session refuses a second identity.
Conflicts(s) ==
  ~ask.resume /\ s # "none" /\ record.phase = "session" /\ record.session # s

Recorded(s) ==
  IF ask.resume \/ s = "none" THEN record
  ELSE [phase |-> "session", session |-> s]

Learn(events) ==
  /\ heard' = Hears(events)
  /\ lost' = (lost \/ "bad" \in ToSet(events))

\* Seeded fault: a session opens a resumed launch's projection as well.
AdmitsAnySession(s) == s # "none"

\* admit_generated_session
AdmitsSession(s) == s # "none" /\ ~ask.resume

SessionMarker(s) == When(session = "none" /\ s # "none", Event("session"))

\* handle_drain_message, Stdout
TakeStdout(c) ==
  LET events == Parsed(c)
      s == FirstSession(events)
  IN /\ received' = Append(received, "stdout")
     /\ pending' = IF c.whole THEN "none" ELSE c.native
     /\ Learn(events)
     /\ IF Conflicts(s)
        THEN pc' = "failed" /\ UNCHANGED <<session, record, stream>>
        ELSE /\ record' = Recorded(s)
             /\ session' = IF session = "none" THEN s ELSE session
             /\ Emit(<<DataEvent(Len(received'))>> \o SessionMarker(s),
                     AdmitsSession(s))
             /\ pc' = "top"
     /\ UNCHANGED <<done, readFailed>>

\* handle_drain_message, Stderr
TakeStderr ==
  /\ received' = Append(received, "stderr")
  /\ Emit(<<DataEvent(Len(received'))>>, FALSE)
  /\ pc' = "top"
  /\ UNCHANGED <<parsed, record, done, readFailed>>

\* handle_drain_message, StdoutDone, StderrDone and ReadError
TakeEnd(m) ==
  /\ done' = done \cup {m.pipe}
  /\ readFailed' = (readFailed \/ m.is = "error")
  /\ lost' = (lost \/ m.is = "error")
  /\ pc' = "top"
  /\ UNCHANGED <<received, pending, heard, session, record, stream>>

Taken(p) == Cardinality({n \in DOMAIN received : received[n] = p})

Take ==
  /\ pc = "receive" /\ chan # <<>>
  /\ chan' = Tail(chan)
  /\ LET m == Head(chan)
     IN CASE m.is # "data" -> TakeEnd(m)
          [] m.is = "data" /\ m.pipe = "stderr" -> TakeStderr
          [] OTHER -> TakeStdout(wrote["stdout"][Taken("stdout") + 1])
  /\ UNCHANGED <<ask, actor, drains, conclusion>>

\* recv_timeout: Timeout writes a heartbeat past the spool, a disconnected
\* channel ends both drains.
Idle ==
  /\ pc = "receive" /\ chan = <<>> /\ pc' = "top"
  /\ IF reading # {}
     THEN /\ UNCHANGED done
          /\ IF final = "none" /\ beats < MaxBeats
             THEN beats' = beats + 1 /\ UNCHANGED <<admitted, spool, out>>
             ELSE UNCHANGED stream
     ELSE done' = Pipe /\ UNCHANGED stream
  /\ UNCHANGED <<ask, actor, drains, chan, conclusion, parsed, readFailed,
                 received, record>>

-----------------------------------------------------------------------------
(* finish                                                                  *)

\* A launch whose child was never spawned has given its record up.
Registered == record.phase # "none"

\* capture_session_from_parser_tail, then admit_terminal_without_session.
FinishTail ==
  /\ pc = "finish"
  /\ LET events == Parsed([native |-> "bad", whole |-> FALSE])
         s == FirstSession(events)
     IN /\ pending' = "none" /\ Learn(events)
        /\ IF Conflicts(s)
           THEN pc' = "failed" /\ UNCHANGED <<session, record, stream>>
           ELSE /\ record' = IF ~Registered \/ ask.resume \/ Recorded(s).phase = "session"
                             THEN Recorded(s)
                             ELSE [record EXCEPT !.phase = "terminal"]
                /\ session' = IF session = "none" THEN s ELSE session
                /\ Emit(SessionMarker(s), ~ask.resume \/ ~Registered)
                /\ pc' = "settle"
  /\ UNCHANGED <<ask, actor, drains, chan, conclusion, done, readFailed,
                 received>>

\* The three resume markers, then settle_resume_launch_request.
SettleResume ==
  /\ pc = "settle" /\ pc' = "conclude"
  /\ IF ask.resume /\ Registered
     THEN /\ unresolved' = (heard # "completed")
          /\ record' = [record EXCEPT !.phase =
                          IF heard = "none" THEN "unresolved" ELSE heard]
          /\ Emit(When(heard # "none", Event("submitted"))
                    \o When(heard = "completed", Event("produced"))
                    \o When(unresolved', Event("unresolved")), TRUE)
     ELSE UNCHANGED <<unresolved, record, stream>>
  /\ UNCHANGED <<ask, actor, drains, chan, final, forced, done, parsed,
                 readFailed, received>>

\* finished_status
Finished == IF final = "exit0" /\ (lost \/ unresolved) THEN "unknown" ELSE final

\* emit_output_completion
Attests == ask.wanted /\ ~readFailed

Conclude ==
  /\ pc = "conclude" /\ pc' = "close"
  /\ Emit(When(lost, Event("loss"))
            \o When(forced # "none", StatusEvent("forced", forced))
            \o When(Attests, CompleteEvent(Len(received)))
            \o <<StatusEvent("exit", Finished)>>, FALSE)
  /\ UNCHANGED <<ask, actor, drains, chan, conclusion, done, parsed,
                 readFailed, received, record>>

\* finalize_launch_actor_and_replay: the custody dropped kills the group and
\* the receiver goes with the loop.
Discharged ==
  /\ pc' = "over" /\ holders' = {} /\ chan' = <<>>
  /\ UNCHANGED <<ask, code, wrote, drains, conclusion, done, parsed,
                 readFailed, received, stream, record>>

Discharge == pc \in {"close", "failed"} /\ Discharged

\* A write of the stream, of the spool or of the record fails.
Fail == pc \in {"receive", "finish", "settle", "conclude"} /\ Discharged

-----------------------------------------------------------------------------
Quiet ==
  /\ ask \in Requests
  /\ code = "none"
  /\ wrote = [p \in Pipe |-> <<>>]
  /\ got = [p \in Pipe |-> 0]
  /\ chan = <<>>
  /\ forced = "none" /\ unresolved = FALSE
  /\ pending = "none" /\ heard = "none" /\ session = "none" /\ lost = FALSE
  /\ readFailed = FALSE /\ received = <<>>
  /\ spool = <<>> /\ beats = 0

\* stream, after the gate: the route marker is written, the custody attached.
Spawned ==
  /\ holders = Member /\ reading = Pipe /\ done = {}
  /\ pc = "top" /\ final = "none"
  /\ admitted = FALSE /\ out = <<Event("route")>>
  /\ record = [phase |-> "prepared", session |-> "none"]

\* The child cannot be spawned: the record is given up.
NotSpawned == admitted \in BOOLEAN /\ out = <<Event("route")>>

\* stream_policy_rejection
Rejected == admitted = TRUE /\ out = <<>>

\* What never had a child is concluded as well.
Unspawned ==
  /\ holders = {} /\ reading = {} /\ done = Pipe
  /\ pc = "finish" /\ final = "refused"
  /\ NotSpawned \/ Rejected
  /\ record = [phase |-> "none", session |-> "none"]

Init == Quiet /\ (Spawned \/ Unspawned)

Timers == EnforceDeadline \/ CompleteResume \/ CloseLingering

Supervise ==
  \/ Begin \/ Pass \/ Timers \/ Take \/ Idle
  \/ FinishTail \/ SettleResume \/ Conclude \/ Discharge

Next ==
  \/ Supervise \/ Fail
  \/ \E p \in Pipe :
       \/ Drain(p) \/ DrainFails(p)
       \/ \E c \in Prints(p) : NativeWrites(p, c)
  \/ \E m \in Member : LetsGo(m)
  \/ \E c \in Exit : ChildExits(c)

\* The loop and the drains are scheduled, and the clock advances: a loop that
\* keeps coming back finds a running timer expired.  Nothing is assumed of the
\* native process, which may run, write or sit for ever.
Fairness ==
  /\ WF_vars(Supervise)
  /\ WF_vars(\E p \in Pipe : Drain(p))
  /\ SF_vars(Timers)

Spec == Init /\ [][Next]_vars /\ Fairness

-----------------------------------------------------------------------------
(* Properties.                                                             *)

\* Every variable has its type (LaunchState and the kernel state it reads).
TypeOK ==
  /\ ask \in Requests /\ holders \subseteq Member
  /\ code \in Exit \cup {"none"}
  /\ \A p \in Pipe :
       /\ wrote[p] \in Seq([native : Native, whole : BOOLEAN])
       /\ got[p] \in 0 .. Len(wrote[p]) /\ Taken(p) \in 0 .. got[p]
  /\ reading \subseteq Pipe /\ Len(chan) <= Capacity
  /\ final \in Status /\ forced \in Exit \cup {"none"} /\ done \subseteq Pipe
  /\ pending \in Native \cup {"none"}
  /\ heard \in {"none", "submitted", "completed"}
  /\ session \in {"none", "s1", "s2"}
  /\ lost \in BOOLEAN /\ readFailed \in BOOLEAN /\ unresolved \in BOOLEAN
  /\ admitted \in BOOLEAN /\ (admitted => spool = <<>>)
  /\ beats \in 0 .. MaxBeats

Written(what) == {i \in DOMAIN out : out[i].is = what}
Exited == Written("exit") # {}

\* Post-spawn events are withheld until the observation they belong to is
\* durable: nothing but the route marker and heartbeats precedes the record's
\* session, terminal or resume phase (README: "withheld until the
\* corresponding observation is durable").
WithheldUntilRecorded ==
  record.phase = "prepared" =>
    \A i \in DOMAIN out : out[i].is = "route"

\* Chunks reach the host in receipt order, spooled or live, each once: what
\* precedes a chunk is every chunk that was received before it, and no other.
InReceiptOrder ==
  \A j \in Written("data") :
    /\ \A i \in Written("data") : i < j => out[i].n < out[j].n
    /\ \A n \in 1 .. out[j].n - 1 : \E i \in Written("data") : i < j /\ out[i].n = n

\* The completion marker stands directly before the exit, after every data
\* event, counts them, and covers all that the process group ever wrote.
AttestsTheWhole ==
  \A i \in Written("complete") :
    /\ out[i].n = Cardinality(Written("data"))
    /\ \A p \in Pipe : Taken(p) = Len(wrote[p])
    /\ Exited => i = Len(out) - 1

\* What stdout said, were it one text: every line, the open one included.
Said == ToSet([i \in 1 .. Taken("stdout") |-> wrote["stdout"][i].native])

\* The conclusion uses every chunk that was read, however late: a resume is
\* completed in the record exactly when a successful end was read, and the
\* exit is clean only then and with nothing unreadable.
ConcludesOnAllEvidence ==
  Exited =>
    /\ ask.resume =>
         (record.phase = "completed" <=> "stop" \in Said)
    /\ out[Len(out)].status = "exit0" =>
         /\ "bad" \notin Said /\ ~readFailed
         /\ ask.resume => "stop" \in Said
    /\ readFailed \/ \A p \in Pipe : Taken(p) = Len(wrote[p])

\* A launch with a deadline, with an exited child or with a completed resume
\* ends, whatever its process group keeps open.
Ends ==
  (ask.deadline \/ code # "none" \/ (ask.resume /\ heard = "completed"))
    ~> pc = "over"

\* README, Resumed-turn custody: "If a lingering OpenCode process is
\* terminated after response confirmation, the exit event retains the real
\* process signal while a separate marker records the confirmed application
\* response".
ExitIsReal ==
  (Exited /\ forced # "none") => out[Len(out)].status \in {forced, "unknown"}

\* README, Invocation framing: "Heartbeats bypass that deferred payload lane
\* so resumed launches remain visibly live": a launch that goes on is seen to.
StaysVisible == <>(beats > 0 \/ final # "none" \/ pc = "over")
=============================================================================
