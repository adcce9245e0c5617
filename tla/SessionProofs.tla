---------------------------- MODULE SessionProofs ----------------------------
(***************************************************************************)
(* Proofs about what is read of the native sessions: the pages of one      *)
(* session (TurnPages) and the enumeration of all (SessionEnumeration),    *)
(* for any number of processes, requests, places, rows, writes and turns.  *)
(***************************************************************************)
EXTENDS TurnPages, SessionEnumeration, FiniteSetTheorems, WellFoundedInduction, TLAPS

-----------------------------------------------------------------------------
(***************************************************************************)
(* The pages of a session: the invariant                                   *)
(***************************************************************************)
\* The program appends, completes and rewrites what is unfinished; it neither rewrites
\* what is finished nor deletes anything.
Grows == ~Edits /\ ~Withdraws

View ==
  [gen : Nat, guard : Guard, high : Place, gap : Place, cursor : Place, start : Place,
   origin : Place, base : SUBSET Turn, frozen : SUBSET Turn, got : SUBSET Turn,
   rows : SUBSET (Key \X Nat), turns : SUBSET Turn, upto : Place]

CallRecord == [mode : Mode, projection : Projection, token : Token \cup {None}]

Typed ==
  /\ src \in [Key -> Message \cup {NoMessage}]
  /\ other \in [message : Nat, part : Nat]
  /\ rev \in 0 .. MaxWrites /\ gen \in {0, 1}
  /\ pc \in [Invocation -> Location]
  /\ call \in [Invocation -> CallRecord]
  /\ view \in [Invocation -> View]
  /\ reached \in Nat /\ late \subseteq Key

PageToken == {t \in Token : t.kind = "page" /\ t.cursor < t.high}
ResumeToken == {t \in Token : t.kind = "resume"}

Hosted == host \in [page : PageToken \cup {None}, resume : ResumeToken \cup {None}]

\* A call has a token of the kind its mode asks for.
Called(c) ==
  /\ c.mode = "tail" => c.token = None
  /\ c.mode = "continuation" => c.token \in PageToken
  /\ c.mode = "beginning" /\ c.token # None => c.token \in ResumeToken
  /\ c.token # None => c.token.projection = c.projection

Sealing == {"revision", "frontier", "gap", "high", "seal"}
Paging == {"guard", "watermark", "metadata", "messages", "bodies", "final"}

\* What a process has listed and taken lies between the cursor and the watermark.
Confined(v, l) ==
  /\ l \in Paging => v.cursor <= v.high
  /\ l \in {"messages", "bodies"} =>
       v.rows # {} /\ \A r \in v.rows : v.cursor < r[1] /\ r[1] <= v.high
  /\ l = "final" => v.cursor <= v.upto /\ v.upto <= v.high

TypeInv ==
  /\ Typed /\ Hosted
  /\ \A i \in Invocation : Called(call[i]) /\ Confined(view[i], pc[i])

-----------------------------------------------------------------------------
Between(turns, from, to) == {x \in turns : from < x[1] /\ x[1] <= to}

\* The host was given what the snapshot froze, as far as the cursor.
Progress(t) ==
  /\ t.start <= t.cursor /\ t.cursor <= t.high
  /\ t.got = t.base \cup Between(t.frozen, t.start, t.cursor)

Finished(turns) == \A x \in turns : Immutable(src[x[1]])

\* As long as nothing intrudes, the snapshot holds what the store holds; what intrudes
\* will be seen.
Faithful(t, projection) ==
  /\ t.guard.rev <= rev
  /\ t.guard.message <= MessageTop /\ t.guard.part <= PartTop
  /\ rev = t.guard.rev => ~Intrudes(t.guard, t.high)
  /\ ~Intrudes(t.guard, t.high) =>
       /\ t.frozen =
            {Body(k) : k \in {j \in Present : j <= t.high /\ Matches(src[j], projection)}}
       /\ \A k \in Present : k <= t.high => Immutable(src[k])

\* Of what lies between two places the host was given all that did not come late.
Caught(turns, from, to, projection) ==
  /\ \A k \in Present \ late :
       from < k /\ k <= to /\ Matches(src[k], projection) => \E x \in turns : x[1] = k
  /\ to <= reached \/ to = from

GoodToken(t) ==
  /\ t.gen <= gen
  /\ t.kind = "page" => Progress(t)
  /\ t.kind = "resume" => t.got = t.base \cup Between(t.frozen, t.start, t.cursor)
  /\ t.gen = gen =>
       /\ Finished(t.got)
       /\ t.kind = "page" =>
            Faithful(t, t.projection) /\ Caught(t.base, t.origin, t.start, t.projection)
       /\ t.kind = "resume" => Caught(t.got, t.origin, t.cursor, t.projection)

FirstGap == IF Gaps = {} THEN 0 ELSE Min(Gaps)

Below(gap) == Max({0} \cup {k \in Present : gap # 0 => k < gap})

\* What was seen on the way to a snapshot is still so unless something was written.
Capturing(v, projection, l) ==
  /\ v.got = v.base /\ v.start = v.cursor /\ v.turns = {}
  /\ v.gen = gen =>
       /\ Finished(v.got) /\ Caught(v.base, v.origin, v.start, projection)
       /\ l # "revision" => v.guard.rev <= rev
       /\ rev = v.guard.rev =>
            /\ l \in {"gap", "high", "seal"} =>
                 v.guard.message = MessageTop /\ v.guard.part = PartTop
            /\ l \in {"high", "seal"} => v.gap = FirstGap
            /\ l = "seal" => v.high = Below(FirstGap)

\* A page is what the snapshot holds there, as long as nothing intrudes.
Reading(v, projection, l) ==
  /\ Progress(v)
  /\ l # "final" => v.turns = {}
  /\ v.gen = gen =>
       /\ Finished(v.got)
       /\ Faithful(v, projection) /\ Caught(v.base, v.origin, v.start, projection)
       /\ l \in {"messages", "bodies"} =>
            /\ \A r \in v.rows : r[1] \in Present
            /\ ~Intrudes(v.guard, v.high) =>
                 \A k \in Present, r \in v.rows :
                   v.cursor < k /\ k <= r[1] => \E q \in v.rows : q[1] = k
       /\ l = "final" /\ ~Intrudes(v.guard, v.high) =>
            v.turns = Between(v.frozen, v.cursor, v.upto)

GoodView(v, projection, l) ==
  /\ v.gen <= gen
  /\ l \in Sealing => Capturing(v, projection, l)
  /\ l \in Paging => Reading(v, projection, l)

PagesInv ==
  /\ \A t \in Held : GoodToken(t)
  /\ \A i \in Invocation :
       /\ call[i].token # None => GoodToken(call[i].token)
       /\ GoodView(view[i], call[i].projection, pc[i])

-----------------------------------------------------------------------------
(***************************************************************************)
(* Greatest and least                                                      *)
(***************************************************************************)

LEMMA MinIsLeast ==
  ASSUME NEW S \in SUBSET Nat, S # {}
  PROVE  Min(S) \in S /\ \A y \in S : Min(S) <= y
<1>1. PICK m \in S : \A k \in S : <<k, m>> \notin OpToRel(<, Nat)
  BY WFMin, NatLessThanWellFounded, Zenon
<1>2. \A k \in S : ~(k < m)
  BY <1>1, Zenon DEF OpToRel
<1>3. \A k \in S : m <= k
  BY <1>2
<1> QED BY <1>3 DEF Min

LEMMA MaxIsGreatest ==
  ASSUME NEW S \in SUBSET Nat, S # {}, NEW top \in Nat, \A y \in S : y <= top
  PROVE  Max(S) \in S /\ Max(S) \in Nat /\ \A y \in S : y <= Max(S)
<1> DEFINE T == {n \in Nat : \A y \in S : y <= n}
<1>1. T \subseteq Nat /\ T # {}
  OBVIOUS
<1>2. PICK m \in T : \A k \in T : m <= k
  BY <1>1, MinIsLeast
<1>3. m \in Nat /\ \A y \in S : y <= m
  OBVIOUS
<1>4. m \in S
  <2> SUFFICES ASSUME m \notin S PROVE FALSE
    OBVIOUS
  <2>1. \A y \in S : y \in Nat /\ y <= m - 1
    BY <1>3
  <2>2. m - 1 \in Nat
    <3>1. PICK y \in S : TRUE
      OBVIOUS
    <3>2. y \in Nat /\ y <= m - 1 /\ m \in Nat
      BY <1>3, <2>1
    <3> QED BY <3>2
  <2>3. m - 1 \in T
    BY <2>1, <2>2
  <2> QED BY <1>2, <1>3, <2>3
<1>5. \E x \in S : \A y \in S : x >= y
  BY <1>3, <1>4
<1> QED BY <1>5 DEF Max

\* Finitely many row ids have a greatest one.
LEMMA RowsAreBounded ==
  ASSUME NEW n \in Nat, NEW f \in [1 .. n -> Nat]
  PROVE  \E top \in Nat : \A k \in 1 .. n : f[k] <= top
<1> DEFINE Bound(j) == \E top \in Nat : \A k \in 1 .. j : f[k] <= top
<1> DEFINE T == {j \in Nat : j <= n /\ ~Bound(j)}
<1> SUFFICES ASSUME ~Bound(n) PROVE FALSE
  OBVIOUS
<1>1. T \subseteq Nat /\ n \in T
  OBVIOUS
<1>2. PICK j : j \in T /\ \A k \in T : j <= k
  BY <1>1, MinIsLeast
<1>3. j \in Nat /\ j <= n /\ ~Bound(j)
  BY <1>2
<1>4. Bound(0)
  <2>1. 0 \in Nat /\ \A k \in 1 .. 0 : f[k] <= 0
    OBVIOUS
  <2> QED BY <2>1
<1>5. j - 1 \in Nat /\ j \in 1 .. n
  BY <1>3, <1>4
<1> HIDE DEF Bound
<1>6. j - 1 \in T <=> ~Bound(j - 1)
  BY <1>3, <1>5
<1> HIDE DEF T
<1>7. Bound(j - 1)
  <2>1. j - 1 \notin T
    BY <1>2, <1>3, <1>5
  <2> QED BY <1>6, <2>1
<1>8. PICK top \in Nat : \A k \in 1 .. j - 1 : f[k] <= top
  BY <1>7 DEF Bound
<1>9. f[j] \in Nat
  BY <1>5
<1>10. PICK more \in Nat : top <= more /\ f[j] <= more
  BY <1>9, top + f[j] \in Nat
<1>11. \A k \in 1 .. j : f[k] <= more
  <2> SUFFICES ASSUME NEW k \in 1 .. j PROVE f[k] <= more
    OBVIOUS
  <2>1. CASE k = j
    BY <1>10, <2>1
  <2>2. CASE k # j
    <3>1. k \in 1 .. j - 1 /\ k \in 1 .. n
      BY <1>3, <2>2
    <3>2. f[k] <= top /\ f[k] \in Nat
      BY <1>8, <3>1
    <3> QED BY <1>10, <3>2
  <2> QED BY <2>1, <2>2
<1> QED BY <1>3, <1>11 DEF Bound

\* The greatest row ids of the two tables.
LEMMA TopsAreGreatest ==
  ASSUME src \in [Key -> Message \cup {NoMessage}], other \in [message : Nat, part : Nat]
  PROVE  /\ MessageTop \in Nat /\ other.message <= MessageTop
         /\ PartTop \in Nat /\ other.part <= PartTop
         /\ \A k \in Key : src[k].row \in Nat /\ src[k].row <= MessageTop
         /\ \A k \in Key : src[k].part \in Nat /\ src[k].part <= PartTop
         /\ MessageTop = other.message \/ \E k \in Key : MessageTop = src[k].row
         /\ PartTop = other.part \/ \E k \in Key : PartTop = src[k].part
<1> DEFINE rows == [k \in Key |-> src[k].row]
<1> DEFINE parts == [k \in Key |-> src[k].part]
<1>1. /\ \A k \in Key : src[k].row \in Nat /\ src[k].part \in Nat
      /\ other.message \in Nat /\ other.part \in Nat
  BY DEF Message, NoMessage
<1>2. PICK r \in Nat : \A k \in Key : src[k].row <= r
  <2>1. rows \in [1 .. MaxKey -> Nat] /\ MaxKey \in Nat
    BY <1>1, ConstantsOK DEF Key
  <2>2. \E top \in Nat : \A k \in 1 .. MaxKey : rows[k] <= top
    BY <2>1, RowsAreBounded
  <2> QED BY <2>2 DEF Key
<1>3. PICK p \in Nat : \A k \in Key : src[k].part <= p
  <2>1. parts \in [1 .. MaxKey -> Nat] /\ MaxKey \in Nat
    BY <1>1, ConstantsOK DEF Key
  <2>2. \E top \in Nat : \A k \in 1 .. MaxKey : parts[k] <= top
    BY <2>1, RowsAreBounded
  <2> QED BY <2>2 DEF Key
<1>4. LET S == {other.message} \cup {src[k].row : k \in Key}
      IN  Max(S) \in S /\ Max(S) \in Nat /\ \A y \in S : y <= Max(S)
  <2> DEFINE S == {other.message} \cup {src[k].row : k \in Key}
  <2>1. S \in SUBSET Nat /\ S # {}
    BY <1>1
  <2>2. PICK top \in Nat : r <= top /\ other.message <= top
    BY <1>1, r + other.message \in Nat
  <2>3. \A y \in S : y <= top
    BY <1>1, <1>2, <2>2
  <2> HIDE DEF S
  <2>4. Max(S) \in S /\ Max(S) \in Nat /\ \A y \in S : y <= Max(S)
    BY <2>1, <2>3, MaxIsGreatest
  <2> QED BY <2>4 DEF S
<1>5. LET S == {other.part} \cup {src[k].part : k \in Key}
      IN  Max(S) \in S /\ Max(S) \in Nat /\ \A y \in S : y <= Max(S)
  <2> DEFINE S == {other.part} \cup {src[k].part : k \in Key}
  <2>1. S \in SUBSET Nat /\ S # {}
    BY <1>1
  <2>2. PICK top \in Nat : p <= top /\ other.part <= top
    BY <1>1, p + other.part \in Nat
  <2>3. \A y \in S : y <= top
    BY <1>1, <1>3, <2>2
  <2> HIDE DEF S
  <2>4. Max(S) \in S /\ Max(S) \in Nat /\ \A y \in S : y <= Max(S)
    BY <2>1, <2>3, MaxIsGreatest
  <2> QED BY <2>4 DEF S
<1> QED BY <1>1, <1>4, <1>5 DEF MessageTop, PartTop

-----------------------------------------------------------------------------
(***************************************************************************)
(* Types                                                                   *)
(***************************************************************************)

LEMMA PlacesAreNumbers ==
  /\ Place \subseteq Nat /\ Key \subseteq Place /\ 0 \in Place
  /\ \A k \in Key : k > 0
  /\ \A n \in Nat : n <= MaxKey => n \in Place
BY ConstantsOK DEF Place, Key

LEMMA TurnsAreNumbered == \A x \in Turn : x[1] \in Key /\ x[1] \in Nat
BY PlacesAreNumbers DEF Turn

LEMMA NoViewIsView ==
  ASSUME NEW g \in Nat
  PROVE  [NoView EXCEPT !.gen = g] \in View /\ NoView \in View
BY PlacesAreNumbers DEF View, NoView, NoGuard, Guard

\* A process goes on with what it has read.
LEMMA MoveKeepsTypes ==
  ASSUME TypeInv, NEW i \in Invocation, NEW l \in Location, Goto(i, l),
         \/ view' = view /\ Confined(view[i], l)
         \/ \E v \in View : See(i, v) /\ Confined(v, l),
         UNCHANGED <<Source, call, host, History>>
  PROVE  TypeInv'
<1>1. PICK v \in View : view' = [view EXCEPT ![i] = v] /\ Confined(v, l)
  <2>1. view \in [Invocation -> View]
    BY DEF TypeInv, Typed
  <2>2. view = [view EXCEPT ![i] = view[i]] /\ view[i] \in View
    BY <2>1
  <2> QED BY <2>2 DEF See
<1>2. pc' = [pc EXCEPT ![i] = l]
      /\ UNCHANGED <<src, other, rev, gen, call, host, reached, late>>
  BY DEF Goto, Source, History
<1>3. Typed'
  BY <1>1, <1>2 DEF TypeInv, Typed
<1>4. \A j \in Invocation : Confined(view'[j], pc'[j])
  <2> SUFFICES ASSUME NEW j \in Invocation PROVE Confined(view'[j], pc'[j])
    OBVIOUS
  <2>1. CASE j = i
    <3>1. view'[j] = v /\ pc'[j] = l
      BY <1>1, <1>2, <2>1 DEF TypeInv, Typed
    <3> QED BY <1>1, <3>1
  <2>2. CASE j # i
    <3>1. view'[j] = view[j] /\ pc'[j] = pc[j]
      BY <1>1, <1>2, <2>2 DEF TypeInv, Typed
    <3> QED BY <3>1 DEF TypeInv
  <2> QED BY <2>1, <2>2
<1>5. \A j \in Invocation : Called(call'[j])
  BY <1>2 DEF TypeInv
<1> QED BY <1>2, <1>3, <1>4, <1>5 DEF TypeInv, Hosted, Confined

\* A process ends.
LEMMA EndKeepsTypes ==
  ASSUME TypeInv, NEW i \in Invocation,
         NEW h \in [page : PageToken \cup {None}, resume : ResumeToken \cup {None}], End(i, h),
         UNCHANGED <<Source, late>>, reached' \in Nat
  PROVE  TypeInv'
<1>1. /\ pc' = [pc EXCEPT ![i] = "idle"] /\ call' = [call EXCEPT ![i] = NoCall]
      /\ view' = [view EXCEPT ![i] = NoView] /\ host' = h
      /\ UNCHANGED <<src, other, rev, gen, late>>
  BY DEF End, Goto, Source
<1>2. NoCall \in CallRecord /\ Called(NoCall) /\ NoView \in View /\ Confined(NoView, "idle")
  BY NoViewIsView DEF NoCall, CallRecord, Called, Mode, Projection, Confined, Paging
<1>3. Typed'
  BY <1>1, <1>2 DEF TypeInv, Typed, Location
<1>4. ASSUME NEW j \in Invocation
      PROVE  Called(call'[j]) /\ Confined(view'[j], pc'[j])
  <2>1. CASE j = i
    <3>1. call'[j] = NoCall /\ view'[j] = NoView /\ pc'[j] = "idle"
      BY <1>1, <2>1 DEF TypeInv, Typed
    <3> QED BY <1>2, <3>1
  <2>2. CASE j # i
    <3>1. call'[j] = call[j] /\ view'[j] = view[j] /\ pc'[j] = pc[j]
      BY <1>1, <2>2 DEF TypeInv, Typed
    <3> QED BY <3>1 DEF TypeInv
  <2> QED BY <2>1, <2>2
<1> QED BY <1>1, <1>3, <1>4 DEF TypeInv, Hosted

LEMMA RefuseKeepsTypes ==
  ASSUME TypeInv, NEW i \in Invocation, Refuse(i)
  PROVE  TypeInv'
<1>1. PICK h \in {[host EXCEPT !.page = None], [page |-> None, resume |-> None]} :
        End(i, h) /\ UNCHANGED <<Source, History>>
  BY DEF Refuse
<1>2. h \in [page : PageToken \cup {None}, resume : ResumeToken \cup {None}]
  BY DEF TypeInv, Hosted
<1>3. reached' \in Nat /\ UNCHANGED <<Source, late>>
  BY <1>1 DEF TypeInv, Typed, History
<1> QED BY <1>1, <1>2, <1>3, EndKeepsTypes

\* A call takes the token the host holds, of the kind its mode asks for.
LEMMA CallKeepsTypes ==
  ASSUME TypeInv, NEW i \in Invocation, Call(i)
  PROVE  TypeInv'
<1>1. /\ pc[i] = "idle" /\ pc' = [pc EXCEPT ![i] = "open"]
      /\ UNCHANGED <<src, other, rev, gen, view, host, reached, late>>
  BY DEF Call, Goto, Source, History
<1>2. \E c \in CallRecord : call' = [call EXCEPT ![i] = c] /\ Called(c)
  <2>0. /\ host.page # None => host.page \in PageToken
        /\ host.resume # None => host.resume \in ResumeToken
        /\ \A t \in Token : t.projection \in Projection
    BY DEF TypeInv, Hosted, Token
  <2>1. CASE host.page # None /\ call' = [call EXCEPT ![i] =
               [mode |-> "continuation", token |-> host.page,
                projection |-> host.page.projection]]
    <3> DEFINE c == [mode |-> "continuation", token |-> host.page,
                     projection |-> host.page.projection]
    <3>1. host.page \in PageToken /\ host.page \in Token /\ host.page.projection \in Projection
      BY <2>0, <2>1 DEF PageToken
    <3>2. c \in CallRecord
      BY <3>1 DEF CallRecord, Mode
    <3>3. Called(c)
      BY <3>1 DEF Called
    <3> QED BY <2>1, <3>2, <3>3
  <2>2. CASE host.resume # None /\ call' = [call EXCEPT ![i] =
               [mode |-> "beginning", token |-> host.resume,
                projection |-> host.resume.projection]]
    <3> DEFINE c == [mode |-> "beginning", token |-> host.resume,
                     projection |-> host.resume.projection]
    <3>1. /\ host.resume \in ResumeToken /\ host.resume \in Token
          /\ host.resume.projection \in Projection
      BY <2>0, <2>2 DEF ResumeToken
    <3>2. c \in CallRecord
      BY <3>1 DEF CallRecord, Mode
    <3>3. Called(c)
      BY <3>1 DEF Called
    <3> QED BY <2>2, <3>2, <3>3
  <2>3. CASE \E p \in Projection : call' = [call EXCEPT ![i] =
               [mode |-> "beginning", token |-> None, projection |-> p]]
    BY <2>3 DEF CallRecord, Called, Mode
  <2>4. CASE call' = [call EXCEPT ![i] =
               [mode |-> "tail", token |-> None, projection |-> "user_observation"]]
    <3> DEFINE c == [mode |-> "tail", token |-> None, projection |-> "user_observation"]
    <3>1. c \in CallRecord
      BY DEF CallRecord, Mode, Projection
    <3>2. Called(c)
      BY DEF Called
    <3> QED BY <2>4, <3>1, <3>2
  <2> QED BY <2>1, <2>2, <2>3, <2>4 DEF Call
<1>3. PICK c \in CallRecord : call' = [call EXCEPT ![i] = c] /\ Called(c)
  BY <1>2
<1>4. Typed'
  BY <1>1, <1>3 DEF TypeInv, Typed, Location
<1>5. ASSUME NEW j \in Invocation
      PROVE  Called(call'[j]) /\ Confined(view'[j], pc'[j])
  <2>1. CASE j = i
    <3>1. call'[j] = c /\ pc'[j] = "open"
      BY <1>1, <1>3, <2>1 DEF TypeInv, Typed
    <3> QED BY <1>3, <3>1 DEF Confined, Paging
  <2>2. CASE j # i
    <3>1. call'[j] = call[j] /\ view'[j] = view[j] /\ pc'[j] = pc[j]
      BY <1>1, <1>3, <2>2 DEF TypeInv, Typed
    <3> QED BY <3>1 DEF TypeInv
  <2> QED BY <2>1, <2>2
<1> QED BY <1>1, <1>4, <1>5 DEF TypeInv, Hosted

LEMMA TokensAreViews ==
  ASSUME Typed, NEW t \in Token
  PROVE  Continuation(t) \in View /\ Resumption(t) \in View
<1>1. gen \in Nat
  BY DEF Typed
<1> QED BY <1>1, PlacesAreNumbers
        DEF Token, Continuation, Resumption, Fresh, View, NoView, NoGuard, Guard

LEMMA OpenKeepsTypes ==
  ASSUME TypeInv, NEW i \in Invocation, Open(i)
  PROVE  TypeInv'
<1>1. Typed /\ gen \in Nat
  BY DEF TypeInv, Typed
<1>2. CASE call[i].token = None /\ See(i, Fresh) /\ Goto(i, "revision")
  <2>1. Fresh \in View /\ Confined(Fresh, "revision")
    BY <1>1, NoViewIsView DEF Fresh, Confined, Paging
  <2> QED BY <1>2, <2>1, MoveKeepsTypes DEF Open, Location
<1>3. CASE /\ call[i].token # None /\ call[i].mode = "continuation"
           /\ See(i, Continuation(call[i].token)) /\ Goto(i, "guard")
  <2>1. call[i].token \in PageToken
    BY <1>3 DEF TypeInv, Called
  <2>2. Continuation(call[i].token) \in View
    BY <1>1, <2>1, TokensAreViews DEF PageToken
  <2>3. call[i].token.cursor <= call[i].token.high
    <3>1. call[i].token.cursor \in Place /\ call[i].token.high \in Place
      BY <2>1 DEF PageToken, Token
    <3>2. call[i].token.cursor < call[i].token.high
      BY <2>1 DEF PageToken
    <3>3. call[i].token.cursor \in Nat /\ call[i].token.high \in Nat
      BY <3>1, PlacesAreNumbers
    <3> QED BY <3>2, <3>3
  <2>4. Confined(Continuation(call[i].token), "guard")
    BY <2>3 DEF Confined, Continuation, Fresh, NoView
  <2> QED BY <1>3, <2>2, <2>4, MoveKeepsTypes DEF Open, Location
<1>4. CASE /\ call[i].token # None /\ call[i].mode = "beginning"
           /\ See(i, Resumption(call[i].token)) /\ Goto(i, "revision")
  <2>1. call[i].token \in Token
    BY <1>4 DEF TypeInv, Called, ResumeToken
  <2>2. Resumption(call[i].token) \in View
    BY <1>1, <2>1, TokensAreViews
  <2>3. Confined(Resumption(call[i].token), "revision")
    BY DEF Confined, Paging
  <2> QED BY <1>4, <2>2, <2>3, MoveKeepsTypes DEF Open, Location
<1> QED BY <1>2, <1>3, <1>4 DEF Open

\* What is known of the store and of a process.
LEMMA Known ==
  ASSUME TypeInv, NEW i \in Invocation
  PROVE  /\ view[i] \in View /\ call[i] \in CallRecord /\ pc[i] \in Location
         /\ rev \in Nat /\ gen \in Nat /\ reached \in Nat
         /\ MessageTop \in Nat /\ PartTop \in Nat
         /\ Present \subseteq Key /\ Gaps \subseteq Present
         /\ \A k \in Key : Body(k) \in Turn /\ src[k].ver \in Nat /\ src[k].text \in Nat
         /\ Confined(view[i], pc[i]) /\ Called(call[i])
<1>1. \A k \in Key : src[k].ver \in Nat /\ src[k].text \in Nat
  BY DEF TypeInv, Typed, Message, NoMessage
<1>2. rev \in Nat /\ gen \in Nat
  BY ConstantsOK DEF TypeInv, Typed
<1> QED BY <1>1, <1>2, TopsAreGreatest DEF TypeInv, Typed, Body, Turn, Present, Gaps

LEMMA CheckGuardKeepsTypes ==
  ASSUME TypeInv, NEW i \in Invocation, CheckGuard(i)
  PROVE  TypeInv'
<1>1. Confined(view[i], "metadata") /\ Confined(view[i], "watermark")
  BY Known DEF CheckGuard, Confined, Paging
<1>2. UNCHANGED <<Source, call, host, History>> /\ view' = view
  BY DEF CheckGuard
<1>3. CASE Goto(i, "metadata")
  BY <1>1, <1>2, <1>3, MoveKeepsTypes DEF Location
<1>4. CASE Goto(i, "watermark")
  BY <1>1, <1>2, <1>4, MoveKeepsTypes DEF Location
<1> QED BY <1>3, <1>4 DEF CheckGuard

LEMMA WatermarkKeepsTypes ==
  ASSUME TypeInv, NEW i \in Invocation, Watermark(i)
  PROVE  TypeInv'
<1>1. Confined(view[i], "metadata")
  BY Known DEF Watermark, Confined, Paging
<1> QED BY <1>1, MoveKeepsTypes DEF Watermark, Location

LEMMA RevisionKeepsTypes ==
  ASSUME TypeInv, NEW i \in Invocation, Revision(i)
  PROVE  TypeInv'
<1> DEFINE v == [view[i] EXCEPT !.guard.rev = rev]
<1>1. v \in View
  BY Known DEF View, Guard
<1>2. Confined(v, "frontier")
  BY DEF Confined, Paging
<1> QED BY <1>1, <1>2, MoveKeepsTypes DEF Revision, Location

LEMMA FrontierKeepsTypes ==
  ASSUME TypeInv, NEW i \in Invocation, Frontier(i)
  PROVE  TypeInv'
<1> DEFINE v == [view[i] EXCEPT !.guard.message = MessageTop, !.guard.part = PartTop]
<1>1. v \in View
  BY Known DEF View, Guard
<1>2. Confined(v, "gap")
  BY DEF Confined, Paging
<1> QED BY <1>1, <1>2, MoveKeepsTypes DEF Frontier, Location

\* The gap and the place before it are places.
LEMMA TailIsPlaced ==
  ASSUME TypeInv
  PROVE  /\ FirstGap \in Place
         /\ Gaps # {} => FirstGap \in Gaps /\ \A k \in Gaps : FirstGap <= k
         /\ \A gap \in Place :
              /\ Below(gap) \in Place
              /\ Below(gap) # 0 => Below(gap) \in Present /\ (gap # 0 => Below(gap) < gap)
              /\ \A k \in Present : (gap # 0 => k < gap) => k <= Below(gap)
<1>1. /\ Present \subseteq Key /\ Gaps \subseteq Key /\ Key \subseteq Nat
      /\ MaxKey \in Nat /\ \A k \in Key : k <= MaxKey
  BY ConstantsOK DEF Present, Gaps, Key
<1>2. Gaps # {} => Min(Gaps) \in Gaps /\ \A k \in Gaps : Min(Gaps) <= k
  BY <1>1, MinIsLeast
<1>3. ASSUME NEW gap \in Place
      PROVE  /\ Below(gap) \in Place
             /\ Below(gap) # 0 => Below(gap) \in Present /\ (gap # 0 => Below(gap) < gap)
             /\ \A k \in Present : (gap # 0 => k < gap) => k <= Below(gap)
  <2> DEFINE S == {0} \cup {k \in Present : gap # 0 => k < gap}
  <2>0. ASSUME NEW y \in S PROVE y \in Nat /\ y <= MaxKey
    <3>1. CASE y = 0
      BY <1>1, <3>1
    <3>2. CASE y \in Present
      BY <1>1, <3>2
    <3> QED BY <3>1, <3>2
  <2>1. S \in SUBSET Nat /\ S # {} /\ \A y \in S : y <= MaxKey
    BY <2>0
  <2>2. \A y \in S : y \in Place /\ (y # 0 => y \in Present /\ (gap # 0 => y < gap))
    BY <1>1, PlacesAreNumbers
  <2>3. \A k \in Present : (gap # 0 => k < gap) => k \in S
    OBVIOUS
  <2> HIDE DEF S
  <2>4. Max(S) \in S /\ \A y \in S : y <= Max(S)
    BY <1>1, <2>1, MaxIsGreatest
  <2>5. Below(gap) = Max(S)
    BY DEF Below, S
  <2> QED BY <2>2, <2>3, <2>4, <2>5
<1> QED BY <1>1, <1>2, <1>3, PlacesAreNumbers DEF FirstGap

LEMMA GapKeepsTypes ==
  ASSUME TypeInv, NEW i \in Invocation, Gap(i)
  PROVE  TypeInv'
<1> DEFINE v == [view[i] EXCEPT !.gap = FirstGap]
<1>1. v \in View
  BY Known, TailIsPlaced DEF View
<1>2. Confined(v, "high")
  BY DEF Confined, Paging
<1>3. See(i, v)
  BY DEF Gap, FirstGap
<1> QED BY <1>1, <1>2, <1>3, MoveKeepsTypes DEF Gap, Location

LEMMA HighKeepsTypes ==
  ASSUME TypeInv, NEW i \in Invocation, High(i)
  PROVE  TypeInv'
<1> DEFINE v == [view[i] EXCEPT !.high = Below(view[i].gap)]
<1>1. view[i].gap \in Place
  BY Known DEF View
<1>2. v \in View
  BY <1>1, Known, TailIsPlaced DEF View
<1>3. Confined(v, "seal")
  BY DEF Confined, Paging
<1>4. See(i, v)
  BY DEF High, Below
<1> QED BY <1>2, <1>3, <1>4, MoveKeepsTypes DEF High, Location

LEMMA SealKeepsTypes ==
  ASSUME TypeInv, NEW i \in Invocation, Seal(i)
  PROVE  TypeInv'
<1>1. PICK from : from = IF call[i].mode = "tail" THEN view[i].high ELSE view[i].cursor
  OBVIOUS
<1>2. PICK v : v = [view[i] EXCEPT !.cursor = from, !.start = from, !.upto = from,
                      !.origin = IF call[i].mode = "tail" THEN from ELSE view[i].origin,
                      !.frozen = Frozen(i)]
  OBVIOUS
<1>3. view[i] \in View
  BY Known
<1>4. /\ from \in Place /\ view[i].high \in Place /\ view[i].origin \in Place
      /\ from \in Nat /\ view[i].high \in Nat
  BY <1>1, <1>3, PlacesAreNumbers DEF View
<1>5. from <= view[i].high
  BY <1>1, <1>4 DEF Seal, Sealed
<1>6. Frozen(i) \in SUBSET Turn
  BY Known DEF Frozen
<1>7. v \in View
  BY <1>2, <1>3, <1>4, <1>6 DEF View
<1>8. v.cursor = from /\ v.upto = from /\ v.high = view[i].high
  BY <1>2, <1>3 DEF View
<1>9. Confined(v, "final") /\ Confined(v, "metadata")
  BY <1>4, <1>5, <1>8 DEF Confined
<1>10. See(i, v) /\ UNCHANGED <<Source, call, host, History>>
  BY <1>1, <1>2 DEF Seal
<1>11. CASE Goto(i, "final")
  BY <1>7, <1>9, <1>10, <1>11, MoveKeepsTypes DEF Location
<1>12. CASE Goto(i, "metadata")
  BY <1>7, <1>9, <1>10, <1>12, MoveKeepsTypes DEF Location
<1> QED BY <1>11, <1>12 DEF Seal

LEMMA MetadataKeepsTypes ==
  ASSUME TypeInv, NEW i \in Invocation, Metadata(i)
  PROVE  TypeInv'
<1>1. view[i] \in View /\ view[i].cursor <= view[i].high
  BY Known DEF Metadata, Confined, Paging
<1>2. view[i].cursor \in Nat /\ view[i].high \in Nat
  BY <1>1, PlacesAreNumbers DEF View
<1>3. CASE See(i, [view[i] EXCEPT !.upto = view[i].cursor]) /\ Goto(i, "final")
  <2> DEFINE v == [view[i] EXCEPT !.upto = view[i].cursor]
  <2>1. v \in View
    BY <1>1 DEF View
  <2>2. Confined(v, "final")
    BY <1>1, <1>2 DEF Confined, View
  <2> QED BY <1>3, <2>1, <2>2, MoveKeepsTypes DEF Metadata, Location
<1>4. CASE Goto(i, "messages") /\ \E k \in Ahead(i) :
             See(i, [view[i] EXCEPT !.rows = {<<j, src[j].ver>> : j \in Upto(Ahead(i), k)}])
  <2>1. PICK k \in Ahead(i) :
          See(i, [view[i] EXCEPT !.rows = {<<j, src[j].ver>> : j \in Upto(Ahead(i), k)}])
    BY <1>4
  <2>2. PICK rows : rows = {<<j, src[j].ver>> : j \in Upto(Ahead(i), k)}
    OBVIOUS
  <2> DEFINE v == [view[i] EXCEPT !.rows = rows]
  <2>3. k \in Key /\ k \in Nat
    BY PlacesAreNumbers DEF Ahead, Present
  <2>4. <<k, src[k].ver>> \in rows
    BY <2>2, <2>3 DEF Upto
  <2>5. \A r \in rows : r \in Key \X Nat /\ view[i].cursor < r[1] /\ r[1] <= view[i].high
    BY <2>2, Known DEF Upto, Ahead, Present
  <2>6. v \in View
    BY <1>1, <2>5 DEF View
  <2>7. v.rows = rows /\ v.cursor = view[i].cursor /\ v.high = view[i].high
    BY <1>1 DEF View
  <2>8. Confined(v, "messages")
    BY <1>1, <2>4, <2>5, <2>7 DEF Confined
  <2>9. See(i, v)
    BY <2>1, <2>2
  <2> QED BY <1>4, <2>6, <2>8, <2>9, MoveKeepsTypes DEF Metadata, Location
<1> QED BY <1>3, <1>4 DEF Metadata

LEMMA MessagesKeepsTypes ==
  ASSUME TypeInv, NEW i \in Invocation, Messages(i)
  PROVE  TypeInv'
<1>1. Confined(view[i], "bodies")
  BY Known DEF Messages, Confined, Paging
<1> QED BY <1>1, MoveKeepsTypes DEF Messages, Location

LEMMA BodiesKeepsTypes ==
  ASSUME TypeInv, NEW i \in Invocation, Bodies(i)
  PROVE  TypeInv'
<1>1. PICK s \in SUBSET Relevant(i) :
        LET rest == Relevant(i) \ s
            next == IF rest = {} THEN MaxKey + 1 ELSE Min(rest)
            taken == {k \in Listed(i) : k < next}
        IN  taken # {} /\ See(i, [view[i] EXCEPT !.turns = {Body(k) : k \in s},
                                                 !.upto = Max(taken)])
  BY DEF Bodies
<1>2. PICK next : next = IF Relevant(i) \ s = {} THEN MaxKey + 1 ELSE Min(Relevant(i) \ s)
  OBVIOUS
<1>3. PICK taken : taken = {k \in Listed(i) : k < next}
  OBVIOUS
<1>4. view[i] \in View /\ view[i].rows \in SUBSET (Key \X Nat)
  BY Known DEF View
<1>5. \A r \in view[i].rows : view[i].cursor < r[1] /\ r[1] <= view[i].high
  BY Known DEF Bodies, Confined
<1>6. /\ Listed(i) \subseteq Key /\ taken \in SUBSET Key /\ taken # {}
      /\ \A k \in taken : view[i].cursor < k /\ k <= view[i].high
  BY <1>1, <1>2, <1>3, <1>4, <1>5 DEF Listed
<1>7. Max(taken) \in taken
  <2>1. taken \in SUBSET Nat /\ MaxKey \in Nat /\ \A k \in taken : k <= MaxKey
    BY <1>6, ConstantsOK DEF Key
  <2> QED BY <1>6, <2>1, MaxIsGreatest
<1>8. {Body(k) : k \in s} \in SUBSET Turn
  BY <1>6, Known DEF Relevant
<1>9. PICK v : v = [view[i] EXCEPT !.turns = {Body(k) : k \in s}, !.upto = Max(taken)]
  OBVIOUS
<1>10. See(i, v)
  BY <1>1, <1>2, <1>3, <1>9
<1>11. Max(taken) \in Place
  BY <1>6, <1>7, PlacesAreNumbers
<1>12. v \in View
  BY <1>4, <1>8, <1>9, <1>11 DEF View
<1>13. v.upto = Max(taken) /\ v.cursor = view[i].cursor /\ v.high = view[i].high
  BY <1>4, <1>9 DEF View
<1>14. Confined(v, "final")
  <2>1. /\ v.cursor \in Nat /\ v.upto \in Nat /\ v.high \in Nat
        /\ v.cursor < v.upto /\ v.upto <= v.high
    BY <1>4, <1>6, <1>7, <1>11, <1>13, PlacesAreNumbers DEF View
  <2> QED BY <2>1 DEF Confined, Paging
<1> QED BY <1>10, <1>12, <1>14, MoveKeepsTypes DEF Bodies, Location

\* The page is answered by a token of the right kind.
LEMMA AnswersAreTokens ==
  ASSUME TypeInv, NEW i \in Invocation, pc[i] = "final"
  PROVE  /\ Answer(i) \in Token
         /\ Answer(i).kind = "page" => Answer(i) \in PageToken
         /\ Answer(i).kind # "page" => Answer(i) \in ResumeToken /\ Answer(i).kind = "resume"
         /\ Answer(i).cursor = view[i].upto
<1> DEFINE v == view[i]
<1>1. v \in View /\ call[i] \in CallRecord /\ v.cursor <= v.upto /\ v.upto <= v.high
  BY Known DEF Confined
<1>2. v.upto \in Nat /\ v.high \in Nat /\ v.got \cup v.turns \in SUBSET Turn
  BY <1>1, PlacesAreNumbers DEF View
<1>3. PICK t : t = Answer(i)
  OBVIOUS
<1>4. /\ t.kind = IF v.upto = v.high THEN "resume" ELSE "page"
      /\ t.cursor = v.upto /\ t.high = v.high
  BY <1>3 DEF Answer, TokenFor
<1>5. t \in Token
  BY <1>1, <1>2, <1>3 DEF Answer, TokenFor, Token, View, CallRecord
<1>6. t.kind = "page" => t.cursor < t.high
  BY <1>1, <1>2, <1>4
<1> QED BY <1>3, <1>4, <1>5, <1>6 DEF PageToken, ResumeToken

LEMMA DeliverKeepsTypes ==
  ASSUME TypeInv, NEW i \in Invocation, Deliver(i)
  PROVE  TypeInv'
<1> DEFINE Hosts == [page : PageToken \cup {None}, resume : ResumeToken \cup {None}]
<1>1. pc[i] = "final"
  BY DEF Deliver
<1>2. PICK h \in {IF Answer(i).kind = "page" THEN [host EXCEPT !.page = Answer(i)]
                  ELSE [page |-> None, resume |-> Answer(i)], host} : End(i, h)
  BY DEF Deliver
<1>3. h \in Hosts
  BY <1>1, AnswersAreTokens DEF TypeInv, Hosted
<1>4. reached' \in Nat
  <2>1. reached \in Nat /\ Answer(i).cursor \in Nat
    BY <1>1, Known, AnswersAreTokens, PlacesAreNumbers DEF View
  <2>2. CASE reached <= Answer(i).cursor
    <3>1. Max({reached, Answer(i).cursor}) \in Nat
      BY <2>1, <2>2, MaxIsGreatest
    <3> QED BY <2>1, <3>1 DEF Deliver
  <2>3. CASE Answer(i).cursor <= reached
    <3>1. Max({reached, Answer(i).cursor}) \in Nat
      BY <2>1, <2>3, MaxIsGreatest
    <3> QED BY <2>1, <3>1 DEF Deliver
  <2> QED BY <2>1, <2>2, <2>3
<1> QED BY <1>2, <1>3, <1>4, EndKeepsTypes DEF Deliver

LEMMA PageFailsKeepsTypes ==
  ASSUME TypeInv, NEW i \in Invocation, PageFails(i)
  PROVE  TypeInv'
<1>1. host \in [page : PageToken \cup {None}, resume : ResumeToken \cup {None}]
  BY DEF TypeInv, Hosted
<1>2. End(i, host) /\ UNCHANGED <<Source, late>> /\ reached' \in Nat
  BY DEF PageFails, History, TypeInv, Typed
<1> QED BY <1>1, <1>2, EndKeepsTypes

LEMMA StepKeepsTypes ==
  ASSUME TypeInv, NEW i \in Invocation, Step(i)
  PROVE  TypeInv'
<1>1. CASE \/ OpenRefused(i) \/ GuardRefused(i) \/ WatermarkRefused(i)
           \/ CaptureRefused(i) \/ PageRefused(i) \/ RespondRefused(i)
  <2>1. Refuse(i)
    BY <1>1 DEF OpenRefused, GuardRefused, WatermarkRefused, CaptureRefused, PageRefused,
                RespondRefused
  <2> QED BY <2>1, RefuseKeepsTypes
<1>2. CASE Respond(i)
  BY <1>2, DeliverKeepsTypes DEF Respond
<1>3. CASE Open(i) \/ CheckGuard(i) \/ Watermark(i)
  BY <1>3, OpenKeepsTypes, CheckGuardKeepsTypes, WatermarkKeepsTypes
<1>4. CASE Revision(i) \/ Frontier(i) \/ Gap(i) \/ High(i) \/ Seal(i)
  BY <1>4, RevisionKeepsTypes, FrontierKeepsTypes, GapKeepsTypes, HighKeepsTypes,
     SealKeepsTypes
<1>5. CASE Metadata(i) \/ Messages(i) \/ Bodies(i)
  BY <1>5, MetadataKeepsTypes, MessagesKeepsTypes, BodiesKeepsTypes
<1> QED BY <1>1, <1>2, <1>3, <1>4, <1>5 DEF Step

\* The store keeps its types while the readers do nothing.
LEMMA StoreKeepsTypes ==
  ASSUME TypeInv, Reader' = Reader,
         src' \in [Key -> Message \cup {NoMessage}], other' \in [message : Nat, part : Nat],
         rev' \in 0 .. MaxWrites, gen' \in {0, 1}, reached' \in Nat, late' \subseteq Key
  PROVE  TypeInv'
<1>1. UNCHANGED <<pc, call, view, host>>
  BY DEF Reader
<1> QED BY <1>1 DEF TypeInv, Typed, Hosted, Called, Confined

LEMMA OpenCodeKeepsTypes ==
  ASSUME TypeInv, OpenCode
  PROVE  TypeInv'
<1>1. /\ src \in [Key -> Message \cup {NoMessage}] /\ other \in [message : Nat, part : Nat]
      /\ gen \in {0, 1} /\ reached \in Nat /\ late \subseteq Key
      /\ MessageTop \in Nat /\ PartTop \in Nat
      /\ Reader' = Reader
  <2>1. Reader' = Reader
    BY DEF OpenCode, Insert, InsertPart, Complete, Edit, InsertElsewhere, Replace, Reader
  <2> QED BY <2>1, TopsAreGreatest DEF TypeInv, Typed
<1>2. rev' \in 0 .. MaxWrites
  <2>1. rev \in 0 .. MaxWrites /\ MaxWrites \in Nat
    BY ConstantsOK DEF TypeInv, Typed
  <2>2. Written
    BY DEF OpenCode, Insert, InsertPart, Complete, Edit, InsertElsewhere, Replace
  <2> QED BY <2>1, <2>2 DEF Written
<1>3. ASSUME NEW k \in Key, Insert(k) PROVE TypeInv'
  <2>1. PICK role \in {"user", "assistant"} :
          src' = [src EXCEPT ![k] = [role |-> role, done |-> role = "user",
                                     row |-> MessageTop + 1, part |-> 0, ver |-> 1, text |-> 0]]
    BY <1>3 DEF Insert
  <2>2. src' \in [Key -> Message \cup {NoMessage}]
    <3> DEFINE m == [role |-> role, done |-> role = "user",
                     row |-> MessageTop + 1, part |-> 0, ver |-> 1, text |-> 0]
    <3>1. m \in Message
      BY <1>1 DEF Message
    <3> HIDE DEF m
    <3>2. src' = [src EXCEPT ![k] = m]
      BY <2>1 DEF m
    <3> QED BY <1>1, <3>1, <3>2
  <2>3. late' \subseteq Key /\ UNCHANGED <<other, gen, reached>>
    BY <1>1, <1>3 DEF Insert
  <2> QED BY <1>1, <1>2, <2>2, <2>3, StoreKeepsTypes
<1>4. ASSUME NEW k \in Key, InsertPart(k) PROVE TypeInv'
  <2>1. src[k] \in Message
    BY <1>1, <1>4 DEF InsertPart, Present, NoMessage
  <2>2. PICK m : m = [src[k] EXCEPT !.part = PartTop + 1, !.text = @ + 1]
    OBVIOUS
  <2>3. m \in Message
    <3>1. PartTop + 1 \in Nat /\ src[k].text + 1 \in Nat
      BY <1>1, <2>1 DEF Message
    <3>2. m = [role |-> src[k].role, done |-> src[k].done, row |-> src[k].row,
               part |-> PartTop + 1, ver |-> src[k].ver, text |-> src[k].text + 1]
      BY <2>1, <2>2 DEF Message
    <3> QED BY <2>1, <3>1, <3>2, Zenon DEF Message
  <2>4. src' = [src EXCEPT ![k] = m]
    BY <1>1, <1>4, <2>1, <2>2 DEF InsertPart, Message
  <2>5. src' \in [Key -> Message \cup {NoMessage}] /\ UNCHANGED <<other, gen, reached, late>>
    BY <1>1, <1>4, <2>3, <2>4 DEF InsertPart, History
  <2> QED BY <1>1, <1>2, <2>5, StoreKeepsTypes
<1>5. ASSUME NEW k \in Key, Complete(k) PROVE TypeInv'
  <2>1. src[k] \in Message
    BY <1>1, <1>5 DEF Complete, Gaps, Present, NoMessage
  <2>2. PICK m : m = [src[k] EXCEPT !.done = TRUE, !.ver = @ + 1]
    OBVIOUS
  <2>3. m \in Message
    <3>1. src[k].ver + 1 \in Nat
      BY <2>1 DEF Message
    <3>2. m = [role |-> src[k].role, done |-> TRUE, row |-> src[k].row,
               part |-> src[k].part, ver |-> src[k].ver + 1, text |-> src[k].text]
      BY <2>1, <2>2 DEF Message
    <3> QED BY <2>1, <3>1, <3>2 DEF Message
  <2>4. src' = [src EXCEPT ![k] = m]
    BY <1>1, <1>5, <2>1, <2>2 DEF Complete, Message
  <2>5. src' \in [Key -> Message \cup {NoMessage}] /\ UNCHANGED <<other, gen, reached, late>>
    BY <1>1, <1>5, <2>3, <2>4 DEF Complete, History
  <2> QED BY <1>1, <1>2, <2>5, StoreKeepsTypes
<1>6. ASSUME NEW k \in Key, Edit(k) PROVE TypeInv'
  <2>1. src[k] \in Message
    BY <1>1, <1>6 DEF Edit, Gaps, Present, NoMessage
  <2>2. PICK m \in Edited(src[k]) : src' = [src EXCEPT ![k] = m]
    BY <1>6 DEF Edit
  <2>3. m \in Message \cup {NoMessage}
    BY <2>1, <2>2 DEF Edited, Message
  <2>4. src' \in [Key -> Message \cup {NoMessage}] /\ UNCHANGED <<other, gen, reached, late>>
    BY <1>1, <1>6, <2>2, <2>3 DEF Edit, History
  <2> QED BY <1>1, <1>2, <2>4, StoreKeepsTypes
<1>7. CASE InsertElsewhere
  <2>1. other' \in [message : Nat, part : Nat] /\ UNCHANGED <<src, gen, reached, late>>
    BY <1>1, <1>7 DEF InsertElsewhere, History
  <2> QED BY <1>1, <1>2, <2>1, StoreKeepsTypes
<1>8. CASE Replace
  <2>1. /\ src' \in [Key -> Message \cup {NoMessage}] /\ other' \in [message : Nat, part : Nat]
        /\ gen' \in {0, 1} /\ reached' \in Nat /\ late' \subseteq Key
    BY <1>8 DEF Replace
  <2> QED BY <1>1, <1>2, <2>1, StoreKeepsTypes
<1> QED BY <1>3, <1>4, <1>5, <1>6, <1>7, <1>8 DEF OpenCode

LEMMA InitTypes == Init => TypeInv
<1> SUFFICES ASSUME Init PROVE TypeInv
  OBVIOUS
<1>1. FirstMessage \in Message
  BY DEF FirstMessage, Message
<1>2. src \in [Key -> Message \cup {NoMessage}]
  BY <1>1 DEF Init
<1>3. NoCall \in CallRecord /\ NoView \in View
  BY NoViewIsView DEF NoCall, CallRecord, Mode, Projection
<1>4. Typed
  BY <1>2, <1>3, ConstantsOK DEF Init, Typed, Location
<1>5. Called(NoCall) /\ Confined(NoView, "idle")
  BY DEF Called, NoCall, Confined, Paging
<1> QED BY <1>4, <1>5 DEF Init, TypeInv, Hosted

LEMMA NextTypes == TypeInv /\ [Next]_vars => TypeInv'
<1> SUFFICES ASSUME TypeInv, [Next]_vars PROVE TypeInv'
  OBVIOUS
<1>1. CASE UNCHANGED vars
  BY <1>1 DEF vars, TypeInv, Typed, Hosted, Called, Confined
<1>2. CASE OpenCode
  BY <1>2, OpenCodeKeepsTypes
<1>3. ASSUME NEW i \in Invocation, Call(i) \/ Step(i) \/ PageFails(i) PROVE TypeInv'
  BY <1>3, CallKeepsTypes, StepKeepsTypes, PageFailsKeepsTypes
<1> QED BY <1>1, <1>2, <1>3 DEF Next

\* The store, the tokens and the processes have the values they are meant to have, and a
\* page token always has something left to read, whatever is rewritten, withdrawn or
\* replaced between the queries (page_result answers with a page token only below the
\* watermark).
THEOREM TypeCorrect == Spec => []TypeOK
<1>1. TypeInv => TypeOK
  BY DEF TypeInv, Typed, Hosted, TypeOK, CallRecord, PageToken, ResumeToken
<1>2. Spec => []TypeInv
  BY InitTypes, NextTypes, PTL DEF Spec
<1> QED BY <1>1, <1>2, PTL

-----------------------------------------------------------------------------
(***************************************************************************)
(* What a write can and cannot do                                          *)
(***************************************************************************)
Tops ==
  /\ MessageTop \in Nat /\ PartTop \in Nat
  /\ other.message \in Nat /\ other.message <= MessageTop
  /\ other.part \in Nat /\ other.part <= PartTop
  /\ \A k \in Key : /\ src[k].row \in Nat /\ src[k].row <= MessageTop
                    /\ src[k].part \in Nat /\ src[k].part <= PartTop
  /\ MessageTop = other.message \/ \E k \in Key : MessageTop = src[k].row
  /\ PartTop = other.part \/ \E k \in Key : PartTop = src[k].part

LEMMA TopsHold == TypeInv => Tops
BY TopsAreGreatest DEF TypeInv, Typed, Tops

LEMMA TopsHoldNext == TypeInv' => Tops'
BY TopsHold, PTL

\* A write leaves what is immutable as it is, but for its parts, and numbers what it adds
\* after all there was.
Grown ==
  /\ rev' = rev + 1 /\ gen' = gen /\ reached' = reached /\ late \subseteq late'
  /\ MessageTop <= MessageTop' /\ PartTop <= PartTop'
  /\ \A k \in Present :
       /\ k \in Present' /\ src'[k].role = src[k].role /\ src'[k].row = src[k].row
       /\ src'[k].part = src[k].part \/ src'[k].part > PartTop
       /\ Immutable(src[k]) => Immutable(src'[k])
       /\ Immutable(src[k]) /\ src'[k].part = src[k].part => src'[k].text = src[k].text
  /\ \A k \in Present' \ Present : src'[k].row > MessageTop /\ (k > reached \/ k \in late')

\* The greatest row ids grow with the rows.
LEMMA TopsGrow ==
  ASSUME TypeInv, TypeInv', other.message <= other'.message, other.part <= other'.part,
         \A k \in Key : src[k].row <= src'[k].row /\ src[k].part <= src'[k].part
  PROVE  MessageTop <= MessageTop' /\ PartTop <= PartTop'
<1>1. Tops /\ Tops'
  BY TopsHold, TopsHoldNext
<1>2. MessageTop <= MessageTop'
  <2>1. CASE MessageTop = other.message
    <3>1. /\ MessageTop \in Nat /\ (MessageTop)' \in Nat /\ other'.message \in Nat
          /\ other'.message <= MessageTop' /\ MessageTop <= other'.message
      BY <1>1, <2>1 DEF Tops
    <3> QED BY <3>1
  <2>2. ASSUME NEW k \in Key, MessageTop = src[k].row PROVE MessageTop <= MessageTop'
    <3>1. /\ MessageTop \in Nat /\ (MessageTop)' \in Nat /\ src'[k].row \in Nat
          /\ src'[k].row <= MessageTop' /\ MessageTop <= src'[k].row
      BY <1>1, <2>2 DEF Tops
    <3> QED BY <3>1
  <2> QED BY <1>1, <2>1, <2>2 DEF Tops
<1>3. PartTop <= PartTop'
  <2>1. CASE PartTop = other.part
    <3>1. /\ PartTop \in Nat /\ (PartTop)' \in Nat /\ other'.part \in Nat
          /\ other'.part <= PartTop' /\ PartTop <= other'.part
      BY <1>1, <2>1 DEF Tops
    <3> QED BY <3>1
  <2>2. ASSUME NEW k \in Key, PartTop = src[k].part PROVE PartTop <= PartTop'
    <3>1. /\ PartTop \in Nat /\ (PartTop)' \in Nat /\ src'[k].part \in Nat
          /\ src'[k].part <= PartTop' /\ PartTop <= src'[k].part
      BY <1>1, <2>2 DEF Tops
    <3> QED BY <3>1
  <2> QED BY <1>1, <2>1, <2>2 DEF Tops
<1> QED BY <1>2, <1>3

\* A message's own write.
LEMMA OwnWriteGrows ==
  ASSUME TypeInv, TypeInv', NEW k \in Key, NEW m, src' = [src EXCEPT ![k] = m],
         UNCHANGED <<other, gen, reached>>, rev' = rev + 1, late \subseteq late',
         src[k].row <= m.row, src[k].part <= m.part,
         k \in Present =>
            /\ m.role = src[k].role /\ m.row = src[k].row
            /\ m.part = src[k].part \/ m.part > PartTop
            /\ Immutable(src[k]) => Immutable(m)
            /\ Immutable(src[k]) /\ m.part = src[k].part => m.text = src[k].text,
         k \notin Present => m.row > MessageTop /\ (k > reached \/ k \in late')
  PROVE  Grown
<1>1. /\ Tops /\ src \in [Key -> Message \cup {NoMessage}]
      /\ \A j \in Key : src'[j] = IF j = k THEN m ELSE src[j]
  BY TopsHold DEF TypeInv, Typed
<1>2. MessageTop <= MessageTop' /\ PartTop <= PartTop'
  <2>1. \A j \in Key : src[j].row <= src'[j].row /\ src[j].part <= src'[j].part
    BY <1>1 DEF Tops
  <2>2. other.message <= other'.message /\ other.part <= other'.part
    BY <1>1 DEF Tops
  <2> QED BY <2>1, <2>2, TopsGrow
<1>3. \A j \in Present :
       /\ j \in Present' /\ src'[j].role = src[j].role /\ src'[j].row = src[j].row
       /\ src'[j].part = src[j].part \/ src'[j].part > PartTop
       /\ Immutable(src[j]) => Immutable(src'[j])
       /\ Immutable(src[j]) /\ src'[j].part = src[j].part => src'[j].text = src[j].text
  BY <1>1 DEF Present
<1>4. \A j \in Present' \ Present : src'[j].row > MessageTop /\ (j > reached \/ j \in late')
  BY <1>1 DEF Present
<1> QED BY <1>2, <1>3, <1>4 DEF Grown

\* OpenCode only appends, completes and rewrites what is unfinished.
LEMMA OpenCodeGrows ==
  ASSUME Grows, TypeInv, TypeInv', OpenCode, ~Replace
  PROVE  Grown
<1>1. /\ Tops /\ src \in [Key -> Message \cup {NoMessage}] /\ late \subseteq Key
      /\ reached \in Nat /\ rev' = rev + 1
  <2>1. Written
    BY DEF OpenCode, Insert, InsertPart, Complete, Edit, InsertElsewhere, Replace
  <2> QED BY <2>1, TopsHold DEF TypeInv, Typed, Written
<1>2. ASSUME NEW k \in Key, Insert(k) PROVE Grown
  <2>1. PICK role \in {"user", "assistant"} :
          src' = [src EXCEPT ![k] = [role |-> role, done |-> role = "user",
                                     row |-> MessageTop + 1, part |-> 0, ver |-> 1, text |-> 0]]
    BY <1>2 DEF Insert
  <2>2. PICK m : m = [role |-> role, done |-> role = "user",
                      row |-> MessageTop + 1, part |-> 0, ver |-> 1, text |-> 0]
    OBVIOUS
  <2>3. src' = [src EXCEPT ![k] = m]
    BY <2>1, <2>2
  <2>4. k \notin Present /\ src[k] = NoMessage
    BY <1>1, <1>2 DEF Insert, Present, Message
  <2>5. m.row = MessageTop + 1 /\ m.part = 0 /\ src[k].row = 0 /\ src[k].part = 0
    BY <2>2, <2>4 DEF NoMessage
  <2>6. MessageTop \in Nat
    BY <1>1 DEF Tops
  <2>7. src[k].row <= m.row /\ src[k].part <= m.part /\ m.row > MessageTop
    BY <2>5, <2>6
  <2>8. UNCHANGED <<other, gen, reached>> /\ late \subseteq late' /\ (k > reached \/ k \in late')
    <3>1. k \in Nat
      BY PlacesAreNumbers
    <3>2. k <= reached \/ k > reached
      BY <1>1, <3>1
    <3> QED BY <1>2, <3>2 DEF Insert
  <2> QED BY <1>1, <2>3, <2>4, <2>7, <2>8, OwnWriteGrows
<1>3. ASSUME NEW k \in Key, InsertPart(k) PROVE Grown
  <2>1. src[k] \in Message /\ k \in Present /\ PartTop \in Nat /\ src[k].part \in Nat
        /\ src[k].part <= PartTop /\ src[k].row \in Nat
    BY <1>1, <1>3 DEF InsertPart, Present, NoMessage, Tops
  <2>2. PICK m : m = [src[k] EXCEPT !.part = PartTop + 1, !.text = @ + 1]
    OBVIOUS
  <2>3. /\ m.role = src[k].role /\ m.done = src[k].done /\ m.row = src[k].row
        /\ m.part = PartTop + 1
    BY <2>1, <2>2 DEF Message
  <2>4. src' = [src EXCEPT ![k] = m]
    BY <1>1, <1>3, <2>1, <2>2 DEF InsertPart, Message
  <2>5. m.part > PartTop /\ src[k].part <= m.part /\ m.part # src[k].part /\ src[k].row <= m.row
    BY <2>1, <2>3
  <2>6. Immutable(src[k]) => Immutable(m)
    BY <2>3 DEF Immutable
  <2>7. UNCHANGED <<other, gen, reached, late>>
    BY <1>3 DEF InsertPart, History
  <2> QED BY <1>1, <2>1, <2>3, <2>4, <2>5, <2>6, <2>7, OwnWriteGrows
<1>4. ASSUME NEW k \in Key, Complete(k) PROVE Grown
  <2>1. src[k] \in Message /\ k \in Present /\ src[k].part \in Nat /\ src[k].row \in Nat
        /\ ~Immutable(src[k])
    BY <1>1, <1>4 DEF Complete, Gaps, Present, NoMessage, Tops
  <2>2. PICK m : m = [src[k] EXCEPT !.done = TRUE, !.ver = @ + 1]
    OBVIOUS
  <2>3. m.role = src[k].role /\ m.row = src[k].row /\ m.part = src[k].part
    BY <2>1, <2>2 DEF Message
  <2>4. src' = [src EXCEPT ![k] = m]
    BY <1>1, <1>4, <2>1, <2>2 DEF Complete, Message
  <2>5. src[k].part <= m.part /\ src[k].row <= m.row
    BY <2>1, <2>3
  <2>6. UNCHANGED <<other, gen, reached, late>>
    BY <1>4 DEF Complete, History
  <2> QED BY <1>1, <2>1, <2>3, <2>4, <2>5, <2>6, OwnWriteGrows
<1>5. ASSUME NEW k \in Key, Edit(k) PROVE Grown
  <2>1. src[k] \in Message /\ k \in Present /\ src[k].part \in Nat /\ src[k].row \in Nat
        /\ ~Immutable(src[k])
    BY <1>1, <1>5 DEF Edit, Grows, Gaps, Present, NoMessage, Tops
  <2>2. PICK m : m = [src[k] EXCEPT !.text = @ + 1]
    OBVIOUS
  <2>3. m.role = src[k].role /\ m.row = src[k].row /\ m.part = src[k].part
    BY <2>1, <2>2 DEF Message
  <2>4. src' = [src EXCEPT ![k] = m]
    BY <1>5, <2>2 DEF Edit, Edited, Grows
  <2>5. src[k].part <= m.part /\ src[k].row <= m.row
    BY <2>1, <2>3
  <2>6. UNCHANGED <<other, gen, reached, late>>
    BY <1>5 DEF Edit, History
  <2> QED BY <1>1, <2>1, <2>3, <2>4, <2>5, <2>6, OwnWriteGrows
<1>6. CASE InsertElsewhere
  <2>1. /\ UNCHANGED <<src, gen, reached, late>>
        /\ other' = [other EXCEPT !.message = MessageTop + 1]
    BY <1>6 DEF InsertElsewhere, History
  <2>2. other'.message = MessageTop + 1 /\ other'.part = other.part
    BY <2>1 DEF TypeInv, Typed
  <2>3. other.message <= other'.message /\ other.part <= other'.part
    BY <1>1, <2>2 DEF Tops
  <2>4. \A k \in Key : src[k].row <= src'[k].row /\ src[k].part <= src'[k].part
    BY <1>1, <2>1 DEF Tops
  <2>5. MessageTop <= MessageTop' /\ PartTop <= PartTop'
    BY <2>3, <2>4, TopsGrow
  <2>6. Present' = Present
    BY <2>1 DEF Present
  <2> QED BY <1>1, <2>1, <2>5, <2>6 DEF Grown
<1> QED BY <1>2, <1>3, <1>4, <1>5, <1>6 DEF OpenCode

\* What intrudes stays.
LEMMA IntrusionStays ==
  ASSUME TypeInv, TypeInv', Grown, NEW g \in Guard, NEW high \in Place, ~Intrudes(g, high)'
  PROVE  ~Intrudes(g, high)
<1> SUFFICES ASSUME NEW k \in Present, k <= high, src[k].row > g.message \/ src[k].part > g.part
             PROVE  FALSE
  BY DEF Intrudes
<1>1. /\ k \in Present' /\ src'[k].row = src[k].row
      /\ src'[k].part = src[k].part \/ src'[k].part > PartTop
  BY DEF Grown
<1>2. /\ src[k].part \in Nat /\ src'[k].part \in Nat /\ PartTop \in Nat
      /\ src[k].part <= PartTop /\ g.part \in Nat
  BY TopsHold, TopsHoldNext DEF Tops, Guard, Present
<1>3. src'[k].row <= g.message /\ src'[k].part <= g.part
  <2>1. ~(src'[k].row > g.message \/ src'[k].part > g.part)
    BY <1>1 DEF Intrudes
  <2>2. src'[k].row \in Nat /\ g.message \in Nat
    BY TopsHoldNext DEF Tops, Guard, Present
  <2> QED BY <1>2, <2>1, <2>2
<1>4. src[k].row <= g.message /\ src[k].row \in Nat /\ g.message \in Nat
  BY <1>1, <1>3, TopsHold DEF Tops, Guard, Present
<1>5. src[k].part <= g.part
  BY <1>1, <1>2, <1>3
<1> QED BY <1>2, <1>4, <1>5

\* Where nothing intrudes there are the same messages with the same parts.
LEMMA PrefixStands ==
  ASSUME TypeInv, TypeInv', Grown, NEW g \in Guard, NEW high \in Place, ~Intrudes(g, high)',
         g.message <= MessageTop, g.part <= PartTop
  PROVE  \A k \in Key : k <= high =>
           /\ k \in Present' <=> k \in Present
           /\ k \in Present => src'[k].part = src[k].part
<1> SUFFICES ASSUME NEW k \in Key, k <= high
             PROVE  /\ k \in Present' <=> k \in Present
                    /\ k \in Present => src'[k].part = src[k].part
  OBVIOUS
<1>1. /\ src'[k].row \in Nat /\ src'[k].part \in Nat /\ MessageTop \in Nat /\ PartTop \in Nat
      /\ g.message \in Nat /\ g.part \in Nat
  BY TopsHold, TopsHoldNext DEF Tops, Guard
<1>2. k \in Present' => src'[k].row <= g.message /\ src'[k].part <= g.part
  <2>1. k \in Present' => ~(src'[k].row > g.message \/ src'[k].part > g.part)
    BY DEF Intrudes
  <2> QED BY <1>1, <2>1
<1>3. k \in Present' => k \in Present
  <2> SUFFICES ASSUME k \in Present', k \notin Present PROVE FALSE
    OBVIOUS
  <2>1. src'[k].row > MessageTop
    BY DEF Grown
  <2> QED BY <1>1, <1>2, <2>1
<1>4. ASSUME k \in Present PROVE k \in Present' /\ src'[k].part = src[k].part
  <2>1. k \in Present' /\ (src'[k].part = src[k].part \/ src'[k].part > PartTop)
    BY <1>4 DEF Grown
  <2>2. ~(src'[k].part > PartTop)
    BY <1>1, <1>2, <2>1
  <2> QED BY <1>4, <2>1, <2>2 DEF Grown
<1> QED BY <1>3, <1>4

LEMMA SnapshotGrows ==
  ASSUME TypeInv, TypeInv', Grown, NEW t, t.guard \in Guard, t.high \in Place,
         NEW projection, Faithful(t, projection)
  PROVE  Faithful(t, projection)'
<1>1. PICK g \in Guard : g = t.guard
  OBVIOUS
<1>2. PICK high \in Place : high = t.high
  OBVIOUS
<1>3. /\ rev \in Nat /\ rev' = rev + 1 /\ g.rev \in Nat /\ g.message \in Nat /\ g.part \in Nat
      /\ MessageTop \in Nat /\ PartTop \in Nat /\ (MessageTop)' \in Nat /\ (PartTop)' \in Nat
      /\ MessageTop <= MessageTop' /\ PartTop <= PartTop'
  BY TopsHold, TopsHoldNext, ConstantsOK DEF Grown, Tops, Guard, TypeInv, Typed
<1>4. g.rev <= rev /\ g.message <= MessageTop /\ g.part <= PartTop
  BY <1>1 DEF Faithful
<1>5. g.rev <= rev' /\ g.message <= MessageTop' /\ g.part <= PartTop' /\ rev' # g.rev
  BY <1>3, <1>4
<1>6. ASSUME ~Intrudes(g, high)'
      PROVE  /\ t.frozen = {Body(k) : k \in {j \in Present : j <= t.high /\
                                                    Matches(src[j], projection)}}'
             /\ \A k \in Present' : k <= high => Immutable(src'[k])
  <2>1. ~Intrudes(g, high)
    BY <1>6, IntrusionStays
  <2>2. /\ t.frozen =
             {Body(k) : k \in {j \in Present : j <= high /\ Matches(src[j], projection)}}
        /\ \A k \in Present : k <= high => Immutable(src[k])
    BY <1>1, <1>2, <2>1 DEF Faithful
  <2>3. \A k \in Key : k <= high =>
          /\ k \in Present' <=> k \in Present
          /\ k \in Present => src'[k].part = src[k].part
    BY <1>4, <1>6, PrefixStands
  <2>4. \A k \in Present : k <= high =>
          /\ k \in Present' /\ Immutable(src'[k]) /\ src'[k].text = src[k].text
          /\ src'[k].role = src[k].role
    BY <2>2, <2>3 DEF Grown, Present
  <2>5. {j \in Present : j <= high /\ Matches(src[j], projection)}
          = {j \in Present' : j <= high /\ Matches(src'[j], projection)}
    BY <2>3, <2>4 DEF Matches, Present
  <2>6. \A k \in {j \in Present : j <= high /\ Matches(src[j], projection)} :
          <<k, src[k].text>> = <<k, src'[k].text>>
    BY <2>4
  <2>7. t.frozen = {<<k, src'[k].text>> : k \in {j \in Present' : j <= high /\
                                                    Matches(src'[j], projection)}}
    BY <2>2, <2>5, <2>6 DEF Body
  <2>8. \A k \in Present' : k <= high => Immutable(src'[k])
    BY <2>3, <2>4 DEF Present
  <2> QED BY <1>2, <2>7, <2>8 DEF Body
<1> QED BY <1>1, <1>2, <1>5, <1>6 DEF Faithful

LEMMA CaughtGrows ==
  ASSUME TypeInv, TypeInv', Grown, NEW turns, NEW from \in Place, NEW to \in Place,
         NEW projection, Caught(turns, from, to, projection)
  PROVE  Caught(turns, from, to, projection)'
<1>1. reached' = reached /\ reached \in Nat /\ late \subseteq late'
      /\ from \in Nat /\ to \in Nat
  BY PlacesAreNumbers DEF Grown, TypeInv, Typed
<1>2. to <= reached \/ to = from
  BY DEF Caught
<1>3. ASSUME NEW k \in Present' \ late', from < k, k <= to, Matches(src'[k], projection)
      PROVE  \E x \in turns : x[1] = k
  <2>1. k \in Key /\ k \in Nat
    BY PlacesAreNumbers DEF Present
  <2>2. k \in Present
    <3> SUFFICES ASSUME k \notin Present PROVE FALSE
      OBVIOUS
    <3>1. k > reached
      BY <1>3 DEF Grown
    <3> QED BY <1>1, <1>2, <1>3, <2>1, <3>1
  <2>3. Matches(src[k], projection)
    BY <1>3, <2>2 DEF Grown, Matches
  <2>4. k \in Present \ late
    BY <1>1, <1>3, <2>2
  <2> QED BY <1>3, <2>3, <2>4 DEF Caught
<1> QED BY <1>1, <1>2, <1>3 DEF Caught

LEMMA FinishedGrows ==
  ASSUME TypeInv, Grown, NEW turns \in SUBSET Turn, Finished(turns)
  PROVE  Finished(turns)'
<1> SUFFICES ASSUME NEW x \in turns PROVE Immutable(src'[x[1]])
  BY DEF Finished
<1>1. x[1] \in Key /\ Immutable(src[x[1]])
  BY DEF Finished, Turn
<1>2. x[1] \in Present
  BY <1>1 DEF Present, Immutable, TypeInv, Typed, Message, NoMessage
<1> QED BY <1>1, <1>2 DEF Grown

LEMMA TokenGrows ==
  ASSUME TypeInv, TypeInv', Grown, NEW t \in Token, GoodToken(t)
  PROVE  GoodToken(t)'
<1>1. /\ t.guard \in Guard /\ t.high \in Place /\ t.origin \in Place /\ t.start \in Place
      /\ t.cursor \in Place /\ t.got \in SUBSET Turn
  BY DEF Token
<1>2. gen' = gen
  BY DEF Grown
<1>3. t.kind = "page" => Progress(t)'
  BY DEF GoodToken, Progress
<1>4. ASSUME t.gen = gen PROVE Finished(t.got)'
  BY <1>1, <1>4, FinishedGrows DEF GoodToken
<1>5. ASSUME t.gen = gen, t.kind = "page"
      PROVE  Faithful(t, t.projection)' /\ Caught(t.base, t.origin, t.start, t.projection)'
  BY <1>1, <1>5, SnapshotGrows, CaughtGrows DEF GoodToken
<1>6. ASSUME t.gen = gen, t.kind = "resume"
      PROVE  Caught(t.got, t.origin, t.cursor, t.projection)'
  BY <1>1, <1>6, CaughtGrows DEF GoodToken
<1> QED BY <1>2, <1>3, <1>4, <1>5, <1>6 DEF GoodToken

LEMMA ViewGrows ==
  ASSUME TypeInv, TypeInv', Grown, NEW v \in View, NEW projection, NEW l,
         GoodView(v, projection, l), Confined(v, l)
  PROVE  GoodView(v, projection, l)'
<1>1. /\ v.guard \in Guard /\ v.high \in Place /\ v.origin \in Place /\ v.start \in Place
      /\ v.cursor \in Place /\ v.got \in SUBSET Turn /\ v.rows \in SUBSET (Key \X Nat)
  BY DEF View
<1>2. gen' = gen /\ rev' = rev + 1 /\ rev \in Nat
  BY ConstantsOK DEF Grown, TypeInv, Typed
<1>3. ASSUME l \in Sealing PROVE Capturing(v, projection, l)'
  <2>1. Capturing(v, projection, l)
    BY <1>3 DEF GoodView
  <2>2. ASSUME v.gen = gen
        PROVE  /\ Finished(v.got)' /\ Caught(v.base, v.origin, v.start, projection)'
               /\ l # "revision" => v.guard.rev <= rev' /\ rev' # v.guard.rev
    <3>1. Finished(v.got)' /\ Caught(v.base, v.origin, v.start, projection)'
      BY <1>1, <2>1, <2>2, FinishedGrows, CaughtGrows DEF Capturing
    <3>2. ASSUME l # "revision" PROVE v.guard.rev <= rev' /\ rev' # v.guard.rev
      <4>1. v.guard.rev <= rev /\ v.guard.rev \in Nat
        BY <1>1, <2>1, <2>2, <3>2 DEF Capturing, Guard
      <4> QED BY <1>2, <4>1
    <3> QED BY <3>1, <3>2
  <2>3. l = "revision" => l \notin {"gap", "high", "seal"}
    OBVIOUS
  <2> QED BY <1>2, <2>1, <2>2, <2>3 DEF Capturing
<1>4. ASSUME l \in Paging PROVE Reading(v, projection, l)'
  <2>1. Reading(v, projection, l)
    BY <1>4 DEF GoodView
  <2>2. Progress(v)'
    BY <2>1 DEF Reading, Progress
  <2>3. ASSUME v.gen = gen
        PROVE  /\ Finished(v.got)' /\ Faithful(v, projection)'
               /\ Caught(v.base, v.origin, v.start, projection)'
    BY <1>1, <2>1, <2>3, FinishedGrows, SnapshotGrows, CaughtGrows DEF Reading
  <2>4. ASSUME v.gen = gen, ~Intrudes(v.guard, v.high)' PROVE ~Intrudes(v.guard, v.high)
    BY <1>1, <2>4, IntrusionStays
  <2>5. ASSUME v.gen = gen, l \in {"messages", "bodies"}
        PROVE  \A r \in v.rows : r[1] \in Present'
    BY <2>1, <2>5 DEF Reading, Grown
  <2>6. ASSUME v.gen = gen, l \in {"messages", "bodies"}, ~Intrudes(v.guard, v.high)',
               NEW k \in Present', NEW r \in v.rows, v.cursor < k, k <= r[1]
        PROVE  \E q \in v.rows : q[1] = k
    <3>1. v.guard.message <= MessageTop /\ v.guard.part <= PartTop
      BY <2>1, <2>6 DEF Reading, Faithful
    <3>2. k <= v.high /\ k \in Key
      <4>1. k \in Key /\ k \in Nat /\ r[1] \in Nat /\ v.high \in Nat
        BY <1>1, PlacesAreNumbers DEF Present
      <4>2. r[1] <= v.high
        BY <2>6 DEF Confined
      <4> QED BY <2>6, <4>1, <4>2
    <3>3. k \in Present
      BY <1>1, <2>6, <3>1, <3>2, PrefixStands
    <3>4. ~Intrudes(v.guard, v.high)
      BY <2>4, <2>6
    <3> QED BY <2>1, <2>6, <3>3, <3>4 DEF Reading
  <2> QED BY <1>2, <2>1, <2>2, <2>3, <2>4, <2>5, <2>6 DEF Reading
<1>5. v.gen <= gen
  BY DEF GoodView
<1> QED BY <1>2, <1>3, <1>4, <1>5 DEF GoodView

\* A write by OpenCode keeps what is known of the tokens and the processes, and so does
\* another database, of which nothing is known.
LEMMA OpenCodeKeepsPages ==
  ASSUME Grows, TypeInv, TypeInv', PagesInv, OpenCode
  PROVE  PagesInv'
<1>1. UNCHANGED <<pc, call, view, host>>
  BY DEF OpenCode, Insert, InsertPart, Complete, Edit, InsertElsewhere, Replace, Reader
<1>2. ASSUME NEW t \in Token, GoodToken(t) PROVE GoodToken(t)'
  <2>1. CASE ~Replace
    BY <1>2, <2>1, OpenCodeGrows, TokenGrows
  <2>2. CASE Replace
    <3>1. gen = 0 /\ gen' = 1 /\ t.gen \in Nat /\ t.gen <= gen
      BY <1>2, <2>2 DEF Replace, GoodToken, Token
    <3>2. t.gen # gen' /\ t.gen <= gen'
      BY <3>1
    <3> QED BY <1>2, <3>2 DEF GoodToken, Progress
  <2> QED BY <2>1, <2>2
<1>3. ASSUME NEW i \in Invocation PROVE GoodView(view[i], call[i].projection, pc[i])'
  <2>1. PICK v \in View : v = view[i] /\ v = view'[i]
    BY <1>1 DEF TypeInv, Typed
  <2>2. PICK p : p = call[i].projection /\ p = call'[i].projection
    BY <1>1
  <2>3. PICK l : l = pc[i] /\ l = pc'[i]
    BY <1>1
  <2>4. GoodView(v, p, l) /\ Confined(v, l)
    BY <2>1, <2>2, <2>3 DEF PagesInv, TypeInv
  <2>5. GoodView(v, p, l)'
    <3>1. CASE ~Replace
      BY <2>4, <3>1, OpenCodeGrows, ViewGrows
    <3>2. CASE Replace
      <4>1. gen = 0 /\ gen' = 1 /\ v.gen \in Nat /\ v.gen <= gen
        BY <2>4, <3>2 DEF Replace, GoodView, View
      <4>2. v.gen # gen' /\ v.gen <= gen'
        BY <4>1
      <4>3. l \in Sealing => Capturing(v, p, l)'
        BY <2>4, <4>2 DEF GoodView, Capturing
      <4>4. l \in Paging => Reading(v, p, l)'
        BY <2>4, <4>2 DEF GoodView, Reading, Progress
      <4> QED BY <4>2, <4>3, <4>4 DEF GoodView
    <3> QED BY <3>1, <3>2
  <2> QED BY <2>1, <2>2, <2>3, <2>5
<1>4. ASSUME NEW t \in Held' PROVE GoodToken(t)'
  BY <1>1, <1>2, <1>4 DEF Held, PagesInv, TypeInv, Hosted, PageToken, ResumeToken
<1>5. ASSUME NEW i \in Invocation, call'[i].token # None PROVE GoodToken(call[i].token)'
  <2>1. PICK t \in Token : t = call[i].token /\ t = call'[i].token
    BY <1>1, <1>5 DEF TypeInv, Typed, CallRecord
  <2>2. GoodToken(t)
    BY <1>1, <1>5, <2>1 DEF PagesInv
  <2>3. GoodToken(t)'
    BY <1>2, <2>2
  <2> QED BY <2>1, <2>3
<1> QED BY <1>3, <1>4, <1>5 DEF PagesInv

-----------------------------------------------------------------------------
(***************************************************************************)
(* What a reader does                                                      *)
(***************************************************************************)
Rests == UNCHANGED <<Source, late>> /\ reached' \in Nat /\ reached <= reached'

LEMMA CaughtRests ==
  ASSUME TypeInv, Rests, NEW turns, NEW from, NEW to \in Place, NEW projection,
         Caught(turns, from, to, projection)
  PROVE  Caught(turns, from, to, projection)'
<1>1. UNCHANGED <<src, late, Present>> /\ reached \in Nat /\ reached' \in Nat /\ to \in Nat
      /\ reached <= reached'
  BY PlacesAreNumbers DEF Rests, Source, Present, TypeInv, Typed
<1>2. to <= reached => to <= reached'
  BY <1>1
<1> QED BY <1>1, <1>2 DEF Caught

LEMMA SnapshotRests ==
  ASSUME Rests, NEW t, NEW projection, Faithful(t, projection)
  PROVE  Faithful(t, projection)'
BY DEF Rests, Source, Faithful, Present, MessageTop, PartTop, Intrudes, Body

LEMMA TokenRests ==
  ASSUME TypeInv, Rests, NEW t \in Token, GoodToken(t)
  PROVE  GoodToken(t)'
<1>1. t.start \in Place /\ t.cursor \in Place
  BY DEF Token
<1>2. UNCHANGED <<src, gen>>
  BY DEF Rests, Source
<1>3. t.gen = gen => Finished(t.got)'
  BY <1>2 DEF GoodToken, Finished
<1>4. t.gen = gen /\ t.kind = "page" =>
        Faithful(t, t.projection)' /\ Caught(t.base, t.origin, t.start, t.projection)'
  BY <1>1, SnapshotRests, CaughtRests DEF GoodToken
<1>5. t.gen = gen /\ t.kind = "resume" => Caught(t.got, t.origin, t.cursor, t.projection)'
  BY <1>1, CaughtRests DEF GoodToken
<1> QED BY <1>2, <1>3, <1>4, <1>5 DEF GoodToken, Progress

LEMMA ViewRests ==
  ASSUME TypeInv, Rests, NEW v \in View, NEW projection, NEW l, GoodView(v, projection, l)
  PROVE  GoodView(v, projection, l)'
<1>1. v.start \in Place
  BY DEF View
<1>2. UNCHANGED <<src, other, rev, gen>> /\ UNCHANGED <<Present, MessageTop, PartTop>>
      /\ UNCHANGED <<Gaps>>
  BY DEF Rests, Source, Present, MessageTop, PartTop, Gaps
<1>3. UNCHANGED FirstGap /\ UNCHANGED Below(FirstGap)
  BY <1>2 DEF FirstGap, Below
<1>4. ASSUME l \in Sealing PROVE Capturing(v, projection, l)'
  <2>1. Capturing(v, projection, l)
    BY <1>4 DEF GoodView
  <2>2. v.gen = gen => Finished(v.got)' /\ Caught(v.base, v.origin, v.start, projection)'
    BY <1>1, <1>2, <2>1, CaughtRests DEF Capturing, Finished
  <2> QED BY <1>2, <1>3, <2>1, <2>2 DEF Capturing
<1>5. ASSUME l \in Paging PROVE Reading(v, projection, l)'
  <2>1. Reading(v, projection, l)
    BY <1>5 DEF GoodView
  <2>2. v.gen = gen =>
          /\ Finished(v.got)' /\ Faithful(v, projection)'
          /\ Caught(v.base, v.origin, v.start, projection)'
    BY <1>1, <1>2, <2>1, CaughtRests, SnapshotRests DEF Reading, Finished
  <2>3. Intrudes(v.guard, v.high)' <=> Intrudes(v.guard, v.high)
    BY <1>2 DEF Intrudes
  <2> QED BY <1>2, <2>1, <2>2, <2>3 DEF Reading, Progress
<1> QED BY <1>2, <1>4, <1>5 DEF GoodView

\* A process goes on: the others and the host's tokens are as they were.
LEMMA MoveKeepsPages ==
  ASSUME TypeInv, PagesInv, NEW i \in Invocation, NEW v \in View, NEW l \in Location,
         view' = [view EXCEPT ![i] = v], pc' = [pc EXCEPT ![i] = l],
         UNCHANGED <<Source, call, host, History>>,
         GoodView(v, call[i].projection, l)
  PROVE  PagesInv'
<1>1. Rests /\ UNCHANGED <<call, host>>
  BY DEF Rests, History, TypeInv, Typed
<1>2. ASSUME NEW j \in Invocation PROVE GoodView(view[j], call[j].projection, pc[j])'
  <2>1. PICK w \in View : w = view'[j]
    BY DEF TypeInv, Typed
  <2>2. PICK p : p = call[j].projection /\ p = call'[j].projection
    BY <1>1
  <2>3. PICK m : m = pc'[j]
    OBVIOUS
  <2>4. GoodView(w, p, m)
    <3>1. CASE j = i
      <4>1. w = v /\ m = l
        BY <2>1, <2>3, <3>1 DEF TypeInv, Typed
      <4> QED BY <2>2, <3>1, <4>1
    <3>2. CASE j # i
      <4>1. w = view[j] /\ m = pc[j]
        BY <2>1, <2>3, <3>2 DEF TypeInv, Typed
      <4> QED BY <2>2, <4>1 DEF PagesInv
    <3> QED BY <3>1, <3>2
  <2>5. GoodView(w, p, m)'
    BY <1>1, <2>4, ViewRests
  <2> QED BY <2>1, <2>2, <2>3, <2>5
<1>3. ASSUME NEW t \in Held' PROVE GoodToken(t)'
  BY <1>1, <1>3, TokenRests DEF Held, PagesInv, TypeInv, Hosted, PageToken, ResumeToken
<1>4. ASSUME NEW j \in Invocation, call'[j].token # None PROVE GoodToken(call[j].token)'
  <2>1. PICK t \in Token : t = call[j].token /\ t = call'[j].token
    BY <1>1, <1>4 DEF TypeInv, Typed, CallRecord
  <2>2. GoodToken(t)
    BY <1>1, <1>4, <2>1 DEF PagesInv
  <2>3. GoodToken(t)'
    BY <1>1, <2>2, TokenRests
  <2> QED BY <2>1, <2>3
<1> QED BY <1>2, <1>3, <1>4 DEF PagesInv

\* A process ends: what the host holds is good.
LEMMA EndKeepsPages ==
  ASSUME TypeInv, PagesInv, NEW i \in Invocation, NEW h, End(i, h), Rests,
         \A t \in {h.page, h.resume} \ {None} : t \in Token /\ GoodToken(t)'
  PROVE  PagesInv'
<1>1. /\ pc' = [pc EXCEPT ![i] = "idle"] /\ call' = [call EXCEPT ![i] = NoCall]
      /\ view' = [view EXCEPT ![i] = NoView] /\ host' = h
  BY DEF End, Goto
<1>2. ASSUME NEW j \in Invocation
      PROVE  /\ GoodView(view[j], call[j].projection, pc[j])'
             /\ call'[j].token # None => GoodToken(call[j].token)'
  <2>1. CASE j = i
    <3>1. view'[j] = NoView /\ pc'[j] = "idle" /\ call'[j].token = None
      BY <1>1, <2>1 DEF TypeInv, Typed, NoCall
    <3>2. NoView.gen <= gen'
      BY DEF NoView, Rests, Source, TypeInv, Typed
    <3>3. "idle" \notin Sealing /\ "idle" \notin Paging
      BY DEF Sealing, Paging
    <3> QED BY <3>1, <3>2, <3>3 DEF GoodView
  <2>2. CASE j # i
    <3>1. PICK v \in View : v = view[j] /\ v = view'[j]
      BY <1>1, <2>2 DEF TypeInv, Typed
    <3>2. PICK c \in CallRecord : c = call[j] /\ c = call'[j]
      BY <1>1, <2>2 DEF TypeInv, Typed
    <3>3. PICK l : l = pc[j] /\ l = pc'[j]
      BY <1>1, <2>2 DEF TypeInv, Typed
    <3>4. GoodView(v, c.projection, l)'
      BY <3>1, <3>2, <3>3, ViewRests DEF PagesInv
    <3>5. c.token # None => GoodToken(c.token)'
      <4>1. c.token # None => c.token \in Token /\ GoodToken(c.token)
        BY <3>2 DEF PagesInv, CallRecord
      <4> QED BY <4>1, TokenRests
    <3> QED BY <3>1, <3>2, <3>3, <3>4, <3>5
  <2> QED BY <2>1, <2>2
<1>3. ASSUME NEW t \in Held' PROVE GoodToken(t)'
  BY <1>1, <1>3 DEF Held
<1> QED BY <1>2, <1>3 DEF PagesInv

LEMMA RefuseKeepsPages ==
  ASSUME TypeInv, PagesInv, NEW i \in Invocation, Refuse(i)
  PROVE  PagesInv'
<1>1. PICK h \in {[host EXCEPT !.page = None], [page |-> None, resume |-> None]} :
        End(i, h) /\ UNCHANGED <<Source, History>>
  BY DEF Refuse
<1>2. Rests
  BY <1>1 DEF Rests, History, TypeInv, Typed
<1>3. ASSUME NEW t \in {h.page, h.resume} \ {None} PROVE t \in Token /\ GoodToken(t)'
  <2>1. t \in Held /\ t \in Token
    BY <1>3 DEF Held, TypeInv, Hosted, PageToken, ResumeToken
  <2> QED BY <1>2, <2>1, TokenRests DEF PagesInv
<1> QED BY <1>1, <1>2, <1>3, EndKeepsPages

LEMMA PageFailsKeepsPages ==
  ASSUME TypeInv, PagesInv, NEW i \in Invocation, PageFails(i)
  PROVE  PagesInv'
<1>1. End(i, host) /\ Rests
  BY DEF PageFails, Rests, History, TypeInv, Typed
<1>2. ASSUME NEW t \in {host.page, host.resume} \ {None} PROVE t \in Token /\ GoodToken(t)'
  <2>1. t \in Held /\ t \in Token
    BY <1>2 DEF Held, TypeInv, Hosted, PageToken, ResumeToken
  <2> QED BY <1>1, <2>1, TokenRests DEF PagesInv
<1> QED BY <1>1, <1>2, EndKeepsPages

LEMMA CallKeepsPages ==
  ASSUME TypeInv, PagesInv, NEW i \in Invocation, Call(i)
  PROVE  PagesInv'
<1>1. /\ pc' = [pc EXCEPT ![i] = "open"] /\ UNCHANGED <<Source, view, host, History>>
      /\ \A j \in Invocation \ {i} : call'[j] = call[j]
      /\ call'[i].token \in Held \cup {None}
  BY DEF Call, Goto, Held, TypeInv, Typed
<1>2. Rests
  BY <1>1 DEF Rests, History, TypeInv, Typed
<1>3. ASSUME NEW t \in Held PROVE t \in Token /\ GoodToken(t)'
  <2>1. t \in Token
    BY <1>3 DEF Held, TypeInv, Hosted, PageToken, ResumeToken
  <2> QED BY <1>2, <2>1, TokenRests DEF PagesInv
<1>4. ASSUME NEW j \in Invocation
      PROVE  /\ GoodView(view[j], call[j].projection, pc[j])'
             /\ call'[j].token # None => GoodToken(call[j].token)'
  <2>1. CASE j = i
    <3>1. PICK v : v = view[j] /\ v = view'[j]
      BY <1>1
    <3>2. pc'[j] = "open"
      BY <1>1, <2>1 DEF TypeInv, Typed
    <3>3. v.gen <= gen'
      BY <1>1, <3>1 DEF PagesInv, GoodView, Source
    <3>4. "open" \notin Sealing /\ "open" \notin Paging
      BY DEF Sealing, Paging
    <3>5. GoodView(view[j], call[j].projection, pc[j])'
      BY <3>1, <3>2, <3>3, <3>4 DEF GoodView
    <3>6. ASSUME call'[j].token # None PROVE GoodToken(call[j].token)'
      <4>1. PICK t \in Held : t = call'[j].token
        BY <1>1, <2>1, <3>6
      <4> QED BY <1>3, <4>1
    <3> QED BY <3>5, <3>6
  <2>2. CASE j # i
    <3>1. PICK v \in View : v = view[j] /\ v = view'[j]
      BY <1>1 DEF TypeInv, Typed
    <3>2. PICK c \in CallRecord : c = call[j] /\ c = call'[j]
      BY <1>1, <2>2 DEF TypeInv, Typed
    <3>3. PICK l : l = pc[j] /\ l = pc'[j]
      BY <1>1, <2>2 DEF TypeInv, Typed
    <3>4. GoodView(v, c.projection, l)'
      BY <1>2, <3>1, <3>2, <3>3, ViewRests DEF PagesInv
    <3>5. c.token # None => GoodToken(c.token)'
      <4>1. c.token # None => c.token \in Token /\ GoodToken(c.token)
        BY <3>2 DEF PagesInv, CallRecord
      <4> QED BY <1>2, <4>1, TokenRests
    <3> QED BY <3>1, <3>2, <3>3, <3>4, <3>5
  <2> QED BY <2>1, <2>2
<1> QED BY <1>1, <1>3, <1>4 DEF PagesInv, Held

\* A process begins with nothing, where the page before ended, or where the last snapshot
\* did.
LEMMA OpenKeepsPages ==
  ASSUME TypeInv, PagesInv, NEW i \in Invocation, Open(i)
  PROVE  PagesInv'
<1> DEFINE t == call[i].token
<1> DEFINE p == call[i].projection
<1>1. UNCHANGED <<Source, call, host, History>> /\ gen \in Nat /\ gen <= gen
  BY Known DEF Open
<1>2. CASE t = None /\ See(i, Fresh) /\ Goto(i, "revision")
  <2>1. Fresh \in View
    BY <1>1, NoViewIsView DEF Fresh
  <2>2. PICK v : v = Fresh
    OBVIOUS
  <2>3. /\ v.got = {} /\ v.base = {} /\ v.turns = {} /\ v.start = 0 /\ v.cursor = 0
        /\ v.origin = 0 /\ v.gen = gen
    BY <2>2 DEF Fresh, NoView
  <2>4. Finished({}) /\ Caught({}, 0, 0, p)
    <3>1. \A k \in Present : ~(0 < k /\ k <= 0)
      BY PlacesAreNumbers DEF Present
    <3> QED BY <3>1 DEF Finished, Caught
  <2>5. Capturing(v, p, "revision")
    BY <2>3, <2>4 DEF Capturing
  <2>6. GoodView(v, p, "revision")
    BY <1>1, <2>3, <2>5 DEF GoodView, Paging
  <2> QED BY <1>1, <1>2, <2>1, <2>2, <2>6, MoveKeepsPages DEF See, Goto, Location
<1>3. CASE /\ t # None /\ InScope(t) /\ call[i].mode = "continuation"
           /\ See(i, Continuation(t)) /\ Goto(i, "guard")
  <2>1. t \in Token /\ t.kind = "page" /\ t.projection = p /\ t.gen = gen /\ GoodToken(t)
    BY <1>3 DEF TypeInv, Called, PageToken, PagesInv, InScope
  <2>2. Continuation(t) \in View
    BY <2>1, TokensAreViews DEF TypeInv
  <2>3. PICK v : v = Continuation(t)
    OBVIOUS
  <2>4. /\ v.guard = t.guard /\ v.high = t.high /\ v.cursor = t.cursor /\ v.start = t.start
        /\ v.origin = t.origin /\ v.base = t.base /\ v.frozen = t.frozen /\ v.got = t.got
        /\ v.gen = gen /\ v.turns = {}
    BY <2>3 DEF Continuation, Fresh, NoView
  <2>5. /\ Progress(t) /\ Finished(t.got) /\ Faithful(t, p)
        /\ Caught(t.base, t.origin, t.start, p)
    BY <2>1 DEF GoodToken
  <2>6. Progress(v)
    BY <2>4, <2>5 DEF Progress
  <2>7. Faithful(v, p)
    BY <2>4, <2>5 DEF Faithful
  <2>8. Reading(v, p, "guard")
    BY <2>4, <2>5, <2>6, <2>7 DEF Reading
  <2>9. GoodView(v, p, "guard")
    BY <1>1, <2>4, <2>8 DEF GoodView, Sealing
  <2> QED BY <1>1, <1>3, <2>2, <2>3, <2>9, MoveKeepsPages DEF See, Goto, Location
<1>4. CASE /\ t # None /\ InScope(t) /\ call[i].mode = "beginning"
           /\ See(i, Resumption(t)) /\ Goto(i, "revision")
  <2>1. t \in Token /\ t.kind = "resume" /\ t.projection = p /\ t.gen = gen /\ GoodToken(t)
    BY <1>4 DEF TypeInv, Called, ResumeToken, PagesInv, InScope
  <2>2. Resumption(t) \in View
    BY <2>1, TokensAreViews DEF TypeInv
  <2>3. PICK v : v = Resumption(t)
    OBVIOUS
  <2>4. /\ v.got = t.got /\ v.base = t.got /\ v.cursor = t.cursor /\ v.start = t.cursor
        /\ v.origin = t.origin /\ v.gen = gen /\ v.turns = {}
    BY <2>3 DEF Resumption, Fresh, NoView
  <2>5. Finished(t.got) /\ Caught(t.got, t.origin, t.cursor, p)
    BY <2>1 DEF GoodToken
  <2>6. Capturing(v, p, "revision")
    BY <2>4, <2>5 DEF Capturing
  <2>7. GoodView(v, p, "revision")
    BY <1>1, <2>4, <2>6 DEF GoodView, Paging
  <2> QED BY <1>1, <1>4, <2>2, <2>3, <2>7, MoveKeepsPages DEF See, Goto, Location
<1> QED BY <1>2, <1>3, <1>4 DEF Open

\* A page that was begun stays what it is until it lists messages.
LEMMA PageGoesOn ==
  ASSUME TypeInv, PagesInv, NEW i \in Invocation, NEW l \in {"watermark", "metadata"},
         pc[i] \in {"guard", "watermark"}, Goto(i, l),
         UNCHANGED <<Source, call, view, host, History>>
  PROVE  PagesInv'
<1>1. PICK v \in View : v = view[i]
  BY Known
<1>2. Reading(v, call[i].projection, pc[i]) /\ v.gen <= gen
  BY <1>1 DEF PagesInv, GoodView, Paging
<1>3. Reading(v, call[i].projection, l)
  BY <1>2 DEF Reading
<1>4. GoodView(v, call[i].projection, l)
  BY <1>2, <1>3 DEF GoodView, Sealing
<1>5. view' = [view EXCEPT ![i] = v]
  BY <1>1 DEF TypeInv, Typed
<1> QED BY <1>4, <1>5, MoveKeepsPages DEF Goto, Location

\* What is captured at a step is what the store holds then.
LEMMA CaptureKeepsPages ==
  ASSUME TypeInv, PagesInv, NEW i \in Invocation,
         Revision(i) \/ Frontier(i) \/ Gap(i) \/ High(i)
  PROVE  PagesInv'
<1> DEFINE p == call[i].projection
<1>1. PICK v \in View : v = view[i]
  BY Known
<1>2. /\ UNCHANGED <<Source, call, host, History>> /\ v.gen = gen
      /\ pc[i] \in {"revision", "frontier", "gap", "high"}
      /\ rev \in Nat /\ rev <= rev /\ MessageTop \in Nat /\ PartTop \in Nat
  BY <1>1, Known DEF Revision, Frontier, Gap, High, SameSource
<1>3. Capturing(v, p, pc[i]) /\ v.gen <= gen
  BY <1>1, <1>2 DEF PagesInv, GoodView, Sealing
<1>4. /\ v.got = v.base /\ v.start = v.cursor /\ v.turns = {}
      /\ Finished(v.got) /\ Caught(v.base, v.origin, v.start, p)
  BY <1>2, <1>3 DEF Capturing
<1>5. CASE Revision(i)
  <2>1. PICK w : w = [v EXCEPT !.guard.rev = rev]
    OBVIOUS
  <2>2. w \in View /\ w.guard.rev = rev
        /\ w.got = v.got /\ w.base = v.base /\ w.start = v.start /\ w.cursor = v.cursor
        /\ w.turns = v.turns /\ w.gen = v.gen /\ w.origin = v.origin
    BY <1>2, <2>1 DEF View, Guard
  <2>3. Capturing(w, p, "frontier")
    BY <1>2, <1>4, <2>2 DEF Capturing
  <2>4. GoodView(w, p, "frontier")
    BY <1>3, <2>2, <2>3 DEF GoodView, Paging
  <2> QED BY <1>1, <1>2, <1>5, <2>1, <2>2, <2>4, MoveKeepsPages
          DEF Revision, See, Goto, Location
<1>6. CASE Frontier(i)
  <2>1. PICK w : w = [v EXCEPT !.guard.message = MessageTop, !.guard.part = PartTop]
    OBVIOUS
  <2>2. w \in View /\ w.guard.rev = v.guard.rev
        /\ w.guard.message = MessageTop /\ w.guard.part = PartTop
        /\ w.got = v.got /\ w.base = v.base /\ w.start = v.start /\ w.cursor = v.cursor
        /\ w.turns = v.turns /\ w.gen = v.gen /\ w.origin = v.origin
    BY <1>2, <2>1 DEF View, Guard
  <2>3. v.guard.rev <= rev
    BY <1>2, <1>3, <1>6 DEF Capturing, Frontier
  <2>4. Capturing(w, p, "gap")
    BY <1>2, <1>4, <2>2, <2>3 DEF Capturing
  <2>5. GoodView(w, p, "gap")
    BY <1>3, <2>2, <2>4 DEF GoodView, Paging
  <2> QED BY <1>1, <1>2, <1>6, <2>1, <2>2, <2>5, MoveKeepsPages
          DEF Frontier, See, Goto, Location
<1>7. CASE Gap(i)
  <2>1. PICK w : w = [v EXCEPT !.gap = FirstGap]
    OBVIOUS
  <2>2. w \in View /\ w.gap = FirstGap /\ w.guard = v.guard
        /\ w.got = v.got /\ w.base = v.base /\ w.start = v.start /\ w.cursor = v.cursor
        /\ w.turns = v.turns /\ w.gen = v.gen /\ w.origin = v.origin
    BY <2>1, TailIsPlaced DEF View
  <2>3. /\ v.guard.rev <= rev
        /\ rev = v.guard.rev => v.guard.message = MessageTop /\ v.guard.part = PartTop
    BY <1>2, <1>3, <1>7 DEF Capturing, Gap
  <2>4. Capturing(w, p, "high")
    BY <1>2, <1>4, <2>2, <2>3 DEF Capturing
  <2>5. GoodView(w, p, "high")
    BY <1>3, <2>2, <2>4 DEF GoodView, Paging
  <2>6. See(i, w)
    BY <1>1, <1>7, <2>1 DEF Gap, FirstGap
  <2> QED BY <1>2, <1>7, <2>2, <2>5, <2>6, MoveKeepsPages DEF Gap, See, Goto, Location
<1>8. CASE High(i)
  <2>1. PICK w : w = [v EXCEPT !.high = Below(v.gap)]
    OBVIOUS
  <2>2. w \in View /\ w.high = Below(v.gap) /\ w.guard = v.guard /\ w.gap = v.gap
        /\ w.got = v.got /\ w.base = v.base /\ w.start = v.start /\ w.cursor = v.cursor
        /\ w.turns = v.turns /\ w.gen = v.gen /\ w.origin = v.origin
    <3>1. Below(v.gap) \in Place
      BY TailIsPlaced DEF View
    <3> QED BY <2>1, <3>1 DEF View
  <2>3. /\ v.guard.rev <= rev
        /\ rev = v.guard.rev => /\ v.guard.message = MessageTop /\ v.guard.part = PartTop
                                /\ v.gap = FirstGap
    BY <1>2, <1>3, <1>8 DEF Capturing, High
  <2>4. Capturing(w, p, "seal")
    BY <1>2, <1>4, <2>2, <2>3 DEF Capturing
  <2>5. GoodView(w, p, "seal")
    BY <1>3, <2>2, <2>4 DEF GoodView, Paging
  <2>6. See(i, w)
    BY <1>1, <1>8, <2>1 DEF High, Below
  <2> QED BY <1>2, <1>8, <2>2, <2>5, <2>6, MoveKeepsPages DEF High, See, Goto, Location
<1> QED BY <1>5, <1>6, <1>7, <1>8

\* Before the gap everything is immutable.
LEMMA NothingUnfinished ==
  ASSUME TypeInv, NEW k \in Present, k <= Below(FirstGap)
  PROVE  Immutable(src[k])
<1> SUFFICES ASSUME k \in Gaps PROVE FALSE
  BY DEF Gaps
<1>1. k \in Nat /\ k > 0 /\ FirstGap \in Gaps /\ FirstGap <= k
  BY TailIsPlaced, PlacesAreNumbers DEF Present
<1>2. FirstGap \in Place /\ FirstGap \in Nat /\ FirstGap > 0
  BY <1>1, TailIsPlaced, PlacesAreNumbers DEF Gaps, Present
<1>3. Below(FirstGap) \in Place /\ (Below(FirstGap) # 0 => Below(FirstGap) < FirstGap)
  BY <1>2, TailIsPlaced
<1>4. Below(FirstGap) \in Nat
  BY <1>3, PlacesAreNumbers
<1> QED BY <1>1, <1>2, <1>3, <1>4

\* The sealed snapshot is what the store holds up to the watermark.
LEMMA SealKeepsPages ==
  ASSUME TypeInv, PagesInv, NEW i \in Invocation, Seal(i)
  PROVE  PagesInv'
<1> DEFINE p == call[i].projection
<1>1. PICK v \in View : v = view[i]
  BY Known
<1>2. PICK from : from = IF call[i].mode = "tail" THEN v.high ELSE v.cursor
  OBVIOUS
<1>3. PICK w : w = [v EXCEPT !.cursor = from, !.start = from, !.upto = from,
                             !.origin = IF call[i].mode = "tail" THEN from ELSE v.origin,
                             !.frozen = Frozen(i)]
  OBVIOUS
<1>4. /\ pc[i] = "seal" /\ Sealed(i) /\ See(i, w) /\ UNCHANGED <<Source, call, host, History>>
  BY <1>1, <1>2, <1>3 DEF Seal
<1>5. v.gen = gen /\ rev = v.guard.rev /\ v.cursor <= v.high
  BY <1>1, <1>4 DEF Sealed, SameSource
<1>6. /\ v.high \in Place /\ v.cursor \in Place /\ v.origin \in Place /\ v.guard \in Guard
      /\ v.high \in Nat /\ v.cursor \in Nat /\ from \in Place /\ from \in Nat
      /\ v.guard.rev \in Nat /\ v.guard.message \in Nat /\ v.guard.part \in Nat
  BY <1>2, PlacesAreNumbers DEF View, Guard
<1>7. Capturing(v, p, "seal") /\ v.gen <= gen
  BY <1>1, <1>4 DEF PagesInv, GoodView, Sealing
<1>8. /\ v.got = v.base /\ v.start = v.cursor /\ v.turns = {}
      /\ Finished(v.got) /\ Caught(v.base, v.origin, v.start, p)
      /\ v.guard.message = MessageTop /\ v.guard.part = PartTop
      /\ v.high = Below(FirstGap)
  BY <1>5, <1>7 DEF Capturing
<1>9. Frozen(i) \in SUBSET Turn
  BY Known DEF Frozen
<1>10. w \in View
  BY <1>3, <1>6, <1>9 DEF View
<1>11. /\ w.cursor = from /\ w.start = from /\ w.upto = from /\ w.frozen = Frozen(i)
       /\ w.high = v.high /\ w.guard = v.guard /\ w.gen = v.gen /\ w.base = v.base
       /\ w.got = v.got /\ w.turns = v.turns
       /\ w.origin = IF call[i].mode = "tail" THEN from ELSE v.origin
  BY <1>3 DEF View
<1>12. from <= w.high
  BY <1>2, <1>5, <1>6, <1>11
<1>13. Progress(w)
  <2>1. Between(w.frozen, from, from) = {}
    <3>1. \A x \in w.frozen : x[1] \in Nat
      BY <1>9, <1>11, TurnsAreNumbered
    <3>2. \A x \in w.frozen : ~(from < x[1] /\ x[1] <= from)
      BY <1>6, <3>1
    <3> QED BY <3>2 DEF Between
  <2>2. from <= from
    BY <1>6
  <2> QED BY <1>8, <1>11, <1>12, <2>1, <2>2 DEF Progress
<1>14. ~Intrudes(v.guard, v.high)
  <2>1. \A k \in Key : ~(src[k].row > MessageTop) /\ ~(src[k].part > PartTop)
    BY TopsHold DEF Tops
  <2> QED BY <1>8, <2>1 DEF Intrudes, Present
<1>15. Faithful(w, p)
  <2>1. w.frozen = {Body(k) : k \in {j \in Present : j <= w.high /\ Matches(src[j], p)}}
    BY <1>1, <1>11 DEF Frozen
  <2>2. \A k \in Present : k <= w.high => Immutable(src[k])
    BY <1>8, <1>11, NothingUnfinished
  <2>3. w.guard.rev <= rev /\ w.guard.message <= MessageTop /\ w.guard.part <= PartTop
    BY <1>5, <1>6, <1>8, <1>11
  <2> QED BY <1>11, <1>14, <2>1, <2>2, <2>3 DEF Faithful
<1>16. Caught(w.base, w.origin, w.start, p)
  <2>1. CASE call[i].mode = "tail"
    <3>1. w.origin = from /\ w.start = from
      BY <1>11, <2>1
    <3>2. \A k \in Present : ~(from < k /\ k <= from)
      BY <1>6, PlacesAreNumbers DEF Present
    <3> QED BY <3>1, <3>2 DEF Caught
  <2>2. CASE call[i].mode # "tail"
    BY <1>2, <1>8, <1>11, <2>2
  <2> QED BY <2>1, <2>2
<1>17. ASSUME NEW l \in {"final", "metadata"} PROVE GoodView(w, p, l)
  <2>1. w.turns = {} /\ Between(w.frozen, w.cursor, w.upto) = {}
    <3>1. \A x \in w.frozen : x[1] \in Nat
      BY <1>9, <1>11, TurnsAreNumbered
    <3>2. \A x \in w.frozen : ~(from < x[1] /\ x[1] <= from)
      BY <1>6, <3>1
    <3> QED BY <1>8, <1>11, <3>2 DEF Between
  <2>2. Reading(w, p, l)
    BY <1>8, <1>11, <1>13, <1>15, <1>16, <1>17, <2>1 DEF Reading
  <2> QED BY <1>7, <1>11, <2>2 DEF GoodView, Sealing
<1>18. PICK l \in {"final", "metadata"} : Goto(i, l)
  BY DEF Seal
<1> QED BY <1>4, <1>10, <1>17, <1>18, MoveKeepsPages DEF See, Goto, Location

\* The messages that are listed are all there are as far as the list goes.
LEMMA MetadataKeepsPages ==
  ASSUME TypeInv, PagesInv, NEW i \in Invocation, Metadata(i)
  PROVE  PagesInv'
<1> DEFINE p == call[i].projection
<1>1. PICK v \in View : v = view[i]
  BY Known
<1>2. /\ pc[i] = "metadata" /\ v.gen = gen /\ UNCHANGED <<Source, call, host, History>>
  BY <1>1 DEF Metadata, SameSource
<1>3. Reading(v, p, "metadata") /\ v.gen <= gen
  BY <1>1, <1>2 DEF PagesInv, GoodView, Paging
<1>4. /\ Progress(v) /\ Finished(v.got) /\ Faithful(v, p) /\ v.turns = {}
      /\ Caught(v.base, v.origin, v.start, p)
  BY <1>2, <1>3 DEF Reading
<1>5. v.cursor \in Nat /\ v.high \in Nat
  BY PlacesAreNumbers DEF View
<1>6. CASE See(i, [view[i] EXCEPT !.upto = view[i].cursor]) /\ Goto(i, "final")
  <2>1. PICK w : w = [v EXCEPT !.upto = v.cursor]
    OBVIOUS
  <2>2. /\ w \in View /\ w.upto = v.cursor /\ w.cursor = v.cursor /\ w.high = v.high
        /\ w.guard = v.guard /\ w.gen = v.gen /\ w.base = v.base /\ w.got = v.got
        /\ w.frozen = v.frozen /\ w.start = v.start /\ w.turns = v.turns /\ w.origin = v.origin
    BY <2>1 DEF View
  <2>3. Progress(w) /\ Faithful(w, p)
    BY <1>4, <2>2 DEF Progress, Faithful
  <2>4. Between(w.frozen, w.cursor, w.upto) = {}
    <3>1. \A x \in w.frozen : x[1] \in Nat
      BY <2>2, TurnsAreNumbered DEF View
    <3>2. \A x \in w.frozen : ~(v.cursor < x[1] /\ x[1] <= v.cursor)
      BY <1>5, <3>1
    <3> QED BY <2>2, <3>2 DEF Between
  <2>5. Reading(w, p, "final")
    BY <1>4, <2>2, <2>3, <2>4 DEF Reading
  <2>6. GoodView(w, p, "final")
    BY <1>3, <2>2, <2>5 DEF GoodView, Sealing
  <2> QED BY <1>1, <1>2, <1>6, <2>1, <2>2, <2>6, MoveKeepsPages DEF See, Goto, Location
<1>7. CASE Goto(i, "messages") /\ \E k \in Ahead(i) :
             See(i, [view[i] EXCEPT !.rows = {<<j, src[j].ver>> : j \in Upto(Ahead(i), k)}])
  <2>1. PICK k \in Ahead(i) :
          See(i, [view[i] EXCEPT !.rows = {<<j, src[j].ver>> : j \in Upto(Ahead(i), k)}])
    BY <1>7
  <2>2. PICK rows : rows = {<<j, src[j].ver>> : j \in Upto(Ahead(i), k)}
    OBVIOUS
  <2>3. PICK w : w = [v EXCEPT !.rows = rows]
    OBVIOUS
  <2>4. rows \in SUBSET (Key \X Nat)
    BY <2>2, Known DEF Upto, Ahead, Present
  <2>5. /\ w \in View /\ w.rows = rows /\ w.cursor = v.cursor /\ w.high = v.high
        /\ w.guard = v.guard /\ w.gen = v.gen /\ w.base = v.base /\ w.got = v.got
        /\ w.frozen = v.frozen /\ w.start = v.start /\ w.turns = v.turns /\ w.origin = v.origin
    BY <2>3, <2>4 DEF View
  <2>6. Progress(w) /\ Faithful(w, p)
    BY <1>4, <2>5 DEF Progress, Faithful
  <2>7. \A r \in rows : r[1] \in Present /\ r[1] <= k /\ r[1] <= v.high
    BY <1>1, <2>2 DEF Upto, Ahead
  <2>8. ASSUME NEW j \in Present, NEW r \in rows, v.cursor < j, j <= r[1]
        PROVE  \E q \in rows : q[1] = j
    <3>1. j \in Nat /\ r[1] \in Nat /\ k \in Nat /\ r[1] <= k /\ r[1] <= v.high
      BY <2>7, PlacesAreNumbers DEF Present, Ahead
    <3>2. j <= k /\ j <= v.high
      BY <1>5, <2>8, <3>1
    <3>3. j \in Upto(Ahead(i), k)
      BY <1>1, <2>8, <3>2 DEF Upto, Ahead
    <3>4. <<j, src[j].ver>> \in rows
      BY <2>2, <3>3
    <3> QED BY <3>4
  <2>9. Reading(w, p, "messages")
    BY <1>4, <2>5, <2>6, <2>7, <2>8 DEF Reading
  <2>10. GoodView(w, p, "messages")
    BY <1>3, <2>5, <2>9 DEF GoodView, Sealing
  <2>11. view' = [view EXCEPT ![i] = w]
    BY <1>1, <2>1, <2>2, <2>3 DEF See
  <2> QED BY <1>2, <1>7, <2>5, <2>10, <2>11, MoveKeepsPages DEF Goto, Location
<1> QED BY <1>6, <1>7 DEF Metadata

LEMMA MessagesKeepsPages ==
  ASSUME TypeInv, PagesInv, NEW i \in Invocation, Messages(i)
  PROVE  PagesInv'
<1>1. PICK v \in View : v = view[i]
  BY Known
<1>2. Reading(v, call[i].projection, "messages") /\ v.gen <= gen
  BY <1>1 DEF PagesInv, GoodView, Paging, Messages
<1>3. Reading(v, call[i].projection, "bodies")
  BY <1>2 DEF Reading
<1>4. GoodView(v, call[i].projection, "bodies")
  BY <1>2, <1>3 DEF GoodView, Sealing
<1>5. view' = [view EXCEPT ![i] = v]
  BY <1>1 DEF TypeInv, Typed, Messages
<1> QED BY <1>4, <1>5, MoveKeepsPages DEF Messages, Goto, Location

\* Where a page ends that takes the turns of s, and the messages it passes.
LastRow(i, s) == IF Relevant(i) \ s = {} THEN MaxKey + 1 ELSE Min(Relevant(i) \ s)

Passed(i, s) == {k \in Listed(i) : k < LastRow(i, s)}

TurnsOf(s) == {Body(k) : k \in s}

\* A page has the turns of the snapshot that lie there: none is passed over, and the page
\* ends before the first that did not fit.
LEMMA BodiesAreTheSnapshot ==
  ASSUME TypeInv, PagesInv, NEW i \in Invocation, pc[i] = "bodies", SameSource(i),
         NEW v \in View, v = view[i], ~Intrudes(v.guard, v.high),
         NEW s \in SUBSET Relevant(i), s \subseteq Passed(i, s), Passed(i, s) # {}
  PROVE  TurnsOf(s) = Between(v.frozen, v.cursor, Max(Passed(i, s)))
<1> DEFINE p == call[i].projection
<1>1. PICK next : next = LastRow(i, s)
  OBVIOUS
<1>2. PICK taken : taken = Passed(i, s)
  OBVIOUS
<1>3. taken = {k \in Listed(i) : k < next} /\ s \subseteq taken /\ taken # {}
  BY <1>1, <1>2 DEF Passed
<1>4. v.gen = gen /\ Reading(v, p, "bodies")
  BY DEF SameSource, PagesInv, GoodView, Paging
<1>5. /\ v.frozen = {Body(k) : k \in {j \in Present : j <= v.high /\ Matches(src[j], p)}}
      /\ \A r \in v.rows : r[1] \in Present
      /\ \A k \in Present, r \in v.rows :
           v.cursor < k /\ k <= r[1] => \E q \in v.rows : q[1] = k
  BY <1>4 DEF Reading, Faithful
<1>6. \A r \in v.rows : v.cursor < r[1] /\ r[1] <= v.high
  BY Known DEF Confined
<1>7. /\ Listed(i) \subseteq Present /\ Present \subseteq Key /\ Key \subseteq Nat
      /\ \A k \in Listed(i) : v.cursor < k /\ k <= v.high
      /\ MaxKey \in Nat /\ \A k \in Key : k <= MaxKey
  BY <1>5, <1>6, ConstantsOK DEF Listed, Present, Key
<1>8. /\ Relevant(i) \subseteq Listed(i) /\ \A k \in Relevant(i) : Matches(src[k], p)
      /\ \A k \in Listed(i) : Matches(src[k], p) => k \in Relevant(i)
  BY DEF Relevant
<1>9. next \in Nat /\ \A k \in Relevant(i) \ s : next <= k
  <2>1. CASE Relevant(i) \ s = {}
    BY <1>1, <1>7, <2>1 DEF LastRow
  <2>2. CASE Relevant(i) \ s # {}
    <3>1. Relevant(i) \ s \in SUBSET Nat
      BY <1>7, <1>8
    <3>2. Min(Relevant(i) \ s) \in Relevant(i) \ s
          /\ \A k \in Relevant(i) \ s : Min(Relevant(i) \ s) <= k
      BY <2>2, <3>1, MinIsLeast
    <3> QED BY <1>1, <2>2, <3>1, <3>2 DEF LastRow
  <2> QED BY <2>1, <2>2
<1>10. PICK upto : upto = Max(taken)
  OBVIOUS
<1>11. upto \in taken /\ upto \in Nat /\ \A k \in taken : k <= upto
  <2>1. taken \in SUBSET Nat /\ \A k \in taken : k <= MaxKey
    BY <1>3, <1>7
  <2> QED BY <1>3, <1>7, <1>10, <2>1, MaxIsGreatest
<1>12. upto < next /\ upto \in Listed(i) /\ v.cursor \in Nat /\ v.high \in Nat
  BY <1>3, <1>11, PlacesAreNumbers DEF View
<1>13. \A k \in Key : Body(k)[1] = k
  BY DEF Body
<1>14. ASSUME NEW k \in s PROVE Body(k) \in Between(v.frozen, v.cursor, upto)
  <2>1. k \in taken /\ k \in Present /\ v.cursor < k /\ k <= v.high /\ Matches(src[k], p)
    BY <1>3, <1>7, <1>8
  <2>2. Body(k) \in v.frozen
    BY <1>5, <2>1
  <2>3. k <= upto /\ Body(k)[1] = k
    BY <1>7, <1>11, <1>13, <2>1
  <2> QED BY <2>1, <2>2, <2>3 DEF Between
<1>15. ASSUME NEW x \in Between(v.frozen, v.cursor, upto) PROVE \E k \in s : x = Body(k)
  <2>1. PICK k \in Present : x = Body(k) /\ k <= v.high /\ Matches(src[k], p)
    BY <1>5 DEF Between
  <2>2. v.cursor < k /\ k <= upto /\ k \in Nat
    BY <1>7, <1>13, <2>1 DEF Between
  <2>3. PICK r \in v.rows : r[1] = upto
    BY <1>12 DEF Listed
  <2>4. PICK q \in v.rows : q[1] = k
    BY <1>5, <2>2, <2>3
  <2>5. k \in Relevant(i)
    BY <1>8, <2>1, <2>4 DEF Listed
  <2>6. k \in s
    <3> SUFFICES ASSUME k \notin s PROVE FALSE
      OBVIOUS
    <3>1. next <= k
      BY <1>9, <2>5
    <3> QED BY <1>9, <1>11, <1>12, <2>2, <3>1
  <2> QED BY <2>1, <2>6
<1>16. Between(v.frozen, v.cursor, upto) \subseteq TurnsOf(s)
  BY <1>15 DEF TurnsOf
<1>17. TurnsOf(s) \subseteq Between(v.frozen, v.cursor, upto)
  BY <1>14 DEF TurnsOf
<1> QED BY <1>2, <1>10, <1>16, <1>17

LEMMA BodiesKeepsPages ==
  ASSUME TypeInv, TypeInv', PagesInv, NEW i \in Invocation, Bodies(i)
  PROVE  PagesInv'
<1> DEFINE p == call[i].projection
<1>1. PICK v \in View : v = view[i]
  BY Known
<1>2. /\ pc[i] = "bodies" /\ SameSource(i) /\ v.gen = gen
      /\ Goto(i, "final") /\ UNCHANGED <<Source, call, host, History>>
  BY <1>1 DEF Bodies, SameSource
<1>3. Reading(v, p, "bodies") /\ v.gen <= gen
  BY <1>1, <1>2 DEF PagesInv, GoodView, Paging
<1>4. /\ Progress(v) /\ Finished(v.got) /\ Faithful(v, p)
      /\ Caught(v.base, v.origin, v.start, p)
  BY <1>2, <1>3 DEF Reading
<1>5. PICK s \in SUBSET Relevant(i) :
        LET rest == Relevant(i) \ s
            next == IF rest = {} THEN MaxKey + 1 ELSE Min(rest)
            taken == {k \in Listed(i) : k < next}
        IN  /\ s \subseteq taken /\ taken # {}
            /\ See(i, [view[i] EXCEPT !.turns = {Body(k) : k \in s}, !.upto = Max(taken)])
  BY DEF Bodies
<1>6. PICK taken : taken = Passed(i, s)
  OBVIOUS
<1>7. PICK turns : turns = TurnsOf(s)
  OBVIOUS
<1>8. PICK w : w = [v EXCEPT !.turns = turns, !.upto = Max(taken)]
  OBVIOUS
<1>9. s \subseteq taken /\ taken # {} /\ See(i, w)
  BY <1>1, <1>5, <1>6, <1>7, <1>8 DEF Passed, LastRow, TurnsOf
<1>10. w \in View
  <2>1. view'[i] \in View
    BY DEF TypeInv, Typed
  <2>2. view'[i] = w
    BY <1>9 DEF See, TypeInv, Typed
  <2> QED BY <2>1, <2>2
<1>11. /\ w.turns = turns /\ w.upto = Max(taken) /\ w.cursor = v.cursor /\ w.high = v.high
       /\ w.guard = v.guard /\ w.gen = v.gen /\ w.base = v.base /\ w.got = v.got
       /\ w.frozen = v.frozen /\ w.start = v.start /\ w.origin = v.origin
  BY <1>8 DEF View
<1>12. Progress(w) /\ Faithful(w, p)
  BY <1>4, <1>11 DEF Progress, Faithful
<1>13. ASSUME ~Intrudes(v.guard, v.high)
       PROVE  turns = Between(v.frozen, v.cursor, Max(taken))
  <2>1. TurnsOf(s) = Between(v.frozen, v.cursor, Max(Passed(i, s)))
    BY <1>1, <1>2, <1>6, <1>9, <1>13, BodiesAreTheSnapshot
  <2> QED BY <1>6, <1>7, <2>1
<1>14. Reading(w, p, "final")
  BY <1>4, <1>11, <1>12, <1>13 DEF Reading
<1>15. GoodView(w, p, "final")
  BY <1>3, <1>11, <1>14 DEF GoodView, Sealing
<1> QED BY <1>2, <1>9, <1>10, <1>15, MoveKeepsPages DEF See, Goto, Location

\* The turns of a page continue those the host was given.
LEMMA BetweenJoins ==
  ASSUME NEW turns \in SUBSET Turn, NEW a \in Nat, NEW b \in Nat, NEW c \in Nat, a <= b, b <= c
  PROVE  Between(turns, a, c) = Between(turns, a, b) \cup Between(turns, b, c)
<1>1. \A x \in turns : x[1] \in Nat
  BY TurnsAreNumbered
<1>2. \A x \in turns :
        a < x[1] /\ x[1] <= c <=> (a < x[1] /\ x[1] <= b) \/ (b < x[1] /\ x[1] <= c)
  BY <1>1
<1> QED BY <1>2 DEF Between

\* What the guard lets through was read from the store as it was frozen.
LEMMA GuardedPage ==
  ASSUME TypeInv, PagesInv, NEW i \in Invocation, pc[i] = "final", SameSource(i),
         GuardHolds(view[i].guard, view[i].high), NEW v \in View, v = view[i]
  PROVE  /\ v.gen = gen /\ Reading(v, call[i].projection, "final")
         /\ ~Intrudes(v.guard, v.high)
         /\ v.turns = Between(v.frozen, v.cursor, v.upto)
         /\ v.got \cup v.turns = v.base \cup Between(v.frozen, v.start, v.upto)
         /\ Finished(v.got \cup v.turns)
<1> DEFINE p == call[i].projection
<1>1. v.gen = gen /\ Reading(v, p, "final")
  BY DEF SameSource, PagesInv, GoodView, Paging
<1>2. Progress(v) /\ Finished(v.got) /\ Faithful(v, p)
  BY <1>1 DEF Reading
<1>3. ~Intrudes(v.guard, v.high)
  BY <1>2 DEF GuardHolds, Faithful
<1>4. v.turns = Between(v.frozen, v.cursor, v.upto)
  BY <1>1, <1>3 DEF Reading
<1>5. /\ v.start \in Nat /\ v.cursor \in Nat /\ v.upto \in Nat /\ v.high \in Nat
      /\ v.start <= v.cursor /\ v.cursor <= v.upto /\ v.upto <= v.high
      /\ v.frozen \in SUBSET Turn
  <2>1. v.cursor <= v.upto /\ v.upto <= v.high
    BY Known DEF Confined
  <2>2. v.start <= v.cursor
    BY <1>2 DEF Progress
  <2>3. v.start \in Place /\ v.cursor \in Place /\ v.upto \in Place /\ v.high \in Place
    BY DEF View
  <2>4. v.frozen \in SUBSET Turn
    BY DEF View
  <2> QED BY <2>1, <2>2, <2>3, <2>4, PlacesAreNumbers
<1>6. Between(v.frozen, v.start, v.upto)
        = Between(v.frozen, v.start, v.cursor) \cup Between(v.frozen, v.cursor, v.upto)
  <2>1. PICK a \in Nat, b \in Nat, c \in Nat : a = v.start /\ b = v.cursor /\ c = v.upto
    BY <1>5
  <2>2. PICK turns \in SUBSET Turn : turns = v.frozen
    BY <1>5
  <2>3. a <= b /\ b <= c
    BY <1>5, <2>1
  <2> QED BY <2>1, <2>2, <2>3, BetweenJoins
<1>7. v.got \cup v.turns = v.base \cup Between(v.frozen, v.start, v.upto)
  BY <1>2, <1>4, <1>6 DEF Progress
<1>8. ASSUME NEW x \in v.turns PROVE Immutable(src[x[1]])
  <2>1. x \in v.frozen
    BY <1>4 DEF Between
  <2>2. PICK k \in Present : x = Body(k) /\ k <= v.high
    BY <1>2, <1>3, <2>1 DEF Faithful
  <2>3. x[1] = k /\ Immutable(src[k])
    BY <1>2, <1>3, <2>2 DEF Faithful, Body
  <2> QED BY <2>3
<1>9. Finished(v.got \cup v.turns)
  BY <1>2, <1>8 DEF Finished
<1> QED BY <1>1, <1>3, <1>4, <1>7, <1>9

\* The last page of a snapshot makes it whole.
LEMMA SnapshotIsCaught ==
  ASSUME TypeInv, NEW v \in View, NEW p, Faithful(v, p), ~Intrudes(v.guard, v.high),
         Caught(v.base, v.origin, v.start, p),
         NEW k \in Present \ late, v.origin < k, k <= v.high, Matches(src[k], p)
  PROVE  \E x \in v.base \cup Between(v.frozen, v.start, v.high) : x[1] = k
<1>1. /\ k \in Nat /\ v.origin \in Nat /\ v.start \in Nat /\ v.high \in Nat
  <2>1. k \in Key /\ v.origin \in Place /\ v.start \in Place /\ v.high \in Place
    BY DEF Present, View
  <2> QED BY <2>1, PlacesAreNumbers
<1>2. CASE k <= v.start
  <2>1. \E x \in v.base : x[1] = k
    BY <1>2 DEF Caught
  <2> QED BY <2>1
<1>3. CASE v.start < k
  <2>1. Body(k) \in v.frozen /\ Body(k)[1] = k
    BY DEF Faithful, Body
  <2>2. Body(k) \in Between(v.frozen, v.start, v.high)
    BY <1>3, <2>1 DEF Between
  <2> QED BY <2>1, <2>2
<1> QED BY <1>1, <1>2, <1>3

LEMMA AnswerIsGood ==
  ASSUME TypeInv, PagesInv, NEW i \in Invocation, SameSource(i), Deliver(i),
         GuardHolds(view[i].guard, view[i].high), Rests,
         Answer(i).kind = "resume" => Answer(i).cursor <= reached',
         NEW t \in Token, t = Answer(i)
  PROVE  GoodToken(t)'
<1>1. PICK v \in View : v = view[i]
  BY Known
<1>2. PICK p : p = call[i].projection
  OBVIOUS
<1>3. pc[i] = "final"
  BY DEF Deliver
<1>4. /\ v.gen = gen /\ Reading(v, p, "final") /\ ~Intrudes(v.guard, v.high)
      /\ v.got \cup v.turns = v.base \cup Between(v.frozen, v.start, v.upto)
      /\ Finished(v.got \cup v.turns)
  BY <1>1, <1>2, <1>3, GuardedPage
<1>5. /\ t.kind = IF v.upto = v.high THEN "resume" ELSE "page"
      /\ t.gen = v.gen /\ t.projection = p /\ t.high = v.high /\ t.guard = v.guard
      /\ t.cursor = v.upto /\ t.origin = v.origin /\ t.start = v.start /\ t.base = v.base
      /\ t.frozen = v.frozen /\ t.got = v.got \cup v.turns
  BY <1>1, <1>2 DEF Answer, TokenFor
<1>6. /\ v.start \in Nat /\ v.cursor \in Nat /\ v.upto \in Nat /\ v.high \in Nat
      /\ v.start <= v.cursor /\ v.cursor <= v.upto /\ v.upto <= v.high
      /\ v.upto \in Place /\ v.start \in Place
  <2>1. v.cursor <= v.upto /\ v.upto <= v.high
    BY <1>1, <1>3, Known DEF Confined
  <2>2. v.start <= v.cursor
    BY <1>4 DEF Reading, Progress
  <2>3. v.start \in Place /\ v.cursor \in Place /\ v.upto \in Place /\ v.high \in Place
    BY DEF View
  <2> QED BY <2>1, <2>2, <2>3, PlacesAreNumbers
<1>7. Progress(t)
  BY <1>4, <1>5, <1>6 DEF Progress
<1>8. UNCHANGED <<src, gen, rev, other, late>> /\ gen \in Nat
  BY Known DEF Rests, Source
<1>9. Finished(t.got)'
  BY <1>4, <1>5, <1>8 DEF Finished
<1>10. ASSUME t.kind = "page"
       PROVE  Faithful(t, p)' /\ Caught(t.base, t.origin, t.start, p)'
  <2>1. Faithful(v, p) /\ Caught(v.base, v.origin, v.start, p)
    BY <1>4 DEF Reading
  <2>2. Faithful(t, p)
    BY <1>5, <2>1 DEF Faithful
  <2>3. Caught(t.base, t.origin, t.start, p) /\ t.start \in Place
    BY <1>5, <1>6, <2>1
  <2> QED BY <2>2, <2>3, SnapshotRests, CaughtRests
<1>11. ASSUME t.kind = "resume"
       PROVE  Caught(t.got, t.origin, t.cursor, p)'
  <2>1. t.cursor = v.high /\ v.upto = v.high
    BY <1>5, <1>11
  <2>2. Faithful(v, p) /\ Caught(v.base, v.origin, v.start, p)
    BY <1>4 DEF Reading
  <2>3. \A k \in Present \ late : v.origin < k /\ k <= v.high /\ Matches(src[k], p) =>
          \E x \in v.base \cup Between(v.frozen, v.start, v.high) : x[1] = k
    BY <1>4, <2>2, SnapshotIsCaught
  <2>4. \A k \in Present \ late : t.origin < k /\ k <= t.cursor /\ Matches(src[k], p) =>
          \E x \in t.got : x[1] = k
    BY <1>4, <1>5, <2>1, <2>3
  <2>5. t.cursor <= reached'
    BY <1>11
  <2>6. Present' = Present
    BY <1>8 DEF Present
  <2> QED BY <1>8, <2>4, <2>5, <2>6 DEF Caught
<1>12. t.gen <= gen' /\ t.projection = p
  BY <1>4, <1>5, <1>8
<1>13. t.kind = "page" => Progress(t)'
  BY <1>7 DEF Progress
<1>14. t.got = t.base \cup Between(t.frozen, t.start, t.cursor)
  BY <1>7 DEF Progress
<1> QED BY <1>9, <1>10, <1>11, <1>12, <1>13, <1>14 DEF GoodToken

LEMMA RespondKeepsPages ==
  ASSUME TypeInv, PagesInv, NEW i \in Invocation, Respond(i)
  PROVE  PagesInv'
<1>1. /\ SameSource(i) /\ GuardHolds(view[i].guard, view[i].high) /\ Deliver(i)
      /\ pc[i] = "final"
  BY DEF Respond, Deliver
<1>2. PICK h \in {IF Answer(i).kind = "page" THEN [host EXCEPT !.page = Answer(i)]
                  ELSE [page |-> None, resume |-> Answer(i)], host} : End(i, h)
  BY <1>1 DEF Deliver
<1>3. PICK t \in Token : t = Answer(i)
  BY <1>1, AnswersAreTokens
<1>4. t.cursor \in Nat /\ reached \in Nat
  <2>1. t.cursor \in Place
    BY DEF Token
  <2> QED BY <2>1, PlacesAreNumbers DEF TypeInv, Typed
<1>5. /\ reached' \in Nat /\ reached <= reached'
      /\ t.kind = "resume" => t.cursor <= reached'
  <2>1. reached' = IF t.kind = "resume" THEN Max({reached, t.cursor}) ELSE reached
    BY <1>1, <1>3 DEF Deliver
  <2>2. PICK m : m = Max({reached, t.cursor})
    OBVIOUS
  <2>3. m \in Nat /\ reached <= m /\ t.cursor <= m
    <3>1. CASE reached <= t.cursor
      BY <1>4, <2>2, <3>1, MaxIsGreatest
    <3>2. CASE t.cursor <= reached
      BY <1>4, <2>2, <3>2, MaxIsGreatest
    <3> QED BY <1>4, <3>1, <3>2
  <2> QED BY <1>4, <2>1, <2>2, <2>3
<1>6. Rests
  BY <1>1, <1>5 DEF Rests, Deliver
<1>7. GoodToken(t)'
  BY <1>1, <1>3, <1>5, <1>6, AnswerIsGood
<1>8. ASSUME NEW u \in {h.page, h.resume} \ {None} PROVE u \in Token /\ GoodToken(u)'
  <2>1. u = t \/ u \in Held
    BY <1>2, <1>3, <1>8 DEF Held, TypeInv, Hosted
  <2>2. ASSUME u \in Held PROVE u \in Token /\ GoodToken(u)'
    <3>1. u \in Token /\ GoodToken(u)
      BY <2>2 DEF PagesInv, Held, TypeInv, Hosted, PageToken, ResumeToken
    <3> QED BY <1>6, <3>1, TokenRests
  <2> QED BY <1>3, <1>7, <2>1, <2>2
<1> QED BY <1>2, <1>6, <1>8, EndKeepsPages

-----------------------------------------------------------------------------
(***************************************************************************)
(* The theorems                                                            *)
(***************************************************************************)
LEMMA StepKeepsPages ==
  ASSUME TypeInv, TypeInv', PagesInv, NEW i \in Invocation, Step(i)
  PROVE  PagesInv'
<1>1. CASE \/ OpenRefused(i) \/ GuardRefused(i) \/ WatermarkRefused(i)
           \/ CaptureRefused(i) \/ PageRefused(i) \/ RespondRefused(i)
  <2>1. Refuse(i)
    BY <1>1 DEF OpenRefused, GuardRefused, WatermarkRefused, CaptureRefused, PageRefused,
                RespondRefused
  <2> QED BY <2>1, RefuseKeepsPages
<1>2. CASE CheckGuard(i)
  <2>1. PICK l \in {"watermark", "metadata"} : Goto(i, l)
    BY <1>2 DEF CheckGuard
  <2> QED BY <1>2, <2>1, PageGoesOn DEF CheckGuard
<1>3. CASE Watermark(i)
  BY <1>3, PageGoesOn DEF Watermark
<1>4. CASE Revision(i) \/ Frontier(i) \/ Gap(i) \/ High(i)
  BY <1>4, CaptureKeepsPages
<1>5. CASE Open(i) \/ Seal(i) \/ Metadata(i) \/ Messages(i) \/ Bodies(i) \/ Respond(i)
  BY <1>5, OpenKeepsPages, SealKeepsPages, MetadataKeepsPages, MessagesKeepsPages,
     BodiesKeepsPages, RespondKeepsPages
<1> QED BY <1>1, <1>2, <1>3, <1>4, <1>5 DEF Step

LEMMA InitPages == Init => PagesInv
<1> SUFFICES ASSUME Init PROVE PagesInv
  OBVIOUS
<1>1. Held = {}
  BY DEF Init, Held
<1>2. ASSUME NEW i \in Invocation
      PROVE  call[i].token = None /\ GoodView(view[i], call[i].projection, pc[i])
  <2>1. view[i] = NoView /\ call[i] = NoCall /\ pc[i] = "idle" /\ gen = 0
    BY DEF Init
  <2>2. NoView.gen <= gen
    BY <2>1 DEF NoView
  <2>3. "idle" \notin Sealing /\ "idle" \notin Paging
    BY DEF Sealing, Paging
  <2> QED BY <2>1, <2>2, <2>3 DEF GoodView, NoCall
<1> QED BY <1>1, <1>2 DEF PagesInv

LEMMA NextPages ==
  ASSUME Grows
  PROVE  TypeInv /\ PagesInv /\ [Next]_vars => (TypeInv /\ PagesInv)'
<1> SUFFICES ASSUME TypeInv, PagesInv, [Next]_vars PROVE TypeInv' /\ PagesInv'
  OBVIOUS
<1>1. TypeInv'
  BY NextTypes
<1>2. CASE UNCHANGED vars
  <2>1. UNCHANGED <<src, other, rev, gen, pc, call, view, host, reached, late>>
    BY <1>2 DEF vars
  <2>2. Rests
    BY <2>1 DEF Rests, Source, TypeInv, Typed
  <2>3. ASSUME NEW t \in Token, GoodToken(t) PROVE GoodToken(t)'
    BY <2>2, <2>3, TokenRests
  <2>4. ASSUME NEW j \in Invocation
        PROVE  /\ GoodView(view[j], call[j].projection, pc[j])'
               /\ call'[j].token # None => GoodToken(call[j].token)'
    <3>1. PICK v \in View : v = view[j] /\ v = view'[j]
      BY <2>1 DEF TypeInv, Typed
    <3>2. PICK c \in CallRecord : c = call[j] /\ c = call'[j]
      BY <2>1 DEF TypeInv, Typed
    <3>3. PICK l : l = pc[j] /\ l = pc'[j]
      BY <2>1
    <3>4. GoodView(v, c.projection, l)'
      BY <2>2, <3>1, <3>2, <3>3, ViewRests DEF PagesInv
    <3>5. c.token # None => GoodToken(c.token)'
      BY <2>3, <3>2 DEF PagesInv, CallRecord
    <3> QED BY <3>1, <3>2, <3>3, <3>4, <3>5
  <2>5. ASSUME NEW t \in Held' PROVE GoodToken(t)'
    BY <2>1, <2>3, <2>5 DEF Held, PagesInv, TypeInv, Hosted, PageToken, ResumeToken
  <2> QED BY <1>1, <2>4, <2>5 DEF PagesInv
<1>3. CASE OpenCode
  BY <1>1, <1>3, OpenCodeKeepsPages
<1>4. ASSUME NEW i \in Invocation, Call(i) \/ Step(i) \/ PageFails(i) PROVE PagesInv'
  BY <1>1, <1>4, CallKeepsPages, StepKeepsPages, PageFailsKeepsPages
<1> QED BY <1>1, <1>2, <1>3, <1>4 DEF Next

\* What is known of the tokens and of the processes holds in every reachable state, as
\* long as OpenCode only appends, completes and rewrites what is unfinished.
THEOREM Invariant ==
  ASSUME Grows
  PROVE  Spec => [](TypeInv /\ PagesInv)
<1>1. Init => TypeInv /\ PagesInv
  BY InitTypes, InitPages
<1>2. (TypeInv /\ PagesInv) /\ [Next]_vars => (TypeInv /\ PagesInv)'
  BY NextPages
<1> QED BY <1>1, <1>2, PTL DEF Spec

\* The pages of a snapshot show the prefix that was frozen, however the store grows
\* between the queries of the pages (require_snapshot_guard, read_page).
THEOREM PrefixStaysFrozen ==
  ASSUME Grows
  PROVE  Spec => []FrozenPrefix
<1>1. TypeInv /\ PagesInv => FrozenPrefix
  <2> SUFFICES ASSUME TypeInv, PagesInv, NEW t \in Held
               PROVE  t.got = t.base \cup {x \in t.frozen : t.start < x[1] /\ x[1] <= t.cursor}
    BY DEF FrozenPrefix
  <2>1. GoodToken(t) /\ t.kind \in {"page", "resume"}
    BY DEF PagesInv, Held, TypeInv, Hosted, PageToken, ResumeToken
  <2> QED BY <2>1 DEF GoodToken, Progress, Between
<1> QED BY <1>1, Invariant, PTL

\* A host that pages and resumes misses nothing but what came late behind it, and is shown
\* nothing unfinished (immutable_tail, page_state, page_result).
THEOREM NothingIsSkipped ==
  ASSUME Grows
  PROVE  Spec => []NothingSkipped
<1>1. TypeInv /\ PagesInv => NothingSkipped
  <2> SUFFICES ASSUME TypeInv, PagesInv, NEW t \in Held, t.gen = gen
               PROVE  /\ t.kind = "resume" =>
                           {k \in Present : t.origin < k /\ k <= t.cursor
                                              /\ Matches(src[k], t.projection)} \ late
                             \subseteq {x[1] : x \in t.got}
                      /\ \A x \in t.got : Immutable(src[x[1]])
    BY DEF NothingSkipped
  <2>1. GoodToken(t)
    BY DEF PagesInv
  <2>2. Finished(t.got)
    BY <2>1 DEF GoodToken
  <2>3. ASSUME t.kind = "resume", NEW k \in Present \ late, t.origin < k, k <= t.cursor,
               Matches(src[k], t.projection)
        PROVE  k \in {x[1] : x \in t.got}
    <3>1. Caught(t.got, t.origin, t.cursor, t.projection)
      BY <2>1, <2>3 DEF GoodToken
    <3>2. PICK x \in t.got : x[1] = k
      BY <2>3, <3>1 DEF Caught
    <3> QED BY <3>2
  <2> QED BY <2>2, <2>3 DEF Finished
<1> QED BY <1>1, Invariant, PTL

-----------------------------------------------------------------------------
(***************************************************************************)
(* The enumeration of all sessions: its invariant                          *)
(***************************************************************************)
Publishing == {"evict", "create", "publish"}

FirstPage == {"look", "list", "persist"} \cup Publishing

\* The snapshot lock outlasts a step only while a snapshot is being made.
Mutex == \A w \in Caller : at[w] \in Publishing <=> lock = w

\* Somebody has received a page of this instance that ends here.
Reached(k, inst, n) ==
  \E q \in served : q.inst = inst /\ q.to = n /\ SourceOf(q.query) = k

\* A call is a first one, or continues a page its cursor came with.
Continues(c, inst) ==
  c.cursor # NoCursor => Reached(SourceOf(c), inst, c.cursor.offset)

Addressed ==
  \A w \in Caller :
    /\ at[w] \notin {"idle", "done"} => query[w] \in Query
    /\ at[w] \in FirstPage => query[w].cursor = NoCursor
    /\ at[w] = "load" => query[w].cursor # NoCursor /\ Continues(query[w], query[w].cursor.inst)
    /\ at[w] = "respond" => page[w] \in Page

\* Directories on disk, and what the process making one knows about them.
Occupied == {k \in InitialKey : snap[k].state # "absent"}

Room ==
  /\ IsFiniteSet(Occupied) /\ Cardinality(Occupied) <= MaxSnapshots
  /\ \A w \in Caller :
       /\ at[w] \in {"evict", "create"} => snap[query[w].key].state = "absent"
       /\ at[w] = "publish" => snap[query[w].key].state = "partial"
       /\ at[w] = "evict" => Full(snap)
       /\ at[w] = "create" => Cardinality(Occupied) < MaxSnapshots

Bookkeeping == EnumTypeOK /\ Mutex /\ Addressed /\ Room

\* The pages that were, or are about to be, given to the host.
Given == served \cup {page[w] : w \in {v \in Caller : at[v] = "respond"}}

\* The claim in a manifest is a page of that snapshot.
Sound(k) ==
  LET s == snap[k] IN
  /\ 1 <= s.inst /\ s.inst <= made
  /\ s.claim \in Query /\ SourceOf(s.claim) = k
  /\ s.from = Start(s.claim) /\ s.from <= s.next /\ s.next <= s.rows
  /\ Continues(s.claim, s.inst)

Manifests == {k \in InitialKey : HasManifest(snap[k])}

AllSound == \A k \in Manifests : Sound(k)

Unique == \A j, k \in Manifests : snap[j].inst = snap[k].inst => j = k

\* What is given of an instance lies before its current claim, or is that claim.
Behind == 
  \A p \in Given : \A k \in Manifests :
    p.inst = snap[k].inst => p.to <= snap[k].from \/ p = Claimed(snap[k])

Linked ==
  \A p \in Given :
    /\ p.inst <= made
    /\ p.from = Start(p.query)
    /\ Continues(p.query, p.inst)

Apart(p, q) == p.inst = q.inst => p = q \/ p.to <= q.from \/ q.to <= p.from

Disjoint == \A p, q \in Given : Apart(p, q)

Apportioned == AllSound /\ Unique /\ Behind /\ Linked /\ Disjoint

EnumInv == Bookkeeping /\ Apportioned

-----------------------------------------------------------------------------
(***************************************************************************)
(* Calls, pages and snapshots                                              *)
(***************************************************************************)
LEMMA NoCursorIsNone == NoCursor \notin Cursor
BY DEF NoCursor, Cursor

\* Where a call starts and ends.
LEMMA Extent ==
  ASSUME NEW c \in Query, NEW rows \in Nat
  PROVE  /\ Start(c) \in Nat /\ PageEnd(c, rows) \in Nat
         /\ PageEnd(c, rows) <= rows
         /\ Start(c) <= rows => Start(c) <= PageEnd(c, rows)
<1>1. c.key \in InitialKey /\ c.key.limit \in Nat \ {0}
  BY EnumConstantsOK DEF Query, InitialKey
<1>2. Start(c) \in Nat
  BY NoCursorIsNone DEF Query, Cursor, Start
<1> QED
  BY <1>1, <1>2 DEF PageEnd, Least

LEMMA SourceIsKey == ASSUME NEW c \in Query PROVE SourceOf(c) \in InitialKey
BY DEF Query, Cursor, SourceOf

LEMMA InitialIsCall ==
  ASSUME NEW k \in InitialKey
  PROVE  Initial(k) \in Query /\ Initial(k).cursor = NoCursor
BY DEF Initial, Query

LEMMA SuccessorIsCall ==
  ASSUME NEW k \in InitialKey, NEW p \in Page
  PROVE  /\ [key |-> k, cursor |-> Successor(p)] \in Query
         /\ Successor(p) # NoCursor
<1>1. SourceOf(p.query) \in InitialKey /\ p.inst \in Nat /\ p.to \in Nat
  BY SourceIsKey DEF Page
<1>2. Successor(p) \in Cursor
  BY <1>1 DEF Successor, Cursor
<1> QED
  BY <1>2, NoCursorIsNone DEF Query

LEMMA GoneIsSnapshot == Gone \in Snapshot /\ [Gone EXCEPT !.state = "partial"] \in Snapshot
BY DEF Gone, Snapshot

LEMMA ClaimedIsPage ==
  ASSUME NEW s \in Snapshot, s.claim \in Query
  PROVE  Claimed(s) \in Page
BY DEF Claimed, Snapshot, Page

LEMMA PrunedIsTyped ==
  ASSUME snap \in [InitialKey -> Snapshot]
  PROVE  Pruned \in [InitialKey -> Snapshot]
BY GoneIsSnapshot DEF Pruned

LEMMA PrunedKeeps ==
  ASSUME NEW k \in InitialKey
  PROVE  /\ Pruned[k].state # "absent" =>
              Pruned[k] = snap[k] /\ HasManifest(snap[k]) /\ ~snap[k].expired
         /\ Pruned[k].state = "absent" \/ HasManifest(Pruned[k])
         /\ HasManifest(snap[k]) /\ ~snap[k].expired => Pruned[k] = snap[k]
BY DEF Pruned, HasManifest, Gone

LEMMA FreshIsSnapshot ==
  ASSUME NEW w \in Caller, query[w] \in Query, total[w] \in Nat, made \in Nat
  PROVE  NewSnapshot(w) \in Snapshot
<1>1. PageEnd(query[w], total[w]) \in Nat
  BY Extent
<1> QED
  BY <1>1 DEF NewSnapshot, Snapshot

LEMMA ClaimIsSnapshot ==
  ASSUME NEW s \in Snapshot, NEW c \in Query, c.cursor # NoCursor
  PROVE  Claim(c, s) \in Snapshot /\ Claim(c, s).state = s.state
<1>1. PageEnd(c, s.rows) \in Nat /\ c.cursor.offset \in Nat
  BY Extent DEF Snapshot, Query, Cursor
<1> QED
  BY <1>1 DEF Claim, Snapshot

-----------------------------------------------------------------------------
(***************************************************************************)
(* Pages                                                                   *)
(***************************************************************************)
\* What a manifest says of its instance.
SameSnapshot(k) ==
  /\ snap'[k].inst = snap[k].inst /\ snap'[k].rows = snap[k].rows
  /\ snap'[k].claim = snap[k].claim
  /\ snap'[k].from = snap[k].from /\ snap'[k].next = snap[k].next

\* Most steps at most forget snapshots and repeat claims.
Repeats ==
  /\ made' = made /\ served \subseteq served'
  /\ Manifests' \subseteq Manifests
  /\ \A k \in Manifests' : SameSnapshot(k)
  /\ Given' \subseteq Given \cup {Claimed(snap[k]) : k \in Manifests}

LEMMA ContinuesOn ==
  ASSUME served \subseteq served', NEW c, NEW inst, Continues(c, inst)
  PROVE  Continues(c, inst)'
BY DEF Continues, Reached

\* A claimed page is one of the pages of its instance.
LEMMA ClaimedFits ==
  ASSUME EnumInv, NEW k \in Manifests
  PROVE  LET p == Claimed(snap[k]) IN
         /\ p.inst = snap[k].inst /\ p.query = snap[k].claim
         /\ p.from = snap[k].from /\ p.to = snap[k].next
         /\ p.inst <= made /\ p.from = Start(p.query) /\ Continues(p.query, p.inst)
         /\ \A j \in Manifests : p.inst = snap[j].inst => p = Claimed(snap[j])
         /\ \A q \in Given : Apart(p, q) /\ Apart(q, p)
<1>1. Sound(k)
  BY DEF EnumInv, Apportioned, AllSound
<1>2. \A j \in Manifests : snap[k].inst = snap[j].inst => k = j
  BY DEF EnumInv, Apportioned, Unique
<1>3. \A q \in Given :
        q.inst = snap[k].inst => q.to <= snap[k].from \/ q = Claimed(snap[k])
  BY DEF EnumInv, Apportioned, Behind
<1> QED
  BY <1>1, <1>2, <1>3 DEF Claimed, Sound, Apart

LEMMA GivenArePages == EnumInv => Given \subseteq Page
BY DEF EnumInv, Bookkeeping, EnumTypeOK, Addressed, Given

LEMMA RepeatingPages ==
  ASSUME EnumInv, Repeats
  PROVE  Apportioned'
<1>1. AllSound'
  <2> SUFFICES ASSUME NEW k \in Manifests' PROVE Sound(k)'
    BY DEF AllSound
  <2>1. k \in Manifests /\ Sound(k) /\ SameSnapshot(k)
    BY DEF Repeats, EnumInv, Apportioned, AllSound
  <2>2. Continues(snap[k].claim, snap[k].inst)'
    BY <2>1, ContinuesOn DEF Sound, Repeats, SameSnapshot
  <2> QED
    BY <2>1, <2>2 DEF Sound, SameSnapshot, Repeats
<1>2. Unique'
  BY DEF Repeats, SameSnapshot, EnumInv, Apportioned, Unique
<1>3. \A k \in Manifests' : k \in Manifests /\ Claimed(snap'[k]) = Claimed(snap[k])
  BY DEF Repeats, SameSnapshot, Claimed
<1>4. ASSUME NEW p \in Given' PROVE p \in Given \/ \E k \in Manifests : p = Claimed(snap[k])
  BY <1>4 DEF Repeats
<1>5. Behind'
  <2> SUFFICES ASSUME NEW p \in Given', NEW k \in Manifests', p.inst = snap'[k].inst
               PROVE  p.to <= snap'[k].from \/ p = Claimed(snap'[k])
    BY DEF Behind, Claimed
  <2>1. k \in Manifests /\ SameSnapshot(k)
    BY DEF Repeats
  <2>2. CASE p \in Given
    BY <1>3, <2>1, <2>2 DEF SameSnapshot, EnumInv, Apportioned, Behind
  <2>3. CASE \E j \in Manifests : p = Claimed(snap[j])
    BY <1>3, <2>1, <2>3, ClaimedFits DEF SameSnapshot
  <2> QED
    BY <1>4, <2>2, <2>3
<1>6. Linked'
  <2> SUFFICES ASSUME NEW p \in Given'
               PROVE  p.inst <= made /\ p.from = Start(p.query) /\ Continues(p.query, p.inst)'
    BY DEF Linked, Repeats
  <2>1. p.inst <= made /\ p.from = Start(p.query) /\ Continues(p.query, p.inst)
    BY <1>4, ClaimedFits DEF EnumInv, Apportioned, Linked
  <2> QED
    BY <2>1, ContinuesOn DEF Repeats
<1>7. Disjoint'
  <2> SUFFICES ASSUME NEW p \in Given', NEW q \in Given' PROVE Apart(p, q)
    BY DEF Disjoint
  <2>1. CASE p \in Given /\ q \in Given
    BY <2>1 DEF EnumInv, Apportioned, Disjoint
  <2>2. CASE p \in Given /\ \E k \in Manifests : q = Claimed(snap[k])
    BY <2>2, ClaimedFits
  <2>3. CASE q \in Given /\ \E k \in Manifests : p = Claimed(snap[k])
    BY <2>3, ClaimedFits
  <2>4. CASE \E j, k \in Manifests : p = Claimed(snap[j]) /\ q = Claimed(snap[k])
    BY <2>4, ClaimedFits DEF Apart
  <2> QED
    BY <1>4, <2>1, <2>2, <2>3, <2>4
<1> QED
  BY <1>1, <1>2, <1>5, <1>6, <1>7 DEF Apportioned

\* A new claim starts where the last one ended: a later page of the instance,
\* or the first of a new instance.
LEMMA ClaimingPages ==
  ASSUME EnumInv, NEW k \in InitialKey, served' = served, made' \in {made, made + 1},
         Manifests' \subseteq Manifests \cup {k},
         \A j \in Manifests' \ {k} : SameSnapshot(j),
         k \in Manifests', Sound(k)',
         \/ made' = made /\ k \in Manifests /\ snap'[k].inst = snap[k].inst
            /\ snap'[k].from = snap[k].next
         \/ made' = made + 1 /\ snap'[k].inst = made + 1,
         Given' \subseteq Given \cup {Claimed(snap'[k])}
  PROVE  Apportioned'
<1> DEFINE new == Claimed(snap'[k])
<1>1. /\ new.inst = snap'[k].inst /\ new.query = snap'[k].claim
      /\ new.from = snap'[k].from /\ new.to = snap'[k].next
  BY DEF Claimed
<1>2. \A j \in Manifests' \ {k} :
        /\ j \in Manifests /\ snap[j].inst <= made /\ snap'[j].inst = snap[j].inst
        /\ snap'[j].from = snap[j].from /\ Claimed(snap'[j]) = Claimed(snap[j])
  BY DEF EnumInv, Apportioned, AllSound, Sound, SameSnapshot, Claimed
<1>3. \A j \in Manifests' \ {k} : snap'[j].inst # snap'[k].inst
  BY <1>2 DEF EnumInv, Apportioned, Unique, Bookkeeping, EnumTypeOK, Snapshot
<1>4. \A p \in Given : p.inst \in Nat /\ p.to \in Nat /\ p.from \in Nat /\ p.inst <= made
  BY GivenArePages DEF Page, EnumInv, Apportioned, Linked
<1>5. ASSUME NEW p \in Given, p.inst = new.inst PROVE p.to <= new.from
  <2>1. CASE made' = made + 1
    BY <1>1, <1>4, <1>5, <2>1 DEF EnumInv, Bookkeeping, EnumTypeOK
  <2>2. CASE made' = made
    <3>1. k \in Manifests /\ snap[k].from <= snap[k].next
      BY <2>2 DEF EnumInv, Bookkeeping, EnumTypeOK, Apportioned, AllSound, Sound
    <3>2. p.to <= snap[k].from \/ p = Claimed(snap[k])
      BY <1>1, <1>5, <2>2, <3>1 DEF EnumInv, Bookkeeping, EnumTypeOK, Apportioned, Behind
    <3>3. snap[k].from \in Nat /\ snap[k].next \in Nat
      BY DEF EnumInv, Bookkeeping, EnumTypeOK, Snapshot
    <3> QED
      BY <1>1, <1>4, <2>2, <3>1, <3>2, <3>3 DEF Claimed, EnumInv, Bookkeeping, EnumTypeOK
  <2> QED
    BY <2>1, <2>2
<1>6. AllSound'
  <2> SUFFICES ASSUME NEW j \in Manifests', j # k PROVE Sound(j)'
    BY DEF AllSound
  <2>1. j \in Manifests /\ Sound(j) /\ SameSnapshot(j)
    BY DEF EnumInv, Apportioned, AllSound
  <2>2. Continues(snap[j].claim, snap[j].inst)'
    BY <2>1, ContinuesOn DEF Sound, SameSnapshot
  <2>3. snap[j].inst <= made'
    BY <2>1 DEF Sound, EnumInv, Bookkeeping, EnumTypeOK, Snapshot, Manifests
  <2> QED
    BY <2>1, <2>2, <2>3 DEF Sound, SameSnapshot
<1>7. Unique'
  BY <1>2, <1>3 DEF EnumInv, Apportioned, Unique
<1>8. Behind'
  <2> SUFFICES ASSUME NEW p \in Given', NEW j \in Manifests', p.inst = snap'[j].inst
               PROVE  p.to <= snap'[j].from \/ p = Claimed(snap'[j])
    BY DEF Behind, Claimed
  <2>1. CASE p = new
    BY <1>1, <1>3, <2>1
  <2>2. CASE p \in Given /\ j = k
    BY <1>1, <1>5, <2>2
  <2>3. CASE p \in Given /\ j # k
    BY <1>2, <2>3 DEF EnumInv, Apportioned, Behind
  <2> QED
    BY <2>1, <2>2, <2>3
<1>9. Linked'
  <2> SUFFICES ASSUME NEW p \in Given'
               PROVE  p.inst <= made' /\ p.from = Start(p.query) /\ Continues(p.query, p.inst)'
    BY DEF Linked
  <2>1. CASE p = new
    BY <1>1, <2>1 DEF Sound
  <2>2. CASE p \in Given
    <3>1. p.from = Start(p.query) /\ Continues(p.query, p.inst)
      BY <2>2 DEF EnumInv, Apportioned, Linked
    <3> QED
      BY <1>4, <2>2, <3>1, ContinuesOn DEF EnumInv, Bookkeeping, EnumTypeOK
  <2> QED
    BY <2>1, <2>2
<1>10. Disjoint'
  BY <1>5 DEF Disjoint, Apart, EnumInv, Apportioned
<1> QED
  BY <1>6, <1>7, <1>8, <1>9, <1>10 DEF Apportioned

-----------------------------------------------------------------------------
(***************************************************************************)
(* What steps have in common                                               *)
(***************************************************************************)
LEMMA AnswerGives ==
  ASSUME EnumTypeOK, NEW w \in Caller, NEW p, AnswerPage(w, p), served' = served
  PROVE  Given' \subseteq Given \cup {p}
BY DEF EnumTypeOK, AnswerPage, MoveTo, Given

LEMMA SilenceGives ==
  ASSUME EnumTypeOK, NEW w \in Caller, NEW l, l # "respond", MoveTo(w, l), served' = served,
         \A v \in Caller \ {w} : page'[v] = page[v]
  PROVE  Given' \subseteq Given
BY DEF EnumTypeOK, MoveTo, Given

LEMMA PruningForgets ==
  ASSUME EnumTypeOK, snap' = Pruned
  PROVE  /\ snap' \in [InitialKey -> Snapshot]
         /\ Manifests' \subseteq Manifests /\ \A k \in Manifests' : SameSnapshot(k)
         /\ Occupied' \subseteq Occupied /\ Occupied' = Retained(Pruned)
<1>1. snap' \in [InitialKey -> Snapshot]
  BY PrunedIsTyped DEF EnumTypeOK
<1>2. \A k \in InitialKey :
        /\ snap'[k].state # "absent" => snap'[k] = snap[k] /\ HasManifest(snap[k])
        /\ snap'[k].state = "absent" \/ HasManifest(snap'[k])
  BY PrunedKeeps
<1>3. \A k \in InitialKey : HasManifest(snap'[k]) => snap'[k].state # "absent"
  BY DEF HasManifest
<1> QED
  BY <1>1, <1>2, <1>3 DEF Manifests, SameSnapshot, Occupied, Retained, HasManifest

LEMMA RoomIsKept ==
  ASSUME EnumInv, Occupied' \subseteq Occupied, \A v \in Caller : at'[v] \notin Publishing
  PROVE  Room'
<1>1. IsFiniteSet(Occupied') /\ Cardinality(Occupied') <= Cardinality(Occupied)
  BY FS_Subset DEF EnumInv, Bookkeeping, Room
<1>2. Cardinality(Occupied') \in Nat /\ Cardinality(Occupied) \in Nat
  BY <1>1, FS_CardinalityType DEF EnumInv, Bookkeeping, Room
<1> QED
  BY <1>1, <1>2, EnumConstantsOK DEF EnumInv, Bookkeeping, Room, Publishing

\* While a snapshot is being made, everyone else leaves the directories alone.
LEMMA RoomIsUndisturbed ==
  ASSUME EnumInv, \A k \in InitialKey : snap'[k].state = snap[k].state,
         \A v \in Caller : at'[v] \in Publishing => at'[v] = at[v] /\ query'[v] = query[v]
  PROVE  Room'
<1>1. Occupied' = Occupied /\ Retained(snap') = Retained(snap)
  BY DEF Occupied, Retained, HasManifest
<1>2. Full(snap') = Full(snap)
  BY <1>1 DEF Full
<1>3. \A v \in Caller : at[v] \in Publishing => query[v].key \in InitialKey
  BY DEF EnumInv, Bookkeeping, Addressed, Publishing, Query
<1> QED
  BY <1>1, <1>2, <1>3 DEF EnumInv, Bookkeeping, Room, Publishing

\* A process that leaves, or goes on, takes no call from another.
LEMMA OthersStayAddressed ==
  ASSUME EnumInv, NEW w \in Caller, served \subseteq served',
         \A v \in Caller \ {w} : at'[v] = at[v] /\ query'[v] = query[v] /\ page'[v] = page[v],
         \/ at'[w] \in {"idle", "done"}
         \/ /\ at'[w] \in FirstPage /\ at[w] \in FirstPage
            /\ query'[w] = query[w]
         \/ at'[w] = "respond" /\ query'[w] \in Query /\ page'[w] \in Page
  PROVE  Addressed'
<1> SUFFICES ASSUME NEW v \in Caller
             PROVE  /\ at'[v] \notin {"idle", "done"} => query'[v] \in Query
                    /\ at'[v] \in FirstPage => query'[v].cursor = NoCursor
                    /\ at'[v] = "load" => query'[v].cursor # NoCursor
                                            /\ Continues(query[v], query[v].cursor.inst)'
                    /\ at'[v] = "respond" => page'[v] \in Page
  BY DEF Addressed
<1>1. CASE v = w
  BY <1>1 DEF EnumInv, Bookkeeping, Addressed, FirstPage, Publishing
<1>2. CASE v # w
  <2>1. at[v] = "load" => Continues(query[v], query[v].cursor.inst)'
    BY <1>2, ContinuesOn DEF EnumInv, Bookkeeping, Addressed
  <2> QED
    BY <1>2, <2>1 DEF EnumInv, Bookkeeping, Addressed
<1> QED
  BY <1>1, <1>2

-----------------------------------------------------------------------------
(***************************************************************************)
(* Every step preserves the invariant                                      *)
(***************************************************************************)
LEMMA InitEstablishes == EnumInit => EnumInv
<1> SUFFICES ASSUME EnumInit PROVE EnumInv
  OBVIOUS
<1> USE DEF EnumInit
<1>1. EnumTypeOK
  BY EnumConstantsOK, GoneIsSnapshot DEF EnumTypeOK, PC
<1>2. Mutex /\ Addressed
  BY EnumConstantsOK DEF Mutex, Addressed, Publishing, FirstPage
<1>3. Occupied = {} /\ Manifests = {} /\ Given = {}
  BY DEF Occupied, Manifests, HasManifest, Gone, Given
<1>4. Room
  BY <1>3, FS_EmptySet, EnumConstantsOK DEF Room
<1>5. Apportioned
  BY <1>3 DEF Apportioned, AllSound, Unique, Behind, Linked, Disjoint
<1> QED
  BY <1>1, <1>2, <1>4, <1>5 DEF EnumInv, Bookkeeping

LEMMA BeginPreserves ==
  ASSUME EnumInv, NEW w \in Caller, Begin(w)
  PROVE  EnumInv'
<1> USE DEF EnumInv, Bookkeeping, Begin, MoveTo
<1>1. PICK c \in Asked : query' = [query EXCEPT ![w] = c]
        /\ at' = [at EXCEPT ![w] = IF c.cursor = NoCursor THEN "look" ELSE "load"]
  OBVIOUS
<1>2. /\ c \in Query
      /\ c.cursor # NoCursor => Continues(c, c.cursor.inst)
  <2>1. CASE \E k \in InitialKey : c = Initial(k)
    BY <2>1, InitialIsCall
  <2>2. CASE \E k \in InitialKey, p \in served : c = [key |-> k, cursor |-> Successor(p)]
    <3>1. PICK k \in InitialKey, p \in served : c = [key |-> k, cursor |-> Successor(p)]
      BY <2>2
    <3>2. p \in Page /\ c.cursor = Successor(p)
      BY <3>1 DEF EnumTypeOK
    <3>3. c \in Query /\ c.cursor # NoCursor
      BY <3>1, <3>2, SuccessorIsCall
    <3> QED
      BY <3>2, <3>3 DEF Continues, Reached, Successor, SourceOf
  <2> QED
    BY <2>1, <2>2 DEF Asked
<1>3. EnumTypeOK'
  BY <1>1, <1>2 DEF EnumTypeOK, PC
<1>4. Mutex'
  BY <1>1 DEF EnumTypeOK, Mutex, Publishing
<1>5. Addressed'
  BY <1>1, <1>2 DEF EnumTypeOK, Addressed, FirstPage, Publishing, Continues, Reached
<1>6. Room'
  BY <1>1, RoomIsUndisturbed DEF EnumTypeOK, Publishing
<1>7. Given' \subseteq Given
  BY <1>1, SilenceGives DEF EnumTypeOK
<1>8. Apportioned'
  BY <1>7, RepeatingPages DEF Repeats, Manifests, SameSnapshot
<1> QED
  BY <1>3, <1>4, <1>5, <1>6, <1>8

\* Steps that give a process up, or take it on to its next look.
LEMMA QuietPreserves ==
  ASSUME EnumInv, NEW w \in Caller, List(w) \/ LoadRefused(w) \/ Stop(w)
  PROVE  EnumInv'
<1> USE DEF EnumInv, Bookkeeping, MoveTo, Leave
<1>1. /\ at' = [at EXCEPT ![w] = IF List(w) THEN "persist" ELSE "done"]
      /\ UNCHANGED <<snap, made, served>>
      /\ \A v \in Caller \ {w} : query'[v] = query[v] /\ page'[v] = page[v]
      /\ at'[w] \in {"persist", "done"}
  BY DEF List, LoadRefused, Stop, EnumTypeOK
<1>2. EnumTypeOK'
  BY EnumConstantsOK DEF List, LoadRefused, Stop, EnumTypeOK, PC
<1>3. Mutex'
  BY EnumConstantsOK DEF List, LoadRefused, Stop, EnumTypeOK, Mutex, Publishing
<1>4. Addressed'
  <2>1. CASE List(w)
    BY <1>1, <2>1, OthersStayAddressed DEF List, EnumTypeOK, FirstPage
  <2>2. CASE ~List(w)
    BY <1>1, <2>2, OthersStayAddressed DEF EnumTypeOK
  <2> QED
    BY <2>1, <2>2
<1>5. Room'
  BY <1>1, RoomIsUndisturbed DEF EnumTypeOK, Publishing
<1>6. Given' \subseteq Given
  BY <1>1, SilenceGives DEF EnumTypeOK
<1>7. Apportioned'
  BY <1>1, <1>6, RepeatingPages DEF Repeats, Manifests, SameSnapshot
<1> QED
  BY <1>2, <1>3, <1>4, <1>5, <1>7

LEMMA ReturnPreserves ==
  ASSUME EnumInv, NEW w \in Caller, Return(w)
  PROVE  EnumInv'
<1> USE DEF EnumInv, Bookkeeping, MoveTo, Leave, Return
<1>1. page[w] \in Given /\ page[w] \in Page
  BY DEF Given, Addressed
<1>2. EnumTypeOK'
  BY <1>1, EnumConstantsOK DEF EnumTypeOK, PC
<1>3. Mutex'
  BY DEF EnumTypeOK, Mutex, Publishing
<1>4. Addressed'
  BY OthersStayAddressed DEF EnumTypeOK
<1>5. Room'
  BY RoomIsUndisturbed DEF EnumTypeOK, Publishing
<1>6. Given' \subseteq Given
  BY <1>1 DEF Given, EnumTypeOK
<1>7. Apportioned'
  BY <1>6, RepeatingPages DEF Repeats, Manifests, SameSnapshot
<1> QED
  BY <1>2, <1>3, <1>4, <1>5, <1>7

LEMMA ExpirePreserves ==
  ASSUME EnumInv, NEW k \in InitialKey, Expire(k)
  PROVE  EnumInv'
<1> USE DEF EnumInv, Bookkeeping, Expire
<1>1. /\ snap' \in [InitialKey -> Snapshot]
      /\ \A j \in InitialKey : snap'[j].state = snap[j].state /\ SameSnapshot(j)
  <2> DEFINE s == [snap[k] EXCEPT !.expired = TRUE]
  <2>1. snap \in [InitialKey -> Snapshot]
    BY DEF EnumTypeOK
  <2>2. /\ s \in Snapshot /\ s.state = snap[k].state
        /\ s.inst = snap[k].inst /\ s.rows = snap[k].rows /\ s.claim = snap[k].claim
        /\ s.from = snap[k].from /\ s.next = snap[k].next
    <3>1. snap[k] \in Snapshot
      BY <2>1
    <3> QED BY <3>1 DEF Snapshot
  <2>3. snap' = [snap EXCEPT ![k] = s]
    OBVIOUS
  <2> HIDE DEF s
  <2>4. /\ snap' \in [InitialKey -> Snapshot]
        /\ \A j \in InitialKey : snap'[j] = IF j = k THEN s ELSE snap[j]
    BY <2>1, <2>2, <2>3
  <2> QED BY <2>2, <2>4 DEF SameSnapshot
<1>2. EnumTypeOK' /\ Mutex' /\ Addressed'
  <2>1. EnumTypeOK'
    BY <1>1 DEF EnumTypeOK
  <2>2. Mutex'
    BY DEF Mutex
  <2>3. \A j \in InitialKey : snap'[j].state = snap[j].state /\ SameSnapshot(j)
    BY <1>1
  <2>4. Addressed'
    BY <2>3 DEF Addressed, Continues, Reached, SameSnapshot
  <2> QED BY <2>1, <2>2, <2>4
<1>3. Room'
  BY <1>1, RoomIsUndisturbed
<1>4. Apportioned'
  BY <1>1, RepeatingPages DEF Repeats, Manifests, HasManifest, Given
<1> QED
  BY <1>2, <1>3, <1>4

\* What a first call answers from a snapshot is the page claimed there.
LEMMA ReplayedPage ==
  ASSUME EnumInv, NEW w \in Caller, at[w] \in FirstPage,
         Pruned[query[w].key].state # "absent", ReplaysInitial(query[w], Pruned[query[w].key])
  PROVE  /\ query[w].key \in Manifests
         /\ Claimed(Pruned[query[w].key]) = Claimed(snap[query[w].key])
         /\ Claimed(snap[query[w].key]) \in Page
<1> DEFINE k == query[w].key
<1>1. query[w] \in Query /\ k \in InitialKey
  BY DEF EnumInv, Bookkeeping, Addressed, FirstPage, Publishing, Query
<1>2. Pruned[k] = snap[k] /\ HasManifest(snap[k])
  BY <1>1, PrunedKeeps
<1>3. snap[k].claim \in Query /\ snap[k] \in Snapshot
  BY <1>1, <1>2 DEF ReplaysInitial, EnumInv, Bookkeeping, EnumTypeOK
<1> QED
  BY <1>1, <1>2, <1>3, ClaimedIsPage DEF Manifests

LEMMA LookPreserves ==
  ASSUME EnumInv, NEW w \in Caller, Look(w) \/ Persist(w)
  PROVE  EnumInv'
<1> USE DEF EnumInv, Bookkeeping
<1> DEFINE k == query[w].key
<1>1. /\ at[w] \in {"look", "persist"} /\ lock = Nobody /\ snap' = Pruned
      /\ made' = made /\ served' = served
      /\ query[w] \in Query /\ k \in InitialKey
  BY DEF Look, Persist, Addressed, Query, EnumTypeOK
<1>2. \A v \in Caller : at[v] \notin Publishing
  BY <1>1, EnumConstantsOK DEF Mutex, EnumTypeOK
<1>3. \/ /\ AnswerPage(w, Claimed(snap[k])) /\ lock' = lock
         /\ k \in Manifests /\ Claimed(snap[k]) \in Page
      \/ Leave(w) /\ lock' = lock
      \/ Continue(w, "list") /\ lock' = lock
      \/ /\ Continue(w, "create") /\ lock' = w
         /\ Pruned[k].state = "absent" /\ ~Full(Pruned)
      \/ /\ Continue(w, "evict") /\ lock' = w
         /\ Pruned[k].state = "absent" /\ Full(Pruned)
  BY <1>1, ReplayedPage DEF Look, Persist, FirstPage
<1>4. EnumTypeOK'
  BY <1>1, <1>3, PruningForgets, EnumConstantsOK
  DEF EnumTypeOK, AnswerPage, Leave, Continue, MoveTo, PC
<1>5. Mutex'
  BY <1>1, <1>2, <1>3, EnumConstantsOK
  DEF EnumTypeOK, Mutex, AnswerPage, Leave, Continue, MoveTo, Publishing
<1>6. Addressed'
  BY <1>1, <1>3, OthersStayAddressed
  DEF EnumTypeOK, AnswerPage, Leave, Continue, MoveTo, FirstPage, Publishing
<1>7. Room'
  <2>1. Occupied' \subseteq Occupied /\ Occupied' = Retained(Pruned)
    BY <1>1, PruningForgets
  <2>2. CASE at'[w] \notin Publishing
    BY <1>2, <1>3, <2>1, <2>2, RoomIsKept DEF EnumTypeOK, AnswerPage, Leave, Continue, MoveTo
  <2>3. CASE at'[w] \in Publishing
    <3>1. /\ at' = [at EXCEPT ![w] = IF Full(Pruned) THEN "evict" ELSE "create"]
          /\ query' = query /\ Pruned[k].state = "absent"
      BY <1>1, <1>3, <2>3 DEF EnumTypeOK, AnswerPage, Leave, Continue, MoveTo, Publishing
    <3>2. /\ IsFiniteSet(Occupied') /\ Cardinality(Occupied') <= MaxSnapshots
      BY <2>1, FS_Subset, FS_CardinalityType, EnumConstantsOK DEF Room
    <3>3. Cardinality(Occupied') \in Nat
      BY <3>2, FS_CardinalityType
    <3>4. ~Full(Pruned) => Cardinality(Occupied') < MaxSnapshots
      BY <2>1, <3>3, EnumConstantsOK DEF Full
    <3>5. Full(Pruned) => Full(snap)'
      BY <1>1 DEF Full
    <3>6. \A v \in Caller \ {w} : at'[v] \notin Publishing
      BY <1>2, <3>1 DEF EnumTypeOK
    <3> QED
      BY <1>1, <3>1, <3>2, <3>4, <3>5, <3>6 DEF Room, EnumTypeOK, Publishing
  <2> QED
    BY <2>2, <2>3
<1>8. Given' \subseteq Given \cup {Claimed(snap[j]) : j \in Manifests}
  <2>1. CASE AnswerPage(w, Claimed(snap[k])) /\ k \in Manifests
    BY <1>1, <2>1, AnswerGives
  <2>2. CASE Leave(w) \/ \E l \in {"list", "create", "evict"} : Continue(w, l)
    <3>1. \A v \in Caller \ {w} : page'[v] = page[v]
      BY <2>2 DEF EnumTypeOK, Leave, Continue
    <3> QED
      BY <1>1, <2>2, <3>1, SilenceGives DEF Leave, Continue
  <2> QED
    BY <1>3, <2>1, <2>2
<1>9. Apportioned'
  BY <1>1, <1>8, PruningForgets, RepeatingPages DEF Repeats
<1> QED
  BY <1>4, <1>5, <1>6, <1>7, <1>9

\* Making room, and beginning a directory.
LEMMA MakingPreserves ==
  ASSUME EnumInv, NEW w \in Caller, Evict(w) \/ EvictHalfway(w) \/ Create(w)
  PROVE  EnumInv'
<1> USE DEF EnumInv, Bookkeeping
<1> DEFINE k == query[w].key
<1>1. /\ lock = w /\ at[w] \in Publishing /\ snap[k].state = "absent"
      /\ query[w] \in Query /\ k \in InitialKey /\ made' = made /\ served' = served
      /\ \A v \in Caller \ {w} : at[v] \notin Publishing
  BY DEF Evict, EvictHalfway, Create, Mutex, Addressed, Room, Publishing, Query
<1>2. \/ /\ Evict(w) /\ Continue(w, "create") /\ lock' = lock
         /\ \E j \in InitialKey : OldestTerminal(j, snap) /\ snap' = [snap EXCEPT ![j] = Gone]
      \/ /\ EvictHalfway(w) /\ Leave(w) /\ lock' = Nobody
         /\ \E j \in InitialKey :
              /\ OldestTerminal(j, snap)
              /\ \/ snap' = [snap EXCEPT ![j] = [Gone EXCEPT !.state = "partial"]]
                 \/ snap' = [snap EXCEPT ![j].state = "torn"]
      \/ /\ Create(w) /\ Continue(w, "publish") /\ lock' = lock
         /\ snap' = [snap EXCEPT ![k] = [Gone EXCEPT !.state = "partial"]]
  BY DEF Evict, EvictHalfway, Create
<1>3. EnumTypeOK'
  <2>1. snap' \in [InitialKey -> Snapshot]
    BY <1>1, <1>2, GoneIsSnapshot DEF EnumTypeOK, Snapshot
  <2> QED
    BY <1>1, <1>2, <2>1, EnumConstantsOK DEF EnumTypeOK, Leave, Continue, MoveTo, PC
<1>4. Mutex'
  BY <1>1, <1>2, EnumConstantsOK DEF EnumTypeOK, Mutex, Leave, Continue, MoveTo, Publishing
<1>5. Addressed'
  BY <1>1, <1>2, OthersStayAddressed
  DEF EnumTypeOK, Leave, Continue, MoveTo, FirstPage, Publishing
<1>6. Room'
  <2>1. CASE Evict(w)
    <3>1. PICK j \in InitialKey : OldestTerminal(j, snap) /\ snap' = [snap EXCEPT ![j] = Gone]
      BY <2>1 DEF Evict
    <3>2. j \in Occupied /\ j # k
      BY <1>1, <3>1 DEF OldestTerminal, Terminal, HasManifest, Occupied
    <3>3. Occupied' = Occupied \ {j}
      BY <3>1 DEF Occupied, Gone, EnumTypeOK
    <3>4. /\ IsFiniteSet(Occupied') /\ Cardinality(Occupied') = Cardinality(Occupied) - 1
          /\ Cardinality(Occupied) \in Nat
      BY <3>2, <3>3, FS_RemoveElement, FS_CardinalityType DEF Room
    <3>5. Cardinality(Occupied') < MaxSnapshots
      BY <3>4, EnumConstantsOK DEF Room
    <3>6. snap'[k].state = "absent"
      BY <1>1, <3>1, <3>2 DEF EnumTypeOK
    <3>7. at' = [at EXCEPT ![w] = "create"] /\ query' = query
      BY <2>1 DEF Evict, Continue, MoveTo
    <3> QED
      BY <1>1, <3>4, <3>5, <3>6, <3>7, EnumConstantsOK DEF Room, EnumTypeOK, Publishing
  <2>2. CASE EvictHalfway(w)
    <3>1. Occupied' \subseteq Occupied
      BY <2>2 DEF EvictHalfway, Occupied, OldestTerminal, Terminal, HasManifest, EnumTypeOK
    <3>2. \A v \in Caller : at'[v] \notin Publishing
      BY <1>1, <2>2 DEF EvictHalfway, Leave, MoveTo, EnumTypeOK, Publishing
    <3> QED
      BY <3>1, <3>2, RoomIsKept
  <2>3. CASE Create(w)
    <3>1. Occupied' = Occupied \cup {k} /\ k \notin Occupied
      BY <1>1, <2>3 DEF Create, Occupied, Gone, EnumTypeOK
    <3>2. /\ IsFiniteSet(Occupied') /\ Cardinality(Occupied') = Cardinality(Occupied) + 1
          /\ Cardinality(Occupied) \in Nat
      BY <3>1, FS_AddElement, FS_CardinalityType DEF Room
    <3>3. Cardinality(Occupied') <= MaxSnapshots
      BY <2>3, <3>2, EnumConstantsOK DEF Create, Room
    <3>4. snap'[k].state = "partial"
      BY <1>1, <2>3 DEF Create, EnumTypeOK, Gone
    <3>5. at' = [at EXCEPT ![w] = "publish"] /\ query' = query
      BY <2>3 DEF Create, Continue, MoveTo
    <3> QED
      BY <1>1, <3>2, <3>3, <3>4, <3>5 DEF Room, EnumTypeOK, Publishing
  <2> QED
    BY <2>1, <2>2, <2>3
<1>7. Manifests' \subseteq Manifests /\ \A j \in Manifests' : SameSnapshot(j)
  <2>1. \A j \in InitialKey : HasManifest(snap'[j]) => HasManifest(snap[j]) /\ SameSnapshot(j)
    <3>1. CASE Evict(w)
      BY <3>1 DEF Evict, HasManifest, SameSnapshot, Gone, EnumTypeOK
    <3>2. CASE EvictHalfway(w)
      BY <3>2 DEF EvictHalfway, OldestTerminal, Terminal, HasManifest, SameSnapshot,
                  Gone, EnumTypeOK, Snapshot
    <3>3. CASE Create(w)
      BY <3>3 DEF Create, HasManifest, SameSnapshot, Gone, EnumTypeOK
    <3> QED
      BY <3>1, <3>2, <3>3
  <2> QED
    BY <2>1 DEF Manifests
<1>8. Given' \subseteq Given
  <2>1. \A v \in Caller \ {w} : page'[v] = page[v]
    BY <1>2 DEF EnumTypeOK, Leave, Continue
  <2> QED
    BY <1>1, <1>2, <2>1, SilenceGives DEF Leave, Continue
<1>9. Apportioned'
  BY <1>1, <1>7, <1>8, RepeatingPages DEF Repeats
<1> QED
  BY <1>3, <1>4, <1>5, <1>6, <1>9

LEMMA PublishPreserves ==
  ASSUME EnumInv, NEW w \in Caller, Publish(w)
  PROVE  EnumInv'
<1> USE DEF EnumInv, Bookkeeping
<1>0. PICK c \in Query, k \in InitialKey : c = query[w] /\ k = c.key
  BY DEF Publish, Addressed, Query
<1>1. /\ lock = w /\ at[w] = "publish" /\ snap[k].state = "partial"
      /\ c = query[w] /\ k = c.key /\ c.cursor = NoCursor
      /\ made' = made + 1 /\ served' = served /\ lock' = Nobody
      /\ snap' = [snap EXCEPT ![k] = NewSnapshot(w)] /\ AnswerPage(w, Claimed(NewSnapshot(w)))
      /\ \A v \in Caller \ {w} : at[v] \notin Publishing
  BY <1>0 DEF Publish, Mutex, Addressed, Room, Publishing, FirstPage
<1>2. made \in Nat /\ total[w] \in Nat
  BY EnumConstantsOK DEF EnumTypeOK
<1>3. NewSnapshot(w) \in Snapshot /\ Claimed(NewSnapshot(w)) \in Page
  BY <1>1, <1>2, FreshIsSnapshot, ClaimedIsPage DEF NewSnapshot
<1>4. snap'[k] = NewSnapshot(w) /\ \A j \in InitialKey \ {k} : snap'[j] = snap[j]
  BY <1>1 DEF EnumTypeOK
<1>5. EnumTypeOK'
  BY <1>1, <1>2, <1>3 DEF EnumTypeOK, AnswerPage, MoveTo, PC
<1>6. Mutex'
  BY <1>1, EnumConstantsOK DEF EnumTypeOK, Mutex, AnswerPage, MoveTo, Publishing
<1>7. Addressed'
  BY <1>1, <1>3, OthersStayAddressed DEF EnumTypeOK, AnswerPage, MoveTo
<1>8. Room'
  <2>1. Occupied' \subseteq Occupied
    BY <1>1, <1>4 DEF Occupied
  <2>2. \A v \in Caller : at'[v] \notin Publishing
    BY <1>1 DEF AnswerPage, MoveTo, EnumTypeOK, Publishing
  <2> QED
    BY <2>1, <2>2, RoomIsKept
<1>9. Apportioned'
  <2>1. /\ Manifests' \subseteq Manifests \cup {k} /\ k \in Manifests'
        /\ \A j \in Manifests' \ {k} : SameSnapshot(j)
    BY <1>1, <1>4 DEF Manifests, HasManifest, SameSnapshot, NewSnapshot
  <2>2. Sound(k)'
    <3>1. PageEnd(c, total[w]) \in Nat /\ PageEnd(c, total[w]) <= total[w] /\ Start(c) = 0
      BY <1>1, <1>2, Extent DEF Start
    <3>2. /\ snap'[k].inst = made + 1 /\ snap'[k].claim = c /\ snap'[k].from = 0
          /\ snap'[k].next = PageEnd(c, total[w]) /\ snap'[k].rows = total[w]
      BY <1>1, <1>4 DEF NewSnapshot
    <3>3. Continues(snap[k].claim, snap[k].inst)'
      BY <1>1, <3>2 DEF Continues
    <3> QED
      BY <1>1, <1>2, <3>1, <3>2, <3>3 DEF Sound, SourceOf
  <2>3. snap'[k].inst = made + 1
    BY <1>4 DEF NewSnapshot
  <2>4. Given' \subseteq Given \cup {Claimed(snap'[k])}
    BY <1>1, <1>4, AnswerGives
  <2> QED
    BY <1>1, <2>1, <2>2, <2>3, <2>4, ClaimingPages
<1> QED
  BY <1>5, <1>6, <1>7, <1>8, <1>9

LEMMA LoadPreserves ==
  ASSUME EnumInv, NEW w \in Caller, Load(w)
  PROVE  EnumInv'
<1> USE DEF EnumInv, Bookkeeping
<1>0. PICK c \in Query, k \in InitialKey : c = query[w] /\ k = c.cursor.snap
  BY NoCursorIsNone DEF Load, Addressed, Query, Cursor
<1> DEFINE s == snap[k]
           p == [query |-> c, inst |-> s.inst, from |-> c.cursor.offset,
                 to |-> PageEnd(c, s.rows), last |-> PageEnd(c, s.rows) = s.rows]
<1>1. /\ at[w] = "load" /\ lock = Nobody /\ Admits(c, s) /\ AnswerPage(w, p)
      /\ snap' = IF Advances(c, s) THEN [snap EXCEPT ![k] = Claim(c, s)] ELSE snap
      /\ made' = made /\ served' = served /\ lock' = lock
      /\ c = query[w] /\ c.cursor # NoCursor /\ Continues(c, c.cursor.inst)
  BY <1>0 DEF Load, Addressed
<1>2. /\ k = SourceOf(c) /\ Start(c) = c.cursor.offset
      /\ c.cursor.offset \in Nat /\ c.cursor.inst \in Nat
  BY <1>0, <1>1 DEF SourceOf, Start, Query, Cursor
<1>3. s \in Snapshot /\ k \in Manifests /\ s.inst = c.cursor.inst /\ c.cursor.offset < s.rows
  BY <1>1, <1>2 DEF EnumTypeOK, Admits, Valid, Manifests, HasManifest
<1>4. /\ PageEnd(c, s.rows) \in Nat /\ PageEnd(c, s.rows) <= s.rows
      /\ c.cursor.offset <= PageEnd(c, s.rows)
  BY <1>1, <1>2, <1>3, Extent DEF Snapshot
<1>5. p \in Page
  BY <1>1, <1>2, <1>3, <1>4 DEF Page, Snapshot
<1>6. snap' \in [InitialKey -> Snapshot] /\ \A j \in InitialKey : snap'[j].state = snap[j].state
  <2>1. Claim(c, s) \in Snapshot /\ Claim(c, s).state = s.state
    BY <1>1, <1>3, ClaimIsSnapshot
  <2>2. snap \in [InitialKey -> Snapshot]
    BY DEF EnumTypeOK
  <2>3. snap' = snap \/ snap' = [snap EXCEPT ![k] = Claim(c, s)]
    BY <1>1
  <2> QED
    BY <2>1, <2>2, <2>3
<1>7. \A v \in Caller : at'[v] \notin Publishing
  BY <1>1, EnumConstantsOK DEF Mutex, EnumTypeOK, AnswerPage, MoveTo, Publishing
<1>8. EnumTypeOK'
  BY <1>1, <1>5, <1>6 DEF EnumTypeOK, AnswerPage, MoveTo, PC
<1>9. Mutex'
  BY <1>1, <1>7, EnumConstantsOK DEF EnumTypeOK, Mutex
<1>10. Addressed'
  BY <1>1, <1>5, OthersStayAddressed DEF EnumTypeOK, AnswerPage, MoveTo
<1>11. Room'
  BY <1>6, <1>7, RoomIsUndisturbed
<1>12. Apportioned'
  <2>1. Given' \subseteq Given \cup {p}
    BY <1>1, AnswerGives
  <2>2. CASE ~Advances(c, s)
    <3>1. ExactRetry(c, s)
      BY <1>1, <2>2 DEF Admits
    <3>2. p = Claimed(s)
      BY <3>1 DEF ExactRetry, Claimed
    <3> QED
      BY <1>1, <1>3, <2>1, <2>2, <3>2, RepeatingPages DEF Repeats, Manifests, SameSnapshot
  <2>3. CASE Advances(c, s)
    <3>1. snap'[k] = Claim(c, s) /\ \A j \in InitialKey \ {k} : snap'[j] = snap[j]
      BY <1>1, <1>2, <2>3 DEF EnumTypeOK
    <3>2. /\ snap'[k].inst = s.inst /\ snap'[k].claim = c /\ snap'[k].rows = s.rows
          /\ snap'[k].from = c.cursor.offset /\ snap'[k].next = PageEnd(c, s.rows)
      BY <1>3, <3>1 DEF Claim, Snapshot
    <3>3. p = Claimed(snap'[k]) /\ snap'[k].from = s.next
      BY <2>3, <3>2 DEF Claimed, Advances
    <3>4. Manifests' = Manifests /\ \A j \in Manifests' \ {k} : SameSnapshot(j)
      BY <1>6, <3>1 DEF Manifests, HasManifest, SameSnapshot
    <3>5. Sound(k)'
      <4>1. 1 <= s.inst /\ s.inst <= made
        BY <1>3 DEF Apportioned, AllSound, Sound
      <4>2. Continues(snap[k].claim, snap[k].inst)'
        BY <1>1, <1>3, <3>2 DEF Continues, Reached
      <4> QED
        BY <1>1, <1>2, <1>4, <3>2, <4>1, <4>2 DEF Sound
    <3> QED
      BY <1>1, <1>2, <1>3, <2>1, <3>2, <3>3, <3>4, <3>5, ClaimingPages
  <2> QED
    BY <2>2, <2>3
<1> QED
  BY <1>8, <1>9, <1>10, <1>11, <1>12

LEMMA NextPreserves == EnumInv /\ [EnumNext]_enumVars => EnumInv'
<1> SUFFICES ASSUME EnumInv, [EnumNext]_enumVars PROVE EnumInv'
  OBVIOUS
<1>1. CASE UNCHANGED enumVars
  <2>1. EnumTypeOK' /\ Mutex' /\ Addressed'
    BY <1>1 DEF enumVars, EnumInv, Bookkeeping, EnumTypeOK, Mutex, Addressed, Continues, Reached
  <2>2. Room'
    BY <1>1, RoomIsUndisturbed DEF enumVars
  <2>3. Apportioned'
    BY <1>1, RepeatingPages DEF enumVars, Repeats, Manifests, SameSnapshot, Given
  <2> QED
    BY <2>1, <2>2, <2>3 DEF EnumInv, Bookkeeping
<1>2. ASSUME NEW w \in Caller, CallStep(w) PROVE EnumInv'
  BY <1>2, BeginPreserves, LookPreserves, QuietPreserves, MakingPreserves,
     PublishPreserves, LoadPreserves, ReturnPreserves DEF CallStep
<1>3. ASSUME NEW k \in InitialKey, Expire(k) PROVE EnumInv'
  BY <1>3, ExpirePreserves
<1> QED
  BY <1>1, <1>2, <1>3 DEF EnumNext

-----------------------------------------------------------------------------
(***************************************************************************)
(* The theorems of the enumeration                                         *)
(***************************************************************************)
\* The inductive invariant holds in every reachable state.
THEOREM EnumInvariant == EnumSpec => []EnumInv
BY InitEstablishes, NextPreserves, PTL DEF EnumSpec

\* Every reachable state has the declared types.
THEOREM EnumTypeCorrect == EnumSpec => []EnumTypeOK
<1>1. EnumInv => EnumTypeOK
  BY DEF EnumInv, Bookkeeping
<1> QED
  BY <1>1, EnumInvariant, PTL

\* No row of an instance is given to two requests, however the calls that hold
\* one cursor race in load_enumeration_snapshot_page, and whatever is retried.
THEOREM RowsGoToOneConsumer == EnumSpec => []PagesPartition
<1>1. EnumInv => PagesPartition
  BY DEF EnumInv, Apportioned, Disjoint, Apart, Given, PagesPartition
<1> QED
  BY <1>1, EnumInvariant, PTL

\* Every page but the first continues a page of the same instance that the host
\* has received, even if the snapshot has been replaced under the same request.
THEOREM PagesAreChained == EnumSpec => []CursorsAreBound
<1>1. EnumInv => CursorsAreBound
  <2> SUFFICES ASSUME EnumInv, NEW p \in served, p.query.cursor # NoCursor
               PROVE  \E q \in served : q.inst = p.inst /\ q.to = p.from
                                         /\ SourceOf(q.query) = SourceOf(p.query)
    BY DEF CursorsAreBound
  <2>1. p.from = Start(p.query) /\ Continues(p.query, p.inst)
    BY DEF EnumInv, Apportioned, Linked, Given
  <2> QED
    BY <2>1 DEF Continues, Reached, Start
<1> QED
  BY <1>1, EnumInvariant, PTL

\* Displacement and creation are separate steps, and directories are left half
\* made and half removed; there are never more than MaxSnapshots of them.
THEOREM DirectoryIsBounded == EnumSpec => []Bounded
<1>1. EnumInv => Bounded
  BY DEF EnumInv, Bookkeeping, Room, Occupied, Bounded
<1> QED
  BY <1>1, EnumInvariant, PTL

\* A snapshot that can still be read is replaced or removed only when all its
\* rows have been claimed and the directory is full.
RetainsOpen ==
  \A k \in InitialKey :
    LET s == snap[k] IN
    s.state = "ready" /\ ~s.expired /\ ~(snap'[k].inst = s.inst /\ snap'[k].state = "ready")
      => Terminal(s) /\ Full(snap)

THEOREM OpenCursorsKeepTheirSnapshot == EnumSpec => Retention
<1>1. EnumInv /\ [EnumNext]_enumVars => [RetainsOpen]_enumVars
  <2> SUFFICES ASSUME EnumInv, EnumNext, NEW k \in InitialKey,
                      snap[k].state = "ready" /\ ~snap[k].expired,
                      ~(snap'[k].inst = snap[k].inst /\ snap'[k].state = "ready")
               PROVE  Terminal(snap[k]) /\ Full(snap)
    BY DEF RetainsOpen
  <2> USE DEF EnumInv, Bookkeeping
  <2>1. HasManifest(snap[k]) /\ snap[k] \in Snapshot
    BY DEF HasManifest, EnumTypeOK
  <2>2. snap' # snap /\ snap'[k] # snap[k] /\ snap' # Pruned
    BY <2>1, PrunedKeeps
  <2>3. PICK w \in Caller : Evict(w) \/ EvictHalfway(w) \/ Create(w) \/ Publish(w) \/ Load(w)
    <3>1. ASSUME NEW j \in InitialKey, Expire(j) PROVE FALSE
      BY <3>1 DEF Expire, EnumTypeOK, Snapshot
    <3> QED
      BY <2>2, <3>1 DEF EnumNext, CallStep, Begin, Look, List, Persist, LoadRefused, Return, Stop
  <2>4. CASE Evict(w) \/ EvictHalfway(w)
    BY <2>2, <2>4 DEF Evict, EvictHalfway, OldestTerminal, Room, EnumTypeOK
  <2>5. CASE Create(w) \/ Publish(w)
    BY <2>2, <2>5 DEF Create, Publish, Room, EnumTypeOK
  <2>6. CASE Load(w)
    <3>1. snap' =
            [snap EXCEPT ![query[w].cursor.snap] = Claim(query[w], snap[query[w].cursor.snap])]
      BY <2>2, <2>6 DEF Load
    <3>2. snap'[k] = Claim(query[w], snap[k])
      BY <2>2, <3>1 DEF EnumTypeOK
    <3> QED
      BY <2>1, <3>2 DEF Claim, Snapshot
  <2> QED
    BY <2>3, <2>4, <2>5, <2>6
<1> QED
  BY <1>1, EnumInvariant, PTL DEF EnumSpec, Retention, RetainsOpen

\* The pages of an instance are one chain with one consumer per row, in a directory that
\* stays within its capacity.
THEOREM EnumerationExact == EnumSpec => []EnumerationIsExact
<1>1. PagesPartition /\ CursorsAreBound /\ Bounded => EnumerationIsExact
  BY DEF EnumerationIsExact
<1> QED BY <1>1, RowsGoToOneConsumer, PagesAreChained, DirectoryIsBounded, PTL

=============================================================================
