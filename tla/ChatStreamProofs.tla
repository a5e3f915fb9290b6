-------------------------- MODULE ChatStreamProofs --------------------------
(* What a browser shows of a conversation: proofs of NoTextLost and          *)
(* AnswerShown for every value of the constants.                             *)
EXTENDS ChatStream, SequenceTheorems, WellFoundedInduction, TLAPS

-----------------------------------------------------------------------------
(* The types.                                                                *)
Text == Seq(Nat)
Statuses == {"running", "paused"} \union Terminal
Turn == [st : {"thinking", "pending", "done", "error"}, content : Text, trace : Seq(Text)]
Response == [st : Statuses, ask : Nat, content : Text, trace : Seq(Text)]
PollRecord == [epoch : Nat, then : {"nothing", "go on", "ask again"}, ask : Nat \union {None},
               resp : Response \union {None}]

DeltaEvent == [k : {"delta"}, p : Nat]
StepEvent == [k : {"step"}, p : Text]
SnapshotEvent == [k : {"snapshot"}, content : Text, trace : Seq(Text)]
StatusEvent == [k : {"hello"}, st : Statuses] \union [k : {"status"}, st : Statuses \ {"paused"}]
PausedEvent == [k : {"status"}, st : {"paused"}, ask : Nat]
EndEvent == [k : {"end"}]
Event == DeltaEvent \union StepEvent \union SnapshotEvent \union StatusEvent
         \union PausedEvent \union EndEvent

Rows == [st : Statuses, content : Text, slice : Seq(Text), ask : Nat, turn : Nat]
Runs == [on : BOOLEAN, n : Nat, partial : Text, calls : BOOLEAN]
Views == [st : Statuses, sending : BOOLEAN, modal : Nat \union {None}, decided : SUBSET Nat]
Streams == [st : {"none", "connecting", "open"}, q : Seq(Event), sub : BOOLEAN, cut : BOOLEAN]

(* Only the latest turn is under way.                                        *)
Latest(ts) ==
  /\ ts \in Seq(Turn) /\ ts # <<>>
  /\ \A i \in 1 .. Len(ts) - 1 : ts[i].st # "thinking"

Shape ==
  /\ conv \in Rows /\ run \in Runs /\ Latest(turns) /\ view \in Views /\ es \in Streams
  /\ polls \subseteq PollRecord /\ pollEpoch \in Nat
  /\ post \in Requests \union {None}

-----------------------------------------------------------------------------
(* The run, the requests and the stream.                                     *)
Asking == post # None /\ post.k = "send"

ServerInv ==
  /\ conv.st = "running" => run.on
  /\ conv.st = "paused" => conv.content = run.partial
  /\ conv.st = "done" => conv.content # <<>>
  /\ Asking => post.st = "served" \/ (post.st = "sent" /\ conv.st \in Terminal)

(* Only a turn under way has a subscriber.  What is under way to a stream    *)
(* without one ends in "end", which follows a pause or the end of the turn.  *)
Closing(e) == e.k = "status" /\ e.st \in Terminal \union {"paused"}
StreamInv ==
  /\ es.sub => es.st = "open" /\ conv.st \in {"running", "paused"}
  /\ es.st # "open" => es.q = <<>>
  /\ es.cut => es.st # "open"
  /\ es.q # <<>> /\ ~es.sub => es.q[Len(es.q)].k = "end"
  /\ es.sub => \A i \in DOMAIN es.q : ~IsTerminal(es.q[i])
  /\ \A i \in DOMAIN es.q : i # 1 /\ es.q[i].k = "end" => Closing(es.q[i - 1])

-----------------------------------------------------------------------------
(* The text.  While a turn has a subscriber, the queue makes of what is      *)
(* shown a text that ends in that of the round.                              *)
TextAfter(c, e) ==
  CASE e.k = "delta" -> Append(c, e.p)
    [] e.k = "step" -> <<>>
    [] e.k = "snapshot" -> IF e.content # <<>> THEN e.content ELSE c
    [] OTHER -> c
TextPath(w, c, q) ==
  /\ w \in [0 .. Len(q) -> Text] /\ w[0] = c
  /\ \A k \in 1 .. Len(q) : w[k] = TextAfter(w[k - 1], q[k])
EndsIn(s, t) == Len(s) <= Len(t) /\ \A i \in 1 .. Len(s) : s[i] = t[Len(t) - Len(s) + i]
Covers(s, c, q) == \E w : TextPath(w, c, q) /\ EndsIn(s, w[Len(q)])

TextInv == es.sub /\ ~Asking => Covers(run.partial, Last(turns).content, es.q)

-----------------------------------------------------------------------------
(* The answer.  What calls a turn done tells of this turn; a status "done"   *)
(* is preceded by the answer; and a turn called done shows it unless more    *)
(* of it is under way.                                                       *)
HasAnswer(t, a) == t.content = a \/ (t.content = <<>> /\ t.trace # <<>> /\ Last(t.trace) = a)
Brings(e, a) == (e.k = "step" /\ e.p = a) \/ (e.k = "snapshot" /\ e.content = a)
SaysDone(e) == e.k \in {"hello", "status"} /\ e.st = "done"

DoneInv ==
  /\ view.st = "done" => conv.st = "done"
  /\ \A i \in DOMAIN es.q : SaysDone(es.q[i]) => conv.st = "done"
  /\ \A p \in polls : p.resp # None /\ p.epoch = pollEpoch /\ p.resp.st = "done" =>
       conv.st = "done" /\ p.resp.content = conv.content
AnswerComes ==
  \A i \in DOMAIN es.q : es.q[i].k = "status" /\ es.q[i].st = "done" =>
    IF i = 1 THEN HasAnswer(Last(turns), conv.content) ELSE Brings(es.q[i - 1], conv.content)
AnswerIsThere ==
  conv.st = "done" /\ view.st = "done" /\ Last(turns).st = "done" /\ ~es.cut
    /\ (es.q = <<>> \/ es.q[1].k = "end") => Shown(Last(turns)) = conv.content
AnswerInv == ~Asking => DoneInv /\ AnswerComes /\ AnswerIsThere

Inv ==
  /\ Shape /\ ServerInv /\ StreamInv
  /\ \A p \in polls : p.epoch <= pollEpoch
  /\ TextInv /\ AnswerInv

-----------------------------------------------------------------------------
(* Induction over the naturals, for a set of them.                           *)
LEMMA Induction ==
  ASSUME NEW S, 0 \in S, \A n \in Nat : n \in S => n + 1 \in S
  PROVE  \A n \in Nat : n \in S
<1> SUFFICES ASSUME NEW m \in Nat, m \notin S PROVE FALSE
  OBVIOUS
<1> DEFINE T == Nat \ S
<1>1. T \subseteq Nat /\ T # {}
  OBVIOUS
<1>2. PICK n \in T : \A y \in T : ~ (<<y, n>> \in OpToRel(<, Nat))
  <2> HIDE DEF T
  <2> QED BY <1>1, NatLessThanWellFounded, WFMin, Zenon
<1>3. n \in Nat /\ n # 0
  OBVIOUS
<1>4. n - 1 \in S
  <2> SUFFICES ASSUME n - 1 \notin S PROVE FALSE
    OBVIOUS
  <2>1. n - 1 \in T /\ n - 1 < n
    BY <1>3
  <2> QED BY <2>1, <1>2, <1>3 DEF OpToRel
<1> QED BY <1>3, <1>4

(* The greatest element of a set.                                            *)
LEMMA MaxIs ==
  ASSUME NEW s, s \subseteq Int, NEW m \in s, \A i \in s : i <= m
  PROVE  Max(s) = m
<1>1. \A x \in s : (\A y \in s : x >= y) => x = m
  OBVIOUS
<1> QED BY <1>1, Zenon DEF Max

(* What a queue of events makes of the turns is what its events make of them *)
(* one after the other.                                                      *)
Heard(ts, q) == FoldLeft(Applied, ts, q)

LEMMA FoldIsPath ==
  ASSUME NEW ts, NEW q, NEW n \in Nat, DOMAIN q = 1 .. n
  PROVE  \E g : /\ g[0] = ts /\ (\A k \in 1 .. n : g[k] = Applied(g[k - 1], q[k]))
                /\ Heard(ts, q) = g[n]
<1> DEFINE Body(h, s) == IF s = {} THEN ts ELSE Applied(h[s \ {Max(s)}], q[Max(s)])
           Def(h, k) == h = [s \in SUBSET (1 .. k) |-> Body(h, s)]
           Good == {k \in Nat : \E h : Def(h, k)}
<1>1. 0 \in Good
  <2>1. Def([s \in SUBSET (1 .. 0) |-> ts], 0)
    OBVIOUS
  <2> QED BY <2>1
<1>2. ASSUME NEW k \in Nat, k \in Good PROVE k + 1 \in Good
  <2>1. PICK h : Def(h, k)
    BY <1>2
  <2> DEFINE l == [s \in SUBSET (1 .. k + 1) |->
                     IF s \in SUBSET (1 .. k) THEN h[s] ELSE Body(h, s)]
  <2>2. ASSUME NEW s \in SUBSET (1 .. k + 1) PROVE l[s] = Body(l, s)
    <3>1. CASE s \in SUBSET (1 .. k)
      <4>1. s \ {Max(s)} \in SUBSET (1 .. k) /\ s \ {Max(s)} \in SUBSET (1 .. k + 1)
        BY <3>1
      <4>2. l[s] = h[s] /\ l[s \ {Max(s)}] = h[s \ {Max(s)}]
        BY <3>1, <4>1
      <4>3. h[s] = Body(h, s)
        BY <2>1, <3>1
      <4> HIDE DEF l
      <4> QED BY <4>2, <4>3
    <3>2. CASE s \notin SUBSET (1 .. k)
      <4>0. k + 1 \in s /\ s \subseteq Int /\ \A i \in s : i <= k + 1
        BY <3>2
      <4>1. k + 1 \in s /\ Max(s) = k + 1
        BY <4>0, MaxIs
      <4>2. s \ {Max(s)} \in SUBSET (1 .. k) /\ s \ {Max(s)} \in SUBSET (1 .. k + 1)
        BY <4>1
      <4>3. l[s] = Body(h, s) /\ l[s \ {Max(s)}] = h[s \ {Max(s)}]
        BY <3>2, <4>2
      <4> HIDE DEF l
      <4> QED BY <4>3
    <3> QED BY <3>1, <3>2
  <2>3. Def(l, k + 1)
    <3>1. l = [s \in SUBSET (1 .. k + 1) |-> l[s]]
      OBVIOUS
    <3> HIDE DEF l
    <3> QED BY <3>1, <2>2
  <2> HIDE DEF Def
  <2> QED BY <2>3
<1>3. \E h : Def(h, n)
  <2> HIDE DEF Def
  <2>1. \A m \in Nat : m \in Good
    <3> HIDE DEF Good
    <3> QED BY <1>1, <1>2, Induction
  <2> QED BY <2>1
<1> DEFINE iter == CHOOSE h : Def(h, n)
<1>4. Def(iter, n)
  BY <1>3
<1>5. FoldLeft(Applied, ts, q) = iter[1 .. n]
  BY DEF FoldLeft, MapThenFoldSet
<1> DEFINE g == [k \in 0 .. n |-> iter[1 .. k]]
<1> HIDE DEF iter
<1>6. g[0] = ts
  BY <1>4
<1>7. ASSUME NEW k \in 1 .. n PROVE g[k] = Applied(g[k - 1], q[k])
  <2>0. 1 .. k \subseteq Int /\ k \in 1 .. k /\ \A i \in 1 .. k : i <= k
    OBVIOUS
  <2>1. 1 .. k \in SUBSET (1 .. n) /\ 1 .. k # {} /\ Max(1 .. k) = k
    <3> DEFINE D == 1 .. k
    <3>1. D \subseteq Int /\ k \in D /\ \A i \in D : i <= k
      BY <2>0
    <3> HIDE DEF D
    <3>2. Max(D) = k
      BY <3>1, MaxIs
    <3> QED BY <3>2 DEF D
  <2>2. (1 .. k) \ {k} = 1 .. k - 1
    OBVIOUS
  <2>3. iter[1 .. k] = Body(iter, 1 .. k)
    BY <2>1, <1>4
  <2>4. iter[1 .. k] = Applied(iter[1 .. k - 1], q[k])
    BY <2>1, <2>2, <2>3
  <2>5. g[k] = iter[1 .. k] /\ g[k - 1] = iter[1 .. k - 1]
    OBVIOUS
  <2> HIDE DEF g
  <2> QED BY <2>4, <2>5
<1>8. Heard(ts, q) = g[n]
  BY <1>5 DEF Heard
<1> HIDE DEF g
<1> QED BY <1>6, <1>7, <1>8

-----------------------------------------------------------------------------
(* The latest turn is the active one.                                        *)
LEMMA ActiveIsLast ==
  ASSUME NEW ts, Latest(ts)
  PROVE  ActiveOf(ts) = Len(ts) /\ Len(ts) \in DOMAIN ts /\ Last(ts) = ts[Len(ts)] /\ Last(ts) \in Turn
<1>1. Len(ts) \in Nat /\ Len(ts) # 0 /\ DOMAIN ts = 1 .. Len(ts)
  BY LenProperties, EmptySeq DEF Latest
<1>2. Last(ts) = ts[Len(ts)] /\ Last(ts) \in Turn
  BY <1>1, ElementOfSeq DEF Latest, Last
<1>3. CASE \E i \in DOMAIN ts : ts[i].st = "thinking"
  <2> DEFINE I == {i \in 1 .. Len(ts) : ts[i].st = "thinking"}
  <2>1. I \subseteq Int /\ Len(ts) \in I /\ \A i \in I : i <= Len(ts)
    BY <1>1, <1>3 DEF Latest
  <2>2. ActiveOf(ts) = Max(I)
    BY <1>3, <2>1 DEF ActiveOf, SelectLastInSeq
  <2> HIDE DEF I
  <2>3. Max(I) = Len(ts)
    BY <2>1, MaxIs
  <2> QED BY <2>2, <2>3, <1>1, <1>2
<1>4. CASE ~ \E i \in DOMAIN ts : ts[i].st = "thinking"
  BY <1>1, <1>2, <1>4 DEF ActiveOf
<1> QED BY <1>3, <1>4

(* A changed latest turn leaves the others alone.                            *)
LEMMA LatestExcept ==
  ASSUME NEW ts, Latest(ts), NEW t \in Turn
  PROVE  /\ Latest([ts EXCEPT ![ActiveOf(ts)] = t])
         /\ Last([ts EXCEPT ![ActiveOf(ts)] = t]) = t
         /\ Len([ts EXCEPT ![ActiveOf(ts)] = t]) = Len(ts)
<1>1. ActiveOf(ts) = Len(ts) /\ Len(ts) \in 1 .. Len(ts) /\ ts \in Seq(Turn) /\ Len(ts) \in Nat
  BY ActiveIsLast, LenProperties DEF Latest
<1> DEFINE us == [ts EXCEPT ![Len(ts)] = t]
<1>2. /\ us \in Seq(Turn) /\ Len(us) = Len(ts)
      /\ \A j \in 1 .. Len(ts) : us[j] = IF j = Len(ts) THEN t ELSE ts[j]
  BY <1>1, ExceptSeq
<1> HIDE DEF us
<1>3. Latest(us) /\ Last(us) = t /\ Len(us) = Len(ts)
  BY <1>1, <1>2, EmptySeq DEF Latest, Last
<1> QED BY <1>1, <1>3 DEF us

(* The answer as the last block of a trace is what the turn shows.           *)
LEMMA WithFinalBlockOK ==
  ASSUME NEW t \in Turn
  PROVE  /\ WithFinalBlock(t) \in Turn
         /\ WithFinalBlock(t).content = t.content /\ WithFinalBlock(t).st = t.st
         /\ t.content # <<>> => Shown(WithFinalBlock(t)) = t.content
         /\ t.content = <<>> => WithFinalBlock(t) = t
<1>1. CASE t.content # <<>> /\ t.trace # <<>> /\ Last(t.trace) # t.content
  <2> DEFINE tr == Append(t.trace, t.content)
  <2>1. tr \in Seq(Text) /\ tr # <<>> /\ tr[Len(tr)] = t.content
    BY AppendProperties, LenProperties DEF Turn
  <2>2. WithFinalBlock(t) = [t EXCEPT !.trace = tr]
    BY <1>1 DEF WithFinalBlock
  <2> HIDE DEF tr
  <2> QED BY <2>1, <2>2, <1>1 DEF Turn, Shown, Last
<1>2. CASE ~(t.content # <<>> /\ t.trace # <<>> /\ Last(t.trace) # t.content)
  BY <1>2 DEF WithFinalBlock, Shown
<1> QED BY <1>1, <1>2

(* A turn that has its answer shows it once it is done.                      *)
LEMMA DoneOK ==
  ASSUME NEW t \in Turn
  PROVE  /\ Done(t) \in Turn /\ Done(t).st = "done"
         /\ \A a \in Text : HasAnswer(t, a) /\ a # <<>> => Shown(Done(t)) = a
<1> DEFINE u == [t EXCEPT !.st = "done"]
           d == WithFinalBlock(u)
<1>1. u \in Turn /\ u.content = t.content /\ u.trace = t.trace /\ u.st = "done"
  BY DEF Turn
<1> HIDE DEF u
<1>2. /\ d \in Turn /\ d.content = t.content /\ d.st = "done"
      /\ t.content # <<>> => Shown(d) = t.content
      /\ t.content = <<>> => d = u
  BY <1>1, WithFinalBlockOK
<1> HIDE DEF d
<1>3. Done(t) = IF d.content = <<>> /\ d.trace # <<>> THEN [d EXCEPT !.content = Last(d.trace)] ELSE d
  BY DEF Done, d, u
<1>4. CASE d.content = <<>> /\ d.trace # <<>>
  <2>1. Last(d.trace) \in Text
    BY <1>2, <1>4, EmptySeq, ElementOfSeq DEF Turn, Last
  <2>2. Done(t) = [d EXCEPT !.content = Last(d.trace)] /\ d = u
    BY <1>2, <1>3, <1>4
  <2> QED BY <2>1, <2>2, <1>1, <1>2, <1>4 DEF Turn, Shown, HasAnswer
<1>5. CASE ~(d.content = <<>> /\ d.trace # <<>>)
  BY <1>5, <1>1, <1>2, <1>3 DEF HasAnswer
<1> QED BY <1>4, <1>5

(* A response keeps a turn a turn, leaves its text alone beside a stream,    *)
(* and one that says done brings the answer.                                 *)
LEMMA PolledOK ==
  ASSUME NEW t \in Turn, NEW r \in Response
  PROVE  /\ Polled(t, r) \in Turn
         /\ es.st # "none" /\ r.st # "done" =>
              Polled(t, r).content = t.content /\ Polled(t, r).trace = t.trace
         /\ r.st = "done" => /\ Polled(t, r).content = r.content
                             /\ r.content # <<>> => Shown(Polled(t, r)) = r.content
<1> DEFINE u == Aligned(t, r)
<1>1. u \in Turn /\ (es.st # "none" => u = t)
  BY DEF Aligned, Turn, Response
<1> HIDE DEF u
<1>2. CASE r.st = "done"
  <2> DEFINE v == [u EXCEPT !.st = "done", !.content = r.content]
  <2>1. v \in Turn /\ v.content = r.content
    BY <1>1 DEF Turn, Response
  <2> HIDE DEF v
  <2>2. Polled(t, r) = WithFinalBlock(v)
    BY <1>2 DEF Polled, u, v
  <2> QED BY <2>1, <2>2, <1>2, WithFinalBlockOK
<1>3. CASE r.st # "done"
  <2>1. Polled(t, r) = IF r.st = "running" THEN u
                       ELSE IF r.st = "paused" THEN [u EXCEPT !.st = "pending"]
                       ELSE [u EXCEPT !.st = "error"]
    BY <1>3 DEF Polled, u
  <2> QED BY <2>1, <1>1, <1>3 DEF Turn
<1> QED BY <1>2, <1>3

(* Text stays text.                                                          *)
LEMMA TextAfterOK ==
  ASSUME NEW c \in Text, NEW e \in Event
  PROVE  TextAfter(c, e) \in Text
BY DEF TextAfter, Event, DeltaEvent, StepEvent, SnapshotEvent, StatusEvent, PausedEvent, EndEvent,
       Text

(* What an event makes of a turn.                                            *)
LEMMA ReducedOK ==
  ASSUME NEW t \in Turn, NEW e \in Event
  PROVE  /\ Reduced(t, e) \in Turn
         /\ ~SaysDone(e) => Reduced(t, e).content = TextAfter(t.content, e)
         /\ e.k = "hello" => Reduced(t, e).content = t.content
         /\ e.k = "end" => Reduced(t, e) = t
         /\ e.k = "status" /\ e.st = "done" => Reduced(t, e) = Done(t)
         /\ \A a \in Text : Brings(e, a) /\ a # <<>> => HasAnswer(Reduced(t, e), a)
<1>1. CASE e.k = "delta"
  <2>1. e.p \in Nat /\ Append(t.content, e.p) \in Text
    BY <1>1 DEF Event, DeltaEvent, StepEvent, SnapshotEvent, StatusEvent, PausedEvent, EndEvent,
                Turn, Text
  <2> QED BY <1>1, <2>1 DEF Reduced, Turn, TextAfter, SaysDone, Brings
<1>2. CASE e.k = "step"
  <2>1. e.p \in Text
    BY <1>2 DEF Event, DeltaEvent, StepEvent, SnapshotEvent, StatusEvent, PausedEvent, EndEvent
  <2>2. /\ Append(t.trace, e.p) \in Seq(Text) /\ Append(t.trace, e.p) # <<>>
        /\ Last(Append(t.trace, e.p)) = e.p
    BY <2>1, AppendProperties, LenProperties DEF Turn, Last
  <2>3. Reduced(t, e) = [t EXCEPT !.content = <<>>, !.trace = Append(@, e.p)]
    BY <1>2 DEF Reduced
  <2>4. <<>> \in Text
    BY DEF Text
  <2> HIDE DEF Text
  <2> QED BY <1>2, <2>1, <2>2, <2>3, <2>4 DEF Turn, TextAfter, SaysDone, Brings, HasAnswer
<1>3. CASE e.k = "snapshot"
  <2>1. e.content \in Text /\ e.trace \in Seq(Text)
    BY <1>3 DEF Event, DeltaEvent, StepEvent, SnapshotEvent, StatusEvent, PausedEvent, EndEvent
  <2> QED BY <1>3, <2>1 DEF Reduced, Merged, Turn, TextAfter, SaysDone, Brings, HasAnswer
<1>4. CASE e.k = "hello"
  BY <1>4 DEF Reduced, Turn, TextAfter, SaysDone, Brings
<1>5. CASE e.k = "status"
  <2>1. CASE e.st = "done"
    BY <1>5, <2>1, DoneOK DEF Reduced, SaysDone, Brings
  <2>2. CASE e.st # "done"
    BY <1>5, <2>2 DEF Reduced, Turn, TextAfter, SaysDone, Brings
  <2> QED BY <2>1, <2>2
<1>6. CASE e.k = "end"
  BY <1>6 DEF Reduced, TextAfter, SaysDone, Brings
<1> QED BY <1>1, <1>2, <1>3, <1>4, <1>5, <1>6
        DEF Event, DeltaEvent, StepEvent, SnapshotEvent, StatusEvent, PausedEvent, EndEvent

(* An event goes to the latest turn.                                         *)
LEMMA AppliedOK ==
  ASSUME NEW ts, Latest(ts), NEW e \in Event
  PROVE  /\ Latest(Applied(ts, e)) /\ Len(Applied(ts, e)) = Len(ts)
         /\ Last(Applied(ts, e)) = Reduced(Last(ts), e)
<1>1. ActiveOf(ts) = Len(ts) /\ Len(ts) \in DOMAIN ts /\ Last(ts) = ts[Len(ts)] /\ Last(ts) \in Turn
  BY ActiveIsLast
<1>2. Reduced(Last(ts), e) \in Turn
  BY <1>1, ReducedOK
<1>3. Applied(ts, e) = [ts EXCEPT ![ActiveOf(ts)] = Reduced(Last(ts), e)]
  BY <1>1 DEF Applied
<1> QED BY <1>2, <1>3, LatestExcept

-----------------------------------------------------------------------------
(* Text that ends in text.                                                   *)
LEMMA EndsInEmpty ==
  ASSUME NEW t \in Text
  PROVE  EndsIn(<<>>, t)
BY LenProperties DEF EndsIn, Text

LEMMA EndsInSelf ==
  ASSUME NEW t \in Text
  PROVE  EndsIn(t, t)
BY LenProperties DEF EndsIn, Text

(* A piece appended to both.                                                 *)
LEMMA EndsInAppend ==
  ASSUME NEW s \in Text, NEW t \in Text, NEW x \in Nat, EndsIn(s, t)
  PROVE  EndsIn(Append(s, x), Append(t, x))
<1>1. /\ Len(s) \in Nat /\ Len(t) \in Nat
      /\ Len(Append(s, x)) = Len(s) + 1 /\ Len(Append(t, x)) = Len(t) + 1
      /\ \A i \in 1 .. Len(s) : Append(s, x)[i] = s[i]
      /\ \A i \in 1 .. Len(t) : Append(t, x)[i] = t[i]
      /\ Append(s, x)[Len(s) + 1] = x /\ Append(t, x)[Len(t) + 1] = x
  BY AppendProperties, LenProperties DEF Text
<1> DEFINE a == Append(s, x)
           b == Append(t, x)
<1> HIDE DEF a, b
<1>2. ASSUME NEW i \in 1 .. Len(s) + 1 PROVE a[i] = b[Len(t) - Len(s) + i]
  <2>1. CASE i = Len(s) + 1
    BY <1>1, <2>1 DEF a, b
  <2>2. CASE i # Len(s) + 1
    <3>1. i \in 1 .. Len(s) /\ Len(t) - Len(s) + i \in 1 .. Len(t)
      BY <2>2, <1>1 DEF EndsIn
    <3>2. a[i] = s[i] /\ b[Len(t) - Len(s) + i] = t[Len(t) - Len(s) + i]
      BY <3>1, <1>1 DEF a, b
    <3> QED BY <3>1, <3>2 DEF EndsIn
  <2> QED BY <2>1, <2>2
<1>3. Len(s) + 1 <= Len(t) + 1 /\ (Len(t) + 1) - (Len(s) + 1) = Len(t) - Len(s)
  BY <1>1 DEF EndsIn
<1> QED BY <1>1, <1>2, <1>3 DEF EndsIn, a, b

(* What Reverse returns.                                                     *)
LEMMA ReverseOK ==
  ASSUME NEW s \in Text
  PROVE  /\ Reverse(s) \in Text /\ Len(Reverse(s)) = Len(s)
         /\ \A i \in 1 .. Len(s) : Reverse(s)[i] = s[Len(s) - i + 1]
<1>1. Len(s) \in Nat /\ \A i \in 1 .. Len(s) : s[(Len(s) - i) + 1] \in Nat
  <2>1. Len(s) \in Nat /\ s \in [1 .. Len(s) -> Nat]
    BY LenProperties DEF Text
  <2>2. \A i \in 1 .. Len(s) : (Len(s) - i) + 1 \in 1 .. Len(s)
    BY <2>1
  <2> QED BY <2>1, <2>2
<1> DEFINE r == [i \in 1 .. Len(s) |-> s[(Len(s) - i) + 1]]
<1>2. r \in Seq(Nat) /\ Len(r) = Len(s)
  BY <1>1
<1>3. \A i \in 1 .. Len(s) : r[i] = s[Len(s) - i + 1]
  OBVIOUS
<1> HIDE DEF r
<1> QED BY <1>2, <1>3 DEF Reverse, r, Text

(* EndsIn is the suffix of the community modules, spelt out.                 *)
LEMMA EndsInIsSuffix ==
  ASSUME NEW s \in Text, NEW t \in Text, EndsIn(s, t)
  PROVE  IsSuffix(s, t)
<1> DEFINE a == Reverse(s)
           b == Reverse(t)
<1>1. /\ Len(s) \in Nat /\ Len(t) \in Nat /\ Len(s) <= Len(t)
      /\ a \in Text /\ b \in Text /\ Len(a) = Len(s) /\ Len(b) = Len(t)
      /\ \A i \in 1 .. Len(s) : a[i] = s[Len(s) - i + 1]
      /\ \A i \in 1 .. Len(t) : b[i] = t[Len(t) - i + 1]
  <2>1. /\ a \in Text /\ Len(a) = Len(s) /\ \A i \in 1 .. Len(s) : a[i] = s[Len(s) - i + 1]
        /\ b \in Text /\ Len(b) = Len(t) /\ \A i \in 1 .. Len(t) : b[i] = t[Len(t) - i + 1]
    BY ReverseOK
  <2>2. Len(s) \in Nat /\ Len(t) \in Nat /\ Len(s) <= Len(t)
    BY LenProperties DEF EndsIn, Text
  <2> HIDE DEF a, b
  <2> QED BY <2>1, <2>2
<1> HIDE DEF a, b
<1>2. /\ SubSeq(a, 1, Len(a)) = a
      /\ SubSeq(b, 1, Len(a)) \in Text /\ Len(SubSeq(b, 1, Len(a))) = Len(a)
      /\ \A i \in 1 .. Len(a) : SubSeq(b, 1, Len(a))[i] = b[i]
  <2>1. \A i \in 1 .. Len(b) : b[i] \in Nat
    BY <1>1, ElementOfSeq DEF Text
  <2>2. \A i \in 1 .. Len(a) : b[i] \in Nat
    BY <1>1, <2>1
  <2> QED BY <1>1, <2>2, SubSeqFull, SubSeqProperties DEF Text
<1>3. ASSUME NEW i \in 1 .. Len(a) PROVE a[i] = b[i]
  <2>1. Len(s) - i + 1 \in 1 .. Len(s) /\ Len(t) - Len(s) + (Len(s) - i + 1) = Len(t) - i + 1
    BY <1>1
  <2>2. s[Len(s) - i + 1] = t[Len(t) - i + 1]
    BY <2>1 DEF EndsIn
  <2> QED BY <2>2, <1>1
<1> DEFINE c == SubSeq(b, 1, Len(a))
<1>4. c = a
  <2> HIDE DEF c
  <2> QED BY <1>1, <1>2, <1>3, SeqEqual DEF Text, c
<1> QED BY <1>1, <1>2, <1>4 DEF IsSuffix, IsPrefix, a, b

-----------------------------------------------------------------------------
(* What is shown once the queue has been heard.                              *)
LEMMA CoversNothing ==
  ASSUME NEW s \in Text, NEW c \in Text, EndsIn(s, c)
  PROVE  Covers(s, c, <<>>)
<1> DEFINE w == [k \in 0 .. 0 |-> c]
<1>1. w \in [0 .. Len(<<>>) -> Text] /\ w[0] = c /\ w[Len(<<>>)] = c
  OBVIOUS
<1>2. \A k \in 1 .. Len(<<>>) : w[k] = TextAfter(w[k - 1], <<>>[k])
  OBVIOUS
<1> HIDE DEF w
<1> QED BY <1>1, <1>2 DEF Covers, TextPath

(* One more event at the end.                                                *)
LEMMA CoversMore ==
  ASSUME NEW s \in Text, NEW c \in Text, NEW q \in Seq(Event), NEW e \in Event, NEW s2 \in Text,
         Covers(s, c, q),
         \A v \in Text : EndsIn(s, v) => EndsIn(s2, TextAfter(v, e))
  PROVE  Covers(s2, c, Append(q, e))
<1>1. PICK w : TextPath(w, c, q) /\ EndsIn(s, w[Len(q)])
  BY DEF Covers
<1> DEFINE n == Len(q)
           r == Append(q, e)
           x == [k \in 0 .. n + 1 |-> IF k = n + 1 THEN TextAfter(w[n], e) ELSE w[k]]
<1>2. /\ n \in Nat /\ Len(r) = n + 1 /\ r[n + 1] = e
      /\ \A k \in 1 .. n : r[k] = q[k]
  BY AppendProperties, LenProperties
<1>3. w \in [0 .. n -> Text] /\ w[0] = c /\ \A k \in 1 .. n : w[k] = TextAfter(w[k - 1], q[k])
  BY <1>1 DEF TextPath
<1> HIDE DEF r, n
<1>4. w[n] \in Text /\ TextAfter(w[n], e) \in Text
  <2>1. w[n] \in Text
    BY <1>2, <1>3
  <2> QED BY <2>1, TextAfterOK
<1> DEFINE z == TextAfter(w[n], e)
<1> HIDE DEF z
<1>5. x \in [0 .. n + 1 -> Text] /\ x[0] = c /\ x[n + 1] = z /\ \A k \in 0 .. n : x[k] = w[k]
  BY <1>2, <1>3, <1>4 DEF z
<1> HIDE DEF x
<1>6. ASSUME NEW k \in 1 .. n + 1 PROVE x[k] = TextAfter(x[k - 1], r[k])
  <2>1. CASE k = n + 1
    BY <1>2, <1>5, <2>1 DEF z
  <2>2. CASE k # n + 1
    <3>1. k \in 1 .. n /\ k \in 0 .. n /\ k - 1 \in 0 .. n
      BY <1>2, <2>2
    <3> QED BY <3>1, <1>2, <1>3, <1>5
  <2> QED BY <2>1, <2>2
<1>7. EndsIn(s2, x[n + 1])
  BY <1>1, <1>4, <1>5 DEF z, n
<1> QED BY <1>2, <1>5, <1>6, <1>7 DEF Covers, TextPath, r

(* The first event has been heard.                                           *)
LEMMA CoversRest ==
  ASSUME NEW s \in Text, NEW c \in Text, NEW q \in Seq(Event), q # <<>>, Covers(s, c, q)
  PROVE  Covers(s, TextAfter(c, Head(q)), Tail(q))
<1>1. PICK w : TextPath(w, c, q) /\ EndsIn(s, w[Len(q)])
  BY DEF Covers
<1> DEFINE n == Len(q)
           r == Tail(q)
           x == [k \in 0 .. n - 1 |-> w[k + 1]]
<1>2. /\ n \in Nat \ {0} /\ Len(r) = n - 1 /\ Head(q) = q[1]
      /\ \A k \in 1 .. n - 1 : r[k] = q[k + 1]
  BY HeadTailProperties, LenProperties, EmptySeq
<1>3. w \in [0 .. n -> Text] /\ w[0] = c /\ \A k \in 1 .. n : w[k] = TextAfter(w[k - 1], q[k])
  BY <1>1 DEF TextPath
<1> HIDE DEF r, n
<1>4. x \in [0 .. n - 1 -> Text] /\ \A k \in 0 .. n - 1 : x[k] = w[k + 1]
  BY <1>2, <1>3
<1> HIDE DEF x
<1>5. x[0] = TextAfter(c, Head(q)) /\ x[n - 1] = w[n]
  BY <1>2, <1>3, <1>4
<1>6. ASSUME NEW k \in 1 .. n - 1 PROVE x[k] = TextAfter(x[k - 1], r[k])
  <2>1. /\ k \in 0 .. n - 1 /\ k - 1 \in 0 .. n - 1 /\ k + 1 \in 1 .. n
        /\ (k - 1) + 1 = k /\ (k + 1) - 1 = k
    BY <1>2
  <2> QED BY <2>1, <1>2, <1>3, <1>4
<1> QED BY <1>1, <1>2, <1>4, <1>5, <1>6 DEF Covers, TextPath, r, n

(* Hearing all that is under way makes of the latest turn what its path says. *)
LEMMA HeardText ==
  ASSUME NEW ts, Latest(ts), NEW q \in Seq(Event),
         \A i \in DOMAIN q : ~SaysDone(q[i]),
         NEW w, TextPath(w, Last(ts).content, q)
  PROVE  Last(Heard(ts, q)).content = w[Len(q)]
<1>1. Len(q) \in Nat /\ DOMAIN q = 1 .. Len(q)
  BY LenProperties
<1>2. PICK g : /\ g[0] = ts /\ (\A k \in 1 .. Len(q) : g[k] = Applied(g[k - 1], q[k]))
               /\ Heard(ts, q) = g[Len(q)]
  BY <1>1, FoldIsPath
<1> DEFINE Good == {k \in Nat : k <= Len(q) => Latest(g[k]) /\ Last(g[k]).content = w[k]}
<1>3. 0 \in Good
  BY <1>2 DEF TextPath
<1>4. ASSUME NEW k \in Nat, k \in Good PROVE k + 1 \in Good
  <2> SUFFICES ASSUME k + 1 <= Len(q)
               PROVE  Latest(g[k + 1]) /\ Last(g[k + 1]).content = w[k + 1]
    OBVIOUS
  <2>1. Latest(g[k]) /\ Last(g[k]).content = w[k]
    BY <1>1, <1>4
  <2>2. k + 1 \in 1 .. Len(q) /\ (k + 1) - 1 = k
    BY <1>1
  <2>3. q[k + 1] \in Event /\ ~SaysDone(q[k + 1])
    BY <1>1, <2>2, ElementOfSeq
  <2>4. g[k + 1] = Applied(g[k], q[k + 1]) /\ w[k + 1] = TextAfter(w[k], q[k + 1])
    BY <1>2, <2>2 DEF TextPath
  <2>5. Latest(g[k + 1]) /\ Last(g[k + 1]) = Reduced(Last(g[k]), q[k + 1])
    BY <2>1, <2>3, <2>4, AppliedOK
  <2>6. Last(g[k]) \in Turn
    BY <2>1, ActiveIsLast
  <2> QED BY <2>1, <2>3, <2>4, <2>5, <2>6, ReducedOK
<1>5. Len(q) \in Good
  <2> HIDE DEF Good
  <2> QED BY <1>1, <1>3, <1>4, Induction
<1> QED BY <1>1, <1>2, <1>5

-----------------------------------------------------------------------------
(* The types are kept.                                                       *)
LEMMA EventsOK ==
  /\ \A n \in Nat : [k |-> "delta", p |-> n] \in Event
  /\ \A x \in Text : [k |-> "step", p |-> x] \in Event
  /\ \A x \in Text : \A l \in Seq(Text) : [k |-> "snapshot", content |-> x, trace |-> l] \in Event
  /\ \A s \in Statuses : [k |-> "hello", st |-> s] \in Event
  /\ \A s \in Statuses \ {"paused"} : Status(s) \in Event
  /\ \A n \in Nat : Paused(n) \in Event
  /\ End \in Event
BY DEF Event, DeltaEvent, StepEvent, SnapshotEvent, StatusEvent, PausedEvent, EndEvent,
       Status, Paused, End

(* What the emission of events makes of a stream.                            *)
LEMMA EmitOK ==
  ASSUME es \in Streams, NEW evs \in Seq(Event), Emit(evs)
  PROVE  /\ es' \in Streams /\ es'.sub = es.sub /\ es'.st = es.st /\ es'.cut = es.cut
         /\ es'.q = IF es.sub THEN es.q \o evs ELSE es.q
<1>1. es.q \in Seq(Event) /\ es.q \o evs \in Seq(Event)
  <2>1. es.q \in Seq(Event)
    BY DEF Streams
  <2> QED BY <2>1, ConcatProperties
<1> QED BY <1>1 DEF Emit, Streams

LEMMA EmitLastOK ==
  ASSUME es \in Streams, NEW evs \in Seq(Event), EmitLast(evs)
  PROVE  /\ es' \in Streams /\ es'.sub = FALSE /\ es'.st = es.st /\ es'.cut = es.cut
         /\ es'.q = IF es.sub THEN es.q \o evs ELSE es.q
<1>1. es.q \in Seq(Event) /\ es.q \o evs \in Seq(Event)
  <2>1. es.q \in Seq(Event)
    BY DEF Streams
  <2> QED BY <2>1, ConcatProperties
<1> QED BY <1>1 DEF EmitLast, Streams

(* What an event makes of the view.                                          *)
LEMMA HearsOK ==
  ASSUME view \in Views, NEW e \in Event
  PROVE  /\ Hears(e) \in Views
         /\ Hears(e).st = IF e.k \in {"hello", "status"} THEN e.st ELSE view.st
BY DEF Hears, Views, IsTerminal, Event, DeltaEvent, StepEvent, SnapshotEvent, StatusEvent, PausedEvent,
       EndEvent, Statuses, Terminal

(* A response counts if it is one of this turn's polls.                      *)
Counts(p) == p.resp # None /\ ~IsStale(p)

(* What a response makes of the view and of the turns.                       *)
LEMMA AfterOK ==
  ASSUME Shape, NEW p \in polls
  PROVE  /\ ViewAfter(p) \in Views
         /\ ViewAfter(p).st = IF Counts(p) THEN p.resp.st ELSE view.st
         /\ Latest(TurnsAfter(p))
         /\ Last(TurnsAfter(p)) = IF Counts(p) THEN Polled(Last(turns), p.resp) ELSE Last(turns)
<1>1. view \in Views /\ p \in PollRecord /\ Latest(turns)
  BY DEF Shape
<1>2. Counts(p) => p.resp \in Response
  BY <1>1 DEF PollRecord, Counts
<1>3. CASE Counts(p)
  <2>1. /\ Active = Len(turns) /\ Last(turns) = turns[Active] /\ Last(turns) \in Turn
        /\ Active = ActiveOf(turns)
    BY <1>1, ActiveIsLast DEF Active
  <2>2. Polled(Last(turns), p.resp) \in Turn
    BY <2>1, <1>2, <1>3, PolledOK
  <2>3. TurnsAfter(p) = [turns EXCEPT ![ActiveOf(turns)] = Polled(Last(turns), p.resp)]
    BY <2>1, <1>3 DEF TurnsAfter, Counts
  <2>4. Latest(TurnsAfter(p)) /\ Last(TurnsAfter(p)) = Polled(Last(turns), p.resp)
    BY <1>1, <2>2, <2>3, LatestExcept
  <2>5. Asked(p.resp) \in Nat \union {None}
    BY <1>1, <1>2, <1>3 DEF Asked, Response, Views
  <2>6. ViewAfter(p) \in Views /\ ViewAfter(p).st = p.resp.st
    BY <1>1, <1>2, <1>3, <2>5 DEF ViewAfter, Counts, Views, Response
  <2> QED BY <1>3, <2>4, <2>6
<1>4. CASE ~Counts(p)
  BY <1>1, <1>4 DEF ViewAfter, TurnsAfter, Counts
<1> QED BY <1>3, <1>4

(* A poll that starts.                                                       *)
LEMMA PollOK ==
  ASSUME pollEpoch \in Nat, NEW then \in {"nothing", "go on", "ask again"}, NEW ask \in Nat \union {None}
  PROVE  /\ PollFor(then, ask) \in PollRecord /\ PollFor(then, ask).resp = None
         /\ PollFor(then, ask).epoch = pollEpoch
BY DEF PollFor, PollRecord

(* What a poll that lands leaves.                                            *)
LEMMA LandsOK ==
  ASSUME Shape, NEW p \in polls, Lands(p)
  PROVE  /\ turns' = TurnsAfter(p)
         /\ view' \in Views /\ view'.st = ViewAfter(p).st
         /\ polls' \subseteq polls \union {Poll("nothing")}
         /\ es' = es \/ (es' = Connecting /\ view'.st = "running")
<1>1. p \in PollRecord /\ ViewAfter(p) \in Views /\ turns' = TurnsAfter(p)
  BY AfterOK DEF Shape, Lands
<1>2. CASE ThenNothing(p)
  BY <1>1, <1>2 DEF ThenNothing
<1>3. CASE ThenPolls(p)
  BY <1>1, <1>3 DEF ThenPolls
<1>4. CASE ThenAsksAgain(p)
  <2> DEFINE v == ViewAfter(p)
  <2>1. v \in Views /\ p.ask \in Nat \union {None}
    BY <1>1 DEF PollRecord
  <2>2. polls' = polls \ {p}
    BY <1>4 DEF ThenAsksAgain
  <2>3. CASE v.st # "paused" /\ MayFollow(p)
    <3>1. view' = v /\ es' = Connecting /\ v.st = "running"
      BY <1>4, <2>3 DEF ThenAsksAgain, MayFollow
    <3> QED BY <1>1, <2>2, <3>1
  <2>4. CASE ~(v.st # "paused" /\ MayFollow(p))
    <3>1. /\ es' = es
          /\ \/ view' = v \/ view' = [v EXCEPT !.sending = FALSE]
             \/ /\ view' = [v EXCEPT !.sending = FALSE, !.modal = p.ask, !.decided = @ \ {p.ask}]
      BY <1>4, <2>4, <2>1 DEF ThenAsksAgain, Views, Statuses
    <3> HIDE DEF v
    <3>2. view' \in Views /\ view'.st = v.st
      BY <2>1, <3>1 DEF Views
    <3> QED BY <1>1, <2>2, <3>1, <3>2 DEF v
  <2> QED BY <2>3, <2>4
<1> QED BY <1>2, <1>3, <1>4 DEF Lands

(* The invariant holds at first, and every step keeps it.                    *)
LEMMA InitOK == Init => Inv
<1> SUFFICES ASSUME Init PROVE Inv
  OBVIOUS
<1>1. <<>> \in Text /\ <<>> \in Seq(Text) /\ <<>> \in Seq(Event)
  BY DEF Text
<1>2. Latest(turns) /\ Len(turns) = 1
  <2>1. ThinkingTurn \in Turn
    BY <1>1 DEF ThinkingTurn, Turn
  <2> HIDE DEF Turn
  <2>2. <<ThinkingTurn>> \in Seq(Turn) /\ Len(<<ThinkingTurn>>) = 1
    BY <2>1
  <2> QED BY <2>2 DEF Latest, Init
<1>3. Shape
  <2>1. conv \in Rows /\ run \in Runs
    BY <1>1 DEF Init, Rows, Runs, Statuses
  <2>2. view \in Views /\ es \in Streams
    BY <1>1 DEF Init, Views, Streams, Statuses, Connecting, NoStream
  <2> QED BY <2>1, <2>2, <1>2 DEF Init, Shape
<1>4. ServerInv /\ StreamInv
  <2>1. ServerInv
    BY DEF Init, ServerInv, Asking
  <2>2. es.q = <<>> /\ es.sub = FALSE /\ es.cut = FALSE /\ DOMAIN es.q = {}
    BY DEF Init, Connecting, NoStream
  <2> QED BY <2>1, <2>2 DEF StreamInv
<1>5. TextInv /\ AnswerInv
  <2>1. es.q = <<>> /\ es.sub = FALSE /\ DOMAIN es.q = {} /\ polls = {} /\ view.st = "running"
    BY DEF Init, Connecting, NoStream
  <2> QED BY <2>1 DEF TextInv, AnswerInv, DoneInv, AnswerComes, AnswerIsThere
<1> QED BY <1>3, <1>4, <1>5 DEF Inv, Init

(* The server's rows and runs.                                               *)
LEMMA ServerStep ==
  ASSUME Shape, ServerInv, StreamInv, Next
  PROVE  conv' \in Rows /\ run' \in Runs /\ ServerInv'
<1> USE DEF Shape, ServerInv, Asking
<1>0. <<>> \in Text /\ <<>> \in Seq(Text)
  BY DEF Text
<1>1. ASSUME Produce PROVE conv' \in Rows /\ run' \in Runs /\ ServerInv'
  <2>1. Append(run.partial, run.n + 1) \in Text /\ run.n + 1 \in Nat
    BY DEF Runs, Text
  <2>2. run' = [run EXCEPT !.n = run.n + 1, !.partial = Append(@, run.n + 1), !.calls = FALSE]
    BY <1>1 DEF Produce
  <2>3. run' \in Runs /\ run'.partial \in Text /\ run'.on = run.on
    BY <2>1, <2>2 DEF Runs
  <2>4. PICK content \in {conv.content, run'.partial} : conv' = [conv EXCEPT !.content = content]
    BY <1>1 DEF Produce
  <2>5. conv' \in Rows /\ conv'.st = "running" /\ post' = post
    BY <1>1, <2>3, <2>4 DEF Produce, Running, Rows, browser
  <2> QED BY <1>1, <2>3, <2>5 DEF Produce, Running, Terminal
<1>2. ASSUME RoundEnds PROVE conv' \in Rows /\ run' \in Runs /\ ServerInv'
  <2>1. Append(conv.slice, run.partial) \in Seq(Text)
    BY DEF Runs, Rows
  <2> QED BY <1>2, <2>1, <1>0 DEF RoundEnds, browser, Rows, Runs, Running
<1>3. ASSUME Pause PROVE conv' \in Rows /\ run' \in Runs /\ ServerInv'
  <2>1. run.partial \in Text /\ conv.ask + 1 \in Nat /\ "paused" \in Statuses
    BY DEF Runs, Rows, Statuses
  <2>2. conv' = [conv EXCEPT !.st = "paused", !.content = run.partial, !.ask = conv.ask + 1]
    BY <1>3 DEF Pause
  <2>3. conv' \in Rows /\ conv'.st = "paused" /\ conv'.content = run.partial
    BY <2>1, <2>2 DEF Rows
  <2>4. run' \in Runs /\ run'.partial = run.partial /\ post' = post
    BY <1>3 DEF Pause, Runs, browser
  <2> QED BY <1>3, <2>3, <2>4 DEF Pause, Running, Terminal
<1>4. ASSUME Finish PROVE conv' \in Rows /\ run' \in Runs /\ ServerInv'
  BY <1>4, <1>0 DEF Finish, browser, Rows, Runs, Running, Terminal, Statuses
<1>5. ASSUME Fail PROVE conv' \in Rows /\ run' \in Runs /\ ServerInv'
  BY <1>5, <1>0 DEF Fail, browser, Rows, Runs, Running, Terminal, Statuses
<1>6. ASSUME Cancel PROVE conv' \in Rows /\ run' \in Runs /\ ServerInv'
  BY <1>6, <1>0 DEF Cancel, browser, Rows, Runs, Terminal, Statuses
<1>7. ASSUME CancelledRunLeaves PROVE conv' \in Rows /\ run' \in Runs /\ ServerInv'
  BY <1>7, <1>0 DEF CancelledRunLeaves, Rows, Runs, Terminal, Statuses, browser
<1>8. ASSUME Steer PROVE conv' \in Rows /\ run' \in Runs /\ ServerInv'
  BY <1>8, <1>0 DEF Steer, Rows, Runs, Terminal, Statuses, browser
<1>9. ASSUME ApprovedElsewhere PROVE conv' \in Rows /\ run' \in Runs /\ ServerInv'
  BY <1>9, <1>0 DEF ApprovedElsewhere, Resumes, Rows, Runs, Terminal, Statuses, browser
<1>10. ASSUME Connect PROVE conv' \in Rows /\ run' \in Runs /\ ServerInv'
  BY <1>10, <1>0 DEF Connect, Flushed, Running, Rows, Runs, Terminal, Statuses, browser
<1>11. ASSUME Served PROVE conv' \in Rows /\ run' \in Runs /\ ServerInv'
  <2>1. post \in Requests /\ post.st = "sent"
    BY <1>11 DEF Served
  <2>2. CASE post.k = "send" /\ NewTurn /\ post' = [post EXCEPT !.st = "served"]
    <3>1. conv.turn + 1 \in Nat /\ "running" \in Statuses
      BY DEF Rows, Statuses
    <3>2. conv' = [conv EXCEPT !.st = "running", !.content = <<>>, !.slice = <<>>,
                               !.turn = conv.turn + 1]
      BY <2>2 DEF NewTurn
    <3>3. conv' \in Rows /\ conv'.st = "running"
      BY <3>1, <3>2, <1>0 DEF Rows
    <3>4. run' \in Runs /\ run'.on
      BY <2>2, <1>0 DEF NewTurn, Runs
    <3> QED BY <2>1, <2>2, <3>3, <3>4 DEF Requests
  <2>3. CASE post.k = "approve" /\ conv.st = "paused" /\ Resumes /\ post' = [post EXCEPT !.st = "served"]
    BY <2>1, <2>3 DEF Resumes, Rows, Runs, Terminal, Statuses, Requests
  <2>4. CASE post.k = "approve" /\ post' = [post EXCEPT !.st = "refused"] /\ UNCHANGED <<conv, run, es>>
    BY <2>1, <2>4 DEF Requests
  <2> QED BY <1>11, <2>2, <2>3, <2>4 DEF Served
<1>12. ASSUME Send \/ Approve \/ Answered \/ Refused \/ PostLost
       PROVE  conv' \in Rows /\ run' \in Runs /\ ServerInv'
  <2>1. conv' = conv /\ run' = run
    BY <1>12 DEF Send, Approve, Answered, Refused, PostLost, server
  <2>2. CASE Send
    BY <2>1, <2>2 DEF Send, Request
  <2>3. CASE Approve
    BY <2>1, <2>3 DEF Approve, Request
  <2>4. CASE post' = None
    BY <2>1, <2>4
  <2> QED BY <1>12, <2>2, <2>3, <2>4 DEF Answered, Refused, PostLost
<1>13. ASSUME Receive \/ StreamBreaks \/ Ticks \/ PollRead \/ PollLands \/ PollFails
       PROVE  conv' \in Rows /\ run' \in Runs /\ ServerInv'
  BY <1>13 DEF Receive, StreamBreaks, Ticks, PollRead, PollLands, PollFails, server, browser
<1> QED BY <1>1, <1>2, <1>3, <1>4, <1>5, <1>6, <1>7, <1>8, <1>9, <1>10, <1>11, <1>12, <1>13
        DEF Next, RunSteps, Follows

(* The stream and what is under way to it.                                   *)
EndsClose(q) == \A i \in DOMAIN q : i # 1 /\ q[i].k = "end" => Closing(q[i - 1])

(* A join of queues in which every end follows what closes is one.           *)
LEMMA EndsCloseJoin ==
  ASSUME NEW q \in Seq(Event), NEW evs \in Seq(Event), evs # <<>>,
         EndsClose(q), EndsClose(evs), evs[1].k # "end"
  PROVE  /\ EndsClose(q \o evs) /\ q \o evs # <<>>
         /\ (q \o evs)[Len(q \o evs)] = evs[Len(evs)]
<1> DEFINE r == q \o evs
           m == Len(q)
           n == Len(evs)
<1>1. /\ m \in Nat /\ n \in Nat /\ n # 0 /\ r \in Seq(Event) /\ Len(r) = m + n /\ DOMAIN r = 1 .. m + n
      /\ DOMAIN q = 1 .. m /\ DOMAIN evs = 1 .. n
      /\ \A i \in 1 .. m + n : r[i] = IF i <= m THEN q[i] ELSE evs[i - m]
  <2>1. r \in Seq(Event) /\ Len(r) = m + n
        /\ \A i \in 1 .. m + n : r[i] = IF i <= m THEN q[i] ELSE evs[i - m]
    BY ConcatProperties
  <2> HIDE DEF r
  <2> QED BY <2>1, LenProperties, EmptySeq
<1> HIDE DEF r, m, n
<1>2. ASSUME NEW i \in 1 .. m + n, i # 1, r[i].k = "end" PROVE Closing(r[i - 1])
  <2>1. CASE i <= m
    <3>1. r[i] = q[i] /\ r[i - 1] = q[i - 1] /\ i \in DOMAIN q
      BY <1>1, <1>2, <2>1
    <3> QED BY <3>1, <1>2 DEF EndsClose
  <2>2. CASE i = m + 1
    BY <1>1, <1>2, <2>2
  <2>3. CASE i > m + 1
    <3>1. /\ r[i] = evs[i - m] /\ r[i - 1] = evs[(i - m) - 1]
          /\ i - m \in DOMAIN evs /\ i - m # 1
      BY <1>1, <1>2, <2>3
    <3> QED BY <3>1, <1>2 DEF EndsClose
  <2> QED BY <1>1, <2>1, <2>2, <2>3
<1>3. r[m + n] = evs[n] /\ r # <<>>
  BY <1>1
<1> QED BY <1>1, <1>2, <1>3 DEF EndsClose, r, m, n

(* Emission to a turn that goes on, and the last one of a turn.              *)
LEMMA EmitKeeps ==
  ASSUME es \in Streams, StreamInv, NEW evs \in Seq(Event), evs # <<>>, Emit(evs),
         es.sub => conv'.st \in {"running", "paused"},
         \A i \in DOMAIN evs : ~IsTerminal(evs[i]),
         EndsClose(evs), evs[1].k # "end"
  PROVE  es' \in Streams /\ StreamInv'
<1>1. /\ es' \in Streams /\ es'.sub = es.sub /\ es'.st = es.st /\ es'.cut = es.cut
      /\ es'.q = IF es.sub THEN es.q \o evs ELSE es.q
  BY EmitOK
<1>2. CASE es.sub
  <2>1. es.q \in Seq(Event) /\ EndsClose(es.q) /\ \A i \in DOMAIN es.q : ~IsTerminal(es.q[i])
    BY <1>2 DEF Streams, StreamInv, EndsClose
  <2>2. EndsClose(es'.q)
    BY <1>1, <1>2, <2>1, EndsCloseJoin
  <2>3. \A i \in DOMAIN es'.q : ~IsTerminal(es'.q[i])
    <3>1. /\ es'.q = es.q \o evs /\ Len(es.q) \in Nat /\ Len(evs) \in Nat
          /\ DOMAIN es'.q = 1 .. Len(es.q) + Len(evs)
          /\ DOMAIN es.q = 1 .. Len(es.q) /\ DOMAIN evs = 1 .. Len(evs)
          /\ \A i \in 1 .. Len(es.q) + Len(evs) :
               (es.q \o evs)[i] = IF i <= Len(es.q) THEN es.q[i] ELSE evs[i - Len(es.q)]
      <4> DEFINE r == es.q \o evs
      <4>1. /\ r \in Seq(Event) /\ Len(r) = Len(es.q) + Len(evs)
            /\ \A i \in 1 .. Len(es.q) + Len(evs) :
                 r[i] = IF i <= Len(es.q) THEN es.q[i] ELSE evs[i - Len(es.q)]
        BY <2>1, ConcatProperties
      <4>2. es'.q = r
        BY <1>1, <1>2
      <4> HIDE DEF r
      <4>3. /\ Len(es.q) \in Nat /\ Len(evs) \in Nat /\ DOMAIN r = 1 .. Len(r)
            /\ DOMAIN es.q = 1 .. Len(es.q) /\ DOMAIN evs = 1 .. Len(evs)
        BY <2>1, <4>1, LenProperties
      <4> QED BY <4>1, <4>2, <4>3 DEF r
    <3> SUFFICES ASSUME NEW i \in 1 .. Len(es.q) + Len(evs) PROVE ~IsTerminal(es'.q[i])
      BY <3>1
    <3>2. CASE i <= Len(es.q)
      <4>1. es'.q[i] = es.q[i] /\ i \in DOMAIN es.q
        BY <3>1, <3>2
      <4> QED BY <2>1, <4>1
    <3>3. CASE i > Len(es.q)
      <4>1. es'.q[i] = evs[i - Len(es.q)] /\ i - Len(es.q) \in DOMAIN evs
        BY <3>1, <3>3
      <4> QED BY <4>1
    <3> QED BY <3>1, <3>2, <3>3
  <2> QED BY <1>1, <1>2, <2>2, <2>3 DEF StreamInv, EndsClose
<1>3. CASE ~es.sub
  <2>1. es' = es
    BY <1>3 DEF Emit
  <2> QED BY <1>3, <2>1 DEF StreamInv, Streams
<1> QED BY <1>2, <1>3

LEMMA EmitLastKeeps ==
  ASSUME es \in Streams, StreamInv, NEW evs \in Seq(Event), evs # <<>>, EmitLast(evs),
         EndsClose(evs), evs[1].k # "end", evs[Len(evs)].k = "end"
  PROVE  es' \in Streams /\ StreamInv'
<1>1. /\ es' \in Streams /\ es'.sub = FALSE /\ es'.st = es.st /\ es'.cut = es.cut
      /\ es'.q = IF es.sub THEN es.q \o evs ELSE es.q
  BY EmitLastOK
<1>2. CASE es.sub
  <2>1. es.q \in Seq(Event) /\ EndsClose(es.q)
    BY <1>2 DEF Streams, StreamInv, EndsClose
  <2>2. EndsClose(es'.q) /\ es'.q[Len(es'.q)] = evs[Len(evs)]
    BY <1>1, <1>2, <2>1, EndsCloseJoin
  <2> QED BY <1>1, <1>2, <2>2 DEF StreamInv, EndsClose
<1>3. CASE ~es.sub
  <2>1. es' = es
    BY <1>3 DEF EmitLast
  <2> QED BY <1>3, <2>1 DEF StreamInv, Streams
<1> QED BY <1>2, <1>3

(* What a greeting holds.                                                    *)
LEMMA GreetingOK ==
  ASSUME Shape
  PROVE  /\ Greeting \in Seq(Event) /\ Greeting # <<>> /\ Greeting[1].k = "hello"
         /\ EndsClose(Greeting)
         /\ conv.st # "running" => Greeting[Len(Greeting)].k = "end"
         /\ conv.st = "running" => \A i \in DOMAIN Greeting : ~IsTerminal(Greeting[i])
         /\ \A i \in DOMAIN Greeting : SaysDone(Greeting[i]) => conv.st = "done"
         /\ conv.st = "done" => \A i \in DOMAIN Greeting :
              Greeting[i].k = "status" => i = 3 /\ Brings(Greeting[2], conv.content)
<1> DEFINE hello == [k |-> "hello", st |-> conv.st]
           snapshot == [k |-> "snapshot", content |-> Flushed.content, trace |-> conv.slice]
           g2 == <<hello, snapshot>>
           g3 == <<hello, Paused(conv.ask), End>>
           g4 == <<hello, snapshot, Status(conv.st), End>>
<1>1. /\ conv.st \in Statuses /\ Flushed.content \in Text /\ conv.slice \in Seq(Text) /\ conv.ask \in Nat
      /\ conv.st = "done" => Flushed.content = conv.content
  BY DEF Shape, Rows, Runs, Flushed, Running
<1>2. hello \in Event /\ snapshot \in Event /\ End \in Event /\ Paused(conv.ask) \in Event
  BY <1>1, EventsOK
<1>3. conv.st # "paused" => Status(conv.st) \in Event
  BY <1>1, EventsOK
<1>4. hello.k = "hello" /\ hello.st = conv.st /\ snapshot.k = "snapshot" /\ snapshot.content = Flushed.content
      /\ Paused(conv.ask).k = "status" /\ Paused(conv.ask).st = "paused"
      /\ Status(conv.st).k = "status" /\ Status(conv.st).st = conv.st /\ End.k = "end"
  BY DEF Paused, Status, End
<1>5. Greeting = IF conv.st = "paused" THEN g3
                 ELSE IF conv.st = "running"
                      THEN (IF Flushed.content = <<>> /\ conv.slice = <<>> THEN <<hello>> ELSE g2)
                 ELSE g4
  BY DEF Greeting
<1> HIDE DEF hello, snapshot
<1>6. CASE conv.st = "paused"
  <2>1. Greeting = <<hello, Paused(conv.ask), End>>
    BY <1>5, <1>6
  <2> QED BY <1>2, <1>4, <1>6, <2>1 DEF EndsClose, Closing, IsTerminal, SaysDone
<1>7. CASE conv.st = "running" /\ Flushed.content = <<>> /\ conv.slice = <<>>
  <2>1. Greeting = <<hello>>
    BY <1>5, <1>7
  <2> QED BY <1>2, <1>4, <1>7, <2>1 DEF EndsClose, Closing, IsTerminal, SaysDone
<1>8. CASE conv.st = "running" /\ ~(Flushed.content = <<>> /\ conv.slice = <<>>)
  <2>1. Greeting = <<hello, snapshot>>
    BY <1>5, <1>8
  <2> QED BY <1>2, <1>4, <1>8, <2>1 DEF EndsClose, Closing, IsTerminal, SaysDone
<1>9. CASE conv.st \notin {"paused", "running"}
  <2>1. Greeting = <<hello, snapshot, Status(conv.st), End>>
    BY <1>5, <1>9
  <2>2. conv.st \in Terminal
    BY <1>1, <1>9 DEF Statuses
  <2> QED BY <1>1, <1>2, <1>3, <1>4, <1>9, <2>1, <2>2 DEF EndsClose, Closing, IsTerminal, SaysDone, Brings
<1> QED BY <1>6, <1>7, <1>8, <1>9

(* Every step keeps what is known of the stream.                             *)
LEMMA StreamStep ==
  ASSUME Shape, ServerInv, StreamInv, Next, conv' \in Rows
  PROVE  es' \in Streams /\ StreamInv'
<1>0. es \in Streams /\ conv \in Rows /\ run \in Runs
  BY DEF Shape
<1>1. ASSUME Produce PROVE es' \in Streams /\ StreamInv'
  <2> DEFINE evs == <<[k |-> "delta", p |-> run.n + 1]>>
  <2>1. evs \in Seq(Event) /\ evs # <<>>
    <3>1. run.n + 1 \in Nat
      BY <1>0 DEF Runs
    <3>2. [k |-> "delta", p |-> run.n + 1] \in Event
      BY <3>1, EventsOK
    <3> QED BY <3>2
  <2>2. EndsClose(evs) /\ evs[1].k # "end" /\ \A i \in DOMAIN evs : ~IsTerminal(evs[i])
    BY DEF EndsClose, IsTerminal
  <2>3. Emit(evs) /\ conv'.st = "running"
    BY <1>1, <1>0 DEF Produce, Running, Rows
  <2> HIDE DEF evs
  <2> QED BY <1>0, <2>1, <2>2, <2>3, EmitKeeps
<1>2. ASSUME RoundEnds PROVE es' \in Streams /\ StreamInv'
  <2> DEFINE evs == <<[k |-> "step", p |-> run.partial]>>
  <2>1. evs \in Seq(Event) /\ evs # <<>>
    <3>1. [k |-> "step", p |-> run.partial] \in Event
      BY <1>0, EventsOK DEF Runs
    <3> QED BY <3>1
  <2>2. EndsClose(evs) /\ evs[1].k # "end" /\ \A i \in DOMAIN evs : ~IsTerminal(evs[i])
    BY DEF EndsClose, IsTerminal
  <2>3. Emit(evs) /\ conv'.st = "running"
    BY <1>2, <1>0 DEF RoundEnds, Running, Rows
  <2> HIDE DEF evs
  <2> QED BY <1>0, <2>1, <2>2, <2>3, EmitKeeps
<1>3. ASSUME Pause PROVE es' \in Streams /\ StreamInv'
  <2> DEFINE evs == <<Paused(conv'.ask), End>>
  <2>1. evs \in Seq(Event) /\ evs # <<>>
    <3>1. Paused(conv'.ask) \in Event /\ End \in Event
      BY EventsOK DEF Rows
    <3> QED BY <3>1
  <2>2. EndsClose(evs) /\ evs[1].k # "end" /\ \A i \in DOMAIN evs : ~IsTerminal(evs[i])
    BY DEF EndsClose, IsTerminal, Paused, End, Closing, Terminal
  <2>3. Emit(evs) /\ conv'.st = "paused"
    BY <1>3, <1>0 DEF Pause, Rows
  <2> HIDE DEF evs
  <2> QED BY <1>0, <2>1, <2>2, <2>3, EmitKeeps
<1>4. ASSUME Resumes PROVE es' \in Streams /\ StreamInv'
  <2> DEFINE evs == <<Status("running")>>
  <2>1. evs \in Seq(Event) /\ evs # <<>>
    <3>1. Status("running") \in Event
      BY EventsOK DEF Statuses
    <3> QED BY <3>1
  <2>2. EndsClose(evs) /\ evs[1].k # "end" /\ \A i \in DOMAIN evs : ~IsTerminal(evs[i])
    BY DEF EndsClose, IsTerminal, Status, Terminal
  <2>3. Emit(evs) /\ conv'.st = "running"
    BY <1>4, <1>0 DEF Resumes, Rows
  <2> HIDE DEF evs
  <2> QED BY <1>0, <2>1, <2>2, <2>3, EmitKeeps
<1>5. ASSUME Finish PROVE es' \in Streams /\ StreamInv'
  <2> DEFINE evs == <<[k |-> "step", p |-> run.partial], Status("done"), End>>
  <2>1. evs \in Seq(Event) /\ evs # <<>>
    <3>1. [k |-> "step", p |-> run.partial] \in Event /\ Status("done") \in Event /\ End \in Event
      BY <1>0, EventsOK DEF Runs, Statuses, Terminal
    <3> QED BY <3>1
  <2>2. EndsClose(evs) /\ evs[1].k # "end" /\ evs[Len(evs)].k = "end"
    BY DEF EndsClose, Status, End, Closing, Terminal
  <2>3. EmitLast(evs)
    BY <1>5 DEF Finish
  <2> HIDE DEF evs
  <2> QED BY <1>0, <2>1, <2>2, <2>3, EmitLastKeeps
<1>6. ASSUME NEW s \in {"failed", "cancelled"}, EmitLast(<<Status(s), End>>)
      PROVE  es' \in Streams /\ StreamInv'
  <2> DEFINE evs == <<Status(s), End>>
  <2>1. evs \in Seq(Event) /\ evs # <<>>
    <3>1. Status(s) \in Event /\ End \in Event
      BY EventsOK DEF Statuses, Terminal
    <3> QED BY <3>1
  <2>2. EndsClose(evs) /\ evs[1].k # "end" /\ evs[Len(evs)].k = "end"
    BY DEF EndsClose, Status, End, Closing, Terminal
  <2> HIDE DEF evs
  <2> QED BY <1>0, <1>6, <2>1, <2>2, EmitLastKeeps DEF evs
<1>7. ASSUME es' = es, conv'.st = conv.st \/ conv.st \notin {"running", "paused"}
      PROVE  es' \in Streams /\ StreamInv'
  BY <1>0, <1>7 DEF StreamInv
<1>8. ASSUME es'.q = <<>>, es'.sub = FALSE, es'.st # "open" \/ es'.cut = FALSE, es' \in Streams
      PROVE  es' \in Streams /\ StreamInv'
  BY <1>8 DEF StreamInv
<1>9. ASSUME es' = Connecting PROVE es' \in Streams /\ StreamInv'
  <2>1. <<>> \in Seq(Event)
    OBVIOUS
  <2> QED BY <1>8, <1>9, <2>1 DEF Connecting, NoStream, Streams
<1>10. ASSUME Receive PROVE es' \in Streams /\ StreamInv'
  <2> DEFINE e == Head(es.q)
  <2>1. CASE IsTerminal(e) \/ e.k = "end"
    <3>1. es' = NoStream
      BY <1>10, <2>1 DEF Receive
    <3>2. <<>> \in Seq(Event)
      OBVIOUS
    <3> QED BY <1>8, <3>1, <3>2 DEF NoStream, Streams
  <2>2. CASE ~(IsTerminal(e) \/ e.k = "end")
    <3>1. es' = [es EXCEPT !.q = Tail(@)] /\ es.q # <<>> /\ es.st = "open" /\ conv' = conv
      BY <1>10, <2>2 DEF Receive, server
    <3>2. es.q \in Seq(Event)
      BY <1>0 DEF Streams
    <3>3. /\ Tail(es.q) \in Seq(Event) /\ Len(es.q) \in Nat /\ Len(Tail(es.q)) = Len(es.q) - 1
          /\ DOMAIN es.q = 1 .. Len(es.q) /\ DOMAIN Tail(es.q) = 1 .. Len(es.q) - 1
          /\ \A i \in 1 .. Len(es.q) - 1 : Tail(es.q)[i] = es.q[i + 1]
      BY <3>1, <3>2, HeadTailProperties, LenProperties
    <3> DEFINE t == Tail(es.q)
    <3> HIDE DEF t
    <3>4. /\ es' \in Streams /\ es'.q = t /\ es'.sub = es.sub /\ es'.st = es.st /\ es'.cut = es.cut
      BY <1>0, <3>1, <3>3 DEF Streams, t
    <3>5. t # <<>> => t[Len(t)] = es.q[Len(es.q)]
      <4>1. t \in Seq(Event)
        BY <3>3 DEF t
      <4>2. t # <<>> => Len(t) \in 1 .. Len(es.q) - 1 /\ Len(t) + 1 = Len(es.q)
        BY <4>1, <3>3, EmptySeq DEF t
      <4> QED BY <4>2, <3>3 DEF t
    <3>6. EndsClose(t)
      <4> SUFFICES ASSUME NEW i \in DOMAIN t, i # 1, t[i].k = "end" PROVE Closing(t[i - 1])
        BY DEF EndsClose
      <4>1. /\ i \in 1 .. Len(es.q) - 1 /\ i - 1 \in 1 .. Len(es.q) - 1
            /\ i + 1 \in DOMAIN es.q /\ i + 1 # 1 /\ (i + 1) - 1 = i /\ (i - 1) + 1 = i
        BY <3>3 DEF t
      <4>2. t[i] = es.q[i + 1] /\ t[i - 1] = es.q[i]
        BY <3>3, <4>1 DEF t
      <4> QED BY <4>1, <4>2 DEF StreamInv
    <3>7. es.sub => \A i \in DOMAIN t : ~IsTerminal(t[i])
      <4>1. \A i \in DOMAIN t : i + 1 \in DOMAIN es.q /\ t[i] = es.q[i + 1]
        BY <3>3 DEF t
      <4> QED BY <4>1 DEF StreamInv
    <3> QED BY <3>1, <3>4, <3>5, <3>6, <3>7 DEF StreamInv, EndsClose
  <2> QED BY <2>1, <2>2
<1>11. ASSUME Connect PROVE es' \in Streams /\ StreamInv'
  <2>1. es' = [st |-> "open", q |-> Greeting, sub |-> conv.st = "running", cut |-> FALSE]
    BY <1>11 DEF Connect, NoStream
  <2>2. conv'.st = conv.st
    BY <1>0, <1>11 DEF Connect, Flushed, Rows
  <2>3. es' \in Streams
    BY <2>1, GreetingOK DEF Streams
  <2>4. /\ es'.st = "open" /\ es'.cut = FALSE /\ (es'.sub <=> conv.st = "running")
        /\ es'.q # <<>> /\ EndsClose(es'.q)
        /\ ~es'.sub => es'.q[Len(es'.q)].k = "end"
        /\ es'.sub => \A i \in DOMAIN es'.q : ~IsTerminal(es'.q[i])
    BY <2>1, GreetingOK
  <2>5. es'.sub => conv'.st = "running"
    BY <2>2, <2>4
  <2> QED BY <2>3, <2>4, <2>5 DEF StreamInv, EndsClose
<1>12. ASSUME StreamBreaks PROVE es' \in Streams /\ StreamInv'
  <2>0. <<>> \in Seq(Event)
    OBVIOUS
  <2>1. conv' = conv
    BY <1>12 DEF StreamBreaks, server
  <2>2. CASE es.st = "open" /\ es' = [Connecting EXCEPT !.cut = es.q # <<>> /\ view.st = "done"]
    BY <1>8, <2>0, <2>1, <2>2 DEF Connecting, NoStream, Streams
  <2>3. CASE es' = [NoStream EXCEPT !.st = "open"]
    BY <1>8, <2>0, <2>1, <2>3 DEF NoStream, Streams
  <2>4. CASE es.st = "connecting" /\ es' = [es EXCEPT !.st = "none"]
    BY <1>0, <1>8, <2>0, <2>1, <2>4 DEF StreamInv, Streams
  <2> QED BY <1>12, <2>2, <2>3, <2>4 DEF StreamBreaks
<1>13. ASSUME Served PROVE es' \in Streams /\ StreamInv'
  <2>1. CASE post.k = "send" /\ NewTurn
    <3>1. es' = es /\ conv.st \in Terminal
      BY <1>13, <2>1 DEF Served, NewTurn, ServerInv, Asking
    <3> QED BY <1>7, <3>1 DEF Terminal
  <2> QED BY <1>4, <1>7, <1>13, <2>1 DEF Served
<1>14. ASSUME PollLands \/ PollFails PROVE es' \in Streams /\ StreamInv'
  <2>1. (\E p \in polls : Lands(p)) /\ conv' = conv
    BY <1>14 DEF PollLands, PollFails, server
  <2>2. es' = es \/ es' = Connecting
    BY <2>1, LandsOK
  <2> QED BY <1>7, <1>9, <2>1, <2>2
<1>15. ASSUME Cancel \/ Fail PROVE es' \in Streams /\ StreamInv'
  BY <1>6, <1>15 DEF Cancel, Fail
<1>16. ASSUME CancelledRunLeaves \/ Steer \/ Ticks \/ PollRead PROVE es' \in Streams /\ StreamInv'
  BY <1>0, <1>7, <1>16 DEF CancelledRunLeaves, Steer, Ticks, PollRead, server, Rows
<1>17. ASSUME Send \/ Approve \/ Refused \/ PostLost PROVE es' \in Streams /\ StreamInv'
  BY <1>7, <1>17 DEF Send, Approve, Refused, PostLost, server
<1>18. ASSUME Answered PROVE es' \in Streams /\ StreamInv'
  BY <1>9, <1>18 DEF Answered
<1>19. ASSUME ApprovedElsewhere PROVE es' \in Streams /\ StreamInv'
  BY <1>4, <1>19 DEF ApprovedElsewhere
<1> QED BY <1>1, <1>2, <1>3, <1>5, <1>10, <1>11, <1>12, <1>13, <1>14, <1>15, <1>16, <1>17, <1>18, <1>19
        DEF Next, RunSteps, Follows

(* The browser's side of the types.                                          *)
LEMMA ShapeStep ==
  ASSUME Shape, ServerInv, StreamInv, \A p \in polls : p.epoch <= pollEpoch, Next,
         conv' \in Rows, run' \in Runs, es' \in Streams
  PROVE  Shape' /\ \A p \in polls' : p.epoch <= pollEpoch'
<1> DEFINE Good == /\ Latest(turns') /\ view' \in Views
                   /\ polls' \subseteq PollRecord /\ pollEpoch' \in Nat
                   /\ post' \in Requests \union {None}
                   /\ \A p \in polls' : p.epoch <= pollEpoch'
<1>0. /\ conv \in Rows /\ Latest(turns) /\ view \in Views /\ es \in Streams
      /\ polls \subseteq PollRecord /\ pollEpoch \in Nat /\ post \in Requests \union {None}
  BY DEF Shape
<1>1. \A then \in {"nothing", "go on"} : Poll(then) \in PollRecord /\ Poll(then).epoch = pollEpoch
  BY <1>0, PollOK DEF Poll
<1>16. ASSUME NEW x \in PollRecord, x.epoch = pollEpoch, polls' \subseteq polls \union {x}, pollEpoch' = pollEpoch
       PROVE  polls' \subseteq PollRecord /\ pollEpoch' \in Nat /\ \A p \in polls' : p.epoch <= pollEpoch'
  <2>1. \A p \in polls' : p \in polls \/ p = x
    BY <1>16
  <2>2. pollEpoch <= pollEpoch
    BY <1>0
  <2> QED BY <1>0, <1>16, <2>1, <2>2
<1>2. ActiveOf(turns) = Len(turns) /\ Len(turns) \in DOMAIN turns /\ Last(turns) = turns[Len(turns)]
      /\ Last(turns) \in Turn /\ Active = ActiveOf(turns)
  BY <1>0, ActiveIsLast DEF Active
<1>3. ASSUME UNCHANGED browser, polls' = polls PROVE Good
  BY <1>0, <1>3 DEF browser, Latest
<1>4. ASSUME Receive PROVE Good
  <2> DEFINE e == Head(es.q)
  <2>1. es.q \in Seq(Event) /\ es.q # <<>>
    BY <1>0, <1>4 DEF Receive, Streams
  <2>2. e \in Event
    BY <2>1, HeadTailProperties
  <2>3. view' = Hears(e) /\ turns' = Applied(turns, e) /\ pollEpoch' = pollEpoch /\ post' = post
        /\ polls' \subseteq polls \union {Poll("nothing")}
    BY <1>4 DEF Receive
  <2> HIDE DEF e
  <2>4. Latest(turns')
    BY <1>0, <2>2, <2>3, AppliedOK
  <2>5. view' \in Views
    BY <1>0, <2>2, <2>3, HearsOK
  <2> QED BY <1>0, <1>1, <1>16, <2>3, <2>4, <2>5
<1>5. ASSUME StreamBreaks PROVE Good
  <2>1. /\ turns' = turns /\ pollEpoch' = pollEpoch /\ post' = post
        /\ view' = view \/ view' = [view EXCEPT !.sending = FALSE]
        /\ polls' \subseteq polls \union {Poll("go on")}
    BY <1>5 DEF StreamBreaks
  <2>2. view' \in Views
    BY <1>0, <2>1 DEF Views
  <2> QED BY <1>0, <1>1, <1>16, <2>1, <2>2
<1>6. ASSUME Ticks PROVE Good
  <2>1. /\ turns' = turns /\ pollEpoch' = pollEpoch /\ post' = post /\ view' = view
        /\ polls' \subseteq polls \union {Poll("nothing")}
    BY <1>6 DEF Ticks
  <2> QED BY <1>0, <1>1, <1>16, <2>1
<1>7. ASSUME PollRead PROVE Good
  <2> DEFINE r == [st |-> conv.st, ask |-> conv.ask, content |-> conv.content, trace |-> conv.slice]
  <2>1. PICK p \in polls : polls' = (polls \ {p}) \union {[p EXCEPT !.resp = r]}
    BY <1>7 DEF PollRead
  <2>2. r \in Response
    BY <1>0 DEF Rows, Response
  <2> HIDE DEF r
  <2>3. [p EXCEPT !.resp = r] \in PollRecord /\ [p EXCEPT !.resp = r].epoch = p.epoch
    BY <1>0, <2>2 DEF PollRecord
  <2>4. turns' = turns /\ pollEpoch' = pollEpoch /\ post' = post /\ view' = view
    BY <1>7 DEF PollRead, browser
  <2> QED BY <1>0, <2>1, <2>3, <2>4
<1>8. ASSUME PollLands \/ PollFails PROVE Good
  <2>1. PICK p \in polls : Lands(p)
    BY <1>8 DEF PollLands, PollFails
  <2>2. pollEpoch' = pollEpoch /\ post' = post
    BY <1>8 DEF PollLands, PollFails
  <2>3. /\ turns' = TurnsAfter(p) /\ Latest(TurnsAfter(p)) /\ view' \in Views
        /\ polls' \subseteq polls \union {Poll("nothing")}
    BY <2>1, LandsOK, AfterOK
  <2> QED BY <1>0, <1>1, <1>16, <2>2, <2>3
<1>9. ASSUME Send PROVE Good
  <2>1. ThinkingTurn \in Turn
    BY DEF ThinkingTurn, Turn, Text
  <2>2. turns' = Append(turns, ThinkingTurn) /\ turns[Len(turns)].st # "thinking"
    BY <1>2, <1>9 DEF Send, IsFinal
  <2>3. /\ turns \in Seq(Turn) /\ turns' \in Seq(Turn) /\ Len(turns) \in Nat /\ Len(turns') = Len(turns) + 1
        /\ turns' # <<>> /\ \A i \in 1 .. Len(turns) : turns'[i] = turns[i]
    BY <1>0, <2>1, <2>2, AppendProperties, LenProperties DEF Latest
  <2>4. Latest(turns')
    <3> SUFFICES ASSUME NEW i \in 1 .. Len(turns') - 1 PROVE turns'[i].st # "thinking"
      BY <2>3 DEF Latest
    <3> QED BY <1>0, <2>2, <2>3 DEF Latest
  <2>5. view' \in Views /\ post' \in Requests /\ polls' = polls /\ pollEpoch' = pollEpoch
    BY <1>0, <1>9 DEF Send, Views, Request, Requests
  <2> QED BY <1>0, <2>4, <2>5
<1>10. ASSUME Approve PROVE Good
  <2>1. view.modal \in Nat
    BY <1>0, <1>10 DEF Approve, Views
  <2>2. view' \in Views /\ post' \in Requests /\ polls' = polls /\ pollEpoch' = pollEpoch /\ turns' = turns
    BY <1>0, <1>10, <2>1 DEF Approve, Views, Request, Requests
  <2> QED BY <1>0, <2>2
<1>11. ASSUME Served PROVE Good
  BY <1>0, <1>11 DEF Served, Requests
<1>12. ASSUME Answered PROVE Good
  <2> DEFINE t == [Last(turns) EXCEPT !.st = "thinking"]
  <2>1. t \in Turn
    BY <1>2 DEF Turn
  <2>2. turns' = turns \/ turns' = [turns EXCEPT ![ActiveOf(turns)] = t]
    BY <1>2, <1>12 DEF Answered
  <2> HIDE DEF t
  <2>3. Latest(turns')
    BY <1>0, <2>1, <2>2, LatestExcept
  <2>4. view' \in Views /\ post' = None /\ polls' = polls /\ pollEpoch' = pollEpoch + 1
    BY <1>0, <1>12 DEF Answered, Views, Statuses
  <2>5. \A p \in polls : p.epoch \in Nat
    BY <1>0 DEF PollRecord
  <2> QED BY <1>0, <2>3, <2>4, <2>5
<1>13. ASSUME Refused PROVE Good
  <2>1. post \in Requests
    BY <1>0, <1>13 DEF Refused
  <2>2. PollFor("ask again", post.ask) \in PollRecord /\ PollFor("ask again", post.ask).epoch = pollEpoch
    BY <1>0, <2>1, PollOK DEF Requests
  <2> QED BY <1>0, <1>13, <1>16, <2>2 DEF Refused
<1>14. ASSUME PostLost PROVE Good
  <2>1. post \in Requests
    BY <1>0, <1>14 DEF PostLost
  <2>2. view' \in Views
    BY <1>0, <1>14, <2>1 DEF PostLost, Views, Requests
  <2> QED BY <1>0, <1>14, <2>2 DEF PostLost
<1>15. Good
  BY <1>3, <1>4, <1>5, <1>6, <1>7, <1>8, <1>9, <1>10, <1>11, <1>12, <1>13, <1>14
     DEF Next, RunSteps, Follows, Produce, RoundEnds, Pause, Finish, CancelledRunLeaves, Fail, Cancel, Steer,
         ApprovedElsewhere, Connect
<1> QED BY <1>15 DEF Shape, Latest

-----------------------------------------------------------------------------
LEMMA AppendPair ==
  ASSUME NEW x \in Event, NEW y \in Event
  PROVE  Append(<<x>>, y) = <<x, y>>
<1>1. <<x>> \in Seq(Event) /\ <<x, y>> \in Seq(Event)
  OBVIOUS
<1> DEFINE a == Append(<<x>>, y)
<1>2. a \in Seq(Event) /\ Len(a) = 2 /\ a[1] = x /\ a[2] = y
  BY <1>1, AppendProperties
<1> DEFINE b == <<x, y>>
<1>3. b \in Seq(Event) /\ Len(b) = 2 /\ b[1] = x /\ b[2] = y
  BY <1>1
<1> HIDE DEF a, b
<1>4. a = b
  BY <1>2, <1>3, SeqEqual
<1> QED BY <1>4 DEF a, b

(* The text is kept.                                                         *)
LEMMA TextStep ==
  ASSUME Inv, Next, Shape', StreamInv'
  PROVE  TextInv'
<1> SUFFICES ASSUME es'.sub, ~Asking' PROVE Covers(run'.partial, Last(turns').content, es'.q)
  BY DEF TextInv
<1>0. /\ conv \in Rows /\ run \in Runs /\ Latest(turns) /\ es \in Streams /\ run.partial \in Text
      /\ es.q \in Seq(Event) /\ Last(turns) \in Turn /\ Last(turns).content \in Text
  <2>1. conv \in Rows /\ run \in Runs /\ Latest(turns) /\ es \in Streams /\ Last(turns) \in Turn
    BY ActiveIsLast DEF Inv, Shape
  <2> QED BY <2>1 DEF Runs, Streams, Turn
<1>1. es'.st = "open" /\ conv'.st \in {"running", "paused"}
  BY DEF StreamInv
<1>a. ASSUME es.sub, ~Asking PROVE Covers(run.partial, Last(turns).content, es.q)
  BY <1>a DEF Inv, TextInv
<1>b. ASSUME es' = es, ~Asking, run'.partial = run.partial, Last(turns').content = Last(turns).content
      PROVE  Covers(run'.partial, Last(turns').content, es'.q)
  BY <1>a, <1>b
<1>c. ASSUME NEW e \in Event, ~Asking, turns' = turns, run'.partial \in Text,
             es.sub => es'.q = Append(es.q, e),
             es'.sub = es.sub,
             \A v \in Text : EndsIn(run.partial, v) => EndsIn(run'.partial, TextAfter(v, e))
      PROVE  Covers(run'.partial, Last(turns').content, es'.q)
  <2>1. Covers(run.partial, Last(turns).content, es.q) /\ es'.q = Append(es.q, e)
    BY <1>a, <1>c
  <2> QED BY <1>0, <1>c, <2>1, CoversMore
<1>d. ASSUME NEW e \in Event, Emit(<<e>>)
      PROVE  es'.sub = es.sub /\ (es.sub => es'.q = Append(es.q, e))
  <2>1. <<e>> \in Seq(Event) /\ es.q \o <<e>> = Append(es.q, e)
    BY <1>0
  <2> QED BY <1>0, <1>d, <2>1, EmitOK
<1>2. ASSUME Produce PROVE Covers(run'.partial, Last(turns').content, es'.q)
  <2> DEFINE n == run.n + 1
             e == [k |-> "delta", p |-> n]
  <2>1. n \in Nat /\ e \in Event
    BY <1>0, EventsOK DEF Runs
  <2>2. run'.partial = Append(run.partial, n) /\ run'.partial \in Text
    <3>1. Append(run.partial, n) \in Text
      BY <1>0, <2>1 DEF Text
    <3>2. run' = [run EXCEPT !.n = n, !.partial = Append(@, n), !.calls = FALSE]
      BY <1>2 DEF Produce
    <3> HIDE DEF n
    <3> QED BY <1>0, <3>1, <3>2 DEF Runs
  <2>3. Emit(<<e>>) /\ turns' = turns /\ post' = post
    BY <1>2 DEF Produce, browser
  <2>4. \A v \in Text : TextAfter(v, e) = Append(v, n)
    BY DEF TextAfter
  <2> HIDE DEF e, n
  <2>5. es'.sub = es.sub /\ (es.sub => es'.q = Append(es.q, e))
    BY <1>d, <2>1, <2>3
  <2>6. \A v \in Text : EndsIn(run.partial, v) => EndsIn(run'.partial, TextAfter(v, e))
    BY <1>0, <2>1, <2>2, <2>4, EndsInAppend
  <2> QED BY <1>c, <2>1, <2>2, <2>3, <2>5, <2>6 DEF Asking
<1>3. ASSUME RoundEnds PROVE Covers(run'.partial, Last(turns').content, es'.q)
  <2> DEFINE e == [k |-> "step", p |-> run.partial]
  <2>1. e \in Event
    BY <1>0, EventsOK
  <2>2. run'.partial = <<>> /\ <<>> \in Text
    BY <1>0, <1>3 DEF RoundEnds, Runs, Text
  <2>3. Emit(<<e>>) /\ turns' = turns /\ post' = post
    BY <1>3 DEF RoundEnds, browser
  <2> HIDE DEF e
  <2>5. es'.sub = es.sub /\ (es.sub => es'.q = Append(es.q, e))
    BY <1>d, <2>1, <2>3
  <2>6. \A v \in Text : EndsIn(run.partial, v) => EndsIn(run'.partial, TextAfter(v, e))
    BY <2>1, <2>2, TextAfterOK, EndsInEmpty
  <2> QED BY <1>c, <2>1, <2>2, <2>3, <2>5, <2>6 DEF Asking
<1>4. ASSUME Pause PROVE Covers(run'.partial, Last(turns').content, es'.q)
  <2> DEFINE e == Paused(conv'.ask)
             c == Last(turns).content
  <2>1. e \in Event /\ End \in Event
    BY EventsOK DEF Shape, Rows
  <2>2. run'.partial = run.partial /\ Emit(<<e, End>>) /\ turns' = turns /\ post' = post
    BY <1>0, <1>4 DEF Pause, browser, Runs
  <2>3. \A v \in Text : TextAfter(v, e) = v /\ TextAfter(v, End) = v
    BY DEF TextAfter, Paused, End
  <2> HIDE DEF e, c
  <2>4. <<e, End>> \in Seq(Event) /\ es.q \o <<e, End>> = Append(Append(es.q, e), End)
        /\ Append(es.q, e) \in Seq(Event)
    BY <1>0, <2>1
  <2>5. es'.sub = es.sub /\ (es.sub => es'.q = Append(Append(es.q, e), End))
    BY <1>0, <2>2, <2>4, EmitOK
  <2>6. Covers(run.partial, c, es.q)
    BY <1>a, <2>2, <2>5 DEF Asking, c
  <2>7. c \in Text /\ \A v \in Text : EndsIn(run.partial, v) => EndsIn(run.partial, TextAfter(v, e))
                                                          /\ EndsIn(run.partial, TextAfter(v, End))
    BY <1>0, <2>3 DEF c
  <2>8. Covers(run.partial, c, Append(es.q, e))
    BY <1>0, <2>1, <2>6, <2>7, CoversMore
  <2>9. Covers(run.partial, c, Append(Append(es.q, e), End))
    BY <1>0, <2>1, <2>4, <2>7, <2>8, CoversMore
  <2> QED BY <2>2, <2>5, <2>9 DEF c
<1>5. ASSUME Resumes, conv.st = "paused", ~Asking, turns' = turns
      PROVE  Covers(run'.partial, Last(turns').content, es'.q)
  <2> DEFINE e == Status("running")
  <2>1. e \in Event
    BY EventsOK DEF Statuses
  <2>2. run'.partial = run.partial
    <3>1. conv.content = run.partial
      BY <1>5 DEF Inv, ServerInv
    <3> QED BY <1>0, <1>5, <3>1 DEF Resumes, Runs
  <2>3. Emit(<<e>>)
    BY <1>5 DEF Resumes
  <2>4. \A v \in Text : TextAfter(v, e) = v
    BY DEF TextAfter, Status
  <2> HIDE DEF e
  <2>5. es'.sub = es.sub /\ (es.sub => es'.q = Append(es.q, e))
    BY <1>d, <2>1, <2>3
  <2>6. \A v \in Text : EndsIn(run.partial, v) => EndsIn(run'.partial, TextAfter(v, e))
    BY <2>2, <2>4
  <2> QED BY <1>0, <1>c, <1>5, <2>1, <2>2, <2>5, <2>6
<1>6. ASSUME Finish \/ Fail \/ Cancel PROVE FALSE
  <2>1. conv'.st \in Terminal
    BY <1>0, <1>6 DEF Finish, Fail, Cancel, Rows, Terminal
  <2> QED BY <1>1, <2>1 DEF Terminal
<1>7. ASSUME CancelledRunLeaves PROVE FALSE
  BY <1>0, <1>1, <1>7 DEF CancelledRunLeaves, Rows
<1>8. ASSUME Steer \/ Ticks \/ PollRead PROVE Covers(run'.partial, Last(turns').content, es'.q)
  <2>1. es' = es /\ run' = run /\ turns' = turns /\ post' = post
    BY <1>8 DEF Steer, Ticks, PollRead, server, browser
  <2> QED BY <1>b, <2>1 DEF Asking
<1>9. ASSUME Receive PROVE Covers(run'.partial, Last(turns').content, es'.q)
  <2> DEFINE e == Head(es.q)
  <2>1. e \in Event /\ e = es.q[1] /\ 1 \in DOMAIN es.q /\ es.q # <<>>
    BY <1>0, <1>9, HeadTailProperties, LenProperties, EmptySeq DEF Receive
  <2>2. turns' = Applied(turns, e) /\ run' = run /\ conv' = conv /\ post' = post
        /\ es' = [es EXCEPT !.q = Tail(@)]
    BY <1>9 DEF Receive, server, NoStream
  <2>3. es'.sub = es.sub /\ es'.q = Tail(es.q)
    BY <1>0, <2>2 DEF Streams
  <2>4. ~Asking /\ Covers(run.partial, Last(turns).content, es.q)
    BY <1>a, <2>2, <2>3 DEF Asking
  <2>5. ~SaysDone(e)
    BY <1>1, <2>1, <2>2, <2>4 DEF Inv, AnswerInv, DoneInv
  <2>6. Last(turns') = Reduced(Last(turns), e)
    BY <1>0, <2>1, <2>2, AppliedOK
  <2>7. Last(turns').content = TextAfter(Last(turns).content, e)
    BY <1>0, <2>1, <2>5, <2>6, ReducedOK
  <2>8. Covers(run.partial, TextAfter(Last(turns).content, Head(es.q)), Tail(es.q))
    BY <1>0, <2>1, <2>4, CoversRest
  <2> QED BY <2>2, <2>3, <2>7, <2>8
<1>10. ASSUME Connect PROVE Covers(run'.partial, Last(turns').content, es'.q)
  <2>1. es' = [st |-> "open", q |-> Greeting, sub |-> conv.st = "running", cut |-> FALSE]
        /\ run' = run /\ turns' = turns
    BY <1>10 DEF Connect, NoStream, browser
  <2>2. conv.st = "running" /\ run.on
    BY <2>1 DEF Inv, ServerInv
  <2> DEFINE c == Last(turns).content
             hello == [k |-> "hello", st |-> conv.st]
             snapshot == [k |-> "snapshot", content |-> run.partial, trace |-> conv.slice]
  <2>3. Flushed = [conv EXCEPT !.content = run.partial]
    BY <2>2 DEF Flushed, Running
  <2>4. Flushed.content = run.partial
    BY <1>0, <2>3 DEF Rows
  <2>5. Greeting = IF run.partial = <<>> /\ conv.slice = <<>> THEN <<hello>> ELSE <<hello, snapshot>>
    BY <2>2, <2>4 DEF Greeting
  <2>6. hello \in Event /\ snapshot \in Event
    BY <1>0, EventsOK DEF Rows
  <2>7. \A v \in Text : /\ TextAfter(v, hello) = v
                        /\ TextAfter(v, snapshot) = IF run.partial # <<>> THEN run.partial ELSE v
    BY DEF TextAfter
  <2> HIDE DEF hello, snapshot, c
  <2>8. \A v \in Text : EndsIn(run.partial, TextAfter(v, snapshot))
    BY <1>0, <2>7, EndsInEmpty, EndsInSelf
  <2>9. c \in Text /\ <<>> \in Text /\ <<>> \in Seq(Event) /\ Covers(<<>>, c, <<>>)
    <3>1. c \in Text /\ <<>> \in Text
      BY <1>0 DEF c, Text
    <3> QED BY <3>1, EndsInEmpty, CoversNothing
  <2>10. Covers(<<>>, c, Append(<<>>, hello))
    BY <2>6, <2>7, <2>9, CoversMore
  <2>11. /\ <<hello>> \in Seq(Event)
         /\ Append(<<>>, hello) = <<hello>>
         /\ Append(<<hello>>, snapshot) = <<hello, snapshot>>
    <3>1. <<hello>> \in Seq(Event)
      BY <2>6
    <3>2. Append(<<>>, hello) = <<hello>>
      OBVIOUS
    <3>3. Append(<<hello>>, snapshot) = <<hello, snapshot>>
      BY <2>6, AppendPair
    <3> QED BY <3>1, <3>2, <3>3
  <2>12. Covers(run.partial, c, <<hello, snapshot>>)
    <3>1. Covers(<<>>, c, <<hello>>)
      BY <2>10, <2>11
    <3>2. Covers(run.partial, c, Append(<<hello>>, snapshot))
      BY <1>0, <2>6, <2>8, <2>9, <2>11, <3>1, CoversMore
    <3> QED BY <2>11, <3>2
  <2> QED BY <2>1, <2>5, <2>10, <2>11, <2>12 DEF c
<1>11. ASSUME StreamBreaks \/ Answered PROVE FALSE
  <2>1. CASE es' = Connecting \/ es' = [NoStream EXCEPT !.st = "open"]
    BY <2>1 DEF Connecting, NoStream
  <2>2. CASE es' = [Connecting EXCEPT !.cut = es.q # <<>> /\ view.st = "done"]
    BY <2>2 DEF Connecting, NoStream
  <2>3. CASE es' = [es EXCEPT !.st = "none"]
    BY <1>0, <1>1, <2>3 DEF Streams
  <2> QED BY <1>11, <2>1, <2>2, <2>3 DEF StreamBreaks, Answered
<1>12. ASSUME PollLands \/ PollFails PROVE Covers(run'.partial, Last(turns').content, es'.q)
  <2>1. PICK p \in polls : Lands(p)
    BY <1>12 DEF PollLands, PollFails
  <2>2. run' = run /\ conv' = conv /\ post' = post
    BY <1>12 DEF PollLands, PollFails, server
  <2>3. turns' = TurnsAfter(p) /\ es' = es
    BY <1>1, <2>1, LandsOK DEF Inv, Connecting, NoStream
  <2>4. Last(turns') = IF Counts(p) THEN Polled(Last(turns), p.resp) ELSE Last(turns)
    BY <2>3, AfterOK DEF Inv
  <2>5. Counts(p) => p.resp \in Response /\ p.resp.st # "done"
    <3> SUFFICES ASSUME Counts(p) PROVE p.resp \in Response /\ p.resp.st # "done"
      OBVIOUS
    <3>1. p.resp \in Response
      BY DEF Counts, Inv, Shape, PollRecord
    <3>2. p.resp.st # "done"
      BY <1>1, <2>2 DEF Counts, IsStale, Inv, AnswerInv, DoneInv, Asking
    <3> QED BY <3>1, <3>2
  <2>6. Last(turns').content = Last(turns).content
    BY <1>0, <1>1, <2>3, <2>4, <2>5, PolledOK
  <2> QED BY <1>b, <2>2, <2>3, <2>6 DEF Asking
<1>13. ASSUME Approve \/ Refused \/ PostLost PROVE Covers(run'.partial, Last(turns').content, es'.q)
  <2>1. es' = es /\ run' = run /\ turns' = turns
    BY <1>13 DEF Approve, Refused, PostLost, server
  <2>2. ~Asking
    BY <1>13 DEF Approve, Refused, PostLost, Inv, ServerInv, Asking
  <2> QED BY <1>b, <2>1, <2>2
<1>14. ASSUME Send PROVE FALSE
  BY <1>14, ChatAssumption DEF Send, Asking, Request, Requests, ChatAssumption
<1>15. ASSUME Served PROVE Covers(run'.partial, Last(turns').content, es'.q)
  <2>1. post \in Requests /\ post # None
    BY <1>15 DEF Served, Inv, Shape
  <2>2. ~Asking
    <3> SUFFICES ASSUME post.k = "send" PROVE FALSE
      BY DEF Asking
    <3>1. post' = [post EXCEPT !.st = "served"]
      BY <1>15 DEF Served
    <3>2. post' \in Requests /\ post'.k = "send"
      BY <2>1, <3>1 DEF Requests
    <3> QED BY <3>2, ChatAssumption DEF Asking, ChatAssumption
  <2>3. CASE conv.st = "paused" /\ Resumes
    BY <1>5, <1>15, <2>2, <2>3 DEF Served
  <2>4. CASE UNCHANGED <<conv, run, es>>
    BY <1>b, <1>15, <2>2, <2>4 DEF Served
  <2> QED BY <1>15, <2>1, <2>2, <2>3, <2>4 DEF Served, Asking
<1>16. ASSUME ApprovedElsewhere PROVE Covers(run'.partial, Last(turns').content, es'.q)
  <2>1. conv.st = "paused" /\ Resumes /\ turns' = turns /\ post' = post
    BY <1>16 DEF ApprovedElsewhere, browser
  <2> QED BY <1>5, <2>1 DEF Asking
<1> QED BY <1>2, <1>3, <1>4, <1>6, <1>7, <1>8, <1>9, <1>10, <1>11, <1>12, <1>13, <1>14, <1>15, <1>16
        DEF Next, RunSteps, Follows

-----------------------------------------------------------------------------
(* Neither of two queues says done, so neither does their join.              *)
LEMMA JoinSays ==
  ASSUME NEW q \in Seq(Event), NEW evs \in Seq(Event),
         \A i \in DOMAIN q : ~SaysDone(q[i]), \A i \in DOMAIN evs : ~SaysDone(evs[i])
  PROVE  \A i \in DOMAIN (q \o evs) : ~SaysDone((q \o evs)[i])
<1> DEFINE r == q \o evs
<1>1. /\ r \in Seq(Event) /\ Len(r) = Len(q) + Len(evs)
      /\ \A i \in 1 .. Len(q) + Len(evs) : r[i] = IF i <= Len(q) THEN q[i] ELSE evs[i - Len(q)]
  BY ConcatProperties
<1> HIDE DEF r
<1>2. /\ Len(q) \in Nat /\ Len(evs) \in Nat /\ DOMAIN r = 1 .. Len(q) + Len(evs)
      /\ DOMAIN q = 1 .. Len(q) /\ DOMAIN evs = 1 .. Len(evs)
  BY <1>1, LenProperties
<1>3. ASSUME NEW i \in DOMAIN r PROVE ~SaysDone(r[i])
  <2>1. CASE i <= Len(q)
    <3>1. r[i] = q[i] /\ i \in DOMAIN q
      BY <1>1, <1>2, <2>1
    <3> QED BY <3>1
  <2>2. CASE i > Len(q)
    <3>1. r[i] = evs[i - Len(q)] /\ i - Len(q) \in DOMAIN evs
      BY <1>1, <1>2, <2>2
    <3> QED BY <3>1
  <2> QED BY <1>2, <2>1, <2>2
<1> QED BY <1>3 DEF r

(* The answer is kept.                                                       *)
LEMMA AnswerStep ==
  ASSUME Inv, Next, Shape', StreamInv'
  PROVE  AnswerInv'
<1> SUFFICES ASSUME ~Asking' PROVE DoneInv' /\ AnswerComes' /\ AnswerIsThere'
  BY DEF AnswerInv
<1>0. /\ conv \in Rows /\ run \in Runs /\ Latest(turns) /\ view \in Views /\ es \in Streams
      /\ es.q \in Seq(Event) /\ Last(turns) \in Turn /\ polls \subseteq PollRecord /\ pollEpoch \in Nat
  <2>1. conv \in Rows /\ run \in Runs /\ Latest(turns) /\ view \in Views /\ es \in Streams
        /\ Last(turns) \in Turn /\ polls \subseteq PollRecord /\ pollEpoch \in Nat
    BY ActiveIsLast DEF Inv, Shape
  <2> QED BY <2>1 DEF Streams
<1>a. ~Asking => DoneInv /\ AnswerComes /\ AnswerIsThere
  BY DEF Inv, AnswerInv
<1>b. conv.st = "done" => conv.content # <<>> /\ conv.content \in Text
  BY <1>0 DEF Inv, ServerInv, Rows
(* Steps that leave the browser's turn and the row's answer alone.           *)
<1>c. ASSUME ~Asking, turns' = turns, view'.st = view.st, es' = es, pollEpoch' = pollEpoch,
             conv'.st = conv.st, conv.st = "done" => conv'.content = conv.content,
             \A p \in polls' : p \in polls \/ p.resp = None
      PROVE  DoneInv' /\ AnswerComes' /\ AnswerIsThere'
  <2>1. DoneInv'
    BY <1>a, <1>c DEF DoneInv
  <2>2. AnswerComes'
    BY <1>a, <1>c DEF AnswerComes, DoneInv, SaysDone
  <2>3. AnswerIsThere'
    BY <1>a, <1>c DEF AnswerIsThere
  <2> QED BY <2>1, <2>2, <2>3
(* Steps of a turn that is not done and does not become so.                  *)
<1>d. ASSUME ~Asking, turns' = turns, view' = view, polls' = polls, pollEpoch' = pollEpoch,
             conv.st # "done", conv'.st # "done",
             NEW evs \in Seq(Event), \A i \in DOMAIN evs : ~SaysDone(evs[i]),
             es'.q = (IF es.sub THEN es.q \o evs ELSE es.q)
      PROVE  DoneInv' /\ AnswerComes' /\ AnswerIsThere'
  <2>1. \A i \in DOMAIN es.q : ~SaysDone(es.q[i])
    BY <1>a, <1>d DEF DoneInv
  <2>2. \A i \in DOMAIN es'.q : ~SaysDone(es'.q[i])
    BY <1>0, <1>d, <2>1, JoinSays
  <2>3. DoneInv'
    BY <1>a, <1>d, <2>2 DEF DoneInv
  <2>4. AnswerComes'
    BY <2>2 DEF AnswerComes, SaysDone
  <2>5. AnswerIsThere'
    BY <1>d DEF AnswerIsThere
  <2> QED BY <2>3, <2>4, <2>5
<1>2. ASSUME Produce PROVE DoneInv' /\ AnswerComes' /\ AnswerIsThere'
  <2> DEFINE evs == <<[k |-> "delta", p |-> run.n + 1]>>
  <2>1. run.n + 1 \in Nat
    BY <1>0 DEF Runs
  <2>2. [k |-> "delta", p |-> run.n + 1] \in Event
    BY <2>1, EventsOK
  <2>3. evs \in Seq(Event) /\ \A i \in DOMAIN evs : ~SaysDone(evs[i])
    BY <2>2 DEF SaysDone
  <2>4. /\ Emit(evs) /\ turns' = turns /\ view' = view /\ polls' = polls /\ pollEpoch' = pollEpoch
        /\ post' = post /\ conv.st = "running" /\ conv'.st = "running"
    BY <1>0, <1>2 DEF Produce, browser, Running, Rows
  <2> HIDE DEF evs
  <2> QED BY <1>0, <1>d, <2>3, <2>4, EmitOK DEF Asking
<1>3. ASSUME RoundEnds PROVE DoneInv' /\ AnswerComes' /\ AnswerIsThere'
  <2> DEFINE evs == <<[k |-> "step", p |-> run.partial]>>
  <2>2. [k |-> "step", p |-> run.partial] \in Event
    BY <1>0, EventsOK DEF Runs
  <2>3. evs \in Seq(Event) /\ \A i \in DOMAIN evs : ~SaysDone(evs[i])
    BY <2>2 DEF SaysDone
  <2>4. /\ Emit(evs) /\ turns' = turns /\ view' = view /\ polls' = polls /\ pollEpoch' = pollEpoch
        /\ post' = post /\ conv.st = "running" /\ conv'.st = "running"
    BY <1>0, <1>3 DEF RoundEnds, browser, Running, Rows
  <2> HIDE DEF evs
  <2> QED BY <1>0, <1>d, <2>3, <2>4, EmitOK DEF Asking
<1>4. ASSUME Pause PROVE DoneInv' /\ AnswerComes' /\ AnswerIsThere'
  <2> DEFINE evs == <<Paused(conv'.ask), End>>
  <2>2. Paused(conv'.ask) \in Event /\ End \in Event
    BY EventsOK DEF Shape, Rows
  <2>3. evs \in Seq(Event) /\ \A i \in DOMAIN evs : ~SaysDone(evs[i])
    BY <2>2 DEF SaysDone, Paused, End
  <2>4. /\ Emit(evs) /\ turns' = turns /\ view' = view /\ polls' = polls /\ pollEpoch' = pollEpoch
        /\ post' = post /\ conv.st = "running" /\ conv'.st = "paused"
    BY <1>0, <1>4 DEF Pause, browser, Running, Rows
  <2> HIDE DEF evs
  <2> QED BY <1>0, <1>d, <2>3, <2>4, EmitOK DEF Asking
<1>5. ASSUME Resumes, conv.st = "paused", ~Asking, turns' = turns, view' = view, polls' = polls,
             pollEpoch' = pollEpoch
      PROVE  DoneInv' /\ AnswerComes' /\ AnswerIsThere'
  <2> DEFINE evs == <<Status("running")>>
  <2>2. Status("running") \in Event
    BY EventsOK DEF Statuses
  <2>3. evs \in Seq(Event) /\ \A i \in DOMAIN evs : ~SaysDone(evs[i])
    BY <2>2 DEF SaysDone, Status
  <2>4. Emit(evs) /\ conv'.st = "running"
    BY <1>0, <1>5 DEF Resumes, Rows
  <2> HIDE DEF evs
  <2> QED BY <1>0, <1>d, <1>5, <2>3, <2>4, EmitOK
<1>6. ASSUME Fail \/ Cancel PROVE DoneInv' /\ AnswerComes' /\ AnswerIsThere'
  <2>1. PICK s \in {"failed", "cancelled"} : EmitLast(<<Status(s), End>>) /\ conv'.st = s
    <3>1. CASE Fail
      BY <1>0, <3>1 DEF Fail, Rows
    <3>2. CASE Cancel
      BY <1>0, <3>2 DEF Cancel, Rows
    <3> QED BY <1>6, <3>1, <3>2
  <2> DEFINE evs == <<Status(s), End>>
  <2>2. Status(s) \in Event /\ End \in Event
    BY EventsOK DEF Statuses, Terminal
  <2>3. evs \in Seq(Event) /\ \A i \in DOMAIN evs : ~SaysDone(evs[i])
    BY <2>2 DEF SaysDone, Status, End
  <2>4. /\ turns' = turns /\ view' = view /\ polls' = polls /\ pollEpoch' = pollEpoch
        /\ post' = post /\ conv.st \in {"running", "paused"}
    BY <1>6 DEF Fail, Cancel, browser, Running
  <2>5. EmitLast(evs) /\ conv'.st # "done"
    BY <2>1
  <2> HIDE DEF evs
  <2> QED BY <1>0, <1>d, <2>3, <2>4, <2>5, EmitLastOK DEF Asking
<1>7. ASSUME CancelledRunLeaves \/ Steer PROVE DoneInv' /\ AnswerComes' /\ AnswerIsThere'
  <2>1. /\ turns' = turns /\ view' = view /\ polls' = polls /\ pollEpoch' = pollEpoch /\ post' = post
        /\ es' = es /\ conv'.st = conv.st /\ conv'.content = conv.content
    BY <1>0, <1>7 DEF CancelledRunLeaves, Steer, browser, Rows
  <2> QED BY <1>c, <2>1 DEF Asking
<1>8. ASSUME Ticks \/ StreamBreaks \/ Refused \/ Approve \/ PostLost
      PROVE  /\ ~Asking /\ turns' = turns /\ view'.st = view.st /\ pollEpoch' = pollEpoch /\ conv' = conv
             /\ \A p \in polls' : p \in polls \/ p.resp = None
  <2>1. conv' = conv /\ turns' = turns /\ pollEpoch' = pollEpoch
    BY <1>8 DEF Ticks, StreamBreaks, Refused, Approve, PostLost, server
  <2>2. view'.st = view.st
    BY <1>0, <1>8 DEF Ticks, StreamBreaks, Refused, Approve, PostLost, Views
  <2>3. \A p \in polls' : p \in polls \/ p.resp = None
    <3>1. \A then, ask : PollFor(then, ask).resp = None
      BY DEF PollFor
    <3>2. CASE Ticks \/ StreamBreaks
      <4>1. \E x : x.resp = None /\ polls' \subseteq polls \union {x}
        BY <3>1, <3>2 DEF Ticks, StreamBreaks, Poll
      <4> QED BY <4>1
    <3>3. CASE Refused
      BY <3>1, <3>3 DEF Refused
    <3>4. CASE Approve \/ PostLost
      BY <3>4 DEF Approve, PostLost
    <3> QED BY <1>8, <3>2, <3>3, <3>4
  <2>4. ~Asking
    BY <1>8 DEF Ticks, StreamBreaks, Refused, Approve, PostLost, Asking, Inv, ServerInv
  <2> QED BY <2>1, <2>2, <2>3, <2>4
<1>9. ASSUME Ticks \/ Refused \/ Approve \/ PostLost PROVE DoneInv' /\ AnswerComes' /\ AnswerIsThere'
  <2>1. es' = es
    BY <1>9 DEF Ticks, Refused, Approve, PostLost
  <2> QED BY <1>c, <1>8, <1>9, <2>1
<1>10. ASSUME StreamBreaks PROVE DoneInv' /\ AnswerComes' /\ AnswerIsThere'
  <2>1. /\ ~Asking /\ turns' = turns /\ view'.st = view.st /\ pollEpoch' = pollEpoch /\ conv' = conv
        /\ \A p \in polls' : p \in polls \/ p.resp = None
    BY <1>8, <1>10
  <2>2. /\ es'.q = <<>> /\ DOMAIN es'.q = {}
        /\ ~es'.cut /\ view.st = "done" => ~es.cut /\ es.q = <<>>
    <3>1. CASE es.st = "open" /\ es' = [Connecting EXCEPT !.cut = es.q # <<>> /\ view.st = "done"]
      <4>1. es'.q = <<>> /\ DOMAIN es'.q = {}
        BY <3>1 DEF Connecting, NoStream
      <4>3. es'.cut <=> (es.q # <<>> /\ view.st = "done")
        BY <3>1 DEF Connecting, NoStream
      <4>2. ~es.cut
        BY <3>1 DEF Inv, StreamInv
      <4> QED BY <4>1, <4>2, <4>3
    <3>2. CASE es.sub /\ es.q = <<>> /\ es' = [NoStream EXCEPT !.st = "open"]
      BY <3>2 DEF NoStream, Inv, StreamInv
    <3>3. CASE es.st = "connecting" /\ es' = [es EXCEPT !.st = "none"]
      BY <1>0, <3>3 DEF Inv, StreamInv, Streams
    <3> QED BY <1>10, <3>1, <3>2, <3>3 DEF StreamBreaks
  <2>3. DoneInv'
    BY <1>a, <2>1, <2>2 DEF DoneInv
  <2>4. AnswerComes'
    BY <2>2 DEF AnswerComes
  <2>5. AnswerIsThere'
    BY <1>a, <2>1, <2>2 DEF AnswerIsThere
  <2> QED BY <2>3, <2>4, <2>5
<1>11. ASSUME PollRead PROVE DoneInv' /\ AnswerComes' /\ AnswerIsThere'
  <2> DEFINE r == [st |-> conv.st, ask |-> conv.ask, content |-> conv.content, trace |-> conv.slice]
  <2>1. PICK p \in polls : polls' = (polls \ {p}) \union {[p EXCEPT !.resp = r]}
    BY <1>11 DEF PollRead
  <2>2. /\ turns' = turns /\ view' = view /\ pollEpoch' = pollEpoch /\ post' = post /\ es' = es /\ conv' = conv
    BY <1>11 DEF PollRead, server, browser
  <2>3. [p EXCEPT !.resp = r].resp = r /\ r.st = conv.st /\ r.content = conv.content
    BY <1>0 DEF PollRecord
  <2> HIDE DEF r
  <2>4. DoneInv'
    BY <1>a, <2>1, <2>2, <2>3 DEF DoneInv, Asking
  <2>5. AnswerComes' /\ AnswerIsThere'
    BY <1>a, <2>2 DEF AnswerComes, AnswerIsThere, Asking
  <2> QED BY <2>4, <2>5
<1>12. ASSUME Send PROVE FALSE
  BY <1>12, ChatAssumption DEF Send, Asking, Request, Requests, ChatAssumption
<1>13. ASSUME Answered PROVE DoneInv' /\ AnswerComes' /\ AnswerIsThere'
  <2>1. /\ view'.st = "running" /\ es'.q = <<>> /\ pollEpoch' = pollEpoch + 1 /\ polls' = polls
        /\ DOMAIN es'.q = {}
    BY <1>0, <1>13 DEF Answered, Connecting, NoStream, Views
  <2>2. \A p \in polls : p.epoch # pollEpoch'
    <3> SUFFICES ASSUME NEW p \in polls PROVE p.epoch # pollEpoch + 1
      BY <2>1
    <3>1. p.epoch <= pollEpoch /\ p.epoch \in Nat
      BY <1>0 DEF Inv, PollRecord
    <3> QED BY <1>0, <3>1
  <2> QED BY <2>1, <2>2 DEF DoneInv, AnswerComes, AnswerIsThere
<1>14. ASSUME Served PROVE DoneInv' /\ AnswerComes' /\ AnswerIsThere'
  <2>1. post \in Requests /\ post # None
    BY <1>14 DEF Served, Inv, Shape
  <2>2. ~Asking
    <3> SUFFICES ASSUME post.k = "send" PROVE FALSE
      BY DEF Asking
    <3>1. post' = [post EXCEPT !.st = "served"]
      BY <1>14 DEF Served
    <3>2. post' \in Requests /\ post'.k = "send"
      BY <2>1, <3>1 DEF Requests
    <3> QED BY <3>2, ChatAssumption DEF Asking, ChatAssumption
  <2>3. turns' = turns /\ view' = view /\ polls' = polls /\ pollEpoch' = pollEpoch
    BY <1>14 DEF Served
  <2>4. CASE conv.st = "paused" /\ Resumes
    BY <1>5, <2>2, <2>3, <2>4
  <2>5. CASE UNCHANGED <<conv, run, es>>
    BY <1>c, <2>2, <2>3, <2>5
  <2> QED BY <1>14, <2>1, <2>2, <2>4, <2>5 DEF Served, Asking
<1>15. ASSUME ApprovedElsewhere PROVE DoneInv' /\ AnswerComes' /\ AnswerIsThere'
  <2>1. /\ conv.st = "paused" /\ Resumes /\ turns' = turns /\ post' = post /\ view' = view /\ polls' = polls
        /\ pollEpoch' = pollEpoch
    BY <1>15 DEF ApprovedElsewhere, browser
  <2> QED BY <1>5, <2>1 DEF Asking
<1>16. ASSUME Connect PROVE DoneInv' /\ AnswerComes' /\ AnswerIsThere'
  <2>1. /\ es' = [st |-> "open", q |-> Greeting, sub |-> conv.st = "running", cut |-> FALSE]
        /\ turns' = turns /\ view' = view /\ polls' = polls /\ pollEpoch' = pollEpoch /\ post' = post
        /\ conv'.st = conv.st /\ (conv.st = "done" => conv'.content = conv.content)
    BY <1>0, <1>16 DEF Connect, NoStream, browser, Flushed, Running, Rows
  <2>2. /\ es'.q # <<>> /\ es'.q[1].k = "hello"
        /\ \A i \in DOMAIN es'.q : SaysDone(es'.q[i]) => conv.st = "done"
        /\ conv.st = "done" => \A i \in DOMAIN es'.q :
             es'.q[i].k = "status" => i = 3 /\ Brings(es'.q[2], conv.content)
    BY <2>1, GreetingOK DEF Inv
  <2>3. DoneInv'
    BY <1>a, <2>1, <2>2 DEF DoneInv, Asking
  <2>4. AnswerComes'
    BY <2>1, <2>2 DEF AnswerComes, SaysDone
  <2>5. AnswerIsThere'
    BY <2>2 DEF AnswerIsThere
  <2> QED BY <2>3, <2>4, <2>5
<1>17. ASSUME Finish PROVE DoneInv' /\ AnswerComes' /\ AnswerIsThere'
  <2> DEFINE evs == <<[k |-> "step", p |-> run.partial], Status("done"), End>>
             m == Len(es.q)
  <2>1. /\ EmitLast(evs) /\ turns' = turns /\ view' = view /\ polls' = polls /\ pollEpoch' = pollEpoch
        /\ post' = post /\ conv.st = "running" /\ conv'.st = "done" /\ conv'.content = run.partial
    BY <1>0, <1>17 DEF Finish, browser, Running, Rows
  <2>2. ~Asking /\ view.st # "done" /\ \A i \in DOMAIN es.q : ~SaysDone(es.q[i])
    BY <1>a, <2>1 DEF DoneInv, Asking
  <2>3. evs \in Seq(Event)
    <3>1. [k |-> "step", p |-> run.partial] \in Event /\ Status("done") \in Event /\ End \in Event
      BY <1>0, EventsOK DEF Runs, Statuses, Terminal
    <3> QED BY <3>1
  <2>4. /\ Len(evs) = 3 /\ Brings(evs[1], run.partial) /\ evs[1].k = "step"
        /\ evs[2].k = "status" /\ evs[2].st = "done" /\ evs[3].k = "end"
    BY DEF Status, End, Brings
  <2> HIDE DEF evs
  <2>5. es'.q = IF es.sub THEN es.q \o evs ELSE es.q
    BY <1>0, <2>1, <2>3, EmitLastOK
  <2>6. DoneInv'
    BY <1>a, <2>1, <2>2 DEF DoneInv, Asking
  <2>7. AnswerComes'
    <3> SUFFICES ASSUME NEW i \in DOMAIN es'.q, es'.q[i].k = "status", es'.q[i].st = "done"
                 PROVE  i # 1 /\ Brings(es'.q[i - 1], conv'.content)
      BY DEF AnswerComes
    <3>1. es.sub /\ es'.q = es.q \o evs
      BY <2>2, <2>5 DEF SaysDone
    <3> DEFINE r == es.q \o evs
    <3>2. /\ r \in Seq(Event) /\ Len(r) = m + Len(evs)
          /\ \A j \in 1 .. m + Len(evs) : r[j] = IF j <= m THEN es.q[j] ELSE evs[j - m]
      BY <1>0, <2>3, ConcatProperties
    <3>3. m \in Nat /\ DOMAIN r = 1 .. m + 3 /\ DOMAIN es.q = 1 .. m
      BY <1>0, <2>4, <3>2, LenProperties
    <3>4. es'.q = r
      BY <3>1
    <3> HIDE DEF r, m
    <3>5. ~ i <= m
      <4> SUFFICES ASSUME i <= m PROVE FALSE
        OBVIOUS
      <4>1. i \in DOMAIN es.q /\ r[i] = es.q[i]
        BY <2>4, <3>2, <3>3, <3>4
      <4> QED BY <2>2, <3>4, <4>1 DEF SaysDone
    <3>6. i \in {m + 1, m + 2, m + 3}
      BY <3>3, <3>4, <3>5
    <3>7. r[m + 1] = evs[1] /\ r[m + 3] = evs[3]
      BY <2>4, <3>2, <3>3
    <3>8. i = m + 2
      BY <2>4, <3>4, <3>6, <3>7
    <3>9. i # 1 /\ es'.q[i - 1] = evs[1]
      BY <3>3, <3>4, <3>7, <3>8
    <3> QED BY <2>1, <2>4, <3>9
  <2>8. AnswerIsThere'
    BY <2>1, <2>2 DEF AnswerIsThere
  <2> QED BY <2>6, <2>7, <2>8
<1>18. ASSUME Receive PROVE DoneInv' /\ AnswerComes' /\ AnswerIsThere'
  <2> DEFINE e == Head(es.q)
             a == conv.content
             t == Tail(es.q)
  <2>1. /\ e \in Event /\ e = es.q[1] /\ 1 \in DOMAIN es.q /\ es.q # <<>>
        /\ t \in Seq(Event) /\ Len(es.q) \in Nat /\ Len(t) = Len(es.q) - 1
        /\ DOMAIN es.q = 1 .. Len(es.q) /\ DOMAIN t = 1 .. Len(es.q) - 1
        /\ \A i \in 1 .. Len(es.q) - 1 : t[i] = es.q[i + 1]
    <3>1. es.q # <<>>
      BY <1>18 DEF Receive
    <3>2. e \in Event /\ t \in Seq(Event) /\ Len(t) = Len(es.q) - 1
          /\ \A i \in 1 .. Len(t) : t[i] = es.q[i + 1]
      BY <1>0, <3>1, HeadTailProperties
    <3> HIDE DEF t
    <3> QED BY <1>0, <3>1, <3>2, LenProperties, EmptySeq
  <2>2. /\ turns' = Applied(turns, e) /\ conv' = conv /\ post' = post /\ view' = Hears(e)
        /\ pollEpoch' = pollEpoch /\ es.st = "open"
        /\ \A p \in polls' : p \in polls \/ p.resp = None
    BY <1>18 DEF Receive, server, Poll, PollFor
  <2>3. ~Asking /\ DoneInv /\ AnswerComes /\ AnswerIsThere
    BY <1>a, <2>2 DEF Asking
  <2>4. es' = IF IsTerminal(e) \/ e.k = "end" THEN NoStream ELSE [es EXCEPT !.q = Tail(@)]
    BY <1>18 DEF Receive
  <2>5. es'.q = IF IsTerminal(e) \/ e.k = "end" THEN <<>> ELSE t
    BY <1>0, <2>4 DEF Streams, NoStream
  <2> HIDE DEF e, t
  <2>6. Last(turns') = Reduced(Last(turns), e)
    BY <1>0, <2>1, <2>2, AppliedOK
  <2>7. view'.st = IF e.k \in {"hello", "status"} THEN e.st ELSE view.st
    BY <1>0, <2>1, <2>2, HearsOK
  <2>8. /\ SaysDone(e) => conv.st = "done"
        /\ e.k = "status" /\ e.st = "done" => HasAnswer(Last(turns), a)
    BY <2>1, <2>3 DEF DoneInv, AnswerComes
  <2>9. conv.st = "done" => a # <<>> /\ a \in Text
    BY <1>b
  <2> HIDE DEF a
  <2>10. CASE IsTerminal(e) \/ e.k = "end"
    <3>1. es'.q = <<>> /\ DOMAIN es'.q = {}
      BY <2>5, <2>10
    <3>2. DoneInv'
      BY <2>2, <2>3, <2>7, <2>8, <3>1 DEF DoneInv, SaysDone
    <3>3. AnswerComes'
      BY <3>1 DEF AnswerComes
    <3>4. AnswerIsThere'
      <4> SUFFICES ASSUME conv'.st = "done", view'.st = "done", Last(turns').st = "done"
                   PROVE  Shown(Last(turns')) = a
        BY <2>2 DEF AnswerIsThere, a
      <4>1. CASE e.k = "end"
        <5>1. Last(turns') = Last(turns) /\ view.st = "done" /\ es.q[1].k = "end"
          BY <1>0, <2>1, <2>6, <2>7, <4>1, ReducedOK
        <5>2. ~es.cut
          BY <2>2 DEF Inv, StreamInv
        <5> QED BY <2>2, <2>3, <5>1, <5>2 DEF AnswerIsThere, a
      <4>2. CASE e.k # "end"
        <5>1. e.k = "status" /\ e.st = "done"
          BY <2>7, <2>10, <4>2 DEF IsTerminal
        <5>2. HasAnswer(Last(turns), a) /\ a # <<>> /\ a \in Text
          BY <2>2, <2>8, <2>9, <5>1
        <5>3. Last(turns') = Done(Last(turns))
          BY <1>0, <2>1, <2>6, <5>1, ReducedOK
        <5> QED BY <1>0, <5>2, <5>3, DoneOK
      <4> QED BY <4>1, <4>2
    <3> QED BY <3>2, <3>3, <3>4
  <2>11. CASE ~(IsTerminal(e) \/ e.k = "end")
    <3>1. es'.q = t /\ es'.cut = es.cut
      BY <1>0, <2>4, <2>5, <2>11 DEF Streams
    <3>2. \A i \in DOMAIN t : i + 1 \in DOMAIN es.q /\ t[i] = es.q[i + 1]
      BY <2>1
    <3>3. DoneInv'
      BY <2>2, <2>3, <2>7, <2>8, <3>1, <3>2 DEF DoneInv, SaysDone
    <3>4. AnswerComes'
      <4> SUFFICES ASSUME NEW i \in DOMAIN t, t[i].k = "status", t[i].st = "done"
                   PROVE  IF i = 1 THEN HasAnswer(Last(turns'), a) ELSE Brings(t[i - 1], a)
        BY <2>2, <3>1 DEF AnswerComes, a
      <4>1. i \in Nat /\ i + 1 \in DOMAIN es.q /\ i + 1 # 1 /\ (i + 1) - 1 = i /\ es.q[i + 1] = t[i]
        BY <2>1, <3>2
      <4>2. Brings(es.q[i], a)
        BY <2>3, <4>1 DEF AnswerComes, a
      <4>3. CASE i = 1
        <5>1. Brings(e, a)
          BY <2>1, <4>2, <4>3
        <5>2. conv.st = "done"
          BY <2>3, <4>1 DEF DoneInv, SaysDone
        <5>3. HasAnswer(Reduced(Last(turns), e), a)
          BY <1>0, <2>1, <2>9, <5>1, <5>2, ReducedOK
        <5> QED BY <2>6, <4>3, <5>3
      <4>4. CASE i # 1
        <5>1. i - 1 \in DOMAIN t /\ (i - 1) + 1 = i
          BY <2>1, <4>4
        <5>2. t[i - 1] = es.q[i]
          BY <3>2, <5>1
        <5> QED BY <4>2, <4>4, <5>2
      <4> QED BY <4>3, <4>4
    <3>5. AnswerIsThere'
      <4> SUFFICES ASSUME conv.st = "done", view'.st = "done", t = <<>> \/ t[1].k = "end"
                   PROVE  FALSE
        BY <2>2, <3>1 DEF AnswerIsThere
      <4>1. ~es.sub
        BY DEF Inv, StreamInv
      <4>2. es.q[Len(es.q)].k = "end"
        BY <2>1, <4>1 DEF Inv, StreamInv
      <4>3. CASE t = <<>>
        <5>1. Len(es.q) = 1
          BY <2>1, <4>3
        <5> QED BY <2>1, <2>11, <4>2, <5>1
      <4>4. CASE t # <<>> /\ t[1].k = "end"
        <5>1. Len(t) # 0
          BY <2>1, <4>4, EmptySeq
        <5>2. 1 \in DOMAIN t
          <6>1. Len(es.q) >= 1 /\ Len(es.q) - 1 # 0
            BY <2>1, <5>1
          <6>2. Len(es.q) \in Nat /\ DOMAIN t = 1 .. Len(es.q) - 1
            BY <2>1
          <6>3. 1 \in 1 .. Len(es.q) - 1
            <7>1. \A n \in Nat : n >= 1 /\ n - 1 # 0 => 1 \in 1 .. n - 1
              OBVIOUS
            <7> QED BY <6>1, <6>2, <7>1
          <6> QED BY <6>2, <6>3
        <5>2a. 2 \in DOMAIN es.q /\ t[1] = es.q[2]
          BY <3>2, <5>2
        <5>3. Closing(e)
          BY <2>1, <4>4, <5>2a DEF Inv, StreamInv
        <5>4. e.k = "status" /\ e.st = "paused"
          BY <2>11, <5>3 DEF Closing, IsTerminal
        <5> QED BY <2>7, <5>4
      <4> QED BY <4>3, <4>4
    <3> QED BY <3>3, <3>4, <3>5
  <2> QED BY <2>10, <2>11
<1>19. ASSUME PollLands \/ PollFails PROVE DoneInv' /\ AnswerComes' /\ AnswerIsThere'
  <2>1. PICK p \in polls : Lands(p)
    BY <1>19 DEF PollLands, PollFails
  <2>2. conv' = conv /\ post' = post /\ pollEpoch' = pollEpoch
    BY <1>19 DEF PollLands, PollFails, server
  <2>3. ~Asking /\ DoneInv /\ AnswerComes /\ AnswerIsThere
    BY <1>a, <2>2 DEF Asking
  <2>4. /\ turns' = TurnsAfter(p) /\ view'.st = IF Counts(p) THEN p.resp.st ELSE view.st
        /\ Last(turns') = IF Counts(p) THEN Polled(Last(turns), p.resp) ELSE Last(turns)
        /\ polls' \subseteq polls \union {Poll("nothing")}
        /\ es' = es \/ (es' = Connecting /\ view'.st = "running")
    BY <2>1, LandsOK, AfterOK DEF Inv
  <2>5. \A x \in polls' : x \in polls \/ x.resp = None
    BY <2>4 DEF Poll, PollFor
  <2>6. Counts(p) => /\ p.resp \in Response
                     /\ p.resp.st = "done" => conv.st = "done" /\ p.resp.content = conv.content
    BY <1>0, <2>3 DEF Counts, IsStale, DoneInv, PollRecord
  <2>7. es' = es \/ (es'.q = <<>> /\ DOMAIN es'.q = {} /\ view'.st = "running")
    BY <2>4 DEF Connecting, NoStream
  <2>8. DoneInv'
    <3>1. view'.st = "done" => conv.st = "done"
      BY <2>3, <2>4, <2>6 DEF DoneInv
    <3>2. \A i \in DOMAIN es'.q : SaysDone(es'.q[i]) => conv.st = "done"
      BY <2>3, <2>7 DEF DoneInv
    <3> QED BY <2>2, <2>3, <2>5, <3>1, <3>2 DEF DoneInv
  <2>9. AnswerComes'
    <3>1. CASE es'.q = <<>> /\ DOMAIN es'.q = {}
      BY <3>1 DEF AnswerComes
    <3>2. CASE es' = es
      <4> SUFFICES ASSUME 1 \in DOMAIN es.q, es.q[1].k = "status", es.q[1].st = "done"
                   PROVE  HasAnswer(Last(turns'), conv.content)
        BY <2>2, <2>3, <3>2 DEF AnswerComes
      <4>1. HasAnswer(Last(turns), conv.content)
        BY <2>3 DEF AnswerComes
      <4>2. es.st = "open"
        <5>1. es.q # <<>>
          OBVIOUS
        <5> QED BY <5>1 DEF Inv, StreamInv
      <4>3. CASE ~Counts(p)
        BY <2>4, <4>1, <4>3
      <4>4. CASE Counts(p) /\ p.resp.st # "done"
        <5>1. Last(turns') = Polled(Last(turns), p.resp) /\ p.resp \in Response
          BY <2>4, <2>6, <4>4
        <5>2. Last(turns').content = Last(turns).content /\ Last(turns').trace = Last(turns).trace
          BY <1>0, <4>2, <4>4, <5>1, PolledOK
        <5> QED BY <4>1, <5>2 DEF HasAnswer
      <4>5. CASE Counts(p) /\ p.resp.st = "done"
        <5>1. Last(turns') = Polled(Last(turns), p.resp) /\ p.resp \in Response
              /\ p.resp.content = conv.content
          BY <2>4, <2>6, <4>5
        <5> QED BY <1>0, <4>5, <5>1, PolledOK DEF HasAnswer
      <4> QED BY <4>3, <4>4, <4>5
    <3> QED BY <2>7, <3>1, <3>2
  <2>10. AnswerIsThere'
    <3>1. CASE view'.st # "done"
      BY <3>1 DEF AnswerIsThere
    <3>2. CASE ~Counts(p) /\ es' = es
      BY <2>2, <2>3, <2>4, <3>2 DEF AnswerIsThere
    <3>3. CASE Counts(p) /\ view'.st = "done"
      <4>1. p.resp.st = "done" /\ p.resp \in Response /\ p.resp.content = conv.content /\ conv.st = "done"
        BY <2>4, <2>6, <3>3
      <4>2. Shown(Last(turns')) = conv.content
        BY <1>0, <1>b, <2>4, <3>3, <4>1, PolledOK
      <4> QED BY <2>2, <4>2 DEF AnswerIsThere
    <3> QED BY <2>7, <3>1, <3>2, <3>3
  <2> QED BY <2>8, <2>9, <2>10
<1> QED BY <1>2, <1>3, <1>4, <1>6, <1>7, <1>9, <1>10, <1>11, <1>12, <1>13, <1>14, <1>15, <1>16, <1>17,
           <1>18, <1>19
        DEF Next, RunSteps, Follows

-----------------------------------------------------------------------------
LEMMA InvIsInvariant == Spec => []Inv
<1>1. Inv /\ [Next]_vars => Inv'
  <2> SUFFICES ASSUME Inv, [Next]_vars PROVE Inv'
    OBVIOUS
  <2>1. CASE UNCHANGED vars
    <3>1. Shape' /\ ServerInv' /\ StreamInv' /\ \A p \in polls' : p.epoch <= pollEpoch'
      BY <2>1 DEF Inv, vars, Shape, Latest, ServerInv, Asking, StreamInv
    <3>2. TextInv' /\ AnswerInv'
      BY <2>1 DEF Inv, vars, TextInv, AnswerInv, Asking, DoneInv, AnswerComes, AnswerIsThere
    <3> QED BY <3>1, <3>2 DEF Inv
  <2>2. CASE Next
    <3>1. Shape /\ ServerInv /\ StreamInv /\ \A p \in polls : p.epoch <= pollEpoch
      BY DEF Inv
    <3>2. conv' \in Rows /\ run' \in Runs /\ ServerInv'
      BY <2>2, <3>1, ServerStep
    <3>3. es' \in Streams /\ StreamInv'
      BY <2>2, <3>1, <3>2, StreamStep
    <3>4. Shape' /\ \A p \in polls' : p.epoch <= pollEpoch'
      BY <2>2, <3>1, <3>2, <3>3, ShapeStep
    <3>5. TextInv'
      BY <2>2, <3>3, <3>4, TextStep
    <3>6. AnswerInv'
      BY <2>2, <3>3, <3>4, AnswerStep
    <3> QED BY <3>2, <3>3, <3>4, <3>5, <3>6 DEF Inv
  <2> QED BY <2>1, <2>2
<1> QED BY InitOK, <1>1, PTL DEF Spec

(* However often a stream breaks and connects again, and whenever the run    *)
(* brings its row up to date: what has been sent to a stream makes of what   *)
(* is shown a text that ends in the whole text of the round.                 *)
THEOREM TextArrives == Spec => []NoTextLost
<1>1. Inv => NoTextLost
  <2> SUFFICES ASSUME Inv, es.sub, Running, post = None
               PROVE  IsSuffix(run.partial, Last(FoldLeft(Applied, turns, es.q)).content)
    BY DEF NoTextLost, ShowsTurns
  <2>1. /\ Latest(turns) /\ es.q \in Seq(Event) /\ run.partial \in Text
    BY DEF Inv, Shape, Streams, Runs
  <2>2. ~Asking
    BY DEF Asking
  <2>3. \A i \in DOMAIN es.q : ~SaysDone(es.q[i])
    BY <2>2 DEF Running, Inv, AnswerInv, DoneInv
  <2>4. PICK w : TextPath(w, Last(turns).content, es.q) /\ EndsIn(run.partial, w[Len(es.q)])
    BY <2>2 DEF Inv, TextInv, Covers
  <2>5. Last(Heard(turns, es.q)).content = w[Len(es.q)]
    BY <2>1, <2>3, <2>4, HeardText
  <2>6. w[Len(es.q)] \in Text
    BY <2>1, <2>4, LenProperties DEF TextPath
  <2>7. IsSuffix(run.partial, Last(Heard(turns, es.q)).content)
    BY <2>1, <2>4, <2>5, <2>6, EndsInIsSuffix
  <2> QED BY <2>7 DEF Heard
<1> QED BY InvIsInvariant, <1>1, PTL

(* Once all is quiet and the browser calls its turn done, it shows the       *)
(* answer, whichever way it came.                                            *)
THEOREM AnswerArrives == Spec => []AnswerShown
<1>1. Inv => AnswerShown
  BY DEF Inv, AnswerInv, AnswerIsThere, AnswerShown, Quiet, ShowsTurns, Asking
<1> QED BY InvIsInvariant, <1>1, PTL
=============================================================================
