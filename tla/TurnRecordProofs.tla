-------------------------- MODULE TurnRecordProofs --------------------------
(* Proofs about TurnRecord.                                                  *)
EXTENDS TurnRecord, SequenceTheorems, FiniteSetTheorems, TLAPS

InFlight == status \in Busy \/ run # None

(* Who runs in which status, and what a step may take for granted.           *)
StatusFits ==
  /\ status = "running" => run # None
  /\ run # None => status \in {"running", "cancelled"}
  /\ status = "paused" => run = None /\ saved # None
  /\ status # "done" => turn >= 1
QueueFits == run # None /\ run.pc \in {"tool", "exec"} => run.queue >= 1

TypeInv == TypeOK /\ IsFiniteSet(trace) /\ StatusFits /\ QueueFits

(* Behind the watermark there are only remarks: while a turn is in progress  *)
(* nothing else is appended.                                                 *)
ReadTo(c) ==
  /\ Len(c.ctx) <= Len(rows) /\ c.wm <= Len(rows)
  /\ ReadToWatermark(c)
  /\ \A i \in DOMAIN rows : i > c.wm => rows[i].kind = "steer"
ReadInv == (run # None => ReadTo(run)) /\ (status = "paused" => ReadTo(saved))

(* Of the rows of a turn one at most has events, the turn's own, and none    *)
(* has while the turn is in progress.                                        *)
TurnsApart(rs, t) ==
  /\ \A i \in DOMAIN rs : rs[i].turn <= t
  /\ \A i \in DOMAIN rs : \A e \in rs[i].events : e.turn = rs[i].turn
  /\ \A i, j \in DOMAIN rs :
       i # j /\ rs[i].turn = rs[j].turn => rs[i].events = {} \/ rs[j].events = {}
NoneStored(rs, t) == \A i \in DOMAIN rs : rs[i].turn = t => rs[i].events = {}
OnceInv ==
  /\ TurnsApart(rows, turn)
  /\ InFlight => NoneStored(rows, turn)
  /\ \A e \in trace : e.turn = turn
  /\ run # None => run.own \subseteq trace

(* While a turn is in progress its events are younger than the last row, or  *)
(* a remark came after them; a run that was not resumed has them all.        *)
Stored == UNION {rows[i].events : i \in DOMAIN rows}
Overtaken(e) == \E i \in DOMAIN rows : i > e.at /\ rows[i].kind = "steer"
KeptInv ==
  /\ \A e \in trace : e.at <= Len(rows)
  /\ run # None /\ run.kind = "run" => run.own = trace
  /\ InFlight => \A e \in trace : e \in fresh \/ Overtaken(e)
  /\ ~InFlight /\ ~dropped => \A e \in trace : e \in Stored \/ Overtaken(e)

-----------------------------------------------------------------------------
(* Rows and events.                                                          *)

(* A row appended leaves the others where they are.                          *)
LEMMA RowAdded ==
  ASSUME rows \in Seq(Row), NEW kind, NEW events
  PROVE  LET r == AddRow(rows, kind, events) IN
         /\ Len(rows) \in Nat /\ DOMAIN rows = 1..Len(rows)
         /\ Len(r) = Len(rows) + 1 /\ DOMAIN r = 1..Len(rows) + 1
         /\ \A i \in DOMAIN rows : i \in DOMAIN r /\ r[i] = rows[i]
         /\ r[Len(rows) + 1] = [kind |-> kind, events |-> events, turn |-> turn]
         /\ \A i \in DOMAIN r : i \in DOMAIN rows \/ i = Len(rows) + 1
BY DEF AddRow

LEMMA RowAddedOK ==
  ASSUME rows \in Seq(Row), turn \in 1..MaxTurns,
         NEW kind \in User \union {"answer"}, NEW events \in SUBSET Event
  PROVE  AddRow(rows, kind, events) \in Seq(Row)
<1>1. [kind |-> kind, events |-> events, turn |-> turn] \in Row
  BY DEF Row
<1> QED BY <1>1 DEF AddRow

LEMMA EmittedOK ==
  ASSUME TypeInv, run # None
  PROVE  /\ Emitted \in Event /\ IsFiniteSet(trace \union {Emitted})
         /\ turn \in 1..MaxTurns
         /\ Own \in SUBSET Event
<1>1. turn \in 1..MaxTurns
  BY DEF TypeInv, TypeOK, StatusFits
<1>2. Cardinality(trace) \in Nat
  BY FS_CardinalityType DEF TypeInv
<1>3. Emitted \in Event
  BY <1>1, <1>2 DEF Emitted, Event, TypeInv, TypeOK
<1>4. IsFiniteSet(trace \union {Emitted})
  BY FS_AddElement DEF TypeInv
<1>5. run.own \in SUBSET Event
  BY DEF TypeInv, TypeOK, Run
<1> QED BY <1>1, <1>3, <1>4, <1>5 DEF Own

(* What a run that leaves stores are events.                                 *)
LEMMA OfTurnOK ==
  ASSUME TypeInv, run # None
  PROVE  OfTurn \in SUBSET Event /\ fresh \in SUBSET Event
BY DEF TypeInv, TypeOK, OfTurn, Run

LEMMA KeepOK ==
  ASSUME TypeInv, status # "done", NEW text, NEW events \in SUBSET Event, Keep(text, events)
  PROVE  rows' \in Seq(Row) /\ fresh' \in SUBSET fresh
<1>1. turn \in 1..MaxTurns
  BY DEF TypeInv, TypeOK, StatusFits
<1>2. AddRow(rows, "answer", events) \in Seq(Row)
  BY <1>1, RowAddedOK DEF TypeInv, TypeOK
<1> QED BY <1>2 DEF Keep, TypeInv, TypeOK

-----------------------------------------------------------------------------
(* Types.                                                                    *)

LEMMA TypeInvInit == Init => TypeInv
<1> SUFFICES ASSUME Init PROVE TypeInv
  OBVIOUS
<1>1. IsFiniteSet(trace)
  BY FS_EmptySet DEF Init
<1>2. TypeOK
  <2>1. rows \in Seq(Row) /\ turn \in 0..MaxTurns /\ restarts \in 0..MaxRestarts
    BY RecordAssumption, EmptySeq DEF Init
  <2>2. content \in BOOLEAN /\ steer \in BOOLEAN /\ dropped \in BOOLEAN
    BY DEF Init
  <2> QED BY <2>1, <2>2 DEF Init, TypeOK
<1>3. StatusFits /\ QueueFits
  BY DEF Init, StatusFits, QueueFits
<1> QED BY <1>1, <1>2, <1>3 DEF TypeInv

LEMMA BeginType ==
  ASSUME TypeInv, NEW kept \in Seq(Row), Begin(kept)
  PROVE  TypeInv'
<1> USE RecordAssumption, NoneAssumption
<1>1. turn + 1 \in 1..MaxTurns
  BY DEF Begin, TypeInv, TypeOK
<1>2. run' \in Run
  <2>1. [i \in 1..Len(kept) |-> 1] \in Seq(Nat)
    BY IsASeq, LenProperties
  <2>2. Len(kept) \in Nat /\ 0 \in 0..MaxCalls
    BY LenProperties
  <2> QED BY <2>1, <2>2 DEF Begin, Run
<1>3. TypeOK'
  <2>1. rows' \in Seq(Row) /\ turn' \in 0..MaxTurns /\ restarts' \in 0..MaxRestarts
    BY <1>1 DEF Begin, TypeInv, TypeOK
  <2>2. content' \in BOOLEAN /\ steer' \in BOOLEAN /\ dropped' \in BOOLEAN
    BY DEF Begin, Reset, TypeInv, TypeOK
  <2> QED BY <1>2, <2>1, <2>2 DEF Begin, Reset, TypeOK, Busy
<1>4. IsFiniteSet(trace')
  BY FS_EmptySet DEF Begin, Reset
<1>5. StatusFits'
  <2>1. run' # None
    BY <1>2
  <2>2. turn' >= 1
    BY <1>1 DEF Begin
  <2> QED BY <2>1, <2>2 DEF Begin, StatusFits
<1>6. QueueFits'
  BY DEF Begin, QueueFits
<1> QED BY <1>3, <1>4, <1>5, <1>6 DEF TypeInv

(* The rows with which a turn begins.                                        *)
LEMMA KeptOK ==
  ASSUME TypeInv, turn < MaxTurns, NEW i \in Nat, i <= Len(rows)
  PROVE  /\ SubSeq(rows, 1, i) \in Seq(Row)
         /\ Append(SubSeq(rows, 1, i), AskRow) \in Seq(Row)
<1>1. AskRow \in Row
  BY RecordAssumption DEF AskRow, Row, User, TypeInv, TypeOK
<1>2. SubSeq(rows, 1, i) \in Seq(Row)
  BY SubSeqProperties DEF TypeInv, TypeOK
<1> QED BY <1>1, <1>2

LEMMA TurnsType == TypeInv /\ (Ask \/ Regenerate \/ \E i \in DOMAIN rows : Edit(i)) => TypeInv'
<1>0. TypeInv => rows \in Seq(Row) /\ DOMAIN rows = 1..Len(rows) /\ Len(rows) \in Nat
  BY DEF TypeInv, TypeOK
<1>1. TypeInv /\ Ask => TypeInv'
  <2> SUFFICES ASSUME TypeInv, Ask PROVE TypeInv'
    OBVIOUS
  <2>1. AskRow \in Row
    BY RecordAssumption DEF Ask, Begin, AskRow, Row, User, TypeInv, TypeOK
  <2>2. Append(rows, AskRow) \in Seq(Row)
    BY <2>1, <1>0
  <2> QED BY <2>2, BeginType DEF Ask
<1>2. TypeInv /\ Regenerate => TypeInv'
  <2> SUFFICES ASSUME TypeInv, NEW i \in DOMAIN rows, Begin(SubSeq(rows, 1, i)) PROVE TypeInv'
    BY DEF Regenerate
  <2>1. SubSeq(rows, 1, i) \in Seq(Row)
    BY <1>0, KeptOK DEF Begin
  <2> QED BY <2>1, BeginType
<1>3. TypeInv /\ (\E i \in DOMAIN rows : Edit(i)) => TypeInv'
  <2> SUFFICES ASSUME TypeInv, NEW i \in DOMAIN rows, Edit(i) PROVE TypeInv'
    OBVIOUS
  <2>1. i - 1 \in Nat /\ i - 1 <= Len(rows)
    BY <1>0
  <2>2. Append(SubSeq(rows, 1, i - 1), AskRow) \in Seq(Row)
    BY <2>1, KeptOK DEF Edit, Begin
  <2> QED BY <2>2, BeginType DEF Edit
<1> QED BY <1>1, <1>2, <1>3

(* A remark.                                                                 *)
LEMMA RemarksType == TypeInv /\ (SteerSent \/ SteerLands) => TypeInv'
<1>1. TypeInv /\ SteerSent => TypeInv'
  BY DEF SteerSent, TypeInv, TypeOK, StatusFits, QueueFits
<1>2. TypeInv /\ SteerLands => TypeInv'
  <2> SUFFICES ASSUME TypeInv, SteerLands PROVE TypeInv'
    OBVIOUS
  <2>1. rows' \in Seq(Row) /\ fresh' \in SUBSET fresh
    <3>1. CASE status \in Busy
      <4>1. turn \in 1..MaxTurns
        BY <3>1 DEF TypeInv, TypeOK, StatusFits, Busy
      <4>2. AddRow(rows, "steer", {}) \in Seq(Row)
        BY <4>1, RowAddedOK DEF TypeInv, TypeOK, User
      <4> QED BY <3>1, <4>2 DEF SteerLands
    <3>2. CASE status \notin Busy
      BY <3>2 DEF SteerLands, TypeInv, TypeOK
    <3> QED BY <3>1, <3>2
  <2> QED BY <2>1 DEF SteerLands, TypeInv, TypeOK, StatusFits, QueueFits
<1> QED BY <1>1, <1>2

(* A run leaves: it writes what it keeps, and a status of rest.              *)
LEMMA LeavesType ==
  ASSUME TypeInv, rows' \in Seq(Row), fresh' \in SUBSET trace', trace' \in SUBSET Event,
         IsFiniteSet(trace'), turn >= 1,
         status' \in {"done", "failed", "cancelled"}, content' \in BOOLEAN, run' = None,
         UNCHANGED <<saved, steer, turn, restarts, dropped>>
  PROVE  TypeInv'
<1>1. TypeOK'
  BY DEF TypeInv, TypeOK
<1> QED BY <1>1 DEF TypeInv, StatusFits, QueueFits

LEMMA CaughtType == TypeInv /\ run # None /\ Caught => TypeInv'
<1> SUFFICES ASSUME TypeInv, run # None, Caught PROVE TypeInv'
  OBVIOUS
<1>1. status \in {"running", "cancelled"} /\ turn >= 1
  BY DEF TypeInv, StatusFits
<1>2. rows' \in Seq(Row) /\ fresh' \in SUBSET fresh
  BY <1>1, OfTurnOK, KeepOK DEF Caught
<1>3. status' \in {"failed", "cancelled"} /\ content' \in BOOLEAN
  BY <1>1 DEF Caught, TypeInv, TypeOK
<1> QED BY <1>1, <1>2, <1>3, LeavesType DEF Caught, Leave, TypeInv, TypeOK

LEMMA EndsType ==
  TypeInv /\ (ChatFails \/ AbortNoticed \/ PauseTooLate \/ RoundAnswers) => TypeInv'
<1>1. TypeInv /\ (ChatFails \/ AbortNoticed) => TypeInv'
  BY CaughtType DEF ChatFails, AbortNoticed, Alive
<1>2. TypeInv /\ PauseTooLate => TypeInv'
  <2> SUFFICES ASSUME TypeInv, PauseTooLate PROVE TypeInv'
    OBVIOUS
  <2>1. run # None /\ status = "cancelled" /\ turn >= 1
    BY DEF PauseTooLate, Alive, Aborted, TypeInv, StatusFits
  <2>2. rows' \in Seq(Row) /\ fresh' \in SUBSET fresh
    BY <2>1, OfTurnOK, KeepOK DEF PauseTooLate
  <2> QED BY <2>1, <2>2, LeavesType DEF PauseTooLate, Leave, TypeInv, TypeOK
<1>3. TypeInv /\ RoundAnswers => TypeInv'
  <2> SUFFICES ASSUME TypeInv, RoundAnswers PROVE TypeInv'
    OBVIOUS
  <2>1. run # None /\ status \in {"running", "cancelled"} /\ turn >= 1
    BY DEF RoundAnswers, Alive, TypeInv, StatusFits
  <2>2. OfTurn \union {Emitted} \in SUBSET Event /\ trace' \in SUBSET Event /\ IsFiniteSet(trace')
    BY <2>1, OfTurnOK, EmittedOK DEF RoundAnswers, TypeInv, TypeOK
  <2>3. rows' \in Seq(Row)
    BY <2>1, <2>2, EmittedOK, RowAddedOK DEF RoundAnswers, TypeInv, TypeOK
  <2>4. status' \in {"done", "cancelled"} /\ content' \in BOOLEAN
    BY <2>1 DEF RoundAnswers, TypeInv, TypeOK, Aborted
  <2> QED BY <2>1, <2>2, <2>3, <2>4, LeavesType DEF RoundAnswers
<1> QED BY <1>1, <1>2, <1>3

(* A run with some of its fields changed.                                    *)
LEMMA RunPlaced ==
  ASSUME NEW r \in Run, NEW pc \in {"poll", "chat", "tool", "exec"}
  PROVE  [r EXCEPT !.pc = pc] \in Run /\ [r EXCEPT !.pc = pc].pc = pc
BY DEF Run

LEMMA RunField ==
  ASSUME NEW q \in Run
  PROVE  /\ \A v \in Nat : /\ [q EXCEPT !.steps = v] \in Run /\ [q EXCEPT !.steps = v].pc = q.pc
                          /\ [q EXCEPT !.wm = v] \in Run /\ [q EXCEPT !.wm = v].pc = q.pc
         /\ \A v \in Seq(Nat) : [q EXCEPT !.ctx = v] \in Run /\ [q EXCEPT !.ctx = v].pc = q.pc
         /\ \A v \in 0..MaxCalls : [q EXCEPT !.queue = v] \in Run /\ [q EXCEPT !.queue = v].queue = v
         /\ \A v \in SUBSET Event : [q EXCEPT !.own = v] \in Run /\ [q EXCEPT !.own = v].queue = q.queue
         /\ \A v \in BOOLEAN : [q EXCEPT !.partial = v] \in Run /\ [q EXCEPT !.partial = v].queue = q.queue
BY DEF Run

LEMMA RunPolled ==
  ASSUME NEW r \in Run, NEW steps \in Nat, NEW ctx \in Seq(Nat), NEW wm \in Nat
  PROVE  LET s == [r EXCEPT !.pc = "chat", !.steps = steps, !.ctx = ctx, !.wm = wm] IN
         s \in Run /\ s.pc = "chat"
<1> DEFINE a == [r EXCEPT !.pc = "chat"]
           b == [a EXCEPT !.steps = steps]
           c == [b EXCEPT !.ctx = ctx]
           d == [c EXCEPT !.wm = wm]
<1>0. [r EXCEPT !.pc = "chat", !.steps = steps, !.ctx = ctx, !.wm = wm] = d
  OBVIOUS
<1>1. a \in Run /\ a.pc = "chat"
  BY RunPlaced
<1> HIDE DEF a
<1>2. b \in Run /\ b.pc = "chat"
  BY <1>1, RunField
<1> HIDE DEF b
<1>3. c \in Run /\ c.pc = "chat"
  BY <1>2, RunField
<1> HIDE DEF c
<1>4. d \in Run /\ d.pc = "chat"
  BY <1>3, RunField
<1> QED BY <1>0, <1>4

LEMMA RunCalls ==
  ASSUME NEW r \in Run, NEW n \in 0..MaxCalls, NEW own \in SUBSET Event, NEW partial \in BOOLEAN
  PROVE  LET s == [r EXCEPT !.pc = "tool", !.queue = n, !.own = own, !.partial = partial] IN
         s \in Run /\ s.queue = n
<1> DEFINE a == [r EXCEPT !.pc = "tool"]
           b == [a EXCEPT !.queue = n]
           c == [b EXCEPT !.own = own]
           d == [c EXCEPT !.partial = partial]
<1>0. [r EXCEPT !.pc = "tool", !.queue = n, !.own = own, !.partial = partial] = d
  OBVIOUS
<1>1. a \in Run
  BY RunPlaced
<1> HIDE DEF a
<1>2. b \in Run /\ b.queue = n
  BY <1>1, RunField
<1> HIDE DEF b
<1>3. c \in Run /\ c.queue = n
  BY <1>2, RunField
<1> HIDE DEF c
<1>4. d \in Run /\ d.queue = n
  BY <1>3, RunField, Zenon
<1> QED BY <1>0, <1>4

(* A run goes on: its record changes, and the events and the checkpoint.     *)
LEMMA GoesOnType ==
  ASSUME TypeInv, run # None, run' \in Run, run'.pc \in {"tool", "exec"} => run'.queue >= 1,
         trace' \in SUBSET Event, fresh' \in SUBSET trace', IsFiniteSet(trace'), content' \in BOOLEAN,
         UNCHANGED <<rows, status, saved, steer, turn, restarts, dropped>>
  PROVE  TypeInv'
<1>1. run' # None
  BY NoneAssumption
<1>2. TypeOK'
  BY DEF TypeInv, TypeOK
<1> QED BY <1>1, <1>2 DEF TypeInv, StatusFits, QueueFits

(* So a poll reads all rows behind the watermark.                            *)
LastUnread == IF Unread = {} THEN run.wm ELSE CHOOSE i \in Unread : \A j \in Unread : j <= i

LEMMA UnreadIsTheRest ==
  ASSUME TypeInv, ReadInv, run # None
  PROVE  LastUnread = Len(rows) /\ Unread = {i \in DOMAIN rows : i > run.wm}
<1>1. run.wm \in Nat /\ Len(rows) \in Nat /\ DOMAIN rows = 1..Len(rows)
  BY DEF TypeInv, TypeOK, Run
<1>2. Unread = {i \in DOMAIN rows : i > run.wm} /\ run.wm <= Len(rows)
  BY DEF Unread, ReadInv, ReadTo
<1>3. CASE run.wm = Len(rows)
  <2>1. Unread = {}
    BY <1>1, <1>2, <1>3
  <2> QED BY <1>2, <1>3, <2>1 DEF LastUnread
<1>4. CASE run.wm # Len(rows)
  <2>1. Len(rows) \in Unread /\ \A j \in Unread : j \in Nat /\ j <= Len(rows)
    BY <1>1, <1>2, <1>4
  <2>2. \A i \in Unread : (\A j \in Unread : j <= i) => i = Len(rows)
    BY <1>1, <2>1
  <2>3. (CHOOSE i \in Unread : \A j \in Unread : j <= i) = Len(rows)
    BY <2>1, <2>2
  <2> QED BY <1>2, <2>1, <2>3 DEF LastUnread
<1> QED BY <1>3, <1>4

ReadNow == [i \in DOMAIN rows |-> Given(run, i) + (IF i \in Unread THEN 1 ELSE 0)]

LEMMA ReadNowOK ==
  ASSUME TypeInv, run # None
  PROVE  ReadNow \in Seq(Nat) /\ Len(ReadNow) = Len(rows)
<1>1. run.ctx \in Seq(Nat)
  BY DEF TypeInv, TypeOK, Run
<1>2. \A i \in DOMAIN rows : Given(run, i) \in Nat
  BY <1>1 DEF Given
<1>3. DOMAIN rows = 1..Len(rows) /\ Len(rows) \in Nat
  BY DEF TypeInv, TypeOK
<1>4. ReadNow \in [1..Len(rows) -> Nat]
  BY <1>2, <1>3 DEF ReadNow
<1> QED BY <1>3, <1>4

LEMMA PollRuns ==
  ASSUME TypeInv, ReadInv, Poll
  PROVE  run' = [run EXCEPT !.pc = "chat", !.steps = @ + 1, !.ctx = ReadNow, !.wm = Len(rows)]
BY UnreadIsTheRest DEF Poll, Alive, LastUnread, ReadNow

(* The run of a turn that goes on.                                           *)
LEMMA PollRun == TypeInv /\ ReadInv /\ Poll => run' \in Run /\ run'.pc = "chat"
<1> SUFFICES ASSUME TypeInv, ReadInv, Poll PROVE run' \in Run /\ run'.pc = "chat"
  OBVIOUS
<1>1. run # None /\ run \in Run /\ Len(rows) \in Nat
  BY DEF Poll, Alive, TypeInv, TypeOK
<1> DEFINE ctx == ReadNow
           wm == Len(rows)
<1>2. ctx \in Seq(Nat) /\ wm \in Nat
  BY <1>1, ReadNowOK
<1>3. run' = [run EXCEPT !.pc = "chat", !.steps = run.steps + 1, !.ctx = ctx, !.wm = wm]
  BY <1>1, PollRuns
<1>4. run.steps + 1 \in Nat
  BY <1>1 DEF Run
<1> HIDE DEF ctx, wm
<1>5. \A v \in Nat, c \in Seq(Nat), w \in Nat :
        LET s == [run EXCEPT !.pc = "chat", !.steps = v, !.ctx = c, !.wm = w] IN
        s \in Run /\ s.pc = "chat"
  BY <1>1, RunPolled
<1> QED BY <1>2, <1>3, <1>4, <1>5

LEMMA RoundCallsRun ==
  ASSUME TypeInv, NEW n \in 1..MaxCalls, RoundCalls(n)
  PROVE  run' \in Run /\ run'.queue = n
<1>1. run \in Run /\ run # None
  BY DEF RoundCalls, Alive, TypeInv, TypeOK
<1> DEFINE partial == run.partial /\ Aborted
           own == Own
<1>2. partial \in BOOLEAN /\ own \in SUBSET Event
  BY <1>1, EmittedOK
<1>3. run' = [run EXCEPT !.pc = "tool", !.queue = n, !.own = own, !.partial = partial]
  BY DEF RoundCalls
<1> HIDE DEF partial, own
<1>4. \A q \in 0..MaxCalls, o \in SUBSET Event, p \in BOOLEAN :
        LET s == [run EXCEPT !.pc = "tool", !.queue = q, !.own = o, !.partial = p] IN
        s \in Run /\ s.queue = q
  BY <1>1, RunCalls
<1>5. n \in 0..MaxCalls
  BY RecordAssumption
<1> QED BY <1>2, <1>3, <1>4, <1>5, Zenon

LEMMA CalledRun ==
  ASSUME TypeInv, Denied \/ ToolEnds
  PROVE  run' \in Run /\ (run'.pc \in {"tool", "exec"} => run'.queue >= 1)
<1>1. /\ run \in Run /\ run # None /\ run.queue >= 1
      /\ run' = Called([run EXCEPT !.own = Own])
  BY DEF Denied, ToolEnds, Alive, TypeInv, TypeOK, QueueFits
<1>2. Own \in SUBSET Event
  BY <1>1, EmittedOK
<1> DEFINE r == [run EXCEPT !.own = Own]
<1>3. r \in Run /\ r.queue >= 1
  BY <1>1, <1>2 DEF Run
<1>4. run' = Called(r)
  BY <1>1
<1> HIDE DEF r
<1>5. r.queue - 1 \in 0..MaxCalls /\ (r.queue = 1 \/ r.queue - 1 >= 1)
  BY <1>3, RecordAssumption DEF Run
<1> QED BY <1>3, <1>4, <1>5 DEF Called, Run

LEMMA TakenRun ==
  ASSUME TypeInv, Delta \/ ToolTaken
  PROVE  run' \in Run /\ (run'.pc \in {"tool", "exec"} => run'.queue >= 1)
<1>1. run \in Run /\ run # None /\ (run.pc = "tool" => run.queue >= 1)
  BY DEF Delta, ToolTaken, Alive, TypeInv, TypeOK, QueueFits
<1> QED BY <1>1 DEF Delta, ToolTaken, Alive, Run

LEMMA StepsType ==
  TypeInv /\ ReadInv
  /\ (Poll \/ Delta \/ (\E n \in 1..MaxCalls : RoundCalls(n)) \/ ToolTaken \/ Denied \/ ToolEnds)
    => TypeInv'
<1>0. TypeInv => /\ trace \in SUBSET Event /\ fresh \in SUBSET trace /\ IsFiniteSet(trace)
                 /\ content \in BOOLEAN
  BY DEF TypeInv, TypeOK
<1>1. ASSUME TypeInv, run # None, Emits
      PROVE  trace' \in SUBSET Event /\ IsFiniteSet(trace') /\ fresh' \in SUBSET trace'
  BY <1>0, <1>1, EmittedOK DEF Emits
<1>2. TypeInv /\ ReadInv /\ Poll => TypeInv'
  BY <1>0, PollRun, GoesOnType DEF Poll, Alive
<1>3. TypeInv /\ (Delta \/ ToolTaken) => TypeInv'
  <2> SUFFICES ASSUME TypeInv, Delta \/ ToolTaken PROVE TypeInv'
    OBVIOUS
  <2>1. /\ run # None /\ content' \in BOOLEAN
        /\ UNCHANGED <<rows, status, trace, fresh, saved, steer, turn, restarts, dropped>>
    BY <1>0 DEF Delta, ToolTaken, Alive
  <2> QED BY <2>1, <1>0, TakenRun, GoesOnType
<1>4. ASSUME TypeInv, NEW n \in 1..MaxCalls, RoundCalls(n) PROVE TypeInv'
  <2>1. content' \in BOOLEAN
    BY <1>4, <1>0 DEF RoundCalls
  <2>2. run' \in Run /\ run'.queue >= 1
    BY <1>4, RoundCallsRun
  <2>3. run # None /\ Emits /\ UNCHANGED <<rows, status, saved, steer, turn, restarts, dropped>>
    BY <1>4 DEF RoundCalls, Alive
  <2> QED BY <1>1, <1>4, <2>1, <2>2, <2>3, GoesOnType
<1>5. TypeInv /\ (Denied \/ ToolEnds) => TypeInv'
  <2> SUFFICES ASSUME TypeInv, Denied \/ ToolEnds PROVE TypeInv'
    OBVIOUS
  <2>1. run # None /\ Emits /\ UNCHANGED <<rows, status, content, saved, steer, turn, restarts, dropped>>
    BY DEF Denied, ToolEnds, Alive
  <2> QED BY <1>0, <1>1, <2>1, CalledRun, GoesOnType
<1> QED BY <1>2, <1>3, <1>4, <1>5

(* The turn waits, and goes on.                                              *)
LEMMA WaitsType == TypeInv /\ (Pause \/ \E v \in {"approved", "denied"} : Resume(v)) => TypeInv'
<1> USE NoneAssumption
<1>1. TypeInv /\ Pause => TypeInv'
  <2> SUFFICES ASSUME TypeInv, Pause PROVE TypeInv'
    OBVIOUS
  <2>1. run \in Run /\ run # None /\ run.queue >= 1 /\ turn >= 1
    BY DEF Pause, Alive, TypeInv, TypeOK, QueueFits, StatusFits
  <2>2. saved' \in Saved
    BY <2>1 DEF Pause, Run, Saved
  <2>3. content' \in BOOLEAN
    BY <2>1 DEF Pause, Run
  <2>4. TypeOK'
    BY <2>2, <2>3 DEF Pause, TypeInv, TypeOK, Busy
  <2> QED BY <2>1, <2>2, <2>4 DEF Pause, TypeInv, StatusFits, QueueFits
<1>2. ASSUME TypeInv, NEW v \in {"approved", "denied"}, Resume(v) PROVE TypeInv'
  <2>1. saved \in Saved /\ turn >= 1
    BY <1>2 DEF Resume, TypeInv, TypeOK, StatusFits
  <2>2. saved.ctx \in Seq(Nat) /\ saved.wm \in Nat /\ saved.queue \in 1..MaxCalls /\ saved.steps \in Nat
    BY <2>1 DEF Saved
  <2>3. content \in BOOLEAN
    BY <1>2 DEF TypeInv, TypeOK
  <2>4. run' \in Run /\ run'.queue >= 1
    <3>1. saved.queue \in 0..MaxCalls /\ {} \in SUBSET Event
      BY <2>2, RecordAssumption
    <3> QED BY <1>2, <2>2, <2>3, <3>1 DEF Resume, SteerWatermark, Run
  <2>5. TypeOK'
    BY <1>2, <2>4 DEF Resume, TypeInv, TypeOK, Busy
  <2> QED BY <1>2, <2>1, <2>4, <2>5 DEF Resume, TypeInv, StatusFits, QueueFits
<1> QED BY <1>1, <1>2

(* The turn is ended from outside.                                           *)
LEMMA OutsideType ==
  TypeInv /\ ((\E st \in {"cancelled", "failed"} : LeavePaused(st)) \/ Cancel \/ Invalidate \/ Restart)
    => TypeInv'
<1>1. ASSUME TypeInv, NEW st \in {"cancelled", "failed"}, LeavePaused(st) PROVE TypeInv'
  <2>1. run = None /\ turn >= 1
    BY <1>1 DEF LeavePaused, TypeInv, StatusFits
  <2>2. rows' \in Seq(Row) /\ fresh' \in SUBSET fresh
    BY <1>1, KeepOK DEF LeavePaused, TypeInv, TypeOK
  <2> QED BY <1>1, <2>1, <2>2, LeavesType DEF LeavePaused, TypeInv, TypeOK
<1>2. TypeInv /\ Cancel => TypeInv'
  BY DEF Cancel, TypeInv, TypeOK, StatusFits, QueueFits
<1>3. TypeInv /\ Invalidate => TypeInv'
  BY DEF Invalidate, TypeInv, TypeOK, StatusFits, QueueFits
<1>4. TypeInv /\ Restart => TypeInv'
  <2> SUFFICES ASSUME TypeInv, Restart PROVE TypeInv'
    OBVIOUS
  <2>1. rows' \in Seq(Row) /\ fresh' \in SUBSET fresh /\ (status = "running" => status' = "failed")
        /\ (status # "running" => status' = status)
    <3>1. CASE status = "running"
      <4>1. (IF content THEN trace ELSE fresh) \in SUBSET Event
        BY DEF TypeInv, TypeOK
      <4> QED BY <3>1, <4>1, KeepOK DEF Restart
    <3>2. CASE status # "running"
      BY <3>2 DEF Restart, TypeInv, TypeOK
    <3> QED BY <3>1, <3>2
  <2>2. restarts' \in 0..MaxRestarts
    BY RecordAssumption DEF Restart, TypeInv, TypeOK
  <2>3. dropped' \in BOOLEAN /\ steer' \in BOOLEAN
    BY DEF Restart, TypeInv, TypeOK
  <2>4. TypeOK'
    BY <2>1, <2>2, <2>3 DEF Restart, TypeInv, TypeOK, Busy
  <2> QED BY <2>1, <2>4 DEF Restart, TypeInv, StatusFits, QueueFits
<1> QED BY <1>1, <1>2, <1>3, <1>4

LEMMA TypeInvNext == TypeInv /\ ReadInv /\ [Next]_vars => TypeInv'
<1>1. TypeInv /\ UNCHANGED vars => TypeInv'
  BY DEF vars, TypeInv, TypeOK, StatusFits, QueueFits
<1> QED BY <1>1, TurnsType, RemarksType, EndsType, StepsType, WaitsType, OutsideType DEF Next

-----------------------------------------------------------------------------
(* What the model has been given.                                            *)

LEMMA ReadInvInit == Init => ReadInv
BY DEF Init, ReadInv

(* Nobody runs and nobody waits.                                             *)
LEMMA RestReads ==
  ASSUME run' = None, status' # "paused"
  PROVE  ReadInv'
BY DEF ReadInv

(* The run goes on with what it has read.                                    *)
LEMMA GoesOnReads ==
  ASSUME TypeInv, ReadInv, run # None, run'.ctx = run.ctx, run'.wm = run.wm, UNCHANGED <<rows, status>>
  PROVE  ReadInv'
<1>1. status' # "paused"
  BY DEF TypeInv, StatusFits
<1>2. ReadTo(run)
  BY DEF ReadInv
<1>3. ReadTo(run)'
  BY <1>2 DEF ReadTo, ReadToWatermark, Given
<1> QED BY <1>1, <1>3 DEF ReadInv

LEMMA BeginReads ==
  ASSUME TypeInv, NEW kept \in Seq(Row), Begin(kept)
  PROVE  ReadInv'
<1>1. rows' = kept /\ status' # "paused"
      /\ run'.ctx = [i \in 1..Len(kept) |-> 1] /\ run'.wm = Len(kept)
  BY DEF Begin
<1>2. Len(kept) \in Nat /\ DOMAIN kept = 1..Len(kept)
  OBVIOUS
<1>3. Len([i \in 1..Len(kept) |-> 1]) = Len(kept)
  BY <1>2
<1>4. ReadTo(run)'
  BY <1>1, <1>2, <1>3 DEF ReadTo, ReadToWatermark, Given
<1> QED BY <1>1, <1>4 DEF ReadInv

LEMMA TurnsRead == TypeInv /\ (Ask \/ Regenerate \/ \E i \in DOMAIN rows : Edit(i)) => ReadInv'
<1>0. TypeInv => rows \in Seq(Row) /\ DOMAIN rows = 1..Len(rows) /\ Len(rows) \in Nat
  BY DEF TypeInv, TypeOK
<1>1. TypeInv /\ Ask => ReadInv'
  <2> SUFFICES ASSUME TypeInv, Ask PROVE ReadInv'
    OBVIOUS
  <2>1. AskRow \in Row
    BY RecordAssumption DEF Ask, Begin, AskRow, Row, User, TypeInv, TypeOK
  <2>2. Append(rows, AskRow) \in Seq(Row)
    BY <2>1, <1>0
  <2> QED BY <2>2, BeginReads DEF Ask
<1>2. TypeInv /\ Regenerate => ReadInv'
  <2> SUFFICES ASSUME TypeInv, NEW i \in DOMAIN rows, Begin(SubSeq(rows, 1, i)) PROVE ReadInv'
    BY DEF Regenerate
  <2>1. SubSeq(rows, 1, i) \in Seq(Row)
    BY <1>0, KeptOK DEF Begin
  <2> QED BY <2>1, BeginReads
<1>3. TypeInv /\ (\E i \in DOMAIN rows : Edit(i)) => ReadInv'
  <2> SUFFICES ASSUME TypeInv, NEW i \in DOMAIN rows, Edit(i) PROVE ReadInv'
    OBVIOUS
  <2>1. i - 1 \in Nat /\ i - 1 <= Len(rows)
    BY <1>0
  <2>2. Append(SubSeq(rows, 1, i - 1), AskRow) \in Seq(Row)
    BY <2>1, KeptOK DEF Edit, Begin
  <2> QED BY <2>2, BeginReads DEF Edit
<1> QED BY <1>1, <1>2, <1>3

(* A remark lands behind the watermark.                                      *)
LEMMA ReadToLater ==
  ASSUME TypeInv, NEW c \in Run \union Saved, ReadTo(c), rows' = AddRow(rows, "steer", {})
  PROVE  ReadTo(c)'
<1>1. /\ Len(rows) \in Nat /\ DOMAIN rows = 1..Len(rows)
      /\ Len(rows') = Len(rows) + 1 /\ DOMAIN rows' = 1..Len(rows) + 1
      /\ \A i \in DOMAIN rows : rows'[i] = rows[i]
      /\ rows'[Len(rows) + 1].kind = "steer"
  <2>1. rows \in Seq(Row)
    BY DEF TypeInv, TypeOK
  <2> QED BY <2>1 DEF AddRow
<1>2. c.ctx \in Seq(Nat) /\ c.wm \in Nat
  BY DEF Run, Saved
<1>3. Len(c.ctx) \in Nat /\ DOMAIN c.ctx = 1..Len(c.ctx)
  BY <1>2
<1>4. Len(c.ctx) <= Len(rows') /\ c.wm <= Len(rows')
  BY <1>1, <1>2, <1>3 DEF ReadTo
<1>5. \A i \in DOMAIN rows' : i > c.wm => rows'[i].kind = "steer"
  BY <1>1, <1>2 DEF ReadTo
<1>6. ASSUME NEW i \in DOMAIN rows'
      PROVE  Given(c, i) = IF i <= c.wm THEN 1 ELSE 0
  <2>1. CASE i \in DOMAIN rows
    BY <2>1 DEF ReadTo, ReadToWatermark
  <2>2. CASE i = Len(rows) + 1
    BY <2>2, <1>1, <1>2, <1>3 DEF ReadTo, Given
  <2> QED BY <1>1, <2>1, <2>2
<1>7. ReadToWatermark(c)'
  BY <1>6 DEF ReadToWatermark, Given
<1> QED BY <1>4, <1>5, <1>7 DEF ReadTo

LEMMA RemarksRead == TypeInv /\ ReadInv /\ (SteerSent \/ SteerLands) => ReadInv'
<1>1. ASSUME ReadInv, UNCHANGED <<rows, status, saved, run>> PROVE ReadInv'
  BY <1>1 DEF ReadInv, ReadTo, ReadToWatermark, Given
<1>2. ASSUME TypeInv, ReadInv, SteerLands, status \in Busy PROVE ReadInv'
  <2>1. rows' = AddRow(rows, "steer", {}) /\ UNCHANGED <<status, saved, run>>
    BY <1>2 DEF SteerLands
  <2>2. run # None => ReadTo(run)'
    <3>1. run # None => run \in Run /\ ReadTo(run)
      BY <1>2 DEF TypeInv, TypeOK, ReadInv
    <3>2. run' = run
      BY <2>1
    <3>3. ASSUME NEW c, c = run, run # None PROVE ReadTo(c)'
      BY <1>2, <2>1, <3>1, <3>3, ReadToLater
    <3> QED BY <3>2, <3>3 DEF ReadTo, ReadToWatermark, Given
  <2>3. status = "paused" => ReadTo(saved)'
    <3>1. status = "paused" => saved \in Saved /\ ReadTo(saved)
      BY <1>2 DEF TypeInv, TypeOK, StatusFits, ReadInv
    <3>2. saved' = saved
      BY <2>1
    <3>3. ASSUME NEW c, c = saved, status = "paused" PROVE ReadTo(c)'
      BY <1>2, <2>1, <3>1, <3>3, ReadToLater
    <3> QED BY <3>2, <3>3 DEF ReadTo, ReadToWatermark, Given
  <2> QED BY <2>1, <2>2, <2>3 DEF ReadInv
<1> QED BY <1>1, <1>2 DEF SteerSent, SteerLands

LEMMA PollReads == TypeInv /\ ReadInv /\ Poll => ReadInv'
<1> SUFFICES ASSUME TypeInv, ReadInv, Poll PROVE ReadInv'
  OBVIOUS
<1>1. run # None /\ run \in Run /\ ReadTo(run) /\ UNCHANGED <<rows, status>>
  BY DEF Poll, Alive, TypeInv, TypeOK, ReadInv
<1>2. Len(rows) \in Nat /\ DOMAIN rows = 1..Len(rows) /\ run.wm \in Nat
  BY <1>1 DEF TypeInv, TypeOK, Run
<1>3. run'.ctx = ReadNow /\ run'.wm = Len(rows)
  BY <1>1, PollRuns DEF Run
<1>4. Len(ReadNow) = Len(rows) /\ DOMAIN ReadNow = DOMAIN rows
  BY <1>1, ReadNowOK DEF ReadNow
<1>5. \A i \in DOMAIN rows : ReadNow[i] = 1
  <2>1. Unread = {i \in DOMAIN rows : i > run.wm}
    BY <1>1, UnreadIsTheRest
  <2>2. \A i \in DOMAIN rows : Given(run, i) = IF i <= run.wm THEN 1 ELSE 0
    BY <1>1 DEF ReadTo, ReadToWatermark
  <2>3. \A i \in DOMAIN rows : ReadNow[i] = Given(run, i) + (IF i \in Unread THEN 1 ELSE 0)
    BY DEF ReadNow
  <2> QED BY <1>2, <2>1, <2>2, <2>3
<1>6. ReadTo(run)'
  BY <1>1, <1>2, <1>3, <1>4, <1>5 DEF ReadTo, ReadToWatermark, Given
<1> QED BY <1>1, <1>6 DEF ReadInv, TypeInv, StatusFits

LEMMA StepsRead ==
  TypeInv /\ ReadInv
  /\ (Delta \/ (\E n \in 1..MaxCalls : RoundCalls(n)) \/ ToolTaken \/ Denied \/ ToolEnds)
    => ReadInv'
<1>0. TypeInv /\ run # None => run \in Run
  BY DEF TypeInv, TypeOK
<1>1. TypeInv /\ ReadInv /\ Delta => ReadInv'
  BY <1>0, GoesOnReads DEF Delta, Alive, Run
<1>2. TypeInv /\ ReadInv /\ (\E n \in 1..MaxCalls : RoundCalls(n)) => ReadInv'
  BY <1>0, GoesOnReads DEF RoundCalls, Emits, Alive, Run
<1>3. TypeInv /\ ReadInv /\ ToolTaken => ReadInv'
  BY <1>0, GoesOnReads DEF ToolTaken, Alive, Run
<1>4. TypeInv /\ ReadInv /\ (Denied \/ ToolEnds) => ReadInv'
  BY <1>0, GoesOnReads DEF Denied, ToolEnds, Called, Alive, Run
<1> QED BY <1>1, <1>2, <1>3, <1>4

LEMMA WaitsRead ==
  TypeInv /\ ReadInv /\ (Pause \/ \E v \in {"approved", "denied"} : Resume(v)) => ReadInv'
<1>1. ASSUME NEW c, NEW d, d.ctx = c.ctx, d.wm = c.wm, ReadTo(c), UNCHANGED rows PROVE ReadTo(d)'
  BY <1>1 DEF ReadTo, ReadToWatermark, Given
<1>2. TypeInv /\ ReadInv /\ Pause => ReadInv'
  <2> SUFFICES ASSUME TypeInv, ReadInv, Pause PROVE ReadInv'
    OBVIOUS
  <2>1. ReadTo(run) /\ run' = None /\ rows' = rows
    BY DEF Pause, Alive, ReadInv
  <2>2. saved'.ctx = run.ctx /\ saved'.wm = run.wm
    BY DEF Pause
  <2>3. ReadTo(saved)'
    BY <2>1, <2>2 DEF ReadTo, ReadToWatermark, Given
  <2> QED BY <2>1, <2>3 DEF ReadInv
<1>3. ASSUME TypeInv, ReadInv, NEW v \in {"approved", "denied"}, Resume(v) PROVE ReadInv'
  <2>1. ReadTo(saved) /\ status' = "running" /\ rows' = rows
    BY <1>3 DEF Resume, ReadInv
  <2>2. run'.ctx = saved.ctx /\ run'.wm = saved.wm
    BY <1>3 DEF Resume, SteerWatermark
  <2>3. ReadTo(run)'
    BY <2>1, <2>2 DEF ReadTo, ReadToWatermark, Given
  <2> QED BY <2>1, <2>3 DEF ReadInv
<1> QED BY <1>2, <1>3

LEMMA EndsRead ==
  TypeInv /\ (ChatFails \/ AbortNoticed \/ PauseTooLate \/ RoundAnswers) => ReadInv'
BY RestReads DEF ChatFails, AbortNoticed, PauseTooLate, RoundAnswers, Alive, Aborted, Caught, Leave,
     TypeInv, StatusFits

LEMMA OutsideReads ==
  TypeInv /\ ReadInv
  /\ ((\E st \in {"cancelled", "failed"} : LeavePaused(st)) \/ Cancel \/ Invalidate \/ Restart)
    => ReadInv'
<1>1. TypeInv /\ (\E st \in {"cancelled", "failed"} : LeavePaused(st)) => ReadInv'
  BY RestReads DEF LeavePaused, TypeInv, StatusFits
<1>2. TypeInv /\ ReadInv /\ Cancel => ReadInv'
  <2> SUFFICES ASSUME TypeInv, ReadInv, Cancel PROVE ReadInv'
    OBVIOUS
  <2>1. run # None /\ ReadTo(run) /\ status' # "paused"
    BY DEF Cancel, TypeInv, StatusFits, ReadInv
  <2> QED BY <2>1 DEF Cancel, ReadInv, ReadTo, ReadToWatermark, Given
<1>3. Invalidate => ReadInv'
  BY RestReads DEF Invalidate
<1>4. TypeInv /\ ReadInv /\ Restart => ReadInv'
  BY DEF Restart, ReadInv, ReadTo, ReadToWatermark, Given
<1> QED BY <1>1, <1>2, <1>3, <1>4

LEMMA ReadInvNext == TypeInv /\ ReadInv /\ [Next]_vars => ReadInv'
<1>1. ReadInv /\ UNCHANGED vars => ReadInv'
  BY DEF vars, ReadInv, ReadTo, ReadToWatermark, Given
<1> QED BY <1>1, TurnsRead, RemarksRead, EndsRead, PollReads, StepsRead, WaitsRead, OutsideReads DEF Next

-----------------------------------------------------------------------------
(* Where the events of a turn are stored.                                    *)

LEMMA OnceInvInit == Init => OnceInv
<1>1. Init => DOMAIN rows = {} /\ trace = {} /\ run = None
  BY DEF Init
<1> QED BY <1>1 DEF OnceInv, TurnsApart, NoneStored

LEMMA AddedApart ==
  ASSUME rows \in Seq(Row), turn \in Nat, TurnsApart(rows, turn), NoneStored(rows, turn),
         NEW kind, NEW events, \A e \in events : e.turn = turn
  PROVE  TurnsApart(AddRow(rows, kind, events), turn)
<1> DEFINE r == AddRow(rows, kind, events)
           n == Len(rows) + 1
<1>1. /\ \A i \in DOMAIN rows : r[i] = rows[i]
      /\ r[n].turn = turn /\ r[n].events = events
      /\ \A i \in DOMAIN r : i \in DOMAIN rows \/ i = n
  BY DEF AddRow
<1> HIDE DEF r, n
<1>2. \A i \in DOMAIN r : r[i].turn <= turn /\ \A e \in r[i].events : e.turn = r[i].turn
  BY <1>1 DEF TurnsApart
<1>3. ASSUME NEW i \in DOMAIN r, NEW j \in DOMAIN r, i # j, r[i].turn = r[j].turn
      PROVE  r[i].events = {} \/ r[j].events = {}
  <2>1. CASE i = n
    BY <1>1, <1>3, <2>1 DEF NoneStored
  <2>2. CASE j = n
    BY <1>1, <1>3, <2>2 DEF NoneStored
  <2>3. CASE i # n /\ j # n
    BY <1>1, <1>3, <2>3 DEF TurnsApart
  <2> QED BY <2>1, <2>2, <2>3
<1>4. TurnsApart(r, turn)
  BY <1>2, <1>3 DEF TurnsApart
<1> QED BY <1>4 DEF r

LEMMA AddedNone ==
  ASSUME rows \in Seq(Row), NoneStored(rows, turn), NEW kind
  PROVE  NoneStored(AddRow(rows, kind, {}), turn)
<1>1. LET r == AddRow(rows, kind, {}) IN
      /\ \A i \in DOMAIN rows : r[i] = rows[i]
      /\ r[Len(rows) + 1].events = {}
      /\ \A i \in DOMAIN r : i \in DOMAIN rows \/ i = Len(rows) + 1
  BY DEF AddRow
<1> QED BY <1>1 DEF NoneStored

(* A turn is over: what it keeps is its own.                                 *)
LEMMA EndsOnce ==
  ASSUME TypeInv, OnceInv, InFlight,
         NEW events, \A e \in events : e.turn = turn,
         rows' \in {rows, AddRow(rows, "answer", events)},
         \A e \in trace' : e.turn = turn, turn' = turn,
         run' = None, status' \notin Busy
  PROVE  OnceInv'
<1>1. rows \in Seq(Row) /\ turn \in Nat
  BY RecordAssumption DEF TypeInv, TypeOK
<1>2. TurnsApart(rows, turn) /\ NoneStored(rows, turn)
  BY DEF OnceInv
<1>3. TurnsApart(AddRow(rows, "answer", events), turn)
  BY <1>1, <1>2, AddedApart
<1>4. TurnsApart(rows', turn')
  BY <1>2, <1>3
<1> QED BY <1>4 DEF OnceInv, InFlight

(* A turn goes on.                                                           *)
LEMMA GoesOnOnce ==
  ASSUME OnceInv, InFlight, UNCHANGED <<rows, turn>>,
         \A e \in trace' : e.turn = turn, run' # None => run'.own \subseteq trace'
  PROVE  OnceInv'
BY DEF OnceInv, InFlight

LEMMA BeginOnce ==
  ASSUME TypeInv, NEW kept \in Seq(Row), Begin(kept),
         TurnsApart(kept, turn + 1), NoneStored(kept, turn + 1)
  PROVE  OnceInv'
BY DEF Begin, Reset, OnceInv

(* The rows kept are of earlier turns, and a question has no events.         *)
LEMMA KeptApart ==
  ASSUME TypeInv, OnceInv, turn < MaxTurns, NEW i \in Nat, i <= Len(rows)
  PROVE  LET k == SubSeq(rows, 1, i)
             a == Append(k, AskRow)
         IN /\ TurnsApart(k, turn + 1) /\ NoneStored(k, turn + 1)
            /\ TurnsApart(a, turn + 1) /\ NoneStored(a, turn + 1)
<1> DEFINE k == SubSeq(rows, 1, i)
           a == Append(k, AskRow)
<1>1. rows \in Seq(Row) /\ turn \in Nat /\ DOMAIN rows = 1..Len(rows) /\ Len(rows) \in Nat
      /\ \A j \in DOMAIN rows : rows[j].turn \in Nat
  <2>1. rows \in Seq(Row) /\ turn \in Nat
    BY RecordAssumption DEF TypeInv, TypeOK
  <2>2. \A r \in Row : r.turn \in Nat
    BY RecordAssumption DEF Row
  <2> QED BY <2>1, <2>2
<1>2. Len(k) = i /\ DOMAIN k = 1..i /\ \A j \in 1..i : j \in DOMAIN rows /\ k[j] = rows[j]
  BY <1>1, SubSeqProperties
<1>3. k \in Seq(Row)
  BY <1>1, SubSeqProperties
<1>4. Len(a) = i + 1 /\ DOMAIN a = 1..(i + 1) /\ (\A j \in 1..i : a[j] = k[j]) /\ a[i + 1] = AskRow
  BY <1>2, <1>3
<1>5. AskRow.turn = turn + 1 /\ AskRow.events = {}
  BY DEF AskRow
<1> HIDE DEF k, a
<1>6. \A j \in DOMAIN k : k[j].turn <= turn
  BY <1>2 DEF OnceInv, TurnsApart
<1>7. /\ \A j \in DOMAIN k : \A e \in k[j].events : e.turn = k[j].turn
      /\ \A j, l \in DOMAIN k : j # l /\ k[j].turn = k[l].turn => k[j].events = {} \/ k[l].events = {}
  BY <1>2 DEF OnceInv, TurnsApart
<1>8. \A j \in DOMAIN k : k[j].turn \in Nat /\ k[j].turn < turn + 1
  <2>1. \A j \in DOMAIN k : k[j].turn \in Nat
    BY <1>1, <1>2
  <2>2. \A n \in Nat : n <= turn => n < turn + 1
    BY <1>1
  <2> QED BY <1>6, <2>1, <2>2
<1>9. TurnsApart(k, turn + 1) /\ NoneStored(k, turn + 1)
  <2>1. \A j \in DOMAIN k : k[j].turn <= turn + 1 /\ k[j].turn # turn + 1
    BY <1>1, <1>8
  <2>2. NoneStored(k, turn + 1)
    BY <2>1 DEF NoneStored
  <2>3. \A j \in DOMAIN k : k[j].turn <= turn + 1
    BY <2>1
  <2>4. TurnsApart(k, turn + 1)
    BY <1>7, <2>3, Zenon DEF TurnsApart
  <2> QED BY <2>2, <2>4
<1>10. \A j \in DOMAIN a : (j \in DOMAIN k /\ a[j] = k[j]) \/ (j = i + 1 /\ a[j] = AskRow)
  BY <1>2, <1>4
<1>11. TurnsApart(a, turn + 1)
  <2>1. \A j \in DOMAIN a : a[j].turn <= turn + 1 /\ \A e \in a[j].events : e.turn = a[j].turn
    BY <1>1, <1>5, <1>7, <1>8, <1>10
  <2>2. ASSUME NEW j \in DOMAIN a, NEW l \in DOMAIN a, j # l, a[j].turn = a[l].turn
        PROVE  a[j].events = {} \/ a[l].events = {}
    BY <2>2, <1>5, <1>7, <1>10
  <2> QED BY <2>1, <2>2 DEF TurnsApart
<1>12. NoneStored(a, turn + 1)
  BY <1>5, <1>9, <1>10 DEF NoneStored
<1>13. /\ TurnsApart(k, turn + 1) /\ NoneStored(k, turn + 1)
       /\ TurnsApart(a, turn + 1) /\ NoneStored(a, turn + 1)
  BY <1>9, <1>11, <1>12
<1> QED BY <1>13 DEF k, a

LEMMA TurnsOnce == TypeInv /\ OnceInv /\ (Ask \/ Regenerate \/ \E i \in DOMAIN rows : Edit(i)) => OnceInv'
<1>0. TypeInv => rows \in Seq(Row) /\ DOMAIN rows = 1..Len(rows) /\ Len(rows) \in Nat
  BY DEF TypeInv, TypeOK
<1>1. TypeInv /\ OnceInv /\ Ask => OnceInv'
  <2> SUFFICES ASSUME TypeInv, OnceInv, Ask PROVE OnceInv'
    OBVIOUS
  <2>1. SubSeq(rows, 1, Len(rows)) = rows
    BY <1>0, SubSeqFull
  <2>2. turn < MaxTurns /\ Begin(Append(rows, AskRow))
    BY DEF Ask, Begin
  <2>3. /\ Append(SubSeq(rows, 1, Len(rows)), AskRow) \in Seq(Row)
        /\ TurnsApart(Append(SubSeq(rows, 1, Len(rows)), AskRow), turn + 1)
        /\ NoneStored(Append(SubSeq(rows, 1, Len(rows)), AskRow), turn + 1)
    BY <1>0, <2>2, KeptOK, KeptApart
  <2> QED BY <2>1, <2>2, <2>3, BeginOnce
<1>2. TypeInv /\ OnceInv /\ Regenerate => OnceInv'
  <2> SUFFICES ASSUME TypeInv, OnceInv, NEW i \in DOMAIN rows, Begin(SubSeq(rows, 1, i)) PROVE OnceInv'
    BY DEF Regenerate
  <2>1. i \in Nat /\ i <= Len(rows) /\ turn < MaxTurns
    BY <1>0 DEF Begin
  <2>2. /\ SubSeq(rows, 1, i) \in Seq(Row)
        /\ TurnsApart(SubSeq(rows, 1, i), turn + 1) /\ NoneStored(SubSeq(rows, 1, i), turn + 1)
    BY <2>1, KeptOK, KeptApart
  <2> QED BY <2>2, BeginOnce
<1>3. TypeInv /\ OnceInv /\ (\E i \in DOMAIN rows : Edit(i)) => OnceInv'
  <2> SUFFICES ASSUME TypeInv, OnceInv, NEW i \in DOMAIN rows, Edit(i) PROVE OnceInv'
    OBVIOUS
  <2> DEFINE n == i - 1
  <2>1. n \in Nat /\ n <= Len(rows) /\ turn < MaxTurns /\ Begin(Append(SubSeq(rows, 1, n), AskRow))
    BY <1>0 DEF Edit, Begin
  <2> HIDE DEF n
  <2>2. /\ Append(SubSeq(rows, 1, n), AskRow) \in Seq(Row)
        /\ TurnsApart(Append(SubSeq(rows, 1, n), AskRow), turn + 1)
        /\ NoneStored(Append(SubSeq(rows, 1, n), AskRow), turn + 1)
    BY <2>1, KeptOK, KeptApart
  <2> QED BY <2>1, <2>2, BeginOnce
<1> QED BY <1>1, <1>2, <1>3

LEMMA RemarksOnce == TypeInv /\ OnceInv /\ (SteerSent \/ SteerLands) => OnceInv'
<1>1. ASSUME OnceInv, UNCHANGED <<rows, status, trace, run, turn>> PROVE OnceInv'
  BY <1>1 DEF OnceInv, InFlight
<1>2. ASSUME TypeInv, OnceInv, SteerLands, status \in Busy PROVE OnceInv'
  <2>1. rows' = AddRow(rows, "steer", {}) /\ UNCHANGED <<status, trace, run, turn>>
    BY <1>2 DEF SteerLands
  <2>2. rows \in Seq(Row) /\ turn \in Nat /\ TurnsApart(rows, turn) /\ NoneStored(rows, turn)
    BY <1>2, RecordAssumption DEF TypeInv, TypeOK, OnceInv, InFlight
  <2>3. TurnsApart(rows', turn) /\ NoneStored(rows', turn)
    BY <2>1, <2>2, AddedApart, AddedNone
  <2> QED BY <1>2, <2>1, <2>3 DEF OnceInv
<1> QED BY <1>1, <1>2 DEF SteerSent, SteerLands

(* What a run that leaves stores is of its turn.                             *)
LEMMA OwnTurn ==
  ASSUME TypeInv, OnceInv, run # None
  PROVE  /\ \A e \in OfTurn \union {Emitted} : e.turn = turn
         /\ \A e \in fresh : e.turn = turn
         /\ \A e \in trace \union {Emitted} : e.turn = turn
         /\ Own \subseteq trace \union {Emitted}
<1>1. fresh \subseteq trace /\ run.own \subseteq trace /\ \A e \in trace : e.turn = turn
  BY DEF TypeInv, TypeOK, OnceInv
<1>2. Emitted.turn = turn
  BY DEF Emitted
<1> QED BY <1>1, <1>2 DEF OfTurn, Own

LEMMA EndsStoreOnce ==
  TypeInv /\ OnceInv /\ (ChatFails \/ AbortNoticed \/ PauseTooLate \/ RoundAnswers) => OnceInv'
<1>1. ASSUME TypeInv, OnceInv, run # None, Caught PROVE OnceInv'
  <2>1. status \notin Busy => status' \notin Busy
    BY <1>1 DEF Caught, Busy
  <2>2. status' \notin Busy /\ run' = None /\ turn' = turn /\ trace' = trace
    BY <1>1 DEF Caught, Leave, Busy, TypeInv, StatusFits
  <2>3. CASE status = "cancelled"
    <3>1. rows' \in {rows, AddRow(rows, "answer", fresh)}
      BY <1>1, <2>3 DEF Caught, Keep
    <3> QED BY <1>1, <2>2, <3>1, OwnTurn, EndsOnce DEF InFlight
  <2>4. CASE status # "cancelled"
    <3>1. rows' \in {rows, AddRow(rows, "answer", OfTurn)}
      BY <1>1, <2>4 DEF Caught, Keep
    <3>2. \A e \in OfTurn : e.turn = turn
      BY <1>1, OwnTurn
    <3> HIDE DEF OfTurn
    <3> QED BY <1>1, <2>2, <3>1, <3>2, OwnTurn, EndsOnce DEF InFlight
  <2> QED BY <2>3, <2>4
<1>2. TypeInv /\ OnceInv /\ PauseTooLate => OnceInv'
  <2> SUFFICES ASSUME TypeInv, OnceInv, PauseTooLate PROVE OnceInv'
    OBVIOUS
  <2>1. run # None /\ status' \notin Busy /\ run' = None /\ turn' = turn /\ trace' = trace
    BY DEF PauseTooLate, Alive, Aborted, Leave, Busy
  <2>2. rows' \in {rows, AddRow(rows, "answer", OfTurn)}
    BY DEF PauseTooLate, Keep
  <2>3. \A e \in OfTurn : e.turn = turn
    BY <2>1, OwnTurn
  <2> QED BY <2>1, <2>2, <2>3, OwnTurn, EndsOnce DEF InFlight
<1>3. TypeInv /\ OnceInv /\ RoundAnswers => OnceInv'
  <2> SUFFICES ASSUME TypeInv, OnceInv, RoundAnswers PROVE OnceInv'
    OBVIOUS
  <2> DEFINE events == OfTurn \union {Emitted}
  <2>1. run # None /\ status' \notin Busy /\ run' = None /\ turn' = turn /\ trace' = trace \union {Emitted}
    BY DEF RoundAnswers, Alive, Aborted, Busy
  <2>2. rows' \in {rows, AddRow(rows, "answer", events)}
    BY DEF RoundAnswers
  <2>3. \A e \in events : e.turn = turn
    BY <2>1, OwnTurn
  <2>4. \A e \in trace' : e.turn = turn
    BY <2>1, OwnTurn
  <2> HIDE DEF events
  <2> QED BY <2>1, <2>2, <2>3, <2>4, EndsOnce DEF InFlight
<1> QED BY <1>1, <1>2, <1>3 DEF ChatFails, AbortNoticed, Alive

LEMMA StepsOnce ==
  TypeInv /\ OnceInv
  /\ (Poll \/ Delta \/ (\E n \in 1..MaxCalls : RoundCalls(n)) \/ ToolTaken \/ Denied \/ ToolEnds)
    => OnceInv'
<1>0. ASSUME TypeInv, OnceInv, run # None
      PROVE  /\ run \in Run /\ run.own \subseteq trace /\ \A e \in trace : e.turn = turn
             /\ \A e \in trace \union {Emitted} : e.turn = turn
             /\ Own \subseteq trace \union {Emitted}
  <2>1. run \in Run /\ run.own \subseteq trace /\ \A e \in trace : e.turn = turn
    BY <1>0 DEF TypeInv, TypeOK, OnceInv
  <2> QED BY <1>0, <2>1, OwnTurn
<1>1. TypeInv /\ OnceInv /\ (Poll \/ Delta \/ ToolTaken) => OnceInv'
  <2> SUFFICES ASSUME TypeInv, OnceInv, Poll \/ Delta \/ ToolTaken PROVE OnceInv'
    OBVIOUS
  <2>1. run # None /\ UNCHANGED <<rows, turn, trace>>
    BY DEF Poll, Delta, ToolTaken, Alive
  <2>2. run'.own = run.own
    BY <1>0, <2>1 DEF Poll, Delta, ToolTaken, Run
  <2> QED BY <1>0, <2>1, <2>2, GoesOnOnce DEF InFlight
<1>2. TypeInv /\ OnceInv /\ (\E n \in 1..MaxCalls : RoundCalls(n)) => OnceInv'
  <2> SUFFICES ASSUME TypeInv, OnceInv, NEW n \in 1..MaxCalls, RoundCalls(n) PROVE OnceInv'
    OBVIOUS
  <2>1. run # None /\ UNCHANGED <<rows, turn>> /\ trace' = trace \union {Emitted}
    BY DEF RoundCalls, Emits, Alive
  <2>2. run'.own = Own
    BY <1>0, <2>1 DEF RoundCalls, Run
  <2> QED BY <1>0, <2>1, <2>2, GoesOnOnce DEF InFlight
<1>3. TypeInv /\ OnceInv /\ (Denied \/ ToolEnds) => OnceInv'
  <2> SUFFICES ASSUME TypeInv, OnceInv, Denied \/ ToolEnds PROVE OnceInv'
    OBVIOUS
  <2>1. run # None /\ UNCHANGED <<rows, turn>> /\ trace' = trace \union {Emitted}
    BY DEF Denied, ToolEnds, Emits, Alive
  <2>2. run'.own = Own
    BY <1>0, <2>1 DEF Denied, ToolEnds, Called, Run
  <2> QED BY <1>0, <2>1, <2>2, GoesOnOnce DEF InFlight
<1> QED BY <1>1, <1>2, <1>3

LEMMA WaitsOnce ==
  TypeInv /\ OnceInv /\ (Pause \/ \E v \in {"approved", "denied"} : Resume(v)) => OnceInv'
<1>1. TypeInv /\ OnceInv /\ Pause => OnceInv'
  BY DEF Pause, Alive, OnceInv, InFlight
<1>2. TypeInv /\ OnceInv /\ (\E v \in {"approved", "denied"} : Resume(v)) => OnceInv'
  BY DEF Resume, OnceInv, InFlight, Busy
<1> QED BY <1>1, <1>2

LEMMA OutsideOnce ==
  TypeInv /\ OnceInv
  /\ ((\E st \in {"cancelled", "failed"} : LeavePaused(st)) \/ Cancel \/ Invalidate \/ Restart)
    => OnceInv'
<1>0. TypeInv /\ OnceInv => \A e \in trace : e.turn = turn
  BY DEF OnceInv
<1>1. ASSUME TypeInv, OnceInv, NEW st \in {"cancelled", "failed"}, LeavePaused(st) PROVE OnceInv'
  <2>1. rows' \in {rows, AddRow(rows, "answer", fresh)} /\ UNCHANGED <<trace, turn>>
    BY <1>1 DEF LeavePaused, Keep
  <2>2. InFlight /\ run' = None /\ status' \notin Busy
    BY <1>1 DEF LeavePaused, InFlight, Busy, TypeInv, StatusFits
  <2>3. \A e \in fresh : e.turn = turn
    BY <1>1, <1>0 DEF TypeInv, TypeOK
  <2> QED BY <1>0, <1>1, <2>1, <2>2, <2>3, EndsOnce
<1>2. TypeInv /\ OnceInv /\ Cancel => OnceInv'
  BY DEF Cancel, OnceInv, InFlight, TypeInv, StatusFits, Busy
<1>3. TypeInv /\ OnceInv /\ Invalidate => OnceInv'
  BY DEF Invalidate, OnceInv, InFlight, Busy
<1>4. TypeInv /\ OnceInv /\ Restart => OnceInv'
  <2> SUFFICES ASSUME TypeInv, OnceInv, Restart PROVE OnceInv'
    OBVIOUS
  <2>1. CASE status = "running"
    <3> DEFINE events == IF content THEN trace ELSE fresh
    <3>1. rows' \in {rows, AddRow(rows, "answer", events)} /\ UNCHANGED <<trace, turn>>
      BY <2>1 DEF Restart, Keep
    <3>2. InFlight /\ run' = None /\ status' \notin Busy
      BY <2>1 DEF Restart, InFlight, Busy
    <3>3. \A e \in events : e.turn = turn
      BY <1>0 DEF TypeInv, TypeOK
    <3> HIDE DEF events
    <3> QED BY <1>0, <3>1, <3>2, <3>3, EndsOnce
  <2>2. CASE status # "running"
    BY <2>2 DEF Restart, OnceInv, InFlight
  <2> QED BY <2>1, <2>2
<1> QED BY <1>1, <1>2, <1>3, <1>4

LEMMA OnceInvNext == TypeInv /\ OnceInv /\ [Next]_vars => OnceInv'
<1>1. OnceInv /\ UNCHANGED vars => OnceInv'
  BY DEF vars, OnceInv, InFlight
<1> QED BY <1>1, TurnsOnce, RemarksOnce, EndsStoreOnce, StepsOnce, WaitsOnce, OutsideOnce DEF Next

LEMMA OnceInvEventOnce == TypeInv /\ OnceInv => EventOnce
<1> SUFFICES ASSUME OnceInv, NEW i \in DOMAIN rows, NEW e \in rows[i].events
    PROVE  e.turn = rows[i].turn /\ \A j \in DOMAIN rows : e \in rows[j].events => j = i
  BY DEF EventOnce
<1>1. \A j \in DOMAIN rows : e \in rows[j].events => e.turn = rows[j].turn
  BY DEF OnceInv, TurnsApart
<1> QED BY <1>1 DEF OnceInv, TurnsApart

-----------------------------------------------------------------------------
(* What a turn keeps of its events.                                          *)

LEMMA KeptInvInit == Init => KeptInv
BY DEF Init, KeptInv

(* A row more hides no event that was hidden, and shows what it stores.      *)
LEMMA KeptAdded ==
  ASSUME TypeInv, NEW kind, NEW events,
         \/ rows' = AddRow(rows, kind, events)
         \/ rows' = rows /\ events = {}
  PROVE  /\ Len(rows) \in Nat /\ Len(rows') \in Nat /\ Len(rows) <= Len(rows')
         /\ \A e : Overtaken(e) => Overtaken(e)'
         /\ events \subseteq Stored'
<1>1. rows \in Seq(Row) /\ Len(rows) \in Nat
  BY DEF TypeInv, TypeOK
<1>2. CASE rows' = rows /\ events = {}
  BY <1>1, <1>2 DEF Overtaken
<1>3. CASE rows' = AddRow(rows, kind, events)
  <2>1. /\ Len(rows') = Len(rows) + 1 /\ Len(rows) + 1 \in DOMAIN rows'
        /\ \A i \in DOMAIN rows : i \in DOMAIN rows' /\ rows'[i] = rows[i]
        /\ rows'[Len(rows) + 1].events = events
    BY <1>1, <1>3 DEF AddRow
  <2>2. ASSUME NEW e, Overtaken(e) PROVE Overtaken(e)'
    BY <2>1, <2>2 DEF Overtaken
  <2>3. events \subseteq Stored'
    BY <2>1 DEF Stored
  <2> QED BY <1>1, <2>1, <2>2, <2>3
<1> QED BY <1>2, <1>3

(* A turn is over, and has stored what no remark hides.                      *)
LEMMA EndsKept ==
  ASSUME TypeInv, KeptInv, NEW events,
         \/ rows' = AddRow(rows, "answer", events)
         \/ rows' = rows /\ events = {},
         \A e \in trace' : e.at \in Nat /\ e.at <= Len(rows) /\ (e \in events \/ Overtaken(e)),
         run' = None, status' \notin Busy
  PROVE  KeptInv'
<1>1. /\ Len(rows) \in Nat /\ Len(rows') \in Nat /\ Len(rows) <= Len(rows')
      /\ \A e : Overtaken(e) => Overtaken(e)'
      /\ events \subseteq Stored'
  BY KeptAdded
<1>2. \A e \in trace' : e.at <= Len(rows')
  BY <1>1
<1>3. \A e \in trace' : e \in Stored' \/ Overtaken(e)'
  BY <1>1
<1> QED BY <1>2, <1>3 DEF KeptInv, InFlight

(* A turn goes on.                                                           *)
LEMMA GoesOnKept ==
  ASSUME KeptInv, InFlight, UNCHANGED <<rows, trace, fresh>>, InFlight',
         run' # None /\ run'.kind = "run" => run'.own = trace
  PROVE  KeptInv'
BY DEF KeptInv, Overtaken

LEMMA EmitsKept ==
  ASSUME TypeInv, KeptInv, InFlight, Emits, UNCHANGED rows, InFlight',
         run' # None /\ run'.kind = "run" => run'.own = trace \union {Emitted}
  PROVE  KeptInv'
<1>1. Len(rows) \in Nat /\ Emitted.at = Len(rows)
  BY DEF TypeInv, TypeOK, Emitted
<1>2. \A e \in trace' : e.at <= Len(rows')
  BY <1>1 DEF KeptInv, Emits
<1>3. \A e \in trace' : e \in fresh' \/ Overtaken(e)'
  BY DEF KeptInv, Emits, Overtaken
<1> QED BY <1>2, <1>3 DEF KeptInv, Emits

LEMMA TurnsKeep == TypeInv /\ KeptInv /\ (Ask \/ Regenerate \/ \E i \in DOMAIN rows : Edit(i)) => KeptInv'
<1>1. ASSUME NEW kept, Begin(kept) PROVE KeptInv'
  BY <1>1 DEF Begin, Reset, KeptInv, InFlight, Busy
<1> QED BY <1>1 DEF Ask, Regenerate, Edit

LEMMA RemarksKept == TypeInv /\ KeptInv /\ (SteerSent \/ SteerLands) => KeptInv'
<1>1. ASSUME KeptInv, UNCHANGED <<rows, status, trace, fresh, run, dropped>> PROVE KeptInv'
  BY <1>1 DEF KeptInv, InFlight, Overtaken, Stored
<1>2. ASSUME TypeInv, KeptInv, SteerLands, status \in Busy PROVE KeptInv'
  <2>1. rows' = AddRow(rows, "steer", {}) /\ UNCHANGED <<status, trace, run>>
    BY <1>2 DEF SteerLands
  <2>2. rows \in Seq(Row) /\ Len(rows) \in Nat /\ \A e \in trace : e.at \in Nat
    BY <1>2 DEF TypeInv, TypeOK, Event
  <2>3. Len(rows') = Len(rows) + 1 /\ Len(rows') \in DOMAIN rows' /\ rows'[Len(rows')].kind = "steer"
    BY <2>1, <2>2 DEF AddRow
  <2>4. \A e \in trace' : e.at <= Len(rows') /\ Len(rows') > e.at
    BY <1>2, <2>1, <2>2, <2>3 DEF KeptInv
  <2>5. \A e \in trace' : Overtaken(e)'
    BY <2>3, <2>4 DEF Overtaken
  <2>6. run' # None /\ run'.kind = "run" => run'.own = trace'
    BY <1>2, <2>1 DEF KeptInv
  <2> QED BY <2>4, <2>5, <2>6 DEF KeptInv
<1> QED BY <1>1, <1>2 DEF SteerSent, SteerLands

(* Whoever stores the turn's events has all that no remark hides.            *)
LEMMA OwnKept ==
  ASSUME TypeInv, KeptInv, run # None
  PROVE  /\ \A e \in trace : e.at \in Nat /\ e.at <= Len(rows) /\ (e \in fresh \/ Overtaken(e))
         /\ \A e \in trace : e \in OfTurn \/ Overtaken(e)
         /\ Emitted.at \in Nat /\ Emitted.at <= Len(rows)
<1>1. \A e \in trace : e.at \in Nat /\ e.at <= Len(rows) /\ (e \in fresh \/ Overtaken(e))
  BY DEF TypeInv, TypeOK, Event, KeptInv, InFlight
<1>2. Emitted.at \in Nat /\ Emitted.at <= Len(rows)
  BY DEF Emitted, TypeInv, TypeOK
<1>3. \A e \in trace : e \in OfTurn \/ Overtaken(e)
  BY <1>1 DEF OfTurn, KeptInv
<1> QED BY <1>1, <1>2, <1>3

LEMMA EndsStoreKept ==
  TypeInv /\ KeptInv /\ (ChatFails \/ AbortNoticed \/ PauseTooLate \/ RoundAnswers) => KeptInv'
<1>1. ASSUME TypeInv, KeptInv, run # None, Caught PROVE KeptInv'
  <2>1. status' \notin Busy /\ run' = None /\ trace' = trace
    BY <1>1 DEF Caught, Leave, Busy, TypeInv, StatusFits
  <2>2. CASE status = "cancelled"
    <3>1. rows' = AddRow(rows, "answer", fresh) \/ (rows' = rows /\ fresh = {})
      BY <2>2, <1>1 DEF Caught, Keep
    <3> QED BY <1>1, <2>1, <3>1, OwnKept, EndsKept
  <2>3. CASE status # "cancelled"
    <3>1. rows' = AddRow(rows, "answer", OfTurn) \/ (rows' = rows /\ OfTurn = {})
      BY <2>3, <1>1 DEF Caught, Keep
    <3> QED BY <1>1, <2>1, <3>1, OwnKept, EndsKept
  <2> QED BY <2>2, <2>3
<1>2. TypeInv /\ KeptInv /\ PauseTooLate => KeptInv'
  <2> SUFFICES ASSUME TypeInv, KeptInv, PauseTooLate PROVE KeptInv'
    OBVIOUS
  <2>1. run # None /\ status' \notin Busy /\ run' = None /\ trace' = trace
    BY DEF PauseTooLate, Alive, Aborted, Leave, Busy
  <2>2. rows' = AddRow(rows, "answer", OfTurn) \/ (rows' = rows /\ OfTurn = {})
    BY DEF PauseTooLate, Keep
  <2> QED BY <2>1, <2>2, OwnKept, EndsKept
<1>3. TypeInv /\ KeptInv /\ RoundAnswers => KeptInv'
  <2> SUFFICES ASSUME TypeInv, KeptInv, RoundAnswers PROVE KeptInv'
    OBVIOUS
  <2> DEFINE events == OfTurn \union {Emitted}
  <2>1. run # None /\ status' \notin Busy /\ run' = None /\ trace' = trace \union {Emitted}
    BY DEF RoundAnswers, Alive, Aborted, Busy
  <2>2. rows' = AddRow(rows, "answer", events)
    BY DEF RoundAnswers
  <2>3. \A e \in trace' : e.at \in Nat /\ e.at <= Len(rows) /\ (e \in events \/ Overtaken(e))
    BY <2>1, OwnKept
  <2> HIDE DEF events
  <2> QED BY <2>1, <2>2, <2>3, EndsKept
<1> QED BY <1>1, <1>2, <1>3 DEF ChatFails, AbortNoticed, Alive

LEMMA StepsKeep ==
  TypeInv /\ ReadInv /\ KeptInv
  /\ (Poll \/ Delta \/ (\E n \in 1..MaxCalls : RoundCalls(n)) \/ ToolTaken \/ Denied \/ ToolEnds)
    => KeptInv'
<1>0. ASSUME TypeInv, KeptInv, run # None
      PROVE  /\ run \in Run /\ InFlight
             /\ run.kind = "run" => run.own = trace /\ Own = trace \union {Emitted}
  BY <1>0 DEF TypeInv, TypeOK, KeptInv, InFlight, Own
<1>1. run' \in Run => InFlight'
  BY NoneAssumption DEF InFlight
<1>2. TypeInv /\ ReadInv /\ KeptInv /\ (Poll \/ Delta \/ ToolTaken) => KeptInv'
  <2> SUFFICES ASSUME TypeInv, ReadInv, KeptInv, Poll \/ Delta \/ ToolTaken PROVE KeptInv'
    OBVIOUS
  <2>1. run # None /\ UNCHANGED <<rows, trace, fresh>>
    BY DEF Poll, Delta, ToolTaken, Alive
  <2>2. run'.own = run.own /\ run'.kind = run.kind
    BY <1>0, <2>1 DEF Poll, Delta, ToolTaken, Run
  <2> QED BY <1>0, <1>1, <2>1, <2>2, PollRun, TakenRun, GoesOnKept
<1>3. TypeInv /\ KeptInv /\ (\E n \in 1..MaxCalls : RoundCalls(n)) => KeptInv'
  <2> SUFFICES ASSUME TypeInv, KeptInv, NEW n \in 1..MaxCalls, RoundCalls(n) PROVE KeptInv'
    OBVIOUS
  <2>1. run # None /\ UNCHANGED <<rows, status>> /\ Emits
    BY DEF RoundCalls, Alive
  <2>2. run'.own = Own /\ run'.kind = run.kind
    BY <1>0, <2>1 DEF RoundCalls, Run
  <2> QED BY <1>0, <1>1, <2>1, <2>2, RoundCallsRun, EmitsKept
<1>4. TypeInv /\ KeptInv /\ (Denied \/ ToolEnds) => KeptInv'
  <2> SUFFICES ASSUME TypeInv, KeptInv, Denied \/ ToolEnds PROVE KeptInv'
    OBVIOUS
  <2>1. run # None /\ UNCHANGED <<rows, status>> /\ Emits
    BY DEF Denied, ToolEnds, Alive
  <2>2. run'.own = Own /\ run'.kind = run.kind
    BY <1>0, <2>1 DEF Denied, ToolEnds, Called, Run
  <2> QED BY <1>0, <1>1, <2>1, <2>2, CalledRun, EmitsKept
<1> QED BY <1>2, <1>3, <1>4

LEMMA WaitsKeep ==
  TypeInv /\ KeptInv /\ (Pause \/ \E v \in {"approved", "denied"} : Resume(v)) => KeptInv'
<1>1. TypeInv /\ KeptInv /\ Pause => KeptInv'
  BY DEF Pause, Alive, KeptInv, InFlight, Overtaken, Busy
<1>2. TypeInv /\ KeptInv /\ (\E v \in {"approved", "denied"} : Resume(v)) => KeptInv'
  BY DEF Resume, KeptInv, InFlight, Overtaken, Busy
<1> QED BY <1>1, <1>2

LEMMA OutsideKept ==
  TypeInv /\ KeptInv
  /\ ((\E st \in {"cancelled", "failed"} : LeavePaused(st)) \/ Cancel \/ Invalidate \/ Restart)
    => KeptInv'
<1>0. ASSUME TypeInv, KeptInv, InFlight
      PROVE  \A e \in trace : e.at \in Nat /\ e.at <= Len(rows) /\ (e \in fresh \/ Overtaken(e))
  BY <1>0 DEF KeptInv, TypeInv, TypeOK, Event
<1>1. ASSUME TypeInv, KeptInv, NEW st \in {"cancelled", "failed"}, LeavePaused(st) PROVE KeptInv'
  <2>1. rows' = AddRow(rows, "answer", fresh) \/ (rows' = rows /\ fresh = {})
    BY <1>1 DEF LeavePaused, Keep
  <2>2. InFlight /\ run' = None /\ status' \notin Busy /\ trace' = trace
    BY <1>1 DEF LeavePaused, InFlight, Busy, TypeInv, StatusFits
  <2> QED BY <1>0, <1>1, <2>1, <2>2, EndsKept
<1>2. TypeInv /\ KeptInv /\ Cancel => KeptInv'
  BY DEF Cancel, KeptInv, InFlight, Overtaken, TypeInv, StatusFits, Busy
<1>3. TypeInv /\ KeptInv /\ Invalidate => KeptInv'
  BY DEF Invalidate, KeptInv, InFlight, Busy
<1>4. TypeInv /\ KeptInv /\ Restart => KeptInv'
  <2> SUFFICES ASSUME TypeInv, KeptInv, Restart PROVE KeptInv'
    OBVIOUS
  <2>1. CASE status = "running"
    <3> DEFINE events == IF content THEN trace ELSE fresh
    <3>1. rows' = AddRow(rows, "answer", events) \/ (rows' = rows /\ events = {})
      BY <2>1 DEF Restart, Keep
    <3>2. InFlight /\ run' = None /\ status' \notin Busy /\ trace' = trace
      BY <2>1 DEF Restart, InFlight, Busy
    <3>3. \A e \in trace' : e.at \in Nat /\ e.at <= Len(rows) /\ (e \in events \/ Overtaken(e))
      BY <1>0, <3>2
    <3> HIDE DEF events
    <3> QED BY <3>1, <3>2, <3>3, EndsKept
  <2>2. CASE status # "running"
    <3>1. UNCHANGED <<rows, fresh, status, trace>> /\ run' = None
          /\ (dropped' = (dropped \/ (run # None /\ Aborted)))
      BY <2>2 DEF Restart
    <3>2. run # None => Aborted
      BY <2>2 DEF Aborted, TypeInv, StatusFits
    <3>3. InFlight' => InFlight
      BY <3>1 DEF InFlight
    <3>4. ~InFlight' /\ ~dropped' => ~InFlight /\ ~dropped
      BY <3>1, <3>2 DEF InFlight
    <3> QED BY <3>1, <3>3, <3>4 DEF KeptInv, Overtaken, Stored
  <2> QED BY <2>1, <2>2
<1> QED BY <1>1, <1>2, <1>3, <1>4

LEMMA KeptInvNext == TypeInv /\ ReadInv /\ KeptInv /\ [Next]_vars => KeptInv'
<1>1. KeptInv /\ UNCHANGED vars => KeptInv'
  BY DEF vars, KeptInv, InFlight, Overtaken, Stored
<1> QED BY <1>1, TurnsKeep, RemarksKept, EndsStoreKept, StepsKeep, WaitsKeep, OutsideKept DEF Next

-----------------------------------------------------------------------------
(* The theorems.                                                             *)

LEMMA InvAlways == Spec => [](TypeInv /\ ReadInv /\ OnceInv /\ KeptInv)
<1>1. Init => TypeInv /\ ReadInv /\ OnceInv /\ KeptInv
  BY TypeInvInit, ReadInvInit, OnceInvInit, KeptInvInit
<1>2. TypeInv /\ ReadInv /\ OnceInv /\ KeptInv /\ [Next]_vars
        => (TypeInv /\ ReadInv /\ OnceInv /\ KeptInv)'
  BY TypeInvNext, ReadInvNext, OnceInvNext, KeptInvNext
<1> QED BY <1>1, <1>2, PTL DEF Spec

(* The message rows, the conversation's row and the run keep their types.    *)
THEOREM TypeCorrect == Spec => []TypeOK
<1>1. TypeInv => TypeOK
  BY DEF TypeInv
<1> QED BY <1>1, InvAlways, PTL

(* Every row up to a run's watermark has been given to the model once, and   *)
(* none behind it, over pauses, approvals and restarts (steerWatermark and   *)
(* pollSteer).                                                               *)
THEOREM RemarksReadOnce == Spec => []ReadOnce
<1>1. ReadInv => ReadOnce
  BY DEF ReadInv, ReadTo, ReadOnce
<1> QED BY <1>1, InvAlways, PTL

(* No event is stored with two answers or with another turn's, whichever way *)
(* the turns end (handleAgentResult, safeSalvage, cancelledCatchGuard,       *)
(* preservePausedOutput, salvageInterrupted).                                *)
THEOREM EventsStoredOnce == Spec => []EventOnce
<1> QED BY OnceInvEventOnce, InvAlways, PTL

(* A turn that is over has stored every event with its answer, but those a   *)
(* later remark hides from currentTurnTrace and those given up on purpose.   *)
THEOREM EventsKept == Spec => []EventKept
<1>1. KeptInv => EventKept
  BY DEF KeptInv, EventKept, InFlight, Stored, Overtaken
<1> QED BY <1>1, InvAlways, PTL
=============================================================================
