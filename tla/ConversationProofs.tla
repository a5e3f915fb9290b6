------------------------- MODULE ConversationProofs -------------------------
(* Proofs about Conversation, for every value of its constants: types; who   *)
(* may write a conversation; what a turn leaves behind, up to the refinement *)
(* of ConversationLifecycle; what happens to a tool call, and on which       *)
(* cluster.                                                                  *)
EXTENDS Conversation, SequenceTheorems, TLAPS

-----------------------------------------------------------------------------
(* Typing, strengthened: a run that is not idle knows its conversation and   *)
(* cluster and has a tool when it is at the gate or returns to wait; a       *)
(* paused row can be resumed.                                                *)

RunOK(a) ==
  /\ a \in RunRecord
  /\ a.pc # "idle" => a.conv \in Conv /\ a.cluster \in Cluster
  /\ a.pc = "gate" => a.queue # <<>>
  /\ a.pc = "return" /\ a.result = "pending" => a.queue # <<>>

Resumable(x) ==
  x.status = "paused" =>
    x.pending # None /\ x.saved # <<>> /\ Head(x.saved) = x.pending.call

RowOK(x) == x \in Row /\ Resumable(x)

RunsOK == run \in [Runs -> RunRecord] /\ \A r \in Runs : RunOK(run[r])
RowsOK == row \in [Conv -> Row] /\ \A c \in Conv : RowOK(row[c])
RequestsOK ==
  /\ sending \in [Senders -> SendRequest \cup {None}]
  /\ approving \in [Approvers -> [conv : Conv, shown : Calls] \cup {None}]
  /\ rebinding \in [Rebinders -> [was : Cluster, to : Cluster] \cup {None}]
HistoryOK ==
  /\ issued \in SUBSET Calls
  /\ verdict \in [Calls -> Verdict \cup {None}]
  /\ ran \in [Calls -> Seq(Cluster)]
  /\ auto \in SUBSET Calls
RestOK ==
  /\ proj \in Cluster \cup {None}
  /\ mode \in Modes
  /\ epoch \in [Conv -> Nat]
  /\ active \in [Conv -> Runs \cup {None}]
  /\ restarts \in Nat /\ missed \in SUBSET Conv

TypeInv == RunsOK /\ RowsOK /\ RequestsOK /\ HistoryOK /\ RestOK

-----------------------------------------------------------------------------
(* The row operators keep a row well formed.                                 *)

LEMMA AppendAnswerOK ==
  ASSUME NEW x \in Row
  PROVE  /\ AppendAnswer(x) \in Row
         /\ AppendAnswer(x).status = x.status
         /\ AppendAnswer(x).pending = x.pending
         /\ AppendAnswer(x).saved = x.saved
<1>1. Append(x.msgs, Assistant) \in Seq(Nat)
  BY AppendProperties DEF Row, Assistant
<1> QED
  BY <1>1 DEF AppendAnswer, Row

LEMMA KeepPartialOK ==
  ASSUME NEW x \in Row, NEW partial \in BOOLEAN
  PROVE  /\ KeepPartial(x, partial) \in Row
         /\ KeepPartial(x, partial).status = x.status
         /\ KeepPartial(x, partial).pending = x.pending
         /\ KeepPartial(x, partial).saved = x.saved
BY AppendAnswerOK DEF KeepPartial

LEMMA EndRowOK ==
  ASSUME NEW x \in Row, NEW status \in Ended
  PROVE  RowOK(EndRow(x, status)) /\ EndRow(x, status).status = status
<1> DEFINE y == IF x.status = "paused" THEN PreservePausedOutput(x) ELSE x
<1>1. y \in Row
  BY AppendAnswerOK DEF PreservePausedOutput
<1>2. EndRow(x, status) = [y EXCEPT !.status = status, !.pending = None]
  BY DEF EndRow
<1> HIDE DEF y
<1> QED
  BY <1>1, <1>2 DEF RowOK, Resumable, Row, Ended, Status

LEMMA ResetRowOK ==
  ASSUME NEW x \in Row, NEW msgs \in Seq(Nat)
  PROVE  RowOK(ResetRow(x, msgs)) /\ ResetRow(x, msgs).status = "running"
<1> DEFINE gen == x.gen + 1
<1>1. gen \in Nat
  BY DEF Row
<1>2. ResetRow(x, msgs) =
        [x EXCEPT !.status = "running", !.pending = None, !.content = 0,
                  !.trace = 0, !.gen = gen, !.msgs = msgs]
  BY DEF ResetRow
<1> HIDE DEF gen
<1>3. "running" \in Status
  BY DEF Status, Busy
<1>4. ResetRow(x, msgs) \in Row
  <2>1. ResetRow(x, msgs) =
          [status |-> "running", pending |-> None, saved |-> x.saved, gen |-> gen,
           content |-> 0, trace |-> 0, msgs |-> msgs]
    BY <1>2 DEF Row
  <2> QED
    BY <1>1, <1>3, <2>1 DEF Row
<1>5. /\ ResetRow(x, msgs).status = "running"
      /\ ResetRow(x, msgs).pending = None
  BY <1>2 DEF Row
<1> QED
  BY <1>4, <1>5 DEF RowOK, Resumable

LEMMA NoRowOK == RowOK(NoRow) /\ RowOK([NoRow EXCEPT !.status = "gone"])
BY EmptySeq DEF RowOK, Resumable, Row, NoRow, Status

LEMMA IdleOK == RunOK(Idle)
BY EmptySeq DEF RunOK, RunRecord, Pc, Idle

(* The rows that regenerate and edit keep are messages of the conversation.  *)
LEMMA KeptOK ==
  ASSUME NEW m \in Seq(Nat)
  PROVE  /\ \A kept \in UpToLastUser(m) : kept \in Seq(Nat)
         /\ \A anchor \in Nat : \A kept \in BeforeAnchor(m, anchor) : kept \in Seq(Nat)
<1>1. \A i \in 1..Len(m), j \in 0..Len(m) : SubSeq(m, 1, j) \in Seq(Nat)
  <2> SUFFICES ASSUME NEW j \in 0..Len(m) PROVE SubSeq(m, 1, j) \in Seq(Nat)
    OBVIOUS
  <2>1. \A i \in 1..j : m[i] \in Nat
    BY LenProperties, ElementOfSeq
  <2> QED BY <2>1, SubSeqProperties
<1>2. UserRows(m) \subseteq 1..Len(m)
  BY DEF UserRows
<1>3. \A i \in 1..Len(m) : i \in 0..Len(m) /\ i - 1 \in 0..Len(m)
  BY LenProperties
<1> QED
  BY <1>1, <1>2, <1>3 DEF UpToLastUser, BeforeAnchor

-----------------------------------------------------------------------------
(* The operators that update runs and rows.                                  *)

LEMMA OneRunOK ==
  ASSUME RunsOK, NEW r \in Runs, NEW a, RunOK(a), run' = [run EXCEPT ![r] = a]
  PROVE  RunsOK'
<1>1. run' \in [Runs -> RunRecord]
  BY DEF RunsOK, RunOK
<1>2. \A s \in Runs : RunOK(run'[s])
  BY DEF RunsOK
<1>3. (\A s \in Runs : RunOK(run[s]))' = (\A s \in Runs : RunOK(run'[s]))
  BY DEF RunOK
<1> QED BY <1>1, <1>2, <1>3 DEF RunsOK

LEMMA OneRowOK ==
  ASSUME RowsOK, NEW c \in Conv, NEW x, RowOK(x), row' = [row EXCEPT ![c] = x]
  PROVE  RowsOK'
<1>1. row' \in [Conv -> Row]
  BY DEF RowsOK, RowOK
<1>2. \A d \in Conv : RowOK(row'[d])
  BY DEF RowsOK
<1> QED BY <1>1, <1>2 DEF RowsOK, RowOK, Resumable

LEMMA AbortOK ==
  ASSUME RunsOK, NEW cs, Abort(cs)
  PROVE  RunsOK'
<1>1. ASSUME NEW r \in Runs PROVE RunOK([run[r] EXCEPT !.aborted = TRUE])
  BY DEF RunsOK, RunOK, RunRecord
<1>2. \A r \in Runs : RunOK(run'[r])
  BY <1>1 DEF Abort, RunsOK
<1>3. run' \in [Runs -> RunRecord]
  BY <1>1 DEF Abort, RunsOK, RunOK
<1> QED BY <1>2, <1>3 DEF RunsOK, RunOK

LEMMA ExitOK ==
  ASSUME RunsOK, RestOK, NEW r \in Runs, Exit(r)
  PROVE  RunsOK' /\ active' \in [Conv -> Runs \cup {None}]
<1>1. RunsOK'
  BY IdleOK, OneRunOK DEF Exit
<1>2. active' \in [Conv -> Runs \cup {None}]
  BY DEF Exit, RestOK
<1> QED BY <1>1, <1>2

(* A run at its program counter keeps its record when it only moves on.      *)
LEMMA GotoOK ==
  ASSUME RunsOK, NEW r \in Runs, run[r].pc # "idle",
         NEW pc \in {"refresh", "chat", "throw"}, Goto(r, pc)
  PROVE  RunsOK'
<1>1. RunOK([run[r] EXCEPT !.pc = pc])
  BY DEF RunsOK, RunOK, RunRecord, Pc
<1>2. run' = [run EXCEPT ![r] = [run[r] EXCEPT !.pc = pc]]
  BY DEF Goto, RunsOK
<1> QED BY <1>1, <1>2, OneRunOK

LEMMA LaunchOK ==
  ASSUME RunsOK, RowsOK, RestOK,
         NEW r \in Runs, NEW c \in Conv, NEW x, RowOK(x), x.status = "running",
         NEW queue \in Seq(Calls), NEW target \in Calls \cup {None},
         NEW ok \in BOOLEAN, Launch(r, c, x, queue, target, ok)
  PROVE  /\ RunsOK' /\ RowsOK'
         /\ epoch' \in [Conv -> Nat] /\ active' \in [Conv -> Runs \cup {None}]
<1>1. epoch' \in [Conv -> Nat] /\ epoch[c] + 1 \in Nat
  BY DEF Launch, RestOK
<1>2. RowOK([x EXCEPT !.status = "failed"])
  BY DEF RowOK, Resumable, Row, Status, Ended
<1>3. CASE proj = None
  <2>1. row' = [row EXCEPT ![c] = [x EXCEPT !.status = "failed"]]
        /\ UNCHANGED <<run, active>>
    BY <1>3 DEF Launch
  <2>2. RowsOK'
    BY <1>2, <2>1, OneRowOK
  <2> QED BY <1>1, <2>1, <2>2 DEF RunsOK, RestOK, RunOK
<1>4. CASE proj # None
  <2> DEFINE pc == IF queue # <<>> THEN "gate" ELSE "refresh"
             a == [pc |-> pc, conv |-> c, epoch |-> epoch[c] + 1,
                   gen |-> x.gen, cluster |-> proj, queue |-> queue,
                   target |-> target, ok |-> ok, partial |-> x.content # 0,
                   aborted |-> FALSE, late |-> 0, result |-> "none"]
  <2>1. row' = [row EXCEPT ![c] = x] /\ active' = [active EXCEPT ![c] = r]
        /\ run' = [run EXCEPT ![r] = a]
    BY <1>4 DEF Launch
  <2>2. RunOK(a)
    <3>1. proj \in Cluster /\ x.gen \in Nat
      BY <1>4 DEF RestOK, RowOK, Row
    <3>2. pc \in Pc /\ "none" \in {"none", "pending", "final"} /\ 0 \in Nat
          /\ (x.content # 0) \in BOOLEAN /\ FALSE \in BOOLEAN
      BY DEF Pc
    <3>3. a \in RunRecord
      BY <1>1, <3>1, <3>2 DEF RunRecord
    <3>4. a.pc = pc /\ a.conv = c /\ a.cluster = proj /\ a.queue = queue
      OBVIOUS
    <3> QED BY <3>1, <3>3, <3>4 DEF RunOK
  <2> HIDE DEF a
  <2>3. RowsOK' /\ RunsOK'
    BY <2>1, <2>2, OneRowOK, OneRunOK
  <2> QED BY <1>1, <2>1, <2>3 DEF RestOK
<1> QED BY <1>3, <1>4

LEMMA AfterCheckOK ==
  ASSUME NEW r, NEW queue
  PROVE  /\ AfterCheck(r, queue) \in {"throw", "gate", "refresh"}
         /\ AfterCheck(r, queue) = "gate" => queue # <<>>
BY DEF AfterCheck

LEMMA OnStepOK ==
  ASSUME RunsOK, RowsOK, NEW r \in Runs, run[r].pc # "idle",
         NEW after, RunOK(after), NEW x, RowOK(x), OnStep(r, after, x)
  PROVE  RunsOK' /\ RowsOK'
<1>1. run[r].conv \in Conv /\ RunOK([run[r] EXCEPT !.pc = "throw"])
  BY DEF RunsOK, RunOK, RunRecord, Pc
<1>2. RunsOK'
  <2> DEFINE a == IF row[run[r].conv].status \notin Stored /\ ~IsSuperseded(r)
                    THEN [run[r] EXCEPT !.pc = "throw"] ELSE after
  <2>1. run' = [run EXCEPT ![r] = a]
    BY DEF OnStep, RunsOK
  <2>2. RunOK(a)
    BY <1>1
  <2> HIDE DEF a
  <2> QED BY <2>1, <2>2, OneRunOK
<1>3. CASE row' = row
  BY <1>2, <1>3 DEF RowsOK, RowOK, Resumable
<1>4. CASE row' = [row EXCEPT ![run[r].conv] = x]
  BY <1>1, <1>2, <1>4, OneRowOK
<1> QED BY <1>3, <1>4 DEF OnStep

(* Storing an event, with or without the checkpoint, leaves a row well       *)
(* formed.                                                                   *)
LEMMA EventOK ==
  ASSUME NEW x, RowOK(x), NEW gen \in Nat, NEW content \in Nat
  PROVE  /\ RowOK([x EXCEPT !.trace = gen])
         /\ RowOK([x EXCEPT !.content = content])
         /\ RowOK([x EXCEPT !.trace = gen, !.content = content])
BY DEF RowOK, Resumable, Row

LEMMA EndRoundOK ==
  ASSUME RunsOK, RowsOK, NEW r \in Runs, run[r].pc # "idle",
         NEW next \in {"throw", "gate", "refresh", "return"},
         NEW queue \in Seq(Calls), next = "gate" => queue # <<>>,
         NEW result \in {"none", "final"},
         EndRound(r, next, queue, result)
  PROVE  RunsOK' /\ RowsOK'
<1> DEFINE c == run[r].conv
           keep == IsSuperseded(r) \/ DbCancelled(c)
           partial == keep /\ run[r].partial
           content == IF DbCancelled(c) THEN row[c].content ELSE 0
           after == [run[r] EXCEPT !.pc = next, !.queue = queue, !.result = result,
                                   !.target = None, !.partial = partial]
           x == [row[c] EXCEPT !.trace = run[r].gen, !.content = content]
<1>1. c \in Conv /\ run[r] \in RunRecord /\ RunOK(run[r]) /\ RowOK(row[c])
  BY DEF RunsOK, RunOK, RowsOK
<1>2. RowOK(x)
  <2>1. run[r].gen \in Nat /\ content \in Nat
    BY <1>1 DEF RunRecord, RowOK, Row
  <2> HIDE DEF content
  <2> QED BY <1>1, <2>1, EventOK
<1>3. RunOK(after)
  <2>1. partial \in BOOLEAN
    BY <1>1 DEF RunRecord, IsSuperseded, DbCancelled
  <2> HIDE DEF partial
  <2>2. /\ after = [run[r] EXCEPT !.pc = next, !.queue = queue, !.result = result,
                                   !.target = None, !.partial = partial]
        /\ next \in Pc
    BY DEF Pc
  <2> HIDE DEF after
  <2>3. after \in RunRecord
    BY <1>1, <2>1, <2>2 DEF RunRecord
  <2>4. /\ after.pc = next /\ after.queue = queue /\ after.result = result
        /\ after.conv = c /\ after.cluster = run[r].cluster
    BY <1>1, <2>2 DEF RunRecord
  <2> QED BY <1>1, <2>3, <2>4 DEF RunOK
<1>4. OnStep(r, after, x)
  BY DEF EndRound
<1> HIDE DEF after, x
<1> QED BY <1>2, <1>3, <1>4, OnStepOK

LEMMA HandleAgentResultOK ==
  ASSUME RunsOK, RowsOK, NEW r \in Runs, run[r].pc = "return"
  PROVE  RowOK(HandleAgentResult(r))
<1> DEFINE a == run[r]
           x == row[a.conv]
           mine == IF a.partial THEN a.gen ELSE 0
<1>1. a \in RunRecord /\ a.conv \in Conv /\ a.cluster \in Cluster /\ RowOK(x)
  BY DEF RunsOK, RunOK, RowsOK
<1>2. mine \in Nat /\ a.gen \in Nat /\ a.queue \in Seq(Calls)
  BY <1>1 DEF RunRecord
<1>3. CASE a.result = "pending"
  <2> DEFINE p == [call |-> Head(a.queue), cluster |-> a.cluster]
             y == [x EXCEPT !.status = "paused", !.saved = a.queue,
                            !.content = mine, !.pending = p]
  <2>1. a.queue # <<>> /\ Head(a.queue) \in Calls
    BY <1>2, <1>3, HeadTailProperties DEF RunsOK, RunOK
  <2>2. p \in Pending /\ p.call = Head(a.queue)
    BY <1>1, <2>1 DEF Pending
  <2>3. p # None
    BY <2>2, ConstantsAssumption
  <2> HIDE DEF p
  <2>4. HandleAgentResult(r) = y
    BY <1>3 DEF HandleAgentResult, p
  <2> HIDE DEF mine
  <2>5. y \in Row /\ y.status = "paused" /\ y.pending = p /\ y.saved = a.queue
    BY <1>1, <1>2, <2>2 DEF RowOK, Row, Status, Busy
  <2> QED BY <2>1, <2>2, <2>3, <2>4, <2>5 DEF RowOK, Resumable
<1>4. CASE a.result # "pending"
  <2> DEFINE z == AppendAnswer(x)
             y == [z EXCEPT !.status = "done", !.content = a.gen]
  <2>1. z \in Row /\ "done" \in Status
    BY <1>1, AppendAnswerOK DEF RowOK, Status, Ended
  <2>2. HandleAgentResult(r) = y
    BY <1>4 DEF HandleAgentResult
  <2> HIDE DEF z
  <2>3. y \in Row /\ y.status = "done"
    BY <1>2, <2>1 DEF Row
  <2> QED BY <2>2, <2>3 DEF RowOK, Resumable
<1> QED BY <1>3, <1>4

-----------------------------------------------------------------------------
(* Every step keeps TypeInv.                                                 *)

LEMMA RunStepKeepsType ==
  ASSUME TypeInv, NEW r \in Runs, RunStep(r)
  PROVE  TypeInv'
<1> USE DEF TypeInv
<1> DEFINE a == run[r]
           c == run[r].conv
<1>0. a \in RunRecord /\ RunOK(a) /\ (a.pc # "idle" => RowOK(row[c]) /\ c \in Conv)
  BY DEF RunsOK, RunOK, RowsOK
<1>a. a.gen \in Nat /\ a.queue \in Seq(Calls) /\ a.partial \in BOOLEAN
  BY <1>0 DEF RunRecord
<1>b. ASSUME UNCHANGED <<reqs, hist>> PROVE RequestsOK' /\ HistoryOK'
  BY <1>b DEF reqs, hist, RequestsOK, HistoryOK
<1>c. ASSUME UNCHANGED <<proj, missed, mode, epoch, active, restarts>> PROVE RestOK'
  BY <1>c DEF RestOK
<1>d. ASSUME UNCHANGED row PROVE RowsOK'
  BY <1>d DEF RowsOK, RowOK, Resumable
<1>1. CASE GatePause(r)
  <2>1. RunOK([a EXCEPT !.pc = "return", !.result = "pending"])
    BY <1>0, <1>1 DEF GatePause, RunOK, RunRecord, Pc
  <2>2. RunsOK'
    BY <1>1, <2>1, OneRunOK DEF GatePause, RunsOK
  <2> QED BY <1>1, <2>2, <1>b, <1>c, <1>d DEF GatePause
<1>2. CASE ExecTool(r)
  <2>1. a.queue # <<>> /\ Head(a.queue) \in Calls /\ Tail(a.queue) \in Seq(Calls)
        /\ a.cluster \in Cluster
    BY <1>0, <1>2, <1>a, HeadTailProperties DEF ExecTool, RunOK
  <2> DEFINE late == IF Stopped(r) THEN a.late + 1 ELSE a.late
             b == [a EXCEPT !.pc = "exec", !.queue = Tail(a.queue), !.target = None,
                            !.late = late]
  <2>2. late \in Nat
    BY <1>0 DEF RunRecord
  <2> HIDE DEF late
  <2>3. RunOK(b)
    BY <1>0, <1>2, <2>1, <2>2 DEF ExecTool, RunOK, RunRecord, Pc
  <2>4. run' = [run EXCEPT ![r] = b]
    BY <1>2 DEF ExecTool, RunsOK, late
  <2> HIDE DEF b
  <2>5. RunsOK'
    BY <2>3, <2>4, OneRunOK
  <2>6. ran' \in [Calls -> Seq(Cluster)]
    BY <1>2, <2>1, AppendProperties DEF ExecTool, HistoryOK
  <2>7. auto' \in SUBSET Calls /\ UNCHANGED <<issued, verdict>>
    BY <1>2, <2>1 DEF ExecTool, HistoryOK
  <2>8. HistoryOK'
    BY <2>6, <2>7 DEF HistoryOK
  <2>9. UNCHANGED reqs /\ RequestsOK'
    BY <1>2 DEF ExecTool, reqs, RequestsOK
  <2> QED BY <1>2, <2>5, <2>8, <2>9, <1>c, <1>d DEF ExecTool
<1>3. CASE ToolDone(r)
  <2>1. AfterCheck(r, a.queue) \in {"throw", "gate", "refresh"}
        /\ (AfterCheck(r, a.queue) = "gate" => a.queue # <<>>)
    BY AfterCheckOK
  <2>2. RunOK([a EXCEPT !.pc = AfterCheck(r, a.queue)])
    BY <1>0, <1>3, <2>1 DEF ToolDone, RunOK, RunRecord, Pc
  <2>3. RowOK([row[c] EXCEPT !.trace = a.gen])
    BY <1>0, <1>3, <1>a, EventOK DEF ToolDone
  <2>4. RunsOK' /\ RowsOK'
    BY <1>3, <2>2, <2>3, OnStepOK DEF ToolDone
  <2> QED BY <1>3, <2>4, <1>b, <1>c DEF ToolDone
<1>4. CASE SkipTool(r)
  <2> DEFINE queue == Tail(a.queue)
             b == [a EXCEPT !.pc = AfterCheck(r, queue), !.queue = queue, !.target = None]
  <2>1. queue \in Seq(Calls)
    BY <1>0, <1>4, <1>a, HeadTailProperties DEF SkipTool, RunOK
  <2> HIDE DEF queue
  <2>2. AfterCheck(r, queue) \in {"throw", "gate", "refresh"}
        /\ (AfterCheck(r, queue) = "gate" => queue # <<>>)
    BY AfterCheckOK
  <2>3. RunOK(b)
    BY <1>0, <1>4, <2>1, <2>2 DEF SkipTool, RunOK, RunRecord, Pc
  <2>4. RowOK([row[c] EXCEPT !.trace = a.gen])
    BY <1>0, <1>4, <1>a, EventOK DEF SkipTool
  <2>5. OnStep(r, b, [row[c] EXCEPT !.trace = a.gen]) /\ a.pc # "idle"
    BY <1>4 DEF SkipTool, queue
  <2> HIDE DEF b
  <2>6. RunsOK' /\ RowsOK'
    BY <2>3, <2>4, <2>5, OnStepOK
  <2> QED BY <1>4, <2>6, <1>b, <1>c DEF SkipTool
<1>5. CASE ChatStart(r)
  <2>1. RunsOK'
    BY <1>5, GotoOK DEF ChatStart
  <2> QED BY <1>5, <2>1, <1>b, <1>c, <1>d DEF ChatStart
<1>6. CASE ChatTools(r)
  <2>1. PICK queue \in {<<k>> : k \in Calls \ issued} \cup
                      {s \in (Calls \ issued) \X (Calls \ issued) : s[1] # s[2]} :
          /\ issued' = issued \cup {queue[i] : i \in DOMAIN queue}
          /\ EndRound(r, AfterCheck(r, queue), queue, "none")
    BY <1>6 DEF ChatTools
  <2>2. queue \in Seq(Calls) /\ \A i \in DOMAIN queue : queue[i] \in Calls
    <3>1. CASE \E k \in Calls : queue = <<k>>
      BY <3>1
    <3>2. CASE queue \in Calls \X Calls
      <4>1. PICK j \in Calls, k \in Calls : queue = <<j, k>>
        BY <3>2
      <4> QED BY <4>1
    <3>3. (\E k \in Calls : queue = <<k>>) \/ queue \in Calls \X Calls
      <4>1. (Calls \ issued) \X (Calls \ issued) \subseteq Calls \X Calls
        OBVIOUS
      <4>2. CASE queue \in {<<k>> : k \in Calls \ issued}
        BY <4>2
      <4>3. CASE queue \in (Calls \ issued) \X (Calls \ issued)
        BY <4>1, <4>3
      <4> QED BY <4>2, <4>3
    <3> QED BY <3>1, <3>2, <3>3
  <2>3. RunsOK' /\ RowsOK'
    BY <1>6, <2>1, <2>2, AfterCheckOK, EndRoundOK DEF ChatTools
  <2>4. HistoryOK'
    BY <1>6, <2>1, <2>2 DEF ChatTools, HistoryOK
  <2>5. RequestsOK'
    BY <1>6 DEF ChatTools, reqs, RequestsOK
  <2> QED BY <1>6, <2>3, <2>4, <2>5, <1>c DEF ChatTools
<1>7. CASE ChatFinal(r)
  <2>1. RunsOK' /\ RowsOK'
    BY <1>7, EndRoundOK, EmptySeq DEF ChatFinal
  <2> QED BY <1>7, <2>1, <1>b, <1>c DEF ChatFinal
<1>8. CASE ChatError(r)
  <2>1. RunsOK'
    BY <1>8, GotoOK DEF ChatError
  <2> QED BY <1>8, <2>1, <1>b, <1>c, <1>d DEF ChatError
<1>9. CASE \E flush \in BOOLEAN : Delta(r, flush)
  <2>1. PICK flush \in BOOLEAN : Delta(r, flush)
    BY <1>9
  <2>2. RunOK([a EXCEPT !.partial = TRUE])
    BY <1>0 DEF RunOK, RunRecord
  <2>3. RunsOK'
    BY <2>1, <2>2, OneRunOK DEF Delta, RunsOK
  <2>4. row' = row \/ row' = [row EXCEPT ![c] = [row[c] EXCEPT !.content = a.gen]]
    BY <2>1 DEF Delta, RowsOK
  <2>5. RowOK([row[c] EXCEPT !.content = a.gen]) /\ c \in Conv
    BY <1>0, <1>a, <2>1, EventOK DEF Delta
  <2>6. RowsOK'
    BY <2>4, <2>5, <1>d, OneRowOK
  <2> QED BY <2>1, <2>3, <2>6, <1>b, <1>c DEF Delta
<1>10. CASE Return(r)
  <2>1. RunsOK' /\ active' \in [Conv -> Runs \cup {None}]
    BY <1>10, ExitOK DEF Return
  <2>2. RowOK(KeepPartial(row[c], a.partial))
    BY <1>0, <1>10, <1>a, KeepPartialOK DEF Return, RowOK, Resumable
  <2>3. RowOK(HandleAgentResult(r))
    BY <1>10, HandleAgentResultOK DEF Return
  <2>4. \/ row' = row
        \/ row' = [row EXCEPT ![c] = KeepPartial(row[c], a.partial)]
        \/ row' = [row EXCEPT ![c] = HandleAgentResult(r)]
    BY <1>10 DEF Return, RowsOK
  <2>5. RowsOK'
    BY <1>0, <1>10, <2>2, <2>3, <2>4, <1>d, OneRowOK DEF Return
  <2>6. RestOK'
    BY <1>10, <2>1 DEF Return, RestOK
  <2> QED BY <1>10, <2>1, <2>5, <2>6, <1>b DEF Return
<1>11. CASE Catch(r)
  <2> DEFINE x == KeepPartial(row[c], a.partial)
             mine == IF a.partial THEN a.gen ELSE 0
             content == IF x = row[c] THEN x.content ELSE mine
             y == [x EXCEPT !.status = "failed", !.content = content]
  <2>1. RunsOK' /\ active' \in [Conv -> Runs \cup {None}]
    BY <1>11, ExitOK DEF Catch
  <2>2. RowOK(x) /\ x \in Row /\ c \in Conv
    BY <1>0, <1>11, <1>a, KeepPartialOK DEF Catch, RowOK, Resumable
  <2>3. row' = row \/ row' = [row EXCEPT ![c] = x] \/ row' = [row EXCEPT ![c] = y]
    BY <1>11 DEF Catch, RowsOK
  <2>4. RowOK(y)
    <3> HIDE DEF x
    <3>1. content \in Nat
      BY <1>a, <2>2 DEF Row
    <3> HIDE DEF content
    <3> QED BY <2>2, <3>1 DEF RowOK, Resumable, Row, Status, Ended
  <2> HIDE DEF x, y
  <2>5. RowsOK'
    BY <2>2, <2>3, <2>4, <1>d, OneRowOK
  <2>6. RestOK'
    BY <1>11, <2>1 DEF Catch, RestOK
  <2> QED BY <1>11, <2>1, <2>5, <2>6, <1>b DEF Catch
<1> QED
  BY <1>1, <1>2, <1>3, <1>4, <1>5, <1>6, <1>7, <1>8, <1>9, <1>10, <1>11
  DEF RunStep, Progress

LEMMA HandlerKeepsType ==
  ASSUME TypeInv, Handler
  PROVE  TypeInv'
<1> USE DEF TypeInv
<1>a. ASSUME UNCHANGED hist PROVE HistoryOK'
  BY <1>a DEF hist, HistoryOK
<1>b. ASSUME UNCHANGED reqs PROVE RequestsOK'
  BY <1>b DEF reqs, RequestsOK
<1>c. ASSUME UNCHANGED <<proj, missed, mode, epoch, active, restarts>> PROVE RestOK'
  BY <1>c DEF RestOK
<1>d. ASSUME UNCHANGED row PROVE RowsOK'
  BY <1>d DEF RowsOK, RowOK, Resumable
<1>e. ASSUME UNCHANGED run PROVE RunsOK'
  BY <1>e DEF RunsOK, RunOK
<1>1. ASSUME NEW q \in Senders, NEW c \in Conv,
             AcceptCreate(q, c) \/ AcceptMessage(q, c) \/ AcceptEdit(q, c)
      PROVE  TypeInv'
  <2>1. PICK kind \in {"create", "message", "edit"}, anchor \in Nat :
          Accept(q, kind, c, anchor)
    <3>1. CASE AcceptCreate(q, c) \/ AcceptMessage(q, c)
      BY <3>1 DEF AcceptCreate, AcceptMessage
    <3>2. CASE AcceptEdit(q, c)
      <4>1. PICK i \in UserRows(row[c].msgs) : Accept(q, "edit", c, row[c].msgs[i])
        BY <3>2 DEF AcceptEdit
      <4>2. row[c].msgs \in Seq(Nat) /\ i \in 1..Len(row[c].msgs)
        BY <4>1 DEF RowsOK, Row, UserRows
      <4>3. row[c].msgs[i] \in Nat
        BY <4>2, ElementOfSeq
      <4> QED BY <4>1, <4>3
    <3> QED BY <1>1, <3>1, <3>2
  <2>2. [kind |-> kind, conv |-> c, anchor |-> anchor] \in SendRequest
    BY DEF SendRequest
  <2>3. RequestsOK'
    BY <2>1, <2>2 DEF Accept, RequestsOK
  <2> QED BY <2>1, <2>3, <1>a, <1>c, <1>d, <1>e DEF Accept
<1>2. ASSUME NEW q \in Senders, RejectSend(q) PROVE TypeInv'
  <2>1. RequestsOK'
    BY <1>2 DEF RejectSend, RequestsOK
  <2> QED BY <1>2, <2>1, <1>a, <1>c, <1>d, <1>e DEF RejectSend
<1>3. ASSUME NEW q \in Senders, NEW r \in Runs, CommitSend(q, r) PROVE TypeInv'
  <2> DEFINE c == sending[q].conv
             x == row[c]
  <2>1. sending[q] \in SendRequest
    BY <1>3 DEF CommitSend, RequestsOK
  <2>2. c \in Conv /\ sending[q].anchor \in Nat
    BY <2>1 DEF SendRequest
  <2>3. x \in Row /\ x.msgs \in Seq(Nat) /\ x.gen + 1 \in Nat
    BY <2>2 DEF RowsOK, Row
  <2>4. PICK kept \in KeptRows(sending[q], x.msgs) :
          Launch(r, c, ResetRow(x, Append(kept, x.gen + 1)), <<>>, None, FALSE)
    BY <1>3 DEF CommitSend
  <2>5. kept \in Seq(Nat)
    BY <2>2, <2>3, <2>4, KeptOK DEF KeptRows
  <2>6. Append(kept, x.gen + 1) \in Seq(Nat)
    BY <2>3, <2>5, AppendProperties
  <2>7. RowOK(ResetRow(x, Append(kept, x.gen + 1)))
        /\ ResetRow(x, Append(kept, x.gen + 1)).status = "running"
    BY <2>3, <2>6, ResetRowOK
  <2>8. /\ RunsOK' /\ RowsOK'
        /\ epoch' \in [Conv -> Nat] /\ active' \in [Conv -> Runs \cup {None}]
    BY <2>2, <2>4, <2>7, LaunchOK, EmptySeq
  <2>9. RestOK' /\ RequestsOK'
    BY <1>3, <2>8 DEF CommitSend, RestOK, RequestsOK
  <2> QED BY <1>3, <2>8, <2>9, <1>a DEF CommitSend
<1>4. ASSUME NEW c \in Conv, NEW r \in Runs, Regenerate(c, r) PROVE TypeInv'
  <2>1. row[c] \in Row /\ row[c].msgs \in Seq(Nat)
    BY DEF RowsOK, Row
  <2>2. PICK kept \in UpToLastUser(row[c].msgs) :
          Launch(r, c, ResetRow(row[c], kept), <<>>, None, FALSE)
    BY <1>4 DEF Regenerate
  <2>3. RowOK(ResetRow(row[c], kept)) /\ ResetRow(row[c], kept).status = "running"
    BY <2>1, <2>2, KeptOK, ResetRowOK
  <2>4. /\ RunsOK' /\ RowsOK'
        /\ epoch' \in [Conv -> Nat] /\ active' \in [Conv -> Runs \cup {None}]
    BY <2>2, <2>3, LaunchOK, EmptySeq
  <2>5. RestOK'
    BY <1>4, <2>4 DEF Regenerate, RestOK
  <2> QED BY <1>4, <2>4, <2>5, <1>a, <1>b DEF Regenerate
<1>5. ASSUME NEW c \in Conv, NEW r \in Runs, NEW ok \in BOOLEAN, NEW shown \in Calls,
             Resume(c, r, ok, shown)
      PROVE  /\ RunsOK' /\ RowsOK' /\ verdict' \in [Calls -> Verdict \cup {None}]
             /\ epoch' \in [Conv -> Nat] /\ active' \in [Conv -> Runs \cup {None}]
  <2>1. row[c] \in Row /\ RowOK(row[c]) /\ row[c].status = "paused"
    BY <1>5 DEF RowsOK, Resume
  <2>2. row[c].pending \in Pending /\ row[c].saved \in Seq(Calls)
    BY <2>1 DEF RowOK, Resumable, Row
  <2>3. row[c].pending.call \in Calls /\ row[c].pending.cluster \in Cluster
    BY <2>2 DEF Pending
  <2>4. RowOK(Claimed(row[c])) /\ Claimed(row[c]).status = "running"
    BY <2>1 DEF Claimed, RowOK, Resumable, Row, Status, Busy
  <2>5. Launch(r, c, Claimed(row[c]), row[c].saved, row[c].pending.call, ok)
    BY <1>5 DEF Resume
  <2>6. verdict' \in [Calls -> Verdict \cup {None}]
    BY <1>5, <2>3 DEF Resume, HistoryOK, Verdict
  <2> QED BY <2>2, <2>3, <2>4, <2>5, <2>6, LaunchOK
<1>6. ASSUME NEW c \in Conv, NEW r \in Runs, Deny(c, r) PROVE TypeInv'
  <2>1. row[c].pending.call \in Calls
    BY <1>6 DEF Deny, RowsOK, RowOK, Resumable, Row, Pending
  <2>2. /\ RunsOK' /\ RowsOK' /\ verdict' \in [Calls -> Verdict \cup {None}]
        /\ epoch' \in [Conv -> Nat] /\ active' \in [Conv -> Runs \cup {None}]
    BY <1>5, <1>6, <2>1 DEF Deny
  <2>3. HistoryOK' /\ RestOK'
    BY <1>6, <2>2 DEF Deny, HistoryOK, RestOK
  <2> QED BY <1>6, <2>2, <2>3, <1>b DEF Deny
<1>7. ASSUME NEW q \in Approvers, NEW c \in Conv, AcceptApprove(q, c) PROVE TypeInv'
  <2>1. row[c].pending.call \in Calls
    BY <1>7 DEF AcceptApprove, RowsOK, RowOK, Resumable, Row, Pending
  <2>2. RequestsOK'
    BY <1>7, <2>1 DEF AcceptApprove, RequestsOK
  <2> QED BY <1>7, <2>2, <1>a, <1>c, <1>d, <1>e DEF AcceptApprove
<1>8. ASSUME NEW q \in Approvers, NEW r \in Runs, CommitApprove(q, r) PROVE TypeInv'
  <2>1. approving[q].conv \in Conv /\ approving[q].shown \in Calls
    BY <1>8 DEF CommitApprove, RequestsOK
  <2>2. /\ RunsOK' /\ RowsOK' /\ verdict' \in [Calls -> Verdict \cup {None}]
        /\ epoch' \in [Conv -> Nat] /\ active' \in [Conv -> Runs \cup {None}]
    BY <1>5, <1>8, <2>1 DEF CommitApprove
  <2>3. HistoryOK' /\ RestOK' /\ RequestsOK'
    BY <1>8, <2>2 DEF CommitApprove, HistoryOK, RestOK, RequestsOK
  <2> QED BY <2>2, <2>3
<1>9. ASSUME NEW q \in Approvers, RejectApprove(q) PROVE TypeInv'
  <2>1. RequestsOK'
    BY <1>9 DEF RejectApprove, RequestsOK
  <2> QED BY <1>9, <2>1, <1>a, <1>c, <1>d, <1>e DEF RejectApprove
<1>10. ASSUME NEW c \in Conv, EndStaleApproval(c) PROVE TypeInv'
  <2>1. RowOK(EndRow(row[c], "failed"))
    BY EndRowOK DEF RowsOK, Ended
  <2>2. RowsOK'
    BY <1>10, <2>1, OneRowOK DEF EndStaleApproval, RowsOK
  <2> QED BY <1>10, <2>2, <1>a, <1>b, <1>c, <1>e DEF EndStaleApproval
<1>11. ASSUME NEW c \in Conv, DenyWithoutLlm(c) PROVE TypeInv'
  <2>1. RowOK(EndRow(row[c], "failed"))
    BY EndRowOK DEF RowsOK, Ended
  <2>2. RowsOK'
    BY <1>11, <2>1, OneRowOK DEF DenyWithoutLlm, RowsOK
  <2>3. row[c].pending \in Pending
    BY <1>11 DEF DenyWithoutLlm, RowsOK, RowOK, Resumable, Row
  <2>4. HistoryOK'
    BY <1>11, <2>3 DEF DenyWithoutLlm, HistoryOK, Verdict, Pending
  <2> QED BY <1>11, <2>2, <2>4, <1>b, <1>c, <1>e DEF DenyWithoutLlm
<1>12. ASSUME NEW c \in Conv, Cancel(c) PROVE TypeInv'
  <2>1. RowOK(EndRow(row[c], "cancelled"))
    BY EndRowOK DEF RowsOK, Ended
  <2>2. RowsOK' /\ RunsOK'
    BY <1>12, <2>1, OneRowOK, AbortOK DEF Cancel, RowsOK
  <2> QED BY <1>12, <2>2, <1>a, <1>b, <1>c DEF Cancel
<1>13. ASSUME NEW c \in Conv, DeleteConversation(c) PROVE TypeInv'
  <2>1. RowsOK' /\ RunsOK'
    BY <1>13, NoRowOK, OneRowOK, AbortOK DEF DeleteConversation
  <2> QED BY <1>13, <2>1, <1>a, <1>b, <1>c DEF DeleteConversation
<1>14. ASSUME DeleteProject PROVE TypeInv'
  <2>1. RunsOK'
    BY <1>14, AbortOK DEF DeleteProject
  <2>2. \A c \in Conv : RowOK(row'[c])
    BY <1>14, NoRowOK DEF DeleteProject, RowsOK
  <2>3. row' \in [Conv -> Row]
    BY <1>14, NoRowOK DEF DeleteProject, RowsOK, RowOK
  <2>4. RowsOK'
    BY <2>2, <2>3 DEF RowsOK, RowOK, Resumable
  <2>5. RestOK'
    BY <1>14 DEF DeleteProject, RestOK
  <2> QED BY <1>14, <2>1, <2>4, <2>5, <1>a, <1>b DEF DeleteProject
<1>15. ASSUME NEW q \in Rebinders, NEW to \in Cluster, AcceptRebind(q, to) PROVE TypeInv'
  <2>1. proj \in Cluster
    BY <1>15 DEF AcceptRebind, RestOK
  <2>2. RequestsOK'
    BY <1>15, <2>1 DEF AcceptRebind, RequestsOK
  <2> QED BY <1>15, <2>2, <1>a, <1>c, <1>d, <1>e DEF AcceptRebind
<1>16. ASSUME NEW q \in Rebinders, CommitRebind(q) PROVE TypeInv'
  <2> DEFINE hit == RebindHits(q)
  <2>1. rebinding[q].to \in Cluster
    BY <1>16 DEF CommitRebind, RequestsOK
  <2>2. Abort(hit) /\ epoch' = EpochsBumped(hit)
        /\ row' = [c \in Conv |-> IF c \in hit THEN EndRow(row[c], "failed") ELSE row[c]]
    BY <1>16 DEF CommitRebind
  <2>3. RunsOK'
    BY <2>2, AbortOK
  <2>4. \A c \in Conv : RowOK(EndRow(row[c], "failed"))
    BY EndRowOK DEF RowsOK, Ended
  <2>5. \A c \in Conv : RowOK(row'[c])
    BY <2>2, <2>4 DEF RowsOK
  <2>6. row' \in [Conv -> Row]
    BY <2>2, <2>4 DEF RowsOK, RowOK
  <2>7. RowsOK'
    BY <2>5, <2>6 DEF RowsOK, RowOK, Resumable
  <2>8. epoch' \in [Conv -> Nat]
    BY <2>2 DEF EpochsBumped, RestOK
  <2>9. missed' \in SUBSET Conv
    BY <1>16 DEF CommitRebind, RestOK, BusyConvs
  <2>10. RestOK' /\ RequestsOK'
    BY <1>16, <2>1, <2>8, <2>9 DEF CommitRebind, RestOK, RequestsOK
  <2> QED BY <1>16, <2>3, <2>7, <2>10, <1>a DEF CommitRebind
<1>17. ASSUME SetMode PROVE TypeInv'
  <2>1. RestOK'
    BY <1>17 DEF SetMode, RestOK
  <2> QED BY <1>17, <2>1, <1>a, <1>b, <1>d, <1>e DEF SetMode
<1> QED
  BY <1>1, <1>2, <1>3, <1>4, <1>6, <1>7, <1>8, <1>9, <1>10, <1>11, <1>12, <1>13,
     <1>14, <1>15, <1>16, <1>17
  DEF Handler

LEMMA RestartKeepsType ==
  ASSUME TypeInv, Restart
  PROVE  TypeInv'
<1> USE DEF TypeInv
<1>1. RunsOK'
  <2>1. run' = [r \in Runs |-> Idle]
    BY DEF Restart
  <2>2. run' \in [Runs -> RunRecord] /\ \A r \in Runs : RunOK(run'[r])
    BY <2>1, IdleOK DEF RunOK
  <2> QED BY <2>2 DEF RunsOK, RunOK
<1>2. RowsOK'
  <2>1. ASSUME NEW c \in Conv
        PROVE  RowOK([KeepPartial(row[c], row[c].content # 0) EXCEPT !.status = "failed"])
    <3> DEFINE x == KeepPartial(row[c], row[c].content # 0)
    <3>1. x \in Row
      BY KeepPartialOK DEF RowsOK
    <3>2. \A y \in Row : RowOK([y EXCEPT !.status = "failed"])
      BY DEF RowOK, Resumable, Row, Status, Ended
    <3> QED BY <3>1, <3>2
  <2>2. \A c \in Conv : RowOK(row'[c])
    BY <2>1 DEF Restart, RowsOK
  <2>3. row' \in [Conv -> Row]
    BY <2>1 DEF Restart, RowsOK, RowOK
  <2> QED BY <2>2, <2>3 DEF RowsOK, RowOK, Resumable
<1>3. RequestsOK' /\ HistoryOK' /\ RestOK'
  BY DEF Restart, RequestsOK, HistoryOK, RestOK, hist
<1> QED BY <1>1, <1>2, <1>3

LEMMA InitType == Init => TypeInv
<1> SUFFICES ASSUME Init PROVE TypeInv
  OBVIOUS
<1>1. RunsOK
  BY IdleOK DEF Init, RunsOK, RunOK
<1>2. RowsOK
  BY NoRowOK DEF Init, RowsOK, RowOK
<1>3. RequestsOK /\ HistoryOK /\ RestOK
  BY EmptySeq DEF Init, RequestsOK, HistoryOK, RestOK
<1> QED BY <1>1, <1>2, <1>3 DEF TypeInv

LEMMA StepKeepsType == TypeInv /\ [Next]_vars => TypeInv'
<1> SUFFICES ASSUME TypeInv, [Next]_vars PROVE TypeInv'
  OBVIOUS
<1>1. CASE Next
  BY <1>1, RunStepKeepsType, HandlerKeepsType, RestartKeepsType DEF Next
<1>2. CASE UNCHANGED vars
  BY <1>2 DEF vars, reqs, hist, TypeInv, RunsOK, RunOK, RowsOK, RowOK, Resumable,
              RequestsOK, HistoryOK, RestOK
<1> QED BY <1>1, <1>2

LEMMA TypeInvAlways == Spec => []TypeInv
BY InitType, StepKeepsType, PTL DEF Spec

(* Every variable keeps its type in every state the gateway reaches: in      *)
(* particular an approval always carries a cluster (handleAgentResult stamps *)
(* it) and no handler indexes an empty queue.                                *)
THEOREM TypeCorrect == Spec => []TypeOK
<1>1. TypeInv => TypeOK
  BY DEF TypeInv, RunsOK, RowsOK, RequestsOK, HistoryOK, RestOK, TypeOK
<1> QED BY <1>1, TypeInvAlways, PTL
-----------------------------------------------------------------------------
(* WHO MAY WRITE A CONVERSATION: RunningHasItsRun and StaleRunsAreAborted.   *)
(* The inductive invariant.  A run is entitled while it carries the present  *)
(* epoch of its conversation.                                                *)
Entitled(r) == Alive(r) /\ ~IsSuperseded(r)

Quiet == {"none", "paused", "done", "failed"}

EpochsGrow == \A r \in Runs : Alive(r) => run[r].epoch <= epoch[run[r].conv]
EntitledIsActive == \A r \in Runs : Entitled(r) => active[run[r].conv] = r
SupersededIsAborted == \A r \in Runs : Alive(r) /\ IsSuperseded(r) => run[r].aborted
RunningIsServed == \A c \in Conv : row[c].status = "running" => \E r \in Runs : Current(r, c)
QuietIsFree == \A r \in Runs : Entitled(r) => row[run[r].conv].status \notin Quiet
(* What Launch needs: a cancelled conversation takes a new turn while the    *)
(* run of the old one is still entitled, so that one must be aborted already.*)
CancelledIsAborted ==
  \A r \in Runs : Entitled(r) /\ row[run[r].conv].status = "cancelled" => run[r].aborted

RunsInv ==
  /\ EpochsGrow /\ EntitledIsActive /\ SupersededIsAborted
  /\ RunningIsServed /\ QuietIsFree /\ CancelledIsAborted

LEMMA RunFacts ==
  ASSUME TypeInv, NEW r \in Runs
  PROVE  /\ run[r] \in RunRecord /\ run[r].epoch \in Nat
         /\ Alive(r) => run[r].conv \in Conv /\ epoch[run[r].conv] \in Nat
         /\ \A c \in Conv : epoch[c] \in Nat
BY DEF TypeInv, RunsOK, RunOK, RunRecord, RestOK, Alive

(* What the invariant says of a run depends on these fields only.            *)
SameRun(s) ==
  /\ run'[s].pc = "idle" <=> run[s].pc = "idle"
  /\ run'[s].conv = run[s].conv /\ run'[s].epoch = run[s].epoch
  /\ run[s].aborted => run'[s].aborted

(* A step that starts and ends no run, moves no epoch and changes no status. *)
LEMMA NothingDecided ==
  ASSUME RunsInv, TypeInv, UNCHANGED <<epoch, active>>, \A s \in Runs : SameRun(s),
         \A c \in Conv : row'[c].status = row[c].status
  PROVE  RunsInv'
<1>1. \A s \in Runs : /\ Alive(s)' <=> Alive(s)
                      /\ IsSuperseded(s)' <=> IsSuperseded(s)
                      /\ Alive(s) => run[s].conv \in Conv
  BY RunFacts DEF SameRun, Alive, IsSuperseded
<1>2. EpochsGrow' /\ EntitledIsActive' /\ SupersededIsAborted'
  BY <1>1 DEF RunsInv, EpochsGrow, EntitledIsActive, SupersededIsAborted, Entitled, SameRun
<1>3. RunningIsServed'
  BY <1>1 DEF RunsInv, RunningIsServed, Current, SameRun
<1>4. QuietIsFree' /\ CancelledIsAborted'
  BY <1>1 DEF RunsInv, QuietIsFree, CancelledIsAborted, Entitled, SameRun
<1> QED BY <1>2, <1>3, <1>4 DEF RunsInv

(* A step of one run that goes on.                                           *)
LEMMA RunGoesOn ==
  ASSUME RunsInv, TypeInv, NEW r \in Runs, run[r].pc # "idle", NEW a,
         a.pc # "idle", a.conv = run[r].conv, a.epoch = run[r].epoch,
         a.aborted = run[r].aborted, run' = [run EXCEPT ![r] = a],
         UNCHANGED <<epoch, active>>, \A c \in Conv : row'[c].status = row[c].status
  PROVE  RunsInv'
<1>1. \A s \in Runs : SameRun(s)
  BY DEF SameRun, TypeInv, RunsOK
<1> QED BY <1>1, NothingDecided

LEMMA StoredEvent ==
  ASSUME RunsInv, TypeInv, NEW r \in Runs, run[r].pc # "idle", NEW after,
         after.pc # "idle", after.conv = run[r].conv, after.epoch = run[r].epoch,
         after.aborted = run[r].aborted, NEW x, x.status = row[run[r].conv].status,
         OnStep(r, after, x), UNCHANGED <<epoch, active>>
  PROVE  RunsInv'
<1> DEFINE a == IF row[run[r].conv].status \notin Stored /\ ~IsSuperseded(r)
                  THEN [run[r] EXCEPT !.pc = "throw"] ELSE after
<1>1. run' = [run EXCEPT ![r] = a] /\ run[r] \in RunRecord /\ run[r].conv \in Conv
  BY RunFacts DEF OnStep, TypeInv, RunsOK, Alive
<1>2. /\ a.pc # "idle" /\ a.conv = run[r].conv /\ a.epoch = run[r].epoch
      /\ a.aborted = run[r].aborted
  BY <1>1 DEF RunRecord
<1>3. \A c \in Conv : row'[c].status = row[c].status
  BY DEF OnStep, TypeInv, RowsOK
<1> HIDE DEF a
<1> QED BY <1>1, <1>2, <1>3, RunGoesOn

(* A new run takes a conversation that no run is entitled to, or only one    *)
(* that has been aborted.                                                    *)
LEMMA LaunchTakesOver ==
  ASSUME RunsInv, TypeInv, NEW r \in Runs, NEW c \in Conv, NEW x \in Row,
         x.status = "running", row[c].status \in Quiet \cup {"cancelled"},
         NEW queue, NEW target, NEW ok, Launch(r, c, x, queue, target, ok)
  PROVE  RunsInv'
<1>1. /\ run[r].pc = "idle" /\ epoch' = [epoch EXCEPT ![c] = epoch[c] + 1]
      /\ epoch \in [Conv -> Nat] /\ active \in [Conv -> Runs \cup {None}]
      /\ row \in [Conv -> Row] /\ run \in [Runs -> RunRecord]
  BY DEF Launch, TypeInv, RestOK, RowsOK, RunsOK
<1>2. \A s \in Runs : Alive(s) => /\ run[s].conv \in Conv /\ run[s].epoch \in Nat
                                  /\ run[s].epoch <= epoch[run[s].conv]
  BY RunFacts DEF RunsInv, EpochsGrow
(* Every other run: superseded if it works for c, as before otherwise.       *)
<1>3. ASSUME NEW s \in Runs, run'[s] = run[s], Alive(s)
      PROVE  /\ run'[s].epoch <= epoch'[run'[s].conv]
             /\ run[s].conv = c => IsSuperseded(s)' /\ run[s].aborted
             /\ run[s].conv # c => (IsSuperseded(s)' <=> IsSuperseded(s))
  <2>1. epoch'[run[s].conv] = IF run[s].conv = c THEN epoch[c] + 1 ELSE epoch[run[s].conv]
    BY <1>1, <1>2, <1>3
  <2>2. run[s].epoch <= epoch[run[s].conv] /\ epoch[run[s].conv] \in Nat /\ run[s].epoch \in Nat
    BY <1>1, <1>2, <1>3
  <2>3. run'[s].epoch <= epoch'[run'[s].conv]
    BY <1>3, <2>1, <2>2
  <2>4. ASSUME run[s].conv = c PROVE IsSuperseded(s)' /\ run[s].aborted
    <3>1. IsSuperseded(s)'
      BY <1>3, <2>1, <2>2, <2>4 DEF IsSuperseded
    <3>2. CASE IsSuperseded(s)
      BY <1>3, <3>1, <3>2 DEF RunsInv, SupersededIsAborted
    <3>3. CASE ~IsSuperseded(s)
      BY <1>3, <2>4, <3>1, <3>3
      DEF RunsInv, QuietIsFree, CancelledIsAborted, Entitled
    <3> QED BY <3>1, <3>2, <3>3
  <2>5. ASSUME run[s].conv # c PROVE IsSuperseded(s)' <=> IsSuperseded(s)
    BY <1>3, <2>1, <2>5 DEF IsSuperseded
  <2> QED BY <2>3, <2>4, <2>5
<1>4. CASE proj = None
  <2>1. row' = [row EXCEPT ![c] = [x EXCEPT !.status = "failed"]]
        /\ UNCHANGED <<run, active>>
    BY <1>4 DEF Launch
  <2>2. \A s \in Runs : Alive(s)' <=> Alive(s)
    BY <2>1 DEF Alive
  <2>3. /\ row'[c].status = "failed"
        /\ \A d \in Conv \ {c} : row'[d] = row[d]
    BY <1>1, <2>1 DEF Row
  <2>4. EpochsGrow'
    BY <1>3, <2>1, <2>2 DEF EpochsGrow
  <2>5. EntitledIsActive'
    BY <1>2, <1>3, <2>1, <2>2 DEF RunsInv, EntitledIsActive, Entitled
  <2>6. SupersededIsAborted'
    BY <1>3, <2>1, <2>2 DEF RunsInv, SupersededIsAborted
  <2>7. QuietIsFree' /\ CancelledIsAborted'
    BY <1>2, <1>3, <2>1, <2>2, <2>3
    DEF RunsInv, QuietIsFree, CancelledIsAborted, Entitled
  <2>8. RunningIsServed'
    <3> SUFFICES ASSUME NEW d \in Conv, row'[d].status = "running"
                 PROVE  \E s \in Runs : Current(s, d)'
      BY DEF RunningIsServed
    <3>1. d # c /\ row[d].status = "running"
      BY <2>3
    <3>2. PICK s \in Runs : Current(s, d)
      BY <3>1 DEF RunsInv, RunningIsServed
    <3>3. Current(s, d)'
      BY <1>1, <2>1, <3>1, <3>2 DEF Current, Alive
    <3> QED BY <3>3
  <2> QED BY <2>4, <2>5, <2>6, <2>7, <2>8 DEF RunsInv
<1>5. CASE proj # None
  <2> DEFINE a == [pc |-> IF queue # <<>> THEN "gate" ELSE "refresh",
                   conv |-> c, epoch |-> epoch[c] + 1,
                   gen |-> x.gen, cluster |-> proj, queue |-> queue,
                   target |-> target, ok |-> ok, partial |-> x.content # 0,
                   aborted |-> FALSE, late |-> 0, result |-> "none"]
  <2>1. row' = [row EXCEPT ![c] = x] /\ active' = [active EXCEPT ![c] = r]
        /\ run' = [run EXCEPT ![r] = a]
    BY <1>5 DEF Launch
  <2>2. a.pc # "idle" /\ a.conv = c /\ a.epoch = epoch[c] + 1
    OBVIOUS
  <2> HIDE DEF a
  <2>3. /\ run'[r] = a /\ \A s \in Runs \ {r} : run'[s] = run[s]
        /\ row'[c].status = "running" /\ \A d \in Conv \ {c} : row'[d] = row[d]
        /\ active'[c] = r /\ \A d \in Conv \ {c} : active'[d] = active[d]
        /\ epoch'[c] = epoch[c] + 1 /\ epoch[c] \in Nat
        /\ \A d \in Conv \ {c} : epoch'[d] = epoch[d]
    BY <1>1, <2>1
  <2>4. /\ Alive(r)' /\ ~IsSuperseded(r)' /\ Current(r, c)' /\ ~Alive(r)
        /\ run'[r].conv = c /\ run'[r].epoch <= epoch'[run'[r].conv]
    BY <1>1, <2>2, <2>3 DEF Alive, IsSuperseded, Current
  <2>5. \A s \in Runs \ {r} : Alive(s)' <=> Alive(s)
    BY <2>3 DEF Alive
  <2>6. EpochsGrow'
    BY <1>3, <2>3, <2>4, <2>5 DEF EpochsGrow
  <2>7. EntitledIsActive'
    BY <1>2, <1>3, <2>3, <2>4, <2>5 DEF RunsInv, EntitledIsActive, Entitled
  <2>8. SupersededIsAborted'
    BY <1>3, <2>3, <2>4, <2>5 DEF RunsInv, SupersededIsAborted
  <2>9. QuietIsFree' /\ CancelledIsAborted'
    <3> SUFFICES ASSUME NEW s \in Runs, Entitled(s)'
                 PROVE  /\ row'[run'[s].conv].status \notin Quiet
                        /\ row'[run'[s].conv].status = "cancelled" => run'[s].aborted
      BY DEF QuietIsFree, CancelledIsAborted
    <3>1. CASE s = r
      BY <2>3, <2>4, <3>1 DEF Quiet
    <3>2. CASE s # r
      BY <1>2, <1>3, <2>3, <2>5, <3>2
      DEF RunsInv, QuietIsFree, CancelledIsAborted, Entitled
    <3> QED BY <3>1, <3>2
  <2>10. RunningIsServed'
    <3> SUFFICES ASSUME NEW d \in Conv, row'[d].status = "running"
                 PROVE  \E s \in Runs : Current(s, d)'
      BY DEF RunningIsServed
    <3>1. CASE d = c
      BY <2>4, <3>1
    <3>2. CASE d # c
      <4>1. PICK s \in Runs : Current(s, d)
        BY <2>3, <3>2 DEF RunsInv, RunningIsServed
      <4>2. s # r
        BY <2>4, <4>1 DEF Current
      <4>3. Current(s, d)'
        BY <2>3, <3>2, <4>1, <4>2 DEF Current, Alive
      <4> QED BY <4>3
    <3> QED BY <3>1, <3>2
  <2> QED BY <2>6, <2>7, <2>8, <2>9, <2>10 DEF RunsInv
<1> QED BY <1>4, <1>5

(* A run that leaves takes only its own handle with it, and if it was        *)
(* entitled the conversation does not say "running" any more.                *)
LEMMA ExitLeaves ==
  ASSUME RunsInv, TypeInv, NEW r \in Runs, Alive(r), Exit(r), UNCHANGED epoch,
         row' \in [Conv -> Row],
         \A d \in Conv \ {run[r].conv} : row'[d].status = row[d].status,
         IsSuperseded(r) => row'[run[r].conv].status = row[run[r].conv].status,
         ~IsSuperseded(r) => row'[run[r].conv].status # "running"
  PROVE  RunsInv'
<1> DEFINE c == run[r].conv
<1>1. /\ c \in Conv /\ run'[r] = Idle /\ \A s \in Runs \ {r} : run'[s] = run[s]
      /\ active'[c] = IF active[c] = r THEN None ELSE active[c]
      /\ \A d \in Conv \ {c} : active'[d] = active[d]
  BY RunFacts DEF Exit, TypeInv, RunsOK, RestOK
<1>2. ~Alive(r)' /\ \A s \in Runs \ {r} : /\ Alive(s)' <=> Alive(s)
                                          /\ IsSuperseded(s)' <=> IsSuperseded(s)
                                          /\ Alive(s) => run[s].conv \in Conv
  BY <1>1, RunFacts DEF Alive, IsSuperseded, Idle
<1>3. \A s \in Runs \ {r} : Entitled(s) => active[run[s].conv] # r
  BY DEF RunsInv, EntitledIsActive
<1>4. ~IsSuperseded(r) => \A s \in Runs \ {r} : Entitled(s) => run[s].conv # c
  BY DEF RunsInv, EntitledIsActive, Entitled
<1>5. EpochsGrow' /\ SupersededIsAborted'
  BY <1>1, <1>2 DEF RunsInv, EpochsGrow, SupersededIsAborted
<1>6. EntitledIsActive'
  BY <1>1, <1>2, <1>3 DEF RunsInv, EntitledIsActive, Entitled
<1>7. \A s \in Runs \ {r} : Entitled(s) => row'[run[s].conv].status = row[run[s].conv].status
  BY <1>2, <1>4 DEF Entitled
<1>8. QuietIsFree' /\ CancelledIsAborted'
  BY <1>1, <1>2, <1>7 DEF RunsInv, QuietIsFree, CancelledIsAborted, Entitled
<1>9. RunningIsServed'
  <2> SUFFICES ASSUME NEW d \in Conv, row'[d].status = "running"
               PROVE  \E s \in Runs : Current(s, d)'
    BY DEF RunningIsServed
  <2>1. row[d].status = "running" /\ (d = c => IsSuperseded(r))
    OBVIOUS
  <2>2. PICK s \in Runs : Current(s, d)
    BY <2>1 DEF RunsInv, RunningIsServed
  <2>3. s # r
    BY <2>1, <2>2 DEF Current, IsSuperseded
  <2> QED BY <1>1, <2>2, <2>3 DEF Current, Alive
<1> QED BY <1>5, <1>6, <1>8, <1>9 DEF RunsInv

(* Aborting the registered runs of some conversations reaches every run that *)
(* is entitled to one of them.                                               *)
LEMMA AbortReaches ==
  ASSUME RunsInv, TypeInv, NEW cs, Abort(cs)
  PROVE  /\ \A s \in Runs : SameRun(s)
         /\ \A s \in Runs : Entitled(s) /\ run[s].conv \in cs => run'[s].aborted
<1>1. \A s \in Runs : \/ run'[s] = run[s]
                      \/ run'[s] = [run[s] EXCEPT !.aborted = TRUE]
  BY DEF Abort
<1>2. \A s \in Runs : run[s] \in RunRecord
  BY RunFacts
<1>3. \A s \in Runs : SameRun(s)
  BY <1>1, <1>2 DEF SameRun, RunRecord
<1>4. ASSUME NEW s \in Runs, Entitled(s), run[s].conv \in cs PROVE run'[s].aborted
  <2>1. active[run[s].conv] = s
    BY <1>4 DEF RunsInv, EntitledIsActive
  <2>2. run'[s] = [run[s] EXCEPT !.aborted = TRUE]
    BY <1>4, <2>1 DEF Abort
  <2> QED BY <1>2, <2>2 DEF RunRecord
<1> QED BY <1>3, <1>4

(* The handlers that end conversations, of which those in cs may be busy:    *)
(* their runs are aborted, and superseded too where the new status is        *)
(* neither "cancelled" nor "gone".                                           *)
LEMMA ConversationsEnd ==
  ASSUME RunsInv, TypeInv, NEW cs \in SUBSET Conv, Abort(cs), UNCHANGED active,
         row' \in [Conv -> Row], epoch' \in [Conv -> Nat],
         \A c \in Conv : epoch'[c] = epoch[c] \/ (c \in cs /\ epoch'[c] = epoch[c] + 1),
         \A c \in Conv : row'[c].status # row[c].status =>
           /\ row'[c].status \notin {"none", "running"}
           /\ row[c].status = "running" => c \in cs
           /\ row[c].status \notin Quiet /\ row'[c].status # "gone" => c \in cs
           /\ row'[c].status \in Quiet =>
                row[c].status \in Quiet \/ epoch'[c] = epoch[c] + 1,
         \A c \in Conv : epoch'[c] # epoch[c] => row'[c].status # "running"
  PROVE  RunsInv'
<1>1. \A s \in Runs : SameRun(s)
  BY AbortReaches
<1>2. \A s \in Runs : Entitled(s) /\ run[s].conv \in cs => run'[s].aborted
  BY AbortReaches
<1>3. ASSUME NEW s \in Runs, Alive(s)
      PROVE  /\ run'[s].conv = run[s].conv /\ run[s].conv \in Conv
             /\ run'[s].epoch = run[s].epoch /\ run[s].epoch \in Nat
             /\ run[s].epoch <= epoch[run[s].conv] /\ epoch[run[s].conv] \in Nat
  BY <1>1, <1>3, RunFacts DEF SameRun, RunsInv, EpochsGrow
<1>4. \A s \in Runs : Alive(s)' <=> Alive(s)
  BY <1>1 DEF SameRun, Alive
<1>5. ASSUME NEW s \in Runs, Entitled(s)'
      PROVE  Entitled(s) /\ epoch'[run[s].conv] = epoch[run[s].conv]
  BY <1>3, <1>4, <1>5 DEF Entitled, IsSuperseded
<1>6. EpochsGrow'
  BY <1>3, <1>4 DEF EpochsGrow
<1>7. EntitledIsActive'
  BY <1>3, <1>4, <1>5 DEF RunsInv, EntitledIsActive, Entitled
<1>8. SupersededIsAborted'
  <2> SUFFICES ASSUME NEW s \in Runs, Alive(s), IsSuperseded(s)' PROVE run'[s].aborted
    BY <1>4 DEF SupersededIsAborted
  <2>1. CASE IsSuperseded(s)
    BY <1>1, <2>1 DEF RunsInv, SupersededIsAborted, SameRun
  <2>2. CASE ~IsSuperseded(s)
    BY <1>2, <1>3, <2>2 DEF IsSuperseded, Entitled
  <2> QED BY <2>1, <2>2
<1>9. QuietIsFree'
  <2> SUFFICES ASSUME NEW s \in Runs, Entitled(s)', row'[run'[s].conv].status \in Quiet
               PROVE  FALSE
    BY DEF QuietIsFree
  <2>1. Entitled(s) /\ run'[s].conv = run[s].conv /\ run[s].conv \in Conv
        /\ epoch'[run[s].conv] = epoch[run[s].conv] /\ epoch[run[s].conv] \in Nat
    BY <1>3, <1>5 DEF Entitled
  <2>2. row[run[s].conv].status \notin Quiet
    BY <2>1 DEF RunsInv, QuietIsFree
  <2> QED BY <2>1, <2>2
<1>10. CancelledIsAborted'
  <2> SUFFICES ASSUME NEW s \in Runs, Entitled(s)', row'[run'[s].conv].status = "cancelled"
               PROVE  run'[s].aborted
    BY DEF CancelledIsAborted
  <2>1. Entitled(s) /\ run'[s].conv = run[s].conv /\ run[s].conv \in Conv
    BY <1>3, <1>5 DEF Entitled
  <2>2. row[run[s].conv].status \notin Quiet
    BY <2>1 DEF RunsInv, QuietIsFree
  <2>3. CASE row[run[s].conv].status = "cancelled"
    BY <1>1, <2>1, <2>3 DEF RunsInv, CancelledIsAborted, SameRun
  <2>4. CASE row[run[s].conv].status # "cancelled"
    BY <1>2, <2>1, <2>2, <2>4
  <2> QED BY <2>3, <2>4
<1>11. RunningIsServed'
  <2> SUFFICES ASSUME NEW d \in Conv, row'[d].status = "running"
               PROVE  \E s \in Runs : Current(s, d)'
    BY DEF RunningIsServed
  <2>1. row[d].status = "running" /\ epoch'[d] = epoch[d]
    OBVIOUS
  <2>2. PICK s \in Runs : Current(s, d)
    BY <2>1 DEF RunsInv, RunningIsServed
  <2> QED BY <1>1, <2>1, <2>2 DEF Current, Alive, SameRun
<1> QED BY <1>6, <1>7, <1>8, <1>9, <1>10, <1>11 DEF RunsInv

-----------------------------------------------------------------------------
(* Every step keeps RunsInv.                                                 *)

LEMMA RunStepKeepsRuns ==
  ASSUME RunsInv, TypeInv, TypeInv', NEW r \in Runs, RunStep(r)
  PROVE  RunsInv'
<1> DEFINE a == run[r]
           c == run[r].conv
<1>0. a \in RunRecord /\ row \in [Conv -> Row] /\ row' \in [Conv -> Row]
      /\ run \in [Runs -> RunRecord] /\ (a.pc # "idle" => c \in Conv)
  BY RunFacts DEF TypeInv, RowsOK, RunsOK, Alive
<1>1. CASE GatePause(r)
  <2> DEFINE b == [a EXCEPT !.pc = "return", !.result = "pending"]
  <2>1. /\ a.pc # "idle" /\ run' = [run EXCEPT ![r] = b]
        /\ UNCHANGED <<row, epoch, active>>
    BY <1>0, <1>1 DEF GatePause
  <2>2. b.pc # "idle" /\ b.conv = c /\ b.epoch = a.epoch /\ b.aborted = a.aborted
    BY <1>0 DEF RunRecord
  <2> HIDE DEF b
  <2> QED BY <2>1, <2>2, RunGoesOn
<1>2. CASE ExecTool(r)
  <2> DEFINE late == IF Stopped(r) THEN a.late + 1 ELSE a.late
             b == [a EXCEPT !.pc = "exec", !.queue = Tail(a.queue), !.target = None,
                            !.late = late]
  <2>1. /\ a.pc # "idle" /\ run' = [run EXCEPT ![r] = b]
        /\ UNCHANGED <<row, epoch, active>>
    BY <1>0, <1>2 DEF ExecTool
  <2> HIDE DEF late
  <2>2. b.pc # "idle" /\ b.conv = c /\ b.epoch = a.epoch /\ b.aborted = a.aborted
    BY <1>0 DEF RunRecord
  <2> HIDE DEF b
  <2> QED BY <2>1, <2>2, RunGoesOn
<1>3. CASE ToolDone(r)
  <2> DEFINE b == [a EXCEPT !.pc = AfterCheck(r, a.queue)]
             x == [row[c] EXCEPT !.trace = a.gen]
  <2>1. a.pc # "idle" /\ OnStep(r, b, x) /\ UNCHANGED <<epoch, active>>
    BY <1>3 DEF ToolDone
  <2>2. AfterCheck(r, a.queue) # "idle" /\ row[c] \in Row
    BY <1>0, <2>1, AfterCheckOK
  <2>3. b.pc # "idle" /\ b.conv = c /\ b.epoch = a.epoch /\ b.aborted = a.aborted
    BY <1>0, <2>2 DEF RunRecord
  <2>4. x.status = row[c].status
    BY <2>2 DEF Row
  <2> HIDE DEF b, x
  <2> QED BY <2>1, <2>3, <2>4, StoredEvent
<1>4. CASE SkipTool(r)
  <2> DEFINE queue == Tail(a.queue)
             b == [a EXCEPT !.pc = AfterCheck(r, queue), !.queue = queue, !.target = None]
             x == [row[c] EXCEPT !.trace = a.gen]
  <2>1. a.pc # "idle" /\ OnStep(r, b, x) /\ UNCHANGED <<epoch, active>>
    BY <1>4 DEF SkipTool
  <2> HIDE DEF queue
  <2>2. AfterCheck(r, queue) # "idle" /\ row[c] \in Row
    BY <1>0, <2>1, AfterCheckOK
  <2>3. b.pc # "idle" /\ b.conv = c /\ b.epoch = a.epoch /\ b.aborted = a.aborted
    BY <1>0, <2>2 DEF RunRecord
  <2>4. x.status = row[c].status
    BY <2>2 DEF Row
  <2> HIDE DEF b, x
  <2> QED BY <2>1, <2>3, <2>4, StoredEvent
<1>5. ASSUME NEW pc \in {"chat", "throw"}, Goto(r, pc), a.pc # "idle",
             UNCHANGED <<row, epoch, active>>
      PROVE  RunsInv'
  <2> DEFINE b == [a EXCEPT !.pc = pc]
  <2>1. run' = [run EXCEPT ![r] = b]
    BY <1>0, <1>5 DEF Goto
  <2>2. b.pc # "idle" /\ b.conv = c /\ b.epoch = a.epoch /\ b.aborted = a.aborted
    BY <1>0 DEF RunRecord
  <2> HIDE DEF b
  <2> QED BY <1>5, <2>1, <2>2, RunGoesOn
<1>6. CASE ChatStart(r) \/ ChatError(r)
  BY <1>5, <1>6 DEF ChatStart, ChatError
<1>7. ASSUME NEW next, NEW queue, NEW result, EndRound(r, next, queue, result),
             next # "idle", a.pc # "idle", UNCHANGED <<epoch, active>>
      PROVE  RunsInv'
  <2> DEFINE keep == IsSuperseded(r) \/ DbCancelled(c)
             partial == keep /\ a.partial
             content == IF DbCancelled(c) THEN row[c].content ELSE 0
             b == [a EXCEPT !.pc = next, !.queue = queue, !.result = result,
                            !.target = None, !.partial = partial]
             x == [row[c] EXCEPT !.trace = a.gen, !.content = content]
  <2>1. OnStep(r, b, x)
    BY <1>7 DEF EndRound
  <2> HIDE DEF partial, content
  <2>2. /\ b.pc # "idle" /\ b.conv = c /\ b.epoch = a.epoch /\ b.aborted = a.aborted
        /\ x.status = row[c].status
    BY <1>0, <1>7 DEF RunRecord, Row
  <2> HIDE DEF b, x
  <2> QED BY <1>7, <2>1, <2>2, StoredEvent
<1>8. CASE ChatTools(r)
  <2>1. PICK queue : EndRound(r, AfterCheck(r, queue), queue, "none")
    BY <1>8 DEF ChatTools
  <2> QED BY <1>7, <1>8, <2>1, AfterCheckOK DEF ChatTools
<1>9. CASE ChatFinal(r)
  BY <1>7, <1>9 DEF ChatFinal
<1>10. CASE \E flush \in BOOLEAN : Delta(r, flush)
  <2> DEFINE b == [a EXCEPT !.partial = TRUE]
  <2>1. PICK flush \in BOOLEAN : Delta(r, flush)
    BY <1>10
  <2>2. a.pc # "idle" /\ run' = [run EXCEPT ![r] = b] /\ UNCHANGED <<epoch, active>>
    BY <1>0, <2>1 DEF Delta
  <2>3. \A d \in Conv : row'[d].status = row[d].status
    BY <1>0, <2>1 DEF Delta, Row
  <2>4. b.pc # "idle" /\ b.conv = c /\ b.epoch = a.epoch /\ b.aborted = a.aborted
    BY <1>0, <2>2 DEF RunRecord
  <2> HIDE DEF b
  <2> QED BY <2>2, <2>3, <2>4, RunGoesOn
<1>11. CASE Return(r)
  <2>1. /\ Alive(r) /\ Exit(r) /\ c \in Conv /\ UNCHANGED epoch
        /\ \A d \in Conv \ {c} : row'[d] = row[d]
        /\ IsSuperseded(r) => row' = row
    BY <1>0, <1>11 DEF Return, Alive
  <2>2. ASSUME ~IsSuperseded(r) PROVE row'[c].status # "running"
    <3>1. CASE row[c].status \notin Stored
      <4>1. row' = row
        BY <1>11, <3>1 DEF Return, DbCancelled, Stored, Ended
      <4> QED BY <3>1, <4>1 DEF Stored, Busy
    <3>2. CASE row[c].status \in Stored /\ DbCancelled(c)
      <4>1. row'[c] = KeepPartial(row[c], a.partial)
        BY <1>0, <1>11, <2>1, <2>2, <3>2 DEF Return
      <4>2. row'[c].status = row[c].status
        BY <1>0, <2>1, <4>1, KeepPartialOK DEF RunRecord
      <4> QED BY <3>2, <4>2 DEF DbCancelled
    <3>3. CASE row[c].status \in Stored /\ ~DbCancelled(c)
      <4>1. row'[c] = HandleAgentResult(r)
        BY <1>0, <1>11, <2>1, <2>2, <3>3 DEF Return
      <4>2. HandleAgentResult(r).status \in {"paused", "done"}
        <5>1. AppendAnswer(row[c]) \in Row /\ row[c] \in Row
          BY <1>0, <2>1, AppendAnswerOK
        <5> QED BY <5>1 DEF HandleAgentResult, Row
      <4> QED BY <4>1, <4>2
    <3> QED BY <3>1, <3>2, <3>3
  <2> QED BY <1>0, <2>1, <2>2, ExitLeaves
<1>12. CASE Catch(r)
  <2> DEFINE x == KeepPartial(row[c], a.partial)
             mine == IF a.partial THEN a.gen ELSE 0
             content == IF x = row[c] THEN x.content ELSE mine
             y == [x EXCEPT !.status = "failed", !.content = content]
  <2>1. /\ Alive(r) /\ Exit(r) /\ c \in Conv /\ UNCHANGED epoch
        /\ \A d \in Conv \ {c} : row'[d] = row[d]
        /\ IsSuperseded(r) => row' = row
    BY <1>0, <1>12 DEF Catch, Alive
  <2>2. x \in Row /\ x.status = row[c].status
    BY <1>0, <2>1, KeepPartialOK DEF RunRecord
  <2>3. y.status = "failed"
    BY <2>2 DEF Row
  <2>4. ASSUME ~IsSuperseded(r) PROVE row'[c].status # "running"
    <3>1. CASE row[c].status \notin Stored
      <4>1. row' = row
        BY <1>12, <3>1 DEF Catch, DbCancelled, Stored, Ended
      <4> QED BY <3>1, <4>1 DEF Stored, Busy
    <3>2. CASE row[c].status \in Stored /\ DbCancelled(c)
      <4>1. row'[c] = x
        BY <1>0, <1>12, <2>1, <2>4, <3>2 DEF Catch
      <4> QED BY <2>2, <3>2, <4>1 DEF DbCancelled
    <3>3. CASE row[c].status \in Stored /\ ~DbCancelled(c)
      <4>1. row'[c] = y
        BY <1>0, <1>12, <2>1, <2>4, <3>3 DEF Catch
      <4> QED BY <2>3, <4>1
    <3> QED BY <3>1, <3>2, <3>3
  <2> QED BY <1>0, <2>1, <2>4, ExitLeaves
<1> QED
  BY <1>1, <1>2, <1>3, <1>4, <1>6, <1>8, <1>9, <1>10, <1>11, <1>12
  DEF RunStep, Progress

LEMMA HandlerKeepsRuns ==
  ASSUME RunsInv, TypeInv, TypeInv', Handler
  PROVE  RunsInv'
<1>0. /\ row \in [Conv -> Row] /\ row' \in [Conv -> Row] /\ run \in [Runs -> RunRecord]
      /\ epoch \in [Conv -> Nat] /\ epoch' \in [Conv -> Nat]
  BY DEF TypeInv, RowsOK, RunsOK, RestOK
<1>a. ASSUME UNCHANGED <<row, epoch, active, run>> PROVE RunsInv'
  <2>1. \A s \in Runs : SameRun(s)
    BY <1>a DEF SameRun
  <2> QED BY <1>a, <2>1, NothingDecided
<1>1. ASSUME NEW q \in Senders, NEW c \in Conv,
             AcceptCreate(q, c) \/ AcceptMessage(q, c) \/ AcceptEdit(q, c)
      PROVE  RunsInv'
  BY <1>1, <1>a DEF AcceptCreate, AcceptMessage, AcceptEdit, Accept
<1>2. ASSUME NEW q \in Senders, RejectSend(q) PROVE RunsInv'
  BY <1>2, <1>a DEF RejectSend
<1>3. ASSUME NEW q \in Senders, NEW r \in Runs, CommitSend(q, r) PROVE RunsInv'
  <2> DEFINE c == sending[q].conv
             x == row[c]
  <2>1. sending[q] \in SendRequest
    BY <1>3 DEF CommitSend, TypeInv, RequestsOK
  <2>2. c \in Conv /\ sending[q].anchor \in Nat
    BY <2>1 DEF SendRequest
  <2>3. x \in Row /\ x.msgs \in Seq(Nat) /\ x.gen + 1 \in Nat
    <3>1. x \in Row
      BY <1>0, <2>2
    <3> HIDE DEF x
    <3> QED BY <3>1 DEF Row
  <2>4. PICK kept \in KeptRows(sending[q], x.msgs) :
          Launch(r, c, ResetRow(x, Append(kept, x.gen + 1)), <<>>, None, FALSE)
    BY <1>3 DEF CommitSend
  <2>5. Append(kept, x.gen + 1) \in Seq(Nat)
    BY <2>2, <2>3, <2>4, KeptOK, AppendProperties DEF KeptRows
  <2>6. ResetRow(x, Append(kept, x.gen + 1)) \in Row
        /\ ResetRow(x, Append(kept, x.gen + 1)).status = "running"
    BY <2>3, <2>5, ResetRowOK DEF RowOK
  <2>7. x.status \in Quiet \cup {"cancelled"}
    BY <1>3 DEF CommitSend, MayStart, Ended, Quiet
  <2> QED BY <2>2, <2>4, <2>6, <2>7, LaunchTakesOver
<1>4. ASSUME NEW c \in Conv, NEW r \in Runs, Regenerate(c, r) PROVE RunsInv'
  <2>1. PICK kept \in UpToLastUser(row[c].msgs) :
          Launch(r, c, ResetRow(row[c], kept), <<>>, None, FALSE)
    BY <1>4 DEF Regenerate
  <2>2. row[c] \in Row /\ kept \in Seq(Nat)
    BY <1>0, <2>1, KeptOK DEF Row
  <2>3. ResetRow(row[c], kept) \in Row /\ ResetRow(row[c], kept).status = "running"
    BY <2>2, ResetRowOK DEF RowOK
  <2>4. row[c].status \in Quiet \cup {"cancelled"}
    BY <1>4 DEF Regenerate, Ended, Quiet
  <2> QED BY <2>1, <2>3, <2>4, LaunchTakesOver
<1>5. ASSUME NEW c \in Conv, NEW r \in Runs, NEW ok, NEW shown, Resume(c, r, ok, shown)
      PROVE  RunsInv'
  <2>1. Launch(r, c, Claimed(row[c]), row[c].saved, row[c].pending.call, ok)
        /\ row[c].status = "paused"
    BY <1>5 DEF Resume
  <2>2. Claimed(row[c]) \in Row /\ Claimed(row[c]).status = "running"
    BY <1>0 DEF Claimed, Row, Status, Busy
  <2> QED BY <2>1, <2>2, LaunchTakesOver DEF Quiet
<1>6. ASSUME NEW c \in Conv, NEW r \in Runs, Deny(c, r) PROVE RunsInv'
  BY <1>5, <1>6 DEF Deny
<1>7. ASSUME NEW q \in Approvers, NEW c \in Conv, AcceptApprove(q, c) PROVE RunsInv'
  BY <1>7, <1>a DEF AcceptApprove
<1>8. ASSUME NEW q \in Approvers, NEW r \in Runs, CommitApprove(q, r) PROVE RunsInv'
  <2>1. approving[q].conv \in Conv
    BY <1>8 DEF CommitApprove, TypeInv, RequestsOK
  <2> QED BY <1>5, <1>8, <2>1 DEF CommitApprove
<1>9. ASSUME NEW q \in Approvers, RejectApprove(q) PROVE RunsInv'
  BY <1>9, <1>a DEF RejectApprove
<1>10. ASSUME NEW c \in Conv, EndStaleApproval(c) \/ DenyWithoutLlm(c) PROVE RunsInv'
  <2>1. /\ row[c].status = "paused" /\ row' = [row EXCEPT ![c] = EndRow(row[c], "failed")]
        /\ UNCHANGED <<epoch, active, run>>
    BY <1>0, <1>10 DEF EndStaleApproval, DenyWithoutLlm
  <2>2. EndRow(row[c], "failed").status = "failed"
    BY <1>0, EndRowOK DEF Ended
  <2>3. Abort({})
    BY <1>0, <2>1 DEF Abort
  <2>4. \A d \in Conv : row'[d].status # row[d].status =>
          row[d].status = "paused" /\ row'[d].status = "failed"
    BY <1>0, <2>1, <2>2
  <2> QED BY <1>0, <2>1, <2>3, <2>4, ConversationsEnd DEF Quiet
<1>11. ASSUME NEW c \in Conv, Cancel(c) PROVE RunsInv'
  <2>1. /\ row' = [row EXCEPT ![c] = EndRow(row[c], "cancelled")] /\ Abort({c})
        /\ UNCHANGED <<epoch, active>>
    BY <1>0, <1>11 DEF Cancel
  <2>2. EndRow(row[c], "cancelled").status = "cancelled"
    BY <1>0, EndRowOK DEF Ended
  <2>3. \A d \in Conv : row'[d].status # row[d].status =>
          d = c /\ row'[d].status = "cancelled"
    BY <1>0, <2>1, <2>2
  <2> QED BY <1>0, <2>1, <2>3, ConversationsEnd DEF Quiet
<1>12. ASSUME NEW c \in Conv, DeleteConversation(c) PROVE RunsInv'
  <2>1. /\ row' = [row EXCEPT ![c] = [NoRow EXCEPT !.status = "gone"]]
        /\ Abort({c} \cap BusyConvs) /\ UNCHANGED <<epoch, active>>
    BY <1>12 DEF DeleteConversation
  <2>2. \A d \in Conv : row'[d].status # row[d].status => d = c /\ row'[d].status = "gone"
    BY <1>0, <2>1 DEF NoRow
  <2>3. row[c].status = "running" => c \in {c} \cap BusyConvs
    BY DEF BusyConvs, Busy
  <2> QED BY <1>0, <2>1, <2>2, <2>3, ConversationsEnd DEF Quiet
<1>13. ASSUME DeleteProject PROVE RunsInv'
  <2>1. Abort(BusyConvs) /\ UNCHANGED <<epoch, active>>
    BY <1>13 DEF DeleteProject
  <2>2. \A d \in Conv : row'[d].status # row[d].status => row'[d].status = "gone"
    BY <1>13 DEF DeleteProject, NoRow
  <2>3. \A d \in Conv : row[d].status = "running" => d \in BusyConvs
    BY DEF BusyConvs, Busy
  <2>4. BusyConvs \in SUBSET Conv
    BY DEF BusyConvs
  <2> QED BY <1>0, <2>1, <2>2, <2>3, <2>4, ConversationsEnd DEF Quiet
<1>14. ASSUME NEW q \in Rebinders, NEW to \in Cluster, AcceptRebind(q, to) PROVE RunsInv'
  BY <1>14, <1>a DEF AcceptRebind
<1>15. ASSUME NEW q \in Rebinders, CommitRebind(q) PROVE RunsInv'
  <2> DEFINE hit == RebindHits(q)
  <2>1. /\ Abort(hit) /\ UNCHANGED active /\ epoch' = EpochsBumped(hit)
        /\ row' = [c \in Conv |-> IF c \in hit THEN EndRow(row[c], "failed") ELSE row[c]]
    BY <1>15 DEF CommitRebind
  <2>2. hit \in SUBSET Conv
    BY DEF RebindHits, BusyConvs
  <2> HIDE DEF hit
  <2>3. \A c \in Conv : epoch'[c] = IF c \in hit THEN epoch[c] + 1 ELSE epoch[c]
    BY <2>1 DEF EpochsBumped
  <2>4. \A c \in Conv : EndRow(row[c], "failed").status = "failed"
    BY <1>0, EndRowOK DEF Ended
  <2>5. \A c \in Conv : c \in hit => row'[c].status = "failed"
    BY <2>1, <2>4
  <2>6. \A c \in Conv : c \notin hit => row'[c] = row[c]
    BY <2>1
  <2> QED BY <1>0, <2>1, <2>2, <2>3, <2>5, <2>6, ConversationsEnd
<1>16. ASSUME SetMode PROVE RunsInv'
  BY <1>16, <1>a DEF SetMode
<1> QED
  BY <1>1, <1>2, <1>3, <1>4, <1>6, <1>7, <1>8, <1>9, <1>10, <1>11, <1>12, <1>13,
     <1>14, <1>15, <1>16
  DEF Handler

LEMMA NoRunLeft ==
  ASSUME \A r \in Runs : run[r].pc = "idle", \A c \in Conv : row[c].status # "running"
  PROVE  RunsInv
BY DEF RunsInv, EpochsGrow, EntitledIsActive, SupersededIsAborted, RunningIsServed,
       QuietIsFree, CancelledIsAborted, Entitled, Alive

LEMMA RestartKeepsRuns ==
  ASSUME TypeInv, Restart
  PROVE  RunsInv'
<1>1. \A r \in Runs : run'[r].pc = "idle"
  BY DEF Restart, Idle
<1>2. ASSUME NEW c \in Conv PROVE row'[c].status # "running"
  <2> DEFINE x == KeepPartial(row[c], row[c].content # 0)
  <2>1. x \in Row
    BY KeepPartialOK DEF TypeInv, RowsOK
  <2>2. row'[c] = IF row[c].status = "running" THEN [x EXCEPT !.status = "failed"] ELSE row[c]
    BY DEF Restart
  <2> HIDE DEF x
  <2> QED BY <2>1, <2>2 DEF Row
<1>3. /\ (\A r \in Runs : run[r].pc = "idle")'
      /\ (\A c \in Conv : row[c].status # "running")'
  BY <1>1, <1>2
<1> QED
  BY <1>3 DEF RunsInv, EpochsGrow, EntitledIsActive, SupersededIsAborted, RunningIsServed,
              QuietIsFree, CancelledIsAborted, Entitled, Alive

LEMMA StepKeepsRuns == RunsInv /\ TypeInv /\ TypeInv' /\ [Next]_vars => RunsInv'
<1> SUFFICES ASSUME RunsInv, TypeInv, TypeInv', [Next]_vars PROVE RunsInv'
  OBVIOUS
<1>1. CASE Next
  BY <1>1, RunStepKeepsRuns, HandlerKeepsRuns, RestartKeepsRuns DEF Next
<1>2. CASE UNCHANGED vars
  <2>1. UNCHANGED <<row, epoch, active, run>>
    BY <1>2 DEF vars
  <2>2. \A s \in Runs : SameRun(s)
    BY <2>1 DEF SameRun
  <2> QED BY <2>1, <2>2, NothingDecided
<1> QED BY <1>1, <1>2

LEMMA InitRuns == Init => RunsInv
<1> SUFFICES ASSUME Init PROVE RunsInv
  OBVIOUS
<1>1. /\ \A r \in Runs : run[r].pc = "idle"
      /\ \A c \in Conv : row[c].status # "running"
  BY DEF Init, Idle, NoRow
<1> QED BY <1>1, NoRunLeft

LEMMA RunsInvAlways == Spec => []RunsInv
BY InitRuns, StepKeepsRuns, TypeInvAlways, PTL DEF Spec

(* A row says "running" exactly as long as one run is entitled to write its  *)
(* end, for any number of requests, runs, cancels, rebinds and restarts: no  *)
(* running row is left behind, and no two runs may write one row.            *)
THEOREM OneEntitledRun == Spec => []RunningHasItsRun
<1>1. RunsInv /\ TypeInv => RunningHasItsRun
  <2> SUFFICES ASSUME RunsInv, TypeInv, NEW c \in Conv
               PROVE  /\ row[c].status = "running" => \E r \in Runs : Current(r, c)
                      /\ row[c].status \in {"paused", "done", "failed"} =>
                           ~\E r \in Runs : Current(r, c)
                      /\ \A r, s \in Runs : Current(r, c) /\ Current(s, c) => r = s
    BY DEF RunningHasItsRun
  <2>1. \A r \in Runs : Current(r, c) => Entitled(r) /\ run[r].conv = c
    BY DEF Current, Entitled, IsSuperseded
  <2> QED BY <2>1 DEF RunsInv, RunningIsServed, QuietIsFree, Quiet, EntitledIsActive
<1> QED BY <1>1, RunsInvAlways, TypeInvAlways, PTL

(* Every superseded run has been aborted, and the entitled run is the one    *)
(* that cancel finds in activeRuns.                                          *)
THEOREM StaleRunsAborted == Spec => []StaleRunsAreAborted
<1>1. RunsInv => StaleRunsAreAborted
  BY DEF RunsInv, StaleRunsAreAborted, SupersededIsAborted, EntitledIsActive, Entitled
<1> QED BY <1>1, RunsInvAlways, PTL

-----------------------------------------------------------------------------
(* Turns: the inductive invariant.  A row belongs to its present turn, and   *)
(* the run entitled to write it is that turn's and finds its question        *)
(* unanswered.                                                               *)
Open(m) == m # <<>> /\ m[Len(m)] # Assistant
Alternates(m) == \A i \in 1..Len(m) - 1 : m[i] = Assistant => m[i + 1] # Assistant

OwnTurn(x) ==
  /\ x.status \in Busy => Open(x.msgs)
  /\ Alternates(x.msgs)
  /\ x.content \in {0, x.gen} /\ x.trace \in {0, x.gen}
  /\ x.status # "paused" => x.pending = None

RowsAreOwn == \A c \in Conv : OwnTurn(row[c])
EntitledWrites ==
  \A r \in Runs : Entitled(r) /\ row[run[r].conv].status \in Stored =>
    run[r].gen = row[run[r].conv].gen /\ Open(row[run[r].conv].msgs)
(* A late tool is the last one: its run ends at the next checkpoint.         *)
LateIsLast ==
  \A r \in Runs : run[r].late # 0 =>
    run[r].late = 1 /\ Stopped(r) /\ run[r].pc \in {"exec", "throw"}

TurnInv == RowsAreOwn /\ EntitledWrites /\ LateIsLast

-----------------------------------------------------------------------------
(* Message rows.                                                             *)
LEMMA AnswerAppended ==
  ASSUME NEW m \in Seq(Nat), Alternates(m), Open(m)
  PROVE  /\ Append(m, Assistant) \in Seq(Nat) /\ Alternates(Append(m, Assistant))
         /\ Answered(Append(m, Assistant)) /\ ~Answered(m)
<1> DEFINE n == Append(m, Assistant)
<1>1. /\ n \in Seq(Nat) /\ Len(n) = Len(m) + 1 /\ n[Len(m) + 1] = Assistant
      /\ \A i \in 1..Len(m) : n[i] = m[i]
  BY AppendProperties DEF Assistant
<1> HIDE DEF n
<1>2. Len(m) \in Nat /\ Len(m) >= 1
  BY DEF Open
<1>3. Alternates(n)
  BY <1>1, <1>2 DEF Alternates, Open
<1>4. Answered(n)
  BY <1>1, <1>2 DEF Answered
<1> QED BY <1>1, <1>3, <1>4 DEF n, Answered, Open

LEMMA QuestionAppended ==
  ASSUME NEW m \in Seq(Nat), Alternates(m), NEW g \in Nat, g # Assistant
  PROVE  /\ Append(m, g) \in Seq(Nat) /\ Alternates(Append(m, g)) /\ Open(Append(m, g))
<1> DEFINE n == Append(m, g)
<1>1. /\ n \in Seq(Nat) /\ Len(n) = Len(m) + 1 /\ n[Len(m) + 1] = g
      /\ \A i \in 1..Len(m) : n[i] = m[i]
  BY AppendProperties
<1> HIDE DEF n
<1>2. Alternates(n)
  <2> SUFFICES ASSUME NEW i \in 1..Len(m), n[i] = Assistant PROVE n[i + 1] # Assistant
    BY <1>1 DEF Alternates
  <2>1. CASE i = Len(m)
    BY <1>1, <2>1
  <2>2. CASE i # Len(m)
    <3>1. i \in 1..Len(m) - 1 /\ i + 1 \in 1..Len(m)
      BY <2>2
    <3> QED BY <1>1, <3>1 DEF Alternates
  <2> QED BY <2>1, <2>2
<1>3. Open(n)
  BY <1>1 DEF Open
<1> QED BY <1>1, <1>2, <1>3 DEF n

LEMMA PrefixAlternates ==
  ASSUME NEW m \in Seq(Nat), Alternates(m), NEW j \in 0..Len(m)
  PROVE  /\ SubSeq(m, 1, j) \in Seq(Nat) /\ Alternates(SubSeq(m, 1, j))
         /\ j # 0 /\ m[j] # Assistant => Open(SubSeq(m, 1, j))
<1> DEFINE n == SubSeq(m, 1, j)
<1>1. n \in Seq(Nat) /\ Len(n) = j /\ \A i \in 1..j : n[i] = m[i]
  BY SubSeqProperties
<1> HIDE DEF n
<1>2. Alternates(n)
  BY <1>1 DEF Alternates
<1>3. j # 0 /\ m[j] # Assistant => Open(n)
  BY <1>1 DEF Open
<1> QED BY <1>1, <1>2, <1>3 DEF n

(* The rows that regenerate keeps end in a question; those that edit keeps   *)
(* are followed by one.                                                      *)
LEMMA KeptAlternates ==
  ASSUME NEW m \in Seq(Nat), Alternates(m)
  PROVE  /\ \A kept \in UpToLastUser(m) : kept \in Seq(Nat) /\ Alternates(kept) /\ Open(kept)
         /\ \A anchor \in Nat : \A kept \in BeforeAnchor(m, anchor) :
              kept \in Seq(Nat) /\ Alternates(kept)
<1>1. \A i \in UserRows(m) : i \in 1..Len(m) /\ i \in 0..Len(m) /\ i - 1 \in 0..Len(m)
                             /\ i # 0 /\ m[i] # Assistant
  BY DEF UserRows
<1> QED BY <1>1, PrefixAlternates DEF UpToLastUser, BeforeAnchor

-----------------------------------------------------------------------------
(* What the row operators make of the present turn, as the user sees it.     *)
LifeStep(x, y) == Lifecycle!Step(LifeOf(x), LifeOf(y))

LEMMA SameLife ==
  ASSUME NEW x, NEW y, y.status = x.status, y.gen = x.gen, y.msgs = x.msgs
  PROVE  LifeStep(x, y)
BY DEF LifeStep, LifeOf, Lifecycle!Step

LEMMA EventIsOwn ==
  ASSUME NEW x \in Row, OwnTurn(x), NEW trace \in {x.trace, x.gen},
         NEW content \in {0, x.content, x.gen}
  PROVE  LET y == [x EXCEPT !.trace = trace, !.content = content] IN
           OwnTurn(y) /\ LifeStep(x, y)
<1> DEFINE y == [x EXCEPT !.trace = trace, !.content = content]
<1>1. /\ y.status = x.status /\ y.gen = x.gen /\ y.msgs = x.msgs /\ y.pending = x.pending
      /\ y.trace = trace /\ y.content = content
  BY DEF Row
<1> HIDE DEF y
<1>2. OwnTurn(y)
  BY <1>1 DEF OwnTurn
<1> QED BY <1>1, <1>2, SameLife DEF y

LEMMA AppendAnswerIsOwn ==
  ASSUME NEW x \in Row, OwnTurn(x), Open(x.msgs)
  PROVE  LET y == AppendAnswer(x) IN
           /\ y \in Row /\ y.status = x.status /\ y.gen = x.gen /\ y.content = x.content
           /\ y.pending = x.pending /\ y.trace = 0
           /\ y.msgs \in Seq(Nat) /\ Alternates(y.msgs) /\ Answered(y.msgs)
           /\ ~Answered(x.msgs)
<1>1. x.msgs \in Seq(Nat) /\ Alternates(x.msgs)
  BY DEF Row, OwnTurn
<1>2. /\ AppendAnswer(x).msgs = Append(x.msgs, Assistant) /\ AppendAnswer(x).trace = 0
      /\ AppendAnswer(x).status = x.status /\ AppendAnswer(x).gen = x.gen
      /\ AppendAnswer(x).content = x.content /\ AppendAnswer(x).pending = x.pending
  BY DEF AppendAnswer, Row
<1> QED BY <1>1, <1>2, AnswerAppended, AppendAnswerOK

(* The row a run leaves when it ends without an answer: what the turn has is *)
(* its answer, or it stays as it is.                                         *)
LEMMA KeepPartialIsOwn ==
  ASSUME NEW x \in Row, OwnTurn(x), Open(x.msgs), NEW partial \in BOOLEAN
  PROVE  LET y == KeepPartial(x, partial) IN
           /\ y \in Row /\ y.status = x.status /\ y.gen = x.gen /\ y.content = x.content
           /\ y.pending = x.pending /\ y.trace \in {0, y.gen} /\ Alternates(y.msgs)
           /\ y = x \/ (Answered(y.msgs) /\ ~Answered(x.msgs))
<1>1. CASE partial \/ x.trace # 0
  BY <1>1, AppendAnswerIsOwn DEF KeepPartial
<1>2. CASE ~(partial \/ x.trace # 0)
  BY <1>2 DEF KeepPartial, OwnTurn
<1> QED BY <1>1, <1>2

LEMMA KeptIsOwn ==
  ASSUME NEW x \in Row, OwnTurn(x), x.status = "cancelled", Open(x.msgs),
         NEW partial \in BOOLEAN
  PROVE  LET y == KeepPartial(x, partial) IN
           OwnTurn(y) /\ LifeStep(x, y) /\ y.status = "cancelled"
<1> DEFINE y == KeepPartial(x, partial)
<1>1. /\ y.status = x.status /\ y.gen = x.gen /\ y.content = x.content
      /\ y.pending = x.pending /\ y.trace \in {0, y.gen} /\ Alternates(y.msgs)
      /\ y = x \/ (Answered(y.msgs) /\ ~Answered(x.msgs))
  BY KeepPartialIsOwn
<1> HIDE DEF y
<1>2. OwnTurn(y)
  BY <1>1 DEF OwnTurn, Busy
<1>3. LifeStep(x, y)
  <2>1. CASE y = x
    BY <2>1, SameLife
  <2>2. CASE Answered(y.msgs) /\ ~Answered(x.msgs)
    BY <1>1, <2>2 DEF LifeStep, LifeOf, Lifecycle!Step, Lifecycle!SavePartial, Lifecycle!SameTurn
  <2> QED BY <1>1, <2>1, <2>2
<1> QED BY <1>1, <1>2, <1>3 DEF y

LEMMA FailedIsOwn ==
  ASSUME NEW x \in Row, OwnTurn(x), x.status = "running", Open(x.msgs),
         NEW partial \in BOOLEAN, NEW content \in {0, x.content, x.gen}
  PROVE  LET y == [KeepPartial(x, partial) EXCEPT !.status = "failed", !.content = content] IN
           OwnTurn(y) /\ LifeStep(x, y)
<1> DEFINE z == KeepPartial(x, partial)
           y == [z EXCEPT !.status = "failed", !.content = content]
<1>1. /\ z \in Row /\ z.gen = x.gen /\ z.pending = x.pending /\ z.trace \in {0, z.gen}
      /\ Alternates(z.msgs) /\ x.pending = None /\ content \in {0, x.gen}
  BY KeepPartialIsOwn DEF OwnTurn
<1> HIDE DEF z
<1>2. /\ y.status = "failed" /\ y.gen = x.gen /\ y.pending = None /\ y.content = content
      /\ y.trace = z.trace /\ y.msgs = z.msgs
  BY <1>1 DEF Row
<1> HIDE DEF y
<1>3. OwnTurn(y)
  BY <1>1, <1>2 DEF OwnTurn, Busy
<1>4. LifeStep(x, y)
  BY <1>2 DEF LifeStep, LifeOf, Lifecycle!Step, Lifecycle!Break, Lifecycle!SameTurn
<1> QED BY <1>3, <1>4 DEF y, z

LEMMA EndRowIsOwn ==
  ASSUME NEW x \in Row, OwnTurn(x), x.status \in Busy, NEW status \in {"failed", "cancelled"}
  PROVE  LET y == EndRow(x, status) IN
           /\ OwnTurn(y) /\ LifeStep(x, y) /\ y.status = status /\ y.gen = x.gen
           /\ x.status = "running" => y.msgs = x.msgs
<1> DEFINE z == IF x.status = "paused" THEN PreservePausedOutput(x) ELSE x
           y == EndRow(x, status)
<1>1. Open(x.msgs)
  BY DEF OwnTurn
<1>2. /\ z \in Row /\ z.gen = x.gen /\ z.content = x.content /\ z.trace \in {0, z.gen}
      /\ Alternates(z.msgs) /\ (x.status = "running" => z = x)
  BY <1>1, AppendAnswerIsOwn DEF PreservePausedOutput, OwnTurn, Busy
<1>3. y = [z EXCEPT !.status = status, !.pending = None]
  BY DEF EndRow
<1> HIDE DEF z
<1>4. /\ y.status = status /\ y.pending = None /\ y.gen = x.gen /\ y.content = x.content
      /\ y.trace = z.trace /\ y.msgs = z.msgs
  BY <1>2, <1>3 DEF Row
<1> HIDE DEF y
<1>5. OwnTurn(y)
  BY <1>2, <1>4 DEF OwnTurn, Busy
<1>6. LifeStep(x, y)
  BY <1>4 DEF LifeStep, LifeOf, Lifecycle!Step, Lifecycle!Break, Lifecycle!SameTurn, Busy
<1> QED BY <1>2, <1>4, <1>5, <1>6 DEF y

LEMMA ResetRowIsOwn ==
  ASSUME NEW x \in Row, x.status \in Ended \cup {"none"}, NEW msgs \in Seq(Nat),
         Alternates(msgs), Open(msgs), NEW status \in {"running", "failed"}
  PROVE  LET y == [ResetRow(x, msgs) EXCEPT !.status = status] IN
           /\ OwnTurn(y) /\ LifeStep(x, y) /\ y.status = status
           /\ y.gen = x.gen + 1 /\ y.msgs = msgs
<1> DEFINE y == [ResetRow(x, msgs) EXCEPT !.status = status]
<1>1. /\ y.status = status /\ y.pending = None /\ y.content = 0 /\ y.trace = 0
      /\ y.gen = x.gen + 1 /\ y.msgs = msgs
  BY DEF ResetRow, Row
<1> HIDE DEF y
<1>2. OwnTurn(y)
  BY <1>1 DEF OwnTurn
<1>3. LifeStep(x, y)
  BY <1>1 DEF LifeStep, LifeOf, Answered, Open, Lifecycle!Step, Lifecycle!Ask, Ended
<1> QED BY <1>1, <1>2, <1>3 DEF y

LEMMA ClaimedIsOwn ==
  ASSUME NEW x \in Row, OwnTurn(x), x.status = "paused", NEW status \in {"running", "failed"}
  PROVE  LET y == [Claimed(x) EXCEPT !.status = status] IN
           /\ OwnTurn(y) /\ LifeStep(x, y) /\ y.status = status
           /\ y.gen = x.gen /\ y.msgs = x.msgs /\ Open(x.msgs)
<1> DEFINE y == [Claimed(x) EXCEPT !.status = status]
<1>1. /\ y.status = status /\ y.pending = None /\ y.content = x.content /\ y.trace = x.trace
      /\ y.gen = x.gen /\ y.msgs = x.msgs
  BY DEF Claimed, Row
<1>2. Open(x.msgs)
  BY DEF OwnTurn, Busy
<1> HIDE DEF y
<1>3. OwnTurn(y)
  BY <1>1, <1>2 DEF OwnTurn
<1>4. LifeStep(x, y)
  BY <1>1, <1>2 DEF LifeStep, LifeOf, Answered, Open, Lifecycle!Step, Lifecycle!Decide,
                    Lifecycle!Break, Lifecycle!SameTurn
<1> QED BY <1>1, <1>2, <1>3, <1>4 DEF y

LEMMA DeletedIsOwn ==
  ASSUME NEW x \in Row, x.status \in Stored
  PROVE  LET y == [NoRow EXCEPT !.status = "gone"] IN
           OwnTurn(y) /\ LifeStep(x, y) /\ y.status = "gone"
<1> DEFINE y == [NoRow EXCEPT !.status = "gone"]
<1>1. /\ y.status = "gone" /\ y.pending = None /\ y.content = 0 /\ y.trace = 0
      /\ y.gen = 0 /\ y.msgs = <<>>
  BY DEF NoRow
<1> HIDE DEF y
<1>2. OwnTurn(y)
  BY <1>1 DEF OwnTurn, Busy, Alternates
<1>3. x.status \in Lifecycle!Phases \ {"none", "gone"}
  BY DEF Lifecycle!Phases, Stored, Busy, Ended
<1>4. LifeStep(x, y)
  BY <1>1, <1>3 DEF LifeStep, LifeOf, Answered, Lifecycle!Step, Lifecycle!Delete
<1> QED BY <1>1, <1>2, <1>4 DEF y

(* What the entitled run stores when it pauses or completes.                 *)
LEMMA ResultIsOwn ==
  ASSUME TypeInv, TurnInv, NEW r \in Runs, run[r].pc = "return", Entitled(r),
         row[run[r].conv].status = "running"
  PROVE  LET x == row[run[r].conv]
             y == HandleAgentResult(r) IN
           OwnTurn(y) /\ LifeStep(x, y) /\ y.status \in {"paused", "done"}
<1> DEFINE a == run[r]
           x == row[a.conv]
           y == HandleAgentResult(r)
           mine == IF a.partial THEN a.gen ELSE 0
           p == [call |-> Head(a.queue), cluster |-> a.cluster]
<1>1. x \in Row /\ OwnTurn(x) /\ a.gen = x.gen /\ Open(x.msgs)
  BY RunFacts DEF TypeInv, RowsOK, TurnInv, RowsAreOwn, EntitledWrites, Entitled, Stored, Busy
<1>2. CASE a.result = "pending"
  <2>1. y = [x EXCEPT !.status = "paused", !.saved = a.queue, !.content = mine, !.pending = p]
    BY <1>2 DEF HandleAgentResult
  <2>2. mine \in {0, x.gen}
    BY <1>1
  <2> HIDE DEF mine, p
  <2>3. /\ y.status = "paused" /\ y.gen = x.gen /\ y.msgs = x.msgs /\ y.content = mine
        /\ y.trace = x.trace
    BY <1>1, <2>1 DEF Row
  <2> HIDE DEF y, x
  <2>4. OwnTurn(y)
    BY <1>1, <2>2, <2>3 DEF OwnTurn
  <2>5. LifeStep(x, y)
    BY <1>1, <2>3 DEF x, LifeStep, LifeOf, Answered, Open, Lifecycle!Step, Lifecycle!Pause,
                      Lifecycle!SameTurn
  <2> QED BY <2>3, <2>4, <2>5 DEF x, y
<1>3. CASE a.result # "pending"
  <2> DEFINE z == AppendAnswer(x)
  <2>1. y = [z EXCEPT !.status = "done", !.content = a.gen]
    BY <1>3 DEF HandleAgentResult
  <2>2. /\ z \in Row /\ z.status = "running" /\ z.gen = x.gen /\ z.pending = x.pending
        /\ z.trace = 0 /\ Alternates(z.msgs) /\ Answered(z.msgs)
    BY <1>1, AppendAnswerIsOwn
  <2> HIDE DEF z
  <2>3. /\ y.status = "done" /\ y.gen = x.gen /\ y.msgs = z.msgs /\ y.content = x.gen
        /\ y.trace = 0 /\ y.pending = x.pending
    BY <1>1, <2>1, <2>2 DEF Row
  <2>4. x.pending = None
    BY <1>1 DEF OwnTurn
  <2> HIDE DEF y, x
  <2>5. OwnTurn(y)
    BY <2>2, <2>3, <2>4 DEF OwnTurn, Busy
  <2>6. LifeStep(x, y)
    BY <2>2, <2>3 DEF x, LifeStep, LifeOf, Lifecycle!Step, Lifecycle!Complete, Lifecycle!SameTurn
  <2> QED BY <2>3, <2>5, <2>6 DEF x, y
<1> QED BY <1>2, <1>3

-----------------------------------------------------------------------------
(* The shapes of steps.                                                      *)
Lives == \A c \in Conv : LifeStep(row[c], row'[c])

Halted == {"cancelled", "gone"}

(* Who was stopped stays stopped: the epochs only grow, and a conversation   *)
(* that was cancelled goes on only under a newer one.                        *)
LEMMA StoppedStays ==
  ASSUME RunsInv, TypeInv, NEW s \in Runs, Alive(s), Stopped(s),
         run'[s].conv = run[s].conv, run'[s].epoch = run[s].epoch,
         \A c \in Conv : epoch'[c] \in Nat /\ epoch'[c] >= epoch[c],
         \A c \in Conv : row[c].status \in Halted =>
           row'[c].status \in Halted \/ epoch'[c] > epoch[c]
  PROVE  Stopped(s)'
<1>1. run[s].conv \in Conv /\ run[s].epoch \in Nat /\ epoch[run[s].conv] \in Nat
      /\ run[s].epoch <= epoch[run[s].conv]
  BY RunFacts DEF RunsInv, EpochsGrow
<1> QED BY <1>1 DEF Stopped, Halted

(* What a step may do to the row under a run that stays entitled.            *)
RowFollows(c) ==
  \/ row'[c].status \notin Stored
  \/ /\ row[c].status \in Stored /\ row'[c].gen = row[c].gen
     /\ Open(row[c].msgs) => Open(row'[c].msgs)

(* A run that the step leaves as it is, but for being aborted.               *)
SteadyRun(s) ==
  /\ run'[s].pc = run[s].pc /\ run'[s].conv = run[s].conv /\ run'[s].epoch = run[s].epoch
  /\ run'[s].gen = run[s].gen /\ run'[s].late = run[s].late

LEMMA SteadyRunsKeep ==
  ASSUME RunsInv, TypeInv, TurnInv, NEW s \in Runs, SteadyRun(s),
         \A c \in Conv : epoch'[c] \in Nat /\ epoch'[c] >= epoch[c],
         \A c \in Conv : row[c].status \in Halted =>
           row'[c].status \in Halted \/ epoch'[c] > epoch[c]
  PROVE  /\ Entitled(s)' => Entitled(s) /\ epoch'[run[s].conv] = epoch[run[s].conv]
         /\ Entitled(s)' /\ RowFollows(run[s].conv) /\ row'[run[s].conv].status \in Stored =>
              run'[s].gen = row'[run'[s].conv].gen /\ Open(row'[run'[s].conv].msgs)
         /\ run'[s].late # 0 =>
              run'[s].late = 1 /\ Stopped(s)' /\ run'[s].pc \in {"exec", "throw"}
<1>1. Alive(s)' <=> Alive(s)
  BY DEF SteadyRun, Alive
<1>2. ASSUME Entitled(s)'
      PROVE  Entitled(s) /\ epoch'[run[s].conv] = epoch[run[s].conv]
  <2>1. /\ run[s].conv \in Conv /\ run[s].epoch \in Nat /\ epoch[run[s].conv] \in Nat
        /\ run[s].epoch <= epoch[run[s].conv]
    BY <1>1, <1>2, RunFacts DEF RunsInv, EpochsGrow, Entitled
  <2>2. run[s].epoch = epoch'[run[s].conv]
    BY <1>2 DEF Entitled, IsSuperseded, SteadyRun
  <2> QED BY <1>1, <1>2, <2>1, <2>2 DEF Entitled, IsSuperseded
<1>3. ASSUME Entitled(s)', RowFollows(run[s].conv), row'[run[s].conv].status \in Stored
      PROVE  run'[s].gen = row'[run'[s].conv].gen /\ Open(row'[run'[s].conv].msgs)
  BY <1>2, <1>3 DEF RowFollows, SteadyRun, TurnInv, EntitledWrites
<1>4. ASSUME run'[s].late # 0
      PROVE  run'[s].late = 1 /\ Stopped(s)' /\ run'[s].pc \in {"exec", "throw"}
  <2>1. run[s].late = 1 /\ Stopped(s) /\ run[s].pc \in {"exec", "throw"} /\ Alive(s)
    BY <1>4 DEF SteadyRun, TurnInv, LateIsLast, Alive
  <2> QED BY <2>1, StoppedStays DEF SteadyRun
<1> QED BY <1>2, <1>3, <1>4

(* A step of the handlers: it starts and ends no run.                        *)
LEMMA RowsMove ==
  ASSUME RunsInv, TypeInv, TurnInv, \A s \in Runs : SteadyRun(s),
         \A c \in Conv : epoch'[c] \in Nat /\ epoch'[c] >= epoch[c],
         \A c \in Conv : row[c].status \in Halted =>
           row'[c].status \in Halted \/ epoch'[c] > epoch[c],
         \A c \in Conv : OwnTurn(row'[c]) /\ LifeStep(row[c], row'[c]),
         \A c \in Conv : RowFollows(c) \/ row[c].status \in Quiet \/ epoch'[c] # epoch[c]
  PROVE  TurnInv' /\ Lives
<1>1. RowsAreOwn' /\ Lives
  BY DEF RowsAreOwn, Lives, OwnTurn, Open, Alternates
<1>2. EntitledWrites'
  <2> SUFFICES ASSUME NEW s \in Runs, Entitled(s)', row'[run'[s].conv].status \in Stored
               PROVE  run'[s].gen = row'[run'[s].conv].gen /\ Open(row'[run'[s].conv].msgs)
    BY DEF EntitledWrites, Open
  <2>1. Entitled(s) /\ epoch'[run[s].conv] = epoch[run[s].conv] /\ run'[s].conv = run[s].conv
    BY SteadyRunsKeep DEF SteadyRun
  <2>2. run[s].conv \in Conv /\ row[run[s].conv].status \notin Quiet
    BY <2>1, RunFacts DEF RunsInv, QuietIsFree, Entitled
  <2>3. RowFollows(run[s].conv)
    BY <2>1, <2>2
  <2> QED BY <2>1, <2>3, SteadyRunsKeep
<1>3. LateIsLast'
  BY SteadyRunsKeep DEF LateIsLast
<1> QED BY <1>1, <1>2, <1>3 DEF TurnInv

(* A step of a run that goes on: it may store an event or a checkpoint.      *)
LEMMA RunWrites ==
  ASSUME RunsInv, TypeInv, TurnInv, NEW r \in Runs, Alive(r), NEW a,
         a.conv = run[r].conv, a.epoch = run[r].epoch, a.gen = run[r].gen,
         a.late # 0 => a.late = 1 /\ Stopped(r) /\ a.pc \in {"exec", "throw"},
         run' = [run EXCEPT ![r] = a], UNCHANGED epoch,
         NEW y, OwnTurn(y), y.status = row[run[r].conv].status,
         y.gen = row[run[r].conv].gen, y.msgs = row[run[r].conv].msgs,
         row' = row \/ row' = [row EXCEPT ![run[r].conv] = y]
  PROVE  TurnInv' /\ Lives
<1>1. /\ run \in [Runs -> RunRecord] /\ row \in [Conv -> Row] /\ run[r].conv \in Conv
      /\ \A c \in Conv : epoch'[c] \in Nat /\ epoch'[c] >= epoch[c]
  BY RunFacts DEF TypeInv, RunsOK, RowsOK
<1>2. run'[r] = a /\ \A s \in Runs \ {r} : run'[s] = run[s] /\ SteadyRun(s)
  BY <1>1 DEF SteadyRun
<1>3. \A c \in Conv : /\ OwnTurn(row'[c]) /\ row'[c].status = row[c].status
                      /\ row'[c].gen = row[c].gen /\ row'[c].msgs = row[c].msgs
  BY <1>1 DEF TurnInv, RowsAreOwn
<1>4. RowsAreOwn' /\ Lives
  BY <1>3, SameLife DEF RowsAreOwn, Lives, OwnTurn, Open, Alternates
<1>5. \A c \in Conv : RowFollows(c) /\ (row[c].status \in Halted => row'[c].status \in Halted)
  BY <1>3 DEF RowFollows
<1>6. Entitled(r)' => Entitled(r)
  BY <1>2 DEF Entitled, Alive, IsSuperseded
<1>7. EntitledWrites'
  <2> SUFFICES ASSUME NEW s \in Runs, Entitled(s)', row'[run'[s].conv].status \in Stored
               PROVE  run'[s].gen = row'[run'[s].conv].gen /\ Open(row'[run'[s].conv].msgs)
    BY DEF EntitledWrites, Open
  <2>1. CASE s = r
    <3>1. run[r].gen = row[run[r].conv].gen /\ Open(row[run[r].conv].msgs)
      BY <1>1, <1>2, <1>3, <1>6, <2>1 DEF TurnInv, EntitledWrites
    <3> QED BY <1>1, <1>2, <1>3, <2>1, <3>1 DEF Open
  <2>2. CASE s # r
    <3>1. run'[s] = run[s] /\ SteadyRun(s) /\ Entitled(s)
      BY <1>1, <1>2, <1>5, <2>2, SteadyRunsKeep
    <3>2. RowFollows(run[s].conv)
      BY <1>5, <3>1, RunFacts DEF Entitled
    <3> QED BY <1>1, <1>5, <3>1, <3>2, SteadyRunsKeep
  <2> QED BY <2>1, <2>2
<1>8. LateIsLast'
  <2> SUFFICES ASSUME NEW s \in Runs, run'[s].late # 0
               PROVE  run'[s].late = 1 /\ Stopped(s)' /\ run'[s].pc \in {"exec", "throw"}
    BY DEF LateIsLast
  <2>1. CASE s = r
    <3>1. Stopped(r)'
      BY <1>1, <1>2, <1>5, <2>1, StoppedStays
    <3> QED BY <1>2, <2>1, <3>1
  <2>2. CASE s # r
    BY <1>1, <1>2, <1>5, <2>2, SteadyRunsKeep
  <2> QED BY <2>1, <2>2
<1> QED BY <1>4, <1>7, <1>8 DEF TurnInv

(* The last step of a run: nobody else is entitled to the row it writes.     *)
LEMMA RunLeaves ==
  ASSUME RunsInv, TypeInv, TurnInv, NEW r \in Runs, Alive(r), Exit(r), UNCHANGED epoch,
         NEW y, OwnTurn(y), LifeStep(row[run[r].conv], y),
         row[run[r].conv].status \in Halted => y.status \in Halted,
         \/ row' = row
         \/ ~IsSuperseded(r) /\ row' = [row EXCEPT ![run[r].conv] = y]
  PROVE  TurnInv' /\ Lives
<1>1. /\ run \in [Runs -> RunRecord] /\ row \in [Conv -> Row] /\ run[r].conv \in Conv
      /\ \A c \in Conv : epoch'[c] \in Nat /\ epoch'[c] >= epoch[c]
  BY RunFacts DEF TypeInv, RunsOK, RowsOK
<1>2. run'[r] = Idle /\ \A s \in Runs \ {r} : run'[s] = run[s] /\ SteadyRun(s)
  BY <1>1 DEF SteadyRun, Exit
<1>3. \A c \in Conv : row'[c] = row[c] \/ (c = run[r].conv /\ ~IsSuperseded(r) /\ row'[c] = y)
  BY <1>1
<1>4. \A c \in Conv : OwnTurn(row'[c]) /\ LifeStep(row[c], row'[c])
  BY <1>3, SameLife DEF TurnInv, RowsAreOwn
<1>5. RowsAreOwn' /\ Lives
  BY <1>4 DEF RowsAreOwn, Lives, OwnTurn, Open, Alternates
<1>6. \A c \in Conv : row[c].status \in Halted => row'[c].status \in Halted
  BY <1>3
<1>7. EntitledWrites'
  <2> SUFFICES ASSUME NEW s \in Runs, Entitled(s)', row'[run'[s].conv].status \in Stored
               PROVE  run'[s].gen = row'[run'[s].conv].gen /\ Open(row'[run'[s].conv].msgs)
    BY DEF EntitledWrites, Open
  <2>1. s # r
    BY <1>2 DEF Entitled, Alive, Idle
  <2>2. Entitled(s) /\ run'[s] = run[s] /\ run[s].conv \in Conv
    BY <1>1, <1>2, <1>6, <2>1, SteadyRunsKeep, RunFacts DEF Entitled
  <2>3. run[s].conv = run[r].conv => IsSuperseded(r)
    BY <2>1, <2>2 DEF RunsInv, EntitledIsActive, Entitled
  <2>4. row'[run[s].conv] = row[run[s].conv]
    BY <1>3, <2>2, <2>3
  <2> QED BY <2>2, <2>4 DEF TurnInv, EntitledWrites
<1>8. LateIsLast'
  <2> SUFFICES ASSUME NEW s \in Runs, run'[s].late # 0
               PROVE  run'[s].late = 1 /\ Stopped(s)' /\ run'[s].pc \in {"exec", "throw"}
    BY DEF LateIsLast
  <2>1. s # r
    BY <1>2 DEF Idle
  <2> QED BY <1>1, <1>2, <1>6, <2>1, SteadyRunsKeep
<1> QED BY <1>5, <1>7, <1>8 DEF TurnInv

(* A new run: the row it starts with, x, is open and of the present turn.    *)
LEMMA LaunchOwns ==
  ASSUME RunsInv, TypeInv, TurnInv, NEW r \in Runs, NEW c \in Conv, NEW x \in Row,
         x.status = "running", Open(x.msgs), row[c].status \in Quiet \cup {"cancelled"},
         \A status \in {"running", "failed"} :
           LET y == [x EXCEPT !.status = status] IN OwnTurn(y) /\ LifeStep(row[c], y),
         NEW queue, NEW target, NEW ok, Launch(r, c, x, queue, target, ok)
  PROVE  TurnInv' /\ Lives
<1>1. /\ run[r].pc = "idle" /\ run \in [Runs -> RunRecord] /\ row \in [Conv -> Row]
      /\ epoch \in [Conv -> Nat] /\ epoch' = [epoch EXCEPT ![c] = epoch[c] + 1]
  BY DEF Launch, TypeInv, RunsOK, RowsOK, RestOK
<1>2. \A d \in Conv : /\ epoch'[d] \in Nat /\ epoch'[d] >= epoch[d]
                      /\ epoch'[d] = IF d = c THEN epoch[c] + 1 ELSE epoch[d]
  BY <1>1
<1>3. x = [x EXCEPT !.status = "running"]
  BY DEF Row
<1> DEFINE y == IF proj = None THEN [x EXCEPT !.status = "failed"] ELSE x
<1>4. row' = [row EXCEPT ![c] = y] /\ OwnTurn(y) /\ LifeStep(row[c], y)
  <2>1. CASE proj = None
    BY <2>1 DEF Launch
  <2>2. CASE proj # None
    BY <1>3, <2>2 DEF Launch
  <2> QED BY <2>1, <2>2
<1>5. y.gen = x.gen /\ y.msgs = x.msgs
  BY DEF Row
<1> HIDE DEF y
<1>6. \A d \in Conv : /\ row'[d] = IF d = c THEN y ELSE row[d]
                      /\ OwnTurn(row'[d]) /\ LifeStep(row[d], row'[d])
  BY <1>1, <1>4, SameLife DEF TurnInv, RowsAreOwn
<1>7. \A d \in Conv : row[d].status \in Halted => row'[d].status \in Halted \/ epoch'[d] > epoch[d]
  BY <1>1, <1>2, <1>6
<1>8. RowsAreOwn' /\ Lives
  BY <1>6 DEF RowsAreOwn, Lives, OwnTurn, Open, Alternates
<1>9. \A s \in Runs : /\ s # r => run'[s] = run[s]
                      /\ \/ run'[s] = run[s]
                         \/ /\ s = r /\ run'[s].conv = c /\ run'[s].gen = x.gen
                            /\ run'[s].late = 0
  BY <1>1 DEF Launch
<1>10. ASSUME NEW s \in Runs, run'[s] = run[s]
       PROVE  /\ Entitled(s)' /\ row'[run'[s].conv].status \in Stored =>
                   run'[s].gen = row'[run'[s].conv].gen /\ Open(row'[run'[s].conv].msgs)
              /\ run'[s].late # 0 =>
                   run'[s].late = 1 /\ Stopped(s)' /\ run'[s].pc \in {"exec", "throw"}
  <2>1. SteadyRun(s)
    BY <1>10 DEF SteadyRun
  <2>2. ASSUME Entitled(s)' PROVE RowFollows(run[s].conv)
    <3>1. Entitled(s) /\ epoch'[run[s].conv] = epoch[run[s].conv] /\ run[s].conv \in Conv
      BY <1>2, <1>7, <2>1, <2>2, SteadyRunsKeep, RunFacts DEF Entitled
    <3>2. run[s].conv # c
      BY <1>1, <1>2, <3>1
    <3> QED BY <1>6, <3>1, <3>2 DEF RowFollows
  <2>3. ASSUME Entitled(s)', row'[run'[s].conv].status \in Stored
        PROVE  run'[s].gen = row'[run'[s].conv].gen /\ Open(row'[run'[s].conv].msgs)
    <3>1. RowFollows(run[s].conv) /\ row'[run[s].conv].status \in Stored
      BY <1>10, <2>2, <2>3
    <3> QED BY <1>2, <1>7, <2>1, <2>3, <3>1, SteadyRunsKeep
  <2>4. ASSUME run'[s].late # 0
        PROVE  run'[s].late = 1 /\ Stopped(s)' /\ run'[s].pc \in {"exec", "throw"}
    BY <1>2, <1>7, <2>1, <2>4, SteadyRunsKeep
  <2> QED BY <2>3, <2>4
<1>11. EntitledWrites'
  <2> SUFFICES ASSUME NEW s \in Runs, Entitled(s)', row'[run'[s].conv].status \in Stored
               PROVE  run'[s].gen = row'[run'[s].conv].gen /\ Open(row'[run'[s].conv].msgs)
    BY DEF EntitledWrites, Open
  <2>1. CASE run'[s] = run[s]
    BY <1>10, <2>1
  <2>2. CASE run'[s].conv = c /\ run'[s].gen = x.gen
    BY <1>5, <1>6, <2>2 DEF Open
  <2> QED BY <1>9, <2>1, <2>2
<1>12. LateIsLast'
  BY <1>9, <1>10 DEF LateIsLast
<1> QED BY <1>8, <1>11, <1>12 DEF TurnInv

(* makeOnStep: only a run that may still write stores its event.             *)
LEMMA EventKeepsTurn ==
  ASSUME RunsInv, TypeInv, TurnInv, NEW r \in Runs, Alive(r), NEW after,
         after.conv = run[r].conv, after.epoch = run[r].epoch, after.gen = run[r].gen,
         after.late = run[r].late,
         run[r].late # 0 /\ CancelSignal(r) => after.pc = "throw",
         NEW y, y.status = row[run[r].conv].status, y.gen = row[run[r].conv].gen,
         y.msgs = row[run[r].conv].msgs,
         run[r].gen = row[run[r].conv].gen => OwnTurn(y),
         OnStep(r, after, y), UNCHANGED epoch
  PROVE  TurnInv' /\ Lives
<1> DEFINE c == run[r].conv
           gone == row[c].status \notin Stored
           a == IF gone /\ ~IsSuperseded(r) THEN [run[r] EXCEPT !.pc = "throw"] ELSE after
<1>1. run \in [Runs -> RunRecord] /\ run[r] \in RunRecord /\ c \in Conv
  BY RunFacts DEF TypeInv, RunsOK
<1>2. run' = [run EXCEPT ![r] = a]
  BY <1>1 DEF OnStep
<1>3. /\ a.conv = run[r].conv /\ a.epoch = run[r].epoch /\ a.gen = run[r].gen
      /\ a.late = run[r].late
  BY <1>1 DEF RunRecord
<1>4. a.late # 0 => a.late = 1 /\ Stopped(r) /\ a.pc \in {"exec", "throw"}
  <2> SUFFICES ASSUME run[r].late # 0
               PROVE  run[r].late = 1 /\ Stopped(r) /\ a.pc = "throw"
    BY <1>3
  <2>1. run[r].late = 1 /\ Stopped(r)
    BY DEF TurnInv, LateIsLast
  <2>2. CASE CancelSignal(r)
    BY <1>1, <2>1, <2>2 DEF RunRecord
  <2>3. CASE ~CancelSignal(r)
    BY <1>1, <2>1, <2>3
    DEF CancelSignal, IsSuperseded, DbCancelled, Stopped, Stored, Busy, Ended, RunRecord
  <2> QED BY <2>2, <2>3
<1> HIDE DEF a
<1>5. CASE row' = row
  <2>1. OwnTurn(row[c])
    BY <1>1 DEF TurnInv, RowsAreOwn
  <2> QED BY <1>2, <1>3, <1>4, <1>5, <2>1, RunWrites
<1>6. CASE row' # row
  <2>1. row' = [row EXCEPT ![c] = y] /\ Entitled(r) /\ row[c].status \in Stored
    BY <1>6 DEF OnStep, Entitled
  <2>2. OwnTurn(y)
    BY <2>1 DEF TurnInv, EntitledWrites
  <2> QED BY <1>2, <1>3, <1>4, <2>1, <2>2, RunWrites
<1> QED BY <1>5, <1>6

LEMMA RoundKeepsTurn ==
  ASSUME RunsInv, TypeInv, TurnInv, NEW r \in Runs, run[r].pc = "chat",
         NEW next, NEW queue, NEW result, EndRound(r, next, queue, result), UNCHANGED epoch
  PROVE  TurnInv' /\ Lives
<1> DEFINE a == run[r]
           c == run[r].conv
           keep == IsSuperseded(r) \/ DbCancelled(c)
           partial == keep /\ a.partial
           content == IF DbCancelled(c) THEN row[c].content ELSE 0
           b == [a EXCEPT !.pc = next, !.queue = queue, !.result = result,
                          !.target = None, !.partial = partial]
           y == [row[c] EXCEPT !.trace = a.gen, !.content = content]
<1>1. a \in RunRecord /\ c \in Conv /\ Alive(r) /\ row[c] \in Row /\ OwnTurn(row[c])
  BY RunFacts DEF Alive, TypeInv, RowsOK, TurnInv, RowsAreOwn
<1>2. OnStep(r, b, y) /\ content \in {0, row[c].content}
  BY DEF EndRound
<1>3. a.late = 0
  BY DEF TurnInv, LateIsLast
<1> HIDE DEF partial, content
<1>4. b.conv = c /\ b.epoch = a.epoch /\ b.gen = a.gen /\ b.late = a.late
  BY <1>1 DEF RunRecord
<1>5. y.status = row[c].status /\ y.gen = row[c].gen /\ y.msgs = row[c].msgs
  BY <1>1 DEF Row
<1>6. a.gen = row[c].gen => OwnTurn(y)
  <2> SUFFICES ASSUME a.gen = row[c].gen PROVE OwnTurn(y)
    OBVIOUS
  <2>1. a.gen \in {row[c].trace, row[c].gen} /\ content \in {0, row[c].content, row[c].gen}
    BY <1>2
  <2> QED BY <1>1, <2>1, EventIsOwn
<1> HIDE DEF b, y
<1> QED BY <1>1, <1>2, <1>3, <1>4, <1>5, <1>6, EventKeepsTurn

LEMMA RunStepKeepsTurn ==
  ASSUME RunsInv, TypeInv, TurnInv, NEW r \in Runs, RunStep(r)
  PROVE  TurnInv' /\ Lives
<1> DEFINE a == run[r]
           c == run[r].conv
<1>0. /\ run \in [Runs -> RunRecord] /\ a \in RunRecord /\ row \in [Conv -> Row]
      /\ Alive(r) => c \in Conv /\ row[c] \in Row /\ OwnTurn(row[c])
  BY RunFacts DEF TypeInv, RunsOK, RowsOK, TurnInv, RowsAreOwn
<1>a. a.late # 0 => a.late = 1 /\ Stopped(r) /\ a.pc \in {"exec", "throw"}
  BY DEF TurnInv, LateIsLast
<1>b. ASSUME NEW b, Alive(r), run' = [run EXCEPT ![r] = b], UNCHANGED <<row, epoch>>,
             b.conv = c, b.epoch = a.epoch, b.gen = a.gen,
             b.late # 0 => b.late = 1 /\ Stopped(r) /\ b.pc \in {"exec", "throw"}
      PROVE  TurnInv' /\ Lives
  BY <1>0, <1>b, RunWrites
<1>c. a.gen = row[c].gen /\ Alive(r) => OwnTurn([row[c] EXCEPT !.trace = a.gen])
  <2> SUFFICES ASSUME a.gen = row[c].gen, Alive(r) PROVE OwnTurn([row[c] EXCEPT !.trace = a.gen])
    OBVIOUS
  <2>1. [row[c] EXCEPT !.trace = a.gen] = [row[c] EXCEPT !.trace = a.gen, !.content = row[c].content]
    BY <1>0 DEF Row
  <2>2. a.gen \in {row[c].trace, row[c].gen}
    OBVIOUS
  <2> QED BY <1>0, <2>1, <2>2, EventIsOwn
<1>1. CASE GatePause(r)
  <2> DEFINE b == [a EXCEPT !.pc = "return", !.result = "pending"]
  <2>1. Alive(r) /\ a.pc = "gate" /\ run' = [run EXCEPT ![r] = b] /\ UNCHANGED <<row, epoch>>
    BY <1>0, <1>1 DEF GatePause, Alive
  <2>2. b.conv = c /\ b.epoch = a.epoch /\ b.gen = a.gen /\ b.late = a.late
    BY <1>0 DEF RunRecord
  <2> HIDE DEF b
  <2> QED BY <1>a, <1>b, <2>1, <2>2
<1>2. CASE ExecTool(r)
  <2> DEFINE late == IF Stopped(r) THEN a.late + 1 ELSE a.late
             b == [a EXCEPT !.pc = "exec", !.queue = Tail(a.queue), !.target = None,
                            !.late = late]
  <2>1. Alive(r) /\ a.pc = "gate" /\ run' = [run EXCEPT ![r] = b] /\ UNCHANGED <<row, epoch>>
    BY <1>0, <1>2 DEF ExecTool, Alive
  <2>2. late # 0 => late = 1 /\ Stopped(r)
    BY <1>a, <2>1
  <2> HIDE DEF late
  <2>3. b.conv = c /\ b.epoch = a.epoch /\ b.gen = a.gen /\ b.late = late /\ b.pc = "exec"
    BY <1>0 DEF RunRecord
  <2> HIDE DEF b
  <2> QED BY <1>b, <2>1, <2>2, <2>3
<1>3. CASE ToolDone(r)
  <2> DEFINE b == [a EXCEPT !.pc = AfterCheck(r, a.queue)]
             y == [row[c] EXCEPT !.trace = a.gen]
  <2>1. Alive(r) /\ OnStep(r, b, y) /\ UNCHANGED epoch
    BY <1>3 DEF ToolDone, Alive
  <2>2. /\ b.conv = c /\ b.epoch = a.epoch /\ b.gen = a.gen /\ b.late = a.late
        /\ CancelSignal(r) => b.pc = "throw"
    BY <1>0 DEF RunRecord, AfterCheck
  <2>3. y.status = row[c].status /\ y.gen = row[c].gen /\ y.msgs = row[c].msgs
    BY <1>0, <2>1 DEF Row
  <2>4. a.gen = row[c].gen => OwnTurn(y)
    BY <1>c, <2>1
  <2> HIDE DEF b, y
  <2> QED BY <2>1, <2>2, <2>3, <2>4, EventKeepsTurn
<1>4. CASE SkipTool(r)
  <2> DEFINE queue == Tail(a.queue)
             b == [a EXCEPT !.pc = AfterCheck(r, queue), !.queue = queue, !.target = None]
             y == [row[c] EXCEPT !.trace = a.gen]
  <2>1. Alive(r) /\ a.pc = "gate" /\ OnStep(r, b, y) /\ UNCHANGED epoch
    BY <1>4 DEF SkipTool, Alive
  <2> HIDE DEF queue
  <2>2. b.conv = c /\ b.epoch = a.epoch /\ b.gen = a.gen /\ b.late = a.late
    BY <1>0 DEF RunRecord
  <2>3. y.status = row[c].status /\ y.gen = row[c].gen /\ y.msgs = row[c].msgs
    BY <1>0, <2>1 DEF Row
  <2>4. a.gen = row[c].gen => OwnTurn(y)
    BY <1>c, <2>1
  <2> HIDE DEF b, y
  <2> QED BY <1>a, <2>1, <2>2, <2>3, <2>4, EventKeepsTurn
<1>5. ASSUME NEW pc, Goto(r, pc), a.pc \in {"refresh", "chat"}, UNCHANGED <<row, epoch>>
      PROVE  TurnInv' /\ Lives
  <2> DEFINE b == [a EXCEPT !.pc = pc]
  <2>1. Alive(r) /\ run' = [run EXCEPT ![r] = b]
    BY <1>0, <1>5 DEF Goto, Alive
  <2>2. b.conv = c /\ b.epoch = a.epoch /\ b.gen = a.gen /\ b.late = a.late
    BY <1>0 DEF RunRecord
  <2> HIDE DEF b
  <2> QED BY <1>a, <1>b, <1>5, <2>1, <2>2
<1>6. CASE ChatStart(r) \/ ChatError(r)
  BY <1>5, <1>6 DEF ChatStart, ChatError
<1>7. CASE ChatTools(r)
  <2>1. PICK queue : EndRound(r, AfterCheck(r, queue), queue, "none")
    BY <1>7 DEF ChatTools
  <2> QED BY <1>7, <2>1, RoundKeepsTurn DEF ChatTools
<1>8. CASE ChatFinal(r)
  BY <1>8, RoundKeepsTurn DEF ChatFinal
<1>9. CASE \E flush \in BOOLEAN : Delta(r, flush)
  <2> DEFINE b == [a EXCEPT !.partial = TRUE]
             y == [row[c] EXCEPT !.content = a.gen]
  <2>1. PICK flush \in BOOLEAN : Delta(r, flush)
    BY <1>9
  <2>2. /\ Alive(r) /\ Entitled(r) /\ a.pc = "chat" /\ run' = [run EXCEPT ![r] = b]
        /\ UNCHANGED epoch
        /\ row' = row \/ (row' = [row EXCEPT ![c] = y] /\ row[c].status \in Stored)
    BY <1>0, <2>1 DEF Delta, Alive, Entitled
  <2>3. b.conv = c /\ b.epoch = a.epoch /\ b.gen = a.gen /\ b.late = a.late
    BY <1>0 DEF RunRecord
  <2>4. y.status = row[c].status /\ y.gen = row[c].gen /\ y.msgs = row[c].msgs
    BY <1>0, <2>2 DEF Row
  <2>5. CASE row' = row
    <3> HIDE DEF b
    <3> QED BY <1>a, <1>b, <2>2, <2>3, <2>5
  <2>6. CASE row' = [row EXCEPT ![c] = y] /\ row[c].status \in Stored
    <3>1. a.gen = row[c].gen
      BY <2>2, <2>6 DEF TurnInv, EntitledWrites
    <3>2. y = [row[c] EXCEPT !.trace = row[c].trace, !.content = row[c].gen]
      BY <1>0, <2>2, <3>1 DEF Row
    <3>3. OwnTurn(y)
      BY <1>0, <2>2, <3>2, EventIsOwn
    <3> HIDE DEF b, y
    <3> QED BY <1>a, <2>2, <2>3, <2>4, <2>6, <3>3, RunWrites
  <2> QED BY <2>2, <2>5, <2>6
<1>10. CASE Return(r)
  <2> DEFINE x == KeepPartial(row[c], a.partial)
             z == HandleAgentResult(r)
  <2>1. Alive(r) /\ a.pc = "return" /\ Exit(r) /\ UNCHANGED epoch /\ a.partial \in BOOLEAN
    BY <1>0, <1>10 DEF Return, Alive, RunRecord
  <2>2. CASE row' = row
    BY <1>0, <2>1, <2>2, SameLife, RunLeaves
  <2>3. CASE row' # row
    <3>1. /\ Entitled(r) /\ row[c].status \in Stored
          /\ row' = IF DbCancelled(c) THEN [row EXCEPT ![c] = x] ELSE [row EXCEPT ![c] = z]
      <4>1. ~IsSuperseded(r) /\ row[c].status \in Stored
        BY <1>10, <2>3 DEF Return, DbCancelled, Stored, Ended
      <4>2. CASE DbCancelled(c)
        BY <1>0, <1>10, <2>1, <4>1, <4>2 DEF Return, Entitled
      <4>3. CASE ~DbCancelled(c)
        BY <1>0, <1>10, <2>1, <4>1, <4>3 DEF Return, Entitled
      <4> QED BY <4>2, <4>3
    <3>2. Open(row[c].msgs) /\ row[c].status \in {"running", "cancelled"}
      BY <1>0, <2>1, <3>1
      DEF TurnInv, EntitledWrites, RunsInv, QuietIsFree, Quiet, Stored, Busy, Ended
    <3>3. CASE DbCancelled(c)
      <4>1. OwnTurn(x) /\ LifeStep(row[c], x) /\ x.status = "cancelled"
        BY <1>0, <2>1, <3>2, <3>3, KeptIsOwn DEF DbCancelled
      <4> QED BY <2>1, <3>1, <3>3, <4>1, RunLeaves DEF Entitled, Halted
    <3>4. CASE ~DbCancelled(c)
      <4>1. row[c].status = "running"
        BY <3>2, <3>4 DEF DbCancelled
      <4>2. OwnTurn(z) /\ LifeStep(row[c], z)
        BY <2>1, <3>1, <4>1, ResultIsOwn
      <4> QED BY <2>1, <3>1, <3>4, <4>1, <4>2, RunLeaves DEF Entitled, Halted
    <3> QED BY <3>3, <3>4
  <2> QED BY <2>2, <2>3
<1>11. CASE Catch(r)
  <2> DEFINE x == KeepPartial(row[c], a.partial)
             mine == IF a.partial THEN a.gen ELSE 0
             content == IF x = row[c] THEN x.content ELSE mine
             z == [x EXCEPT !.status = "failed", !.content = content]
  <2>1. Alive(r) /\ Exit(r) /\ UNCHANGED epoch /\ a.partial \in BOOLEAN
    BY <1>0, <1>11 DEF Catch, Alive, RunRecord
  <2>2. CASE row' = row
    BY <1>0, <2>1, <2>2, SameLife, RunLeaves
  <2>3. CASE row' # row
    <3>1. /\ Entitled(r) /\ row[c].status \in Stored
          /\ row' = IF DbCancelled(c) THEN [row EXCEPT ![c] = x] ELSE [row EXCEPT ![c] = z]
      <4>1. ~IsSuperseded(r) /\ row[c].status \in Stored
        BY <1>11, <2>3 DEF Catch, DbCancelled, Stored, Ended
      <4>2. CASE DbCancelled(c)
        BY <1>0, <1>11, <2>1, <4>1, <4>2 DEF Catch, Entitled
      <4>3. CASE ~DbCancelled(c)
        BY <1>0, <1>11, <2>1, <4>1, <4>3 DEF Catch, Entitled
      <4> QED BY <4>2, <4>3
    <3>2. /\ Open(row[c].msgs) /\ row[c].status \in {"running", "cancelled"}
          /\ a.gen = row[c].gen
      BY <1>0, <2>1, <3>1
      DEF TurnInv, EntitledWrites, RunsInv, QuietIsFree, Quiet, Stored, Busy, Ended
    <3>3. CASE DbCancelled(c)
      <4>1. OwnTurn(x) /\ LifeStep(row[c], x) /\ x.status = "cancelled"
        BY <1>0, <2>1, <3>2, <3>3, KeptIsOwn DEF DbCancelled
      <4> QED BY <2>1, <3>1, <3>3, <4>1, RunLeaves DEF Entitled, Halted
    <3>4. CASE ~DbCancelled(c)
      <4>1. row[c].status = "running"
        BY <3>2, <3>4 DEF DbCancelled
      <4>2. content \in {0, row[c].content, row[c].gen}
        BY <3>2
      <4> HIDE DEF content
      <4>3. OwnTurn(z) /\ LifeStep(row[c], z)
        BY <1>0, <2>1, <3>2, <4>1, <4>2, FailedIsOwn
      <4> QED BY <2>1, <3>1, <3>4, <4>1, <4>3, RunLeaves DEF Entitled, Halted
    <3> QED BY <3>3, <3>4
  <2> QED BY <2>2, <2>3
<1> QED
  BY <1>1, <1>2, <1>3, <1>4, <1>6, <1>7, <1>8, <1>9, <1>10, <1>11 DEF RunStep, Progress

LEMMA AbortIsSteady ==
  ASSUME TypeInv, NEW cs, Abort(cs)
  PROVE  \A s \in Runs : SteadyRun(s)
<1>1. \A s \in Runs : \/ run'[s] = run[s]
                      \/ run'[s] = [run[s] EXCEPT !.aborted = TRUE]
  BY DEF Abort
<1>2. \A s \in Runs : run[s] \in RunRecord
  BY RunFacts
<1> QED BY <1>1, <1>2 DEF SteadyRun, RunRecord

(* The handlers that end or delete the conversations in cs.                  *)
LEMMA RowsEnd ==
  ASSUME RunsInv, TypeInv, TurnInv, \A s \in Runs : SteadyRun(s), NEW cs \in SUBSET Conv,
         \A c \in Conv : epoch'[c] = epoch[c] \/ epoch'[c] = epoch[c] + 1,
         \A c \in Conv \ cs : row'[c] = row[c],
         \A c \in cs :
           \/ /\ row[c].status \in Stored
              /\ row'[c] = [NoRow EXCEPT !.status = "gone"]
           \/ /\ row[c].status \in Busy
              /\ \E status \in {"failed", "cancelled"} : row'[c] = EndRow(row[c], status)
  PROVE  TurnInv' /\ Lives
<1>1. \A c \in Conv : epoch'[c] \in Nat /\ epoch'[c] >= epoch[c]
  BY DEF TypeInv, RestOK
<1>2. ASSUME NEW c \in Conv
      PROVE  /\ OwnTurn(row'[c]) /\ LifeStep(row[c], row'[c])
             /\ row[c].status \in Halted => row'[c].status \in Halted
             /\ RowFollows(c) \/ row[c].status \in Quiet
  <2>0. row[c] \in Row /\ OwnTurn(row[c])
    BY DEF TypeInv, RowsOK, TurnInv, RowsAreOwn
  <2>1. CASE row'[c] = row[c]
    BY <2>0, <2>1, SameLife DEF RowFollows
  <2>2. CASE row[c].status \in Stored /\ row'[c] = [NoRow EXCEPT !.status = "gone"]
    BY <2>0, <2>2, DeletedIsOwn DEF RowFollows, Halted, Stored, Busy, Ended
  <2>3. ASSUME row[c].status \in Busy, NEW status \in {"failed", "cancelled"},
               row'[c] = EndRow(row[c], status)
        PROVE  /\ OwnTurn(row'[c]) /\ LifeStep(row[c], row'[c])
               /\ row[c].status \in Halted => row'[c].status \in Halted
               /\ RowFollows(c) \/ row[c].status \in Quiet
    <3>1. /\ OwnTurn(row'[c]) /\ LifeStep(row[c], row'[c]) /\ row'[c].gen = row[c].gen
          /\ row[c].status = "running" => row'[c].msgs = row[c].msgs
      BY <2>0, <2>3, EndRowIsOwn
    <3>2. row[c].status \in Stored /\ row[c].status \notin Halted
      BY <2>3 DEF Stored, Busy, Halted
    <3>3. row[c].status = "running" \/ row[c].status \in Quiet
      BY <2>3 DEF Busy, Quiet
    <3> QED BY <3>1, <3>2, <3>3 DEF RowFollows
  <2> QED BY <2>1, <2>2, <2>3
<1> QED BY <1>1, <1>2, RowsMove

LEMMA RowsStay ==
  ASSUME RunsInv, TypeInv, TurnInv, UNCHANGED <<row, epoch, run>>
  PROVE  TurnInv' /\ Lives
<1> DEFINE cs == {}
<1>1. cs \in SUBSET Conv /\ \A c \in cs : FALSE
  OBVIOUS
<1> HIDE DEF cs
<1>2. \A s \in Runs : SteadyRun(s)
  BY DEF SteadyRun
<1> QED BY <1>1, <1>2, RowsEnd

LEMMA OneRowEnds ==
  ASSUME RunsInv, TypeInv, TurnInv, \A s \in Runs : SteadyRun(s), UNCHANGED epoch,
         NEW c \in Conv, NEW y, row' = [row EXCEPT ![c] = y],
         \/ row[c].status \in Stored /\ y = [NoRow EXCEPT !.status = "gone"]
         \/ /\ row[c].status \in Busy
            /\ \E status \in {"failed", "cancelled"} : y = EndRow(row[c], status)
  PROVE  TurnInv' /\ Lives
<1> DEFINE cs == {c}
<1>1. cs \in SUBSET Conv /\ \A d \in cs : d = c /\ row'[d] = y
  BY DEF TypeInv, RowsOK
<1>2. \A d \in Conv \ cs : row'[d] = row[d]
  BY DEF TypeInv, RowsOK
<1> HIDE DEF cs
<1> QED BY <1>1, <1>2, RowsEnd

LEMMA ResumeKeepsTurn ==
  ASSUME RunsInv, TypeInv, TurnInv, NEW c \in Conv, NEW r \in Runs, NEW ok, NEW shown,
         Resume(c, r, ok, shown)
  PROVE  TurnInv' /\ Lives
<1> DEFINE x == Claimed(row[c])
<1>1. Launch(r, c, x, row[c].saved, row[c].pending.call, ok) /\ row[c].status = "paused"
  BY DEF Resume
<1>2. row[c] \in Row /\ OwnTurn(row[c])
  BY DEF TypeInv, RowsOK, TurnInv, RowsAreOwn
<1>3. x \in Row /\ x.status = "running" /\ x.msgs = row[c].msgs
  BY <1>2 DEF Claimed, Row, Status, Busy
<1>4. /\ Open(row[c].msgs)
      /\ \A status \in {"running", "failed"} :
           LET y == [x EXCEPT !.status = status] IN OwnTurn(y) /\ LifeStep(row[c], y)
  BY <1>1, <1>2, ClaimedIsOwn
<1> HIDE DEF x
<1>5. Open(x.msgs)
  BY <1>3, <1>4
<1> QED BY <1>1, <1>3, <1>4, <1>5, LaunchOwns DEF Quiet

LEMMA AskKeepsTurn ==
  ASSUME RunsInv, TypeInv, TurnInv, NEW c \in Conv, NEW r \in Runs, NEW msgs \in Seq(Nat),
         Alternates(msgs), Open(msgs), row[c].status \in Ended \cup {"none"},
         Launch(r, c, ResetRow(row[c], msgs), <<>>, None, FALSE)
  PROVE  TurnInv' /\ Lives
<1> DEFINE x == ResetRow(row[c], msgs)
<1>1. row[c] \in Row
  BY DEF TypeInv, RowsOK
<1>2. x \in Row /\ x.status = "running"
  BY <1>1, ResetRowOK DEF RowOK
<1>3. x.msgs = msgs
  BY <1>1 DEF ResetRow, Row
<1>4. \A status \in {"running", "failed"} :
        LET y == [x EXCEPT !.status = status] IN OwnTurn(y) /\ LifeStep(row[c], y)
  BY <1>1, ResetRowIsOwn
<1>5. row[c].status \in Quiet \cup {"cancelled"}
  BY DEF Ended, Quiet
<1> HIDE DEF x
<1>6. Open(x.msgs)
  BY <1>3
<1>7. Launch(r, c, x, <<>>, None, FALSE)
  BY DEF x
<1> QED BY <1>2, <1>4, <1>5, <1>6, <1>7, LaunchOwns

LEMMA HandlerKeepsTurn ==
  ASSUME RunsInv, TypeInv, TurnInv, Handler
  PROVE  TurnInv' /\ Lives
<1>0. /\ row \in [Conv -> Row] /\ run \in [Runs -> RunRecord] /\ epoch \in [Conv -> Nat]
      /\ \A c \in Conv : OwnTurn(row[c])
  BY DEF TypeInv, RowsOK, RunsOK, RestOK, TurnInv, RowsAreOwn
<1>a. ASSUME UNCHANGED <<row, epoch, run>> PROVE TurnInv' /\ Lives
  BY <1>a, RowsStay
<1>1. ASSUME NEW q \in Senders, NEW c \in Conv,
             AcceptCreate(q, c) \/ AcceptMessage(q, c) \/ AcceptEdit(q, c)
      PROVE  TurnInv' /\ Lives
  BY <1>1, <1>a DEF AcceptCreate, AcceptMessage, AcceptEdit, Accept
<1>2. ASSUME NEW q \in Senders, RejectSend(q) PROVE TurnInv' /\ Lives
  BY <1>2, <1>a DEF RejectSend
<1>3. ASSUME NEW q \in Senders, NEW r \in Runs, CommitSend(q, r) PROVE TurnInv' /\ Lives
  <2> DEFINE c == sending[q].conv
             x == row[c]
             g == x.gen + 1
  <2>1. sending[q] \in SendRequest
    BY <1>3 DEF CommitSend, TypeInv, RequestsOK
  <2>2. c \in Conv /\ sending[q].anchor \in Nat
    BY <2>1 DEF SendRequest
  <2>3. x.msgs \in Seq(Nat) /\ g \in Nat /\ g # Assistant /\ Alternates(x.msgs)
    BY <1>0, <2>2 DEF Row, OwnTurn, Assistant
  <2>4. PICK kept \in KeptRows(sending[q], x.msgs) :
          Launch(r, c, ResetRow(x, Append(kept, g)), <<>>, None, FALSE)
    BY <1>3 DEF CommitSend
  <2>5. kept \in Seq(Nat) /\ Alternates(kept)
    BY <2>2, <2>3, <2>4, KeptAlternates DEF KeptRows
  <2>6. x.status \in Ended \cup {"none"}
    BY <1>3 DEF CommitSend, MayStart
  <2> HIDE DEF g
  <2>7. Append(kept, g) \in Seq(Nat) /\ Alternates(Append(kept, g)) /\ Open(Append(kept, g))
    BY <2>3, <2>5, QuestionAppended
  <2> QED BY <2>2, <2>4, <2>6, <2>7, AskKeepsTurn
<1>4. ASSUME NEW c \in Conv, NEW r \in Runs, Regenerate(c, r) PROVE TurnInv' /\ Lives
  <2>1. PICK kept \in UpToLastUser(row[c].msgs) :
          Launch(r, c, ResetRow(row[c], kept), <<>>, None, FALSE)
    BY <1>4 DEF Regenerate
  <2>2. row[c].msgs \in Seq(Nat) /\ Alternates(row[c].msgs)
    BY <1>0 DEF Row, OwnTurn
  <2>3. kept \in Seq(Nat) /\ Alternates(kept) /\ Open(kept)
    BY <2>1, <2>2, KeptAlternates
  <2> QED BY <1>4, <2>1, <2>3, AskKeepsTurn DEF Regenerate
<1>5. ASSUME NEW c \in Conv, NEW r \in Runs, Deny(c, r) PROVE TurnInv' /\ Lives
  BY <1>5, ResumeKeepsTurn DEF Deny
<1>6. ASSUME NEW q \in Approvers, NEW c \in Conv, AcceptApprove(q, c) PROVE TurnInv' /\ Lives
  BY <1>6, <1>a DEF AcceptApprove
<1>7. ASSUME NEW q \in Approvers, NEW r \in Runs, CommitApprove(q, r) PROVE TurnInv' /\ Lives
  <2>1. approving[q].conv \in Conv
    BY <1>7 DEF CommitApprove, TypeInv, RequestsOK
  <2> QED BY <1>7, <2>1, ResumeKeepsTurn DEF CommitApprove
<1>8. ASSUME NEW q \in Approvers, RejectApprove(q) PROVE TurnInv' /\ Lives
  BY <1>8, <1>a DEF RejectApprove
<1>9. ASSUME NEW c \in Conv, EndStaleApproval(c) \/ DenyWithoutLlm(c)
      PROVE  TurnInv' /\ Lives
  <2>1. /\ row[c].status = "paused" /\ row' = [row EXCEPT ![c] = EndRow(row[c], "failed")]
        /\ UNCHANGED <<epoch, run>>
    BY <1>0, <1>9 DEF EndStaleApproval, DenyWithoutLlm
  <2>2. \A s \in Runs : SteadyRun(s)
    BY <2>1 DEF SteadyRun
  <2> QED BY <2>1, <2>2, OneRowEnds DEF Busy
<1>10. ASSUME NEW c \in Conv, Cancel(c) PROVE TurnInv' /\ Lives
  <2>1. /\ row[c].status \in Busy /\ Abort({c}) /\ UNCHANGED epoch
        /\ row' = [row EXCEPT ![c] = EndRow(row[c], "cancelled")]
    BY <1>0, <1>10 DEF Cancel
  <2>2. \A s \in Runs : SteadyRun(s)
    BY <2>1, AbortIsSteady
  <2> QED BY <2>1, <2>2, OneRowEnds
<1>11. ASSUME NEW c \in Conv, DeleteConversation(c) PROVE TurnInv' /\ Lives
  <2>1. /\ row[c].status \in Stored /\ Abort({c} \cap BusyConvs) /\ UNCHANGED epoch
        /\ row' = [row EXCEPT ![c] = [NoRow EXCEPT !.status = "gone"]]
    BY <1>11 DEF DeleteConversation
  <2>2. \A s \in Runs : SteadyRun(s)
    BY <2>1, AbortIsSteady
  <2> QED BY <2>1, <2>2, OneRowEnds
<1>12. ASSUME DeleteProject PROVE TurnInv' /\ Lives
  <2> DEFINE cs == {c \in Conv : row[c].status \in Stored}
  <2>1. /\ Abort(BusyConvs) /\ UNCHANGED epoch /\ cs \in SUBSET Conv
        /\ \A c \in cs : row[c].status \in Stored /\ row'[c] = [NoRow EXCEPT !.status = "gone"]
        /\ \A c \in Conv \ cs : row'[c] = row[c]
    BY <1>12 DEF DeleteProject
  <2>2. \A s \in Runs : SteadyRun(s)
    BY <2>1, AbortIsSteady
  <2> HIDE DEF cs
  <2> QED BY <2>1, <2>2, RowsEnd
<1>13. ASSUME NEW q \in Rebinders, NEW to \in Cluster, AcceptRebind(q, to)
       PROVE  TurnInv' /\ Lives
  BY <1>13, <1>a DEF AcceptRebind
<1>14. ASSUME NEW q \in Rebinders, CommitRebind(q) PROVE TurnInv' /\ Lives
  <2> DEFINE hit == RebindHits(q)
  <2>1. /\ Abort(hit) /\ epoch' = EpochsBumped(hit)
        /\ row' = [c \in Conv |-> IF c \in hit THEN EndRow(row[c], "failed") ELSE row[c]]
    BY <1>14 DEF CommitRebind
  <2>2. hit \in SUBSET Conv /\ \A c \in hit : row[c].status \in Busy
    BY DEF RebindHits, BusyConvs
  <2> HIDE DEF hit
  <2>3. \A c \in Conv : epoch'[c] = epoch[c] \/ epoch'[c] = epoch[c] + 1
    BY <2>1 DEF EpochsBumped
  <2>4. /\ \A c \in hit : row'[c] = EndRow(row[c], "failed")
        /\ \A c \in Conv \ hit : row'[c] = row[c]
    BY <2>1, <2>2
  <2>5. \A s \in Runs : SteadyRun(s)
    BY <2>1, AbortIsSteady
  <2> QED BY <2>2, <2>3, <2>4, <2>5, RowsEnd
<1>15. ASSUME SetMode PROVE TurnInv' /\ Lives
  BY <1>15, <1>a DEF SetMode
<1> QED
  BY <1>1, <1>2, <1>3, <1>4, <1>5, <1>6, <1>7, <1>8, <1>9, <1>10, <1>11, <1>12, <1>13,
     <1>14, <1>15
  DEF Handler

LEMMA RestartKeepsTurn ==
  ASSUME TypeInv, TurnInv, Restart
  PROVE  TurnInv' /\ Lives
<1>1. \A r \in Runs : run'[r] = Idle
  BY DEF Restart
<1>2. ASSUME NEW c \in Conv PROVE OwnTurn(row'[c]) /\ LifeStep(row[c], row'[c])
  <2> DEFINE z == KeepPartial(row[c], row[c].content # 0)
  <2>1. row[c] \in Row /\ OwnTurn(row[c])
    BY DEF TypeInv, RowsOK, TurnInv, RowsAreOwn
  <2>2. row'[c] = IF row[c].status = "running" THEN [z EXCEPT !.status = "failed"] ELSE row[c]
    BY DEF Restart
  <2>3. CASE row[c].status # "running"
    BY <2>1, <2>2, <2>3, SameLife
  <2>4. CASE row[c].status = "running"
    <3>1. Open(row[c].msgs)
      BY <2>1, <2>4 DEF OwnTurn, Busy
    <3>2. z \in Row /\ z.content = row[c].content
      BY <2>1, <3>1, KeepPartialIsOwn
    <3>3. LET y == [z EXCEPT !.status = "failed", !.content = row[c].content] IN
            OwnTurn(y) /\ LifeStep(row[c], y)
      BY <2>1, <2>4, <3>1, FailedIsOwn
    <3> HIDE DEF z
    <3>4. [z EXCEPT !.status = "failed", !.content = row[c].content] = [z EXCEPT !.status = "failed"]
      BY <3>2 DEF Row
    <3> QED BY <2>2, <2>4, <3>3, <3>4
  <2> QED BY <2>3, <2>4
<1>3. RowsAreOwn' /\ Lives
  BY <1>2 DEF RowsAreOwn, Lives, OwnTurn, Open, Alternates
<1>4. EntitledWrites'
  BY <1>1 DEF EntitledWrites, Entitled, Alive, Idle
<1>5. LateIsLast'
  BY <1>1 DEF LateIsLast, Idle
<1> QED BY <1>3, <1>4, <1>5 DEF TurnInv

LEMMA StepKeepsTurn ==
  ASSUME RunsInv, TypeInv, TurnInv, [Next]_vars
  PROVE  TurnInv' /\ Lives
<1>1. CASE Next
  BY <1>1, RunStepKeepsTurn, HandlerKeepsTurn, RestartKeepsTurn DEF Next
<1>2. CASE UNCHANGED vars
  BY <1>2, RowsStay DEF vars
<1> QED BY <1>1, <1>2

LEMMA InitTurn == Init => TurnInv
<1> SUFFICES ASSUME Init PROVE TurnInv
  OBVIOUS
<1>1. \A r \in Runs : run[r] = Idle
  BY DEF Init
<1>2. \A c \in Conv : /\ row[c].status = "none" /\ row[c].msgs = <<>> /\ row[c].pending = None
                      /\ row[c].content = 0 /\ row[c].trace = 0
  BY DEF Init, NoRow
<1>3. ASSUME NEW c \in Conv PROVE OwnTurn(row[c])
  BY <1>2 DEF OwnTurn, Busy, Alternates
<1>4. EntitledWrites /\ LateIsLast
  BY <1>1 DEF EntitledWrites, LateIsLast, Entitled, Alive, Idle
<1> QED BY <1>3, <1>4 DEF TurnInv, RowsAreOwn

LEMMA TurnInvAlways == Spec => []TurnInv
BY InitTurn, StepKeepsTurn, TypeInvAlways, RunsInvAlways, PTL DEF Spec

-----------------------------------------------------------------------------
(* What follows from the invariant.                                          *)

(* What a turn leaves belongs to it: an answer is never appended to the      *)
(* question of another turn nor a second time, and no checkpoint or event of *)
(* an earlier turn is picked up by a resumed run or by salvageInterrupted.   *)
THEOREM TurnsKeepToThemselves == Spec => []TurnIsItsOwn
<1>1. TurnInv => TurnIsItsOwn
  BY DEF TurnInv, RowsAreOwn, OwnTurn, Open, Alternates, TurnIsItsOwn
<1> QED BY <1>1, TurnInvAlways, PTL

(* A paused conversation can always be resumed with the very call that was   *)
(* shown, and no other conversation carries a waiting approval.              *)
THEOREM PausedRowsResume == Spec => []PausedIsResumable
<1>1. TypeInv /\ TurnInv => PausedIsResumable
  BY DEF TypeInv, RowsOK, RowOK, Resumable, TurnInv, RowsAreOwn, OwnTurn, PausedIsResumable
<1> QED BY <1>1, TypeInvAlways, TurnInvAlways, PTL

(* A run that was cancelled, superseded or deleted executes at most the one  *)
(* tool that had passed its checkpoint before.                               *)
THEOREM LateToolsAreLast == Spec => []AtMostOneLateTool
<1>1. TypeInv /\ TurnInv => AtMostOneLateTool
  <2> SUFFICES ASSUME TypeInv, TurnInv, NEW r \in Runs PROVE run[r].late <= 1
    BY DEF AtMostOneLateTool
  <2> QED BY RunFacts DEF TurnInv, LateIsLast, RunRecord
<1> QED BY <1>1, TypeInvAlways, TurnInvAlways, PTL

(* A cancelled conversation leaves that status only by a new turn or by      *)
(* being deleted: no run that still finishes overwrites it.                  *)
THEOREM CancelledStays == Spec => CancelSticks
<1> DEFINE A == \A c \in Conv : row[c].status = "cancelled" /\ row'[c].status # "cancelled"
                  => row'[c].gen > row[c].gen \/ row'[c].status = "gone"
<1>1. ASSUME RunsInv, TypeInv, TurnInv, [Next]_vars PROVE A
  <2> SUFFICES ASSUME NEW c \in Conv, row[c].status = "cancelled", row'[c].status # "cancelled"
               PROVE  row'[c].gen > row[c].gen \/ row'[c].status = "gone"
    OBVIOUS
  <2>1. LifeStep(row[c], row'[c])
    BY <1>1, StepKeepsTurn DEF Lives
  <2>2. row[c].gen \in Nat
    BY <1>1 DEF TypeInv, RowsOK, Row
  <2>3. /\ LifeOf(row[c]).phase = "cancelled" /\ LifeOf(row[c]).turn = row[c].gen
        /\ LifeOf(row'[c]).phase = row'[c].status /\ LifeOf(row'[c]).turn = row'[c].gen
    BY DEF LifeOf
  <2>4. CASE Lifecycle!Ask(LifeOf(row[c]), LifeOf(row'[c]))
    BY <2>2, <2>3, <2>4 DEF Lifecycle!Ask
  <2>5. CASE Lifecycle!Delete(LifeOf(row[c]), LifeOf(row'[c]))
    BY <2>3, <2>5 DEF Lifecycle!Delete
  <2> QED BY <2>1, <2>3, <2>4, <2>5
    DEF LifeStep, Lifecycle!Step, Lifecycle!Pause, Lifecycle!Decide, Lifecycle!Complete,
        Lifecycle!Break, Lifecycle!SavePartial
<1>2. RunsInv /\ TypeInv /\ TurnInv /\ [Next]_vars => [A]_vars
  BY <1>1
<1> QED BY <1>2, RunsInvAlways, TypeInvAlways, TurnInvAlways, PTL DEF Spec, CancelSticks

LEMMA LifeIsTyped ==
  ASSUME NEW x \in Row
  PROVE  LifeOf(x) \in Lifecycle!States
<1>1. x.status \in Lifecycle!Phases /\ x.gen \in Nat
  BY DEF Row, Status, Busy, Ended, Lifecycle!Phases
<1>2. Answered(x.msgs) \in BOOLEAN
  BY DEF Answered
<1> QED BY <1>1, <1>2 DEF LifeOf, Lifecycle!States

(* Every conversation keeps the promises of ConversationLifecycle, whatever  *)
(* runs, requests, rebinds and restarts do to it: the refinement.            *)
THEOREM ImplementsLifecycle == Spec => LifecycleHolds
<1>1. Init => Lifecycle!Init
  <2> SUFFICES ASSUME Init, NEW c \in Conv
               PROVE  LifeOf(row[c]) = [phase |-> "none", turn |-> 0, answered |-> FALSE]
    BY DEF Lifecycle!Init, life
  <2>1. row[c].status = "none" /\ row[c].gen = 0 /\ row[c].msgs = <<>>
    BY DEF Init, NoRow
  <2>2. Answered(row[c].msgs) = FALSE
    BY <2>1 DEF Answered
  <2> QED BY <2>1, <2>2 DEF LifeOf
<1>2. ASSUME RunsInv, TypeInv, TurnInv, TypeInv', [Next]_vars PROVE [Lifecycle!Next]_life
  <2>1. life' \in [Conv -> Lifecycle!States]
    <3>1. \A c \in Conv : row'[c] \in Row
      BY <1>2 DEF TypeInv, RowsOK
    <3>2. \A c \in Conv : LifeOf(row'[c]) \in Lifecycle!States
      BY <3>1, LifeIsTyped
    <3> QED BY <3>2 DEF life
  <2>2. \A c \in Conv : Lifecycle!Step(life[c], life'[c])
    BY <1>2, StepKeepsTurn DEF Lives, LifeStep, life
  <2> QED BY <2>1, <2>2 DEF Lifecycle!Next
<1> QED
  BY <1>1, <1>2, RunsInvAlways, TypeInvAlways, TurnInvAlways, PTL
  DEF Spec, LifecycleHolds, Lifecycle!Spec

-----------------------------------------------------------------------------
(* Superseded runs.                                                          *)

LEMMA SupersededWritesNothing ==
  ASSUME TypeInv, NEW r \in Runs, RunStep(r), IsSuperseded(r)
  PROVE  UNCHANGED row
<1>1. CASE GatePause(r) \/ ExecTool(r) \/ ChatStart(r) \/ ChatError(r)
  BY <1>1 DEF GatePause, ExecTool, ChatStart, ChatError
<1>2. ASSUME NEW after, NEW x, OnStep(r, after, x) PROVE UNCHANGED row
  BY <1>2 DEF OnStep
<1>3. CASE ToolDone(r) \/ SkipTool(r)
  BY <1>2, <1>3 DEF ToolDone, SkipTool
<1>4. CASE ChatTools(r) \/ ChatFinal(r)
  BY <1>2, <1>4 DEF ChatTools, ChatFinal, EndRound
<1>5. CASE \E flush \in BOOLEAN : Delta(r, flush)
  BY <1>5 DEF Delta
<1>6. CASE Return(r)
  BY <1>6 DEF Return
<1>7. CASE Catch(r)
  BY <1>7 DEF Catch
<1> QED BY <1>1, <1>3, <1>4, <1>5, <1>6, <1>7 DEF RunStep, Progress

LEMMA OtherRunsStay ==
  ASSUME TypeInv, NEW r \in Runs, RunStep(r), NEW s \in Runs, s # r
  PROVE  run'[s] = run[s]
<1>0. run \in [Runs -> RunRecord]
  BY DEF TypeInv, RunsOK
<1>1. CASE GatePause(r) \/ ExecTool(r)
  BY <1>0, <1>1 DEF GatePause, ExecTool
<1>2. CASE ChatStart(r) \/ ChatError(r)
  BY <1>0, <1>2 DEF ChatStart, ChatError, Goto
<1>3. ASSUME NEW after, NEW x, OnStep(r, after, x) PROVE run'[s] = run[s]
  BY <1>0, <1>3 DEF OnStep
<1>4. CASE ToolDone(r) \/ SkipTool(r)
  BY <1>3, <1>4 DEF ToolDone, SkipTool
<1>5. CASE ChatTools(r) \/ ChatFinal(r)
  BY <1>3, <1>5 DEF ChatTools, ChatFinal, EndRound
<1>6. CASE \E flush \in BOOLEAN : Delta(r, flush)
  BY <1>0, <1>6 DEF Delta
<1>7. CASE Return(r) \/ Catch(r)
  BY <1>0, <1>7 DEF Return, Catch, Exit
<1> QED BY <1>1, <1>2, <1>4, <1>5, <1>6, <1>7 DEF RunStep, Progress

LEMMA HandlersMoveNoRun ==
  ASSUME TypeInv, Handler, NEW s \in Runs, Alive(s)
  PROVE  run'[s].pc = run[s].pc
<1>1. ASSUME NEW cs, Abort(cs) PROVE run'[s].pc = run[s].pc
  BY <1>1, AbortIsSteady DEF SteadyRun
<1>2. ASSUME NEW r, NEW c, NEW x, NEW queue, NEW target, NEW ok,
             Launch(r, c, x, queue, target, ok)
      PROVE  run'[s].pc = run[s].pc
  BY <1>2 DEF Launch, Alive, TypeInv, RunsOK
<1>3. CASE run' = run
  BY <1>3
<1>4. ASSUME NEW q \in Senders, NEW r \in Runs, CommitSend(q, r) PROVE run'[s].pc = run[s].pc
  BY <1>2, <1>4 DEF CommitSend
<1>5. ASSUME NEW c \in Conv, NEW r \in Runs, Regenerate(c, r) PROVE run'[s].pc = run[s].pc
  BY <1>2, <1>5 DEF Regenerate
<1>6. ASSUME NEW c, NEW r \in Runs, NEW ok, NEW shown, Resume(c, r, ok, shown)
      PROVE  run'[s].pc = run[s].pc
  BY <1>2, <1>6 DEF Resume
<1>7. ASSUME NEW c \in Conv, NEW r \in Runs, Deny(c, r) PROVE run'[s].pc = run[s].pc
  BY <1>6, <1>7 DEF Deny
<1>8. ASSUME NEW q \in Approvers, NEW r \in Runs, CommitApprove(q, r)
      PROVE  run'[s].pc = run[s].pc
  BY <1>6, <1>8 DEF CommitApprove
<1>9. ASSUME NEW c \in Conv, Cancel(c) \/ DeleteConversation(c) PROVE run'[s].pc = run[s].pc
  BY <1>1, <1>9 DEF Cancel, DeleteConversation
<1>10. CASE DeleteProject
  BY <1>1, <1>10 DEF DeleteProject
<1>11. ASSUME NEW q \in Rebinders, CommitRebind(q) PROVE run'[s].pc = run[s].pc
  BY <1>1, <1>11 DEF CommitRebind
<1> QED
  BY <1>3, <1>4, <1>5, <1>7, <1>8, <1>9, <1>10, <1>11
  DEF Handler, AcceptCreate, AcceptMessage, AcceptEdit, Accept, RejectSend, AcceptApprove,
      RejectApprove, EndStaleApproval, DenyWithoutLlm, AcceptRebind, SetMode

(* A run whose epoch is stale stores nothing any more, at none of its steps. *)
THEOREM SupersededRunsAreSilent == Spec => SupersededIsSilent
<1> DEFINE A == \A r \in Runs :
                  Alive(r) /\ IsSuperseded(r) /\ run'[r].pc # run[r].pc /\ restarts' = restarts
                    => UNCHANGED row
<1>1. ASSUME TypeInv, Next PROVE A
  <2> SUFFICES ASSUME NEW r \in Runs, Alive(r), IsSuperseded(r), run'[r].pc # run[r].pc,
                      restarts' = restarts
               PROVE  UNCHANGED row
    OBVIOUS
  <2>1. ~Restart
    BY <1>1 DEF Restart, TypeInv, RestOK
  <2>2. ~Handler
    BY <1>1, HandlersMoveNoRun
  <2>3. RunStep(r)
    BY <1>1, <2>1, <2>2, OtherRunsStay DEF Next
  <2> QED BY <1>1, <2>3, SupersededWritesNothing
<1>2. TypeInv /\ [Next]_vars => [A]_vars
  BY <1>1
<1> QED BY <1>2, TypeInvAlways, PTL DEF Spec, SupersededIsSilent

-----------------------------------------------------------------------------
(*****************************************************************************)
(* What happens to a tool call, and on which cluster.                        *)
(*****************************************************************************)
(* The inductive invariant.  A call that was asked for waits in the queue of *)
(* at most one run or in the saved queue of at most one paused row, once,    *)
(* and only while it has not been executed; and a call that waits has been   *)
(* decided only if its run is about to act on the decision.                  *)
In(k, s) == \E i \in DOMAIN s : s[i] = k
Distinct(s) == \A i, j \in DOMAIN s : s[i] = s[j] => i = j

Holds(r, k) == Alive(r) /\ In(k, run[r].queue)
Keeps(c, k) == row[c].status = "paused" /\ In(k, row[c].saved)

WaitingIsFresh ==
  /\ \A k \in Calls, r \in Runs : Holds(r, k) => k \in issued /\ ran[k] = <<>>
  /\ \A k \in Calls, c \in Conv : Keeps(c, k) => k \in issued /\ ran[k] = <<>>
QueuesAreDistinct ==
  /\ \A r \in Runs : Alive(r) => Distinct(run[r].queue)
  /\ \A c \in Conv : row[c].status = "paused" => Distinct(row[c].saved)
OneHolder ==
  /\ \A k \in Calls, r, s \in Runs : Holds(r, k) /\ Holds(s, k) => r = s
  /\ \A k \in Calls, c, d \in Conv : Keeps(c, k) /\ Keeps(d, k) => c = d
  /\ \A k \in Calls, r \in Runs, c \in Conv : ~(Holds(r, k) /\ Keeps(c, k))
NotIssued == \A k \in Calls \ issued : ran[k] = <<>> /\ verdict[k] = None
TargetIsDecided ==
  \A r \in Runs : Alive(r) /\ run[r].target # None =>
    /\ run[r].pc \in {"gate", "throw"} /\ run[r].queue # <<>>
    /\ Head(run[r].queue) = run[r].target
    /\ verdict[run[r].target] # None /\ verdict[run[r].target].ok = run[r].ok
DecidedIsTarget ==
  \A k \in Calls : verdict[k] # None =>
    /\ \A c \in Conv : ~Keeps(c, k)
    /\ \A r \in Runs : Holds(r, k) => run[r].target = k

CallsInv ==
  /\ WaitingIsFresh /\ QueuesAreDistinct /\ OneHolder /\ NotIssued
  /\ TargetIsDecided /\ DecidedIsTarget
  /\ RunsOnce /\ WritesAreApproved /\ DeniedNeverRuns

-----------------------------------------------------------------------------
(* A queue without its head.                                                 *)
LEMMA QueueTail ==
  ASSUME NEW s \in Seq(Calls), s # <<>>, Distinct(s)
  PROVE  /\ Head(s) \in Calls /\ In(Head(s), s)
         /\ Tail(s) \in Seq(Calls) /\ Distinct(Tail(s)) /\ ~In(Head(s), Tail(s))
         /\ \A k \in Calls : In(k, Tail(s)) => In(k, s)
<1>1. /\ Len(s) \in Nat /\ Len(s) >= 1 /\ DOMAIN s = 1..Len(s) /\ Head(s) = s[1]
      /\ Head(s) \in Calls
      /\ Tail(s) \in Seq(Calls) /\ DOMAIN Tail(s) = 1..(Len(s) - 1)
      /\ \A i \in 1..(Len(s) - 1) : Tail(s)[i] = s[i + 1]
  BY HeadTailProperties, EmptySeq, LenProperties
<1>2. 1 \in DOMAIN s /\ \A i \in 1..(Len(s) - 1) : i + 1 \in DOMAIN s /\ i + 1 # 1
  BY <1>1
<1>3. In(Head(s), s)
  BY <1>1, <1>2 DEF In
<1>4. ~In(Head(s), Tail(s))
  BY <1>1, <1>2 DEF In, Distinct
<1>5. Distinct(Tail(s))
  <2> SUFFICES ASSUME NEW i \in 1..(Len(s) - 1), NEW j \in 1..(Len(s) - 1),
                      Tail(s)[i] = Tail(s)[j]
               PROVE  i = j
    BY <1>1 DEF Distinct
  <2>1. i + 1 = j + 1
    BY <1>1, <1>2 DEF Distinct
  <2> QED BY <2>1
<1>6. \A k \in Calls : In(k, Tail(s)) => In(k, s)
  BY <1>1, <1>2 DEF In
<1> QED BY <1>1, <1>3, <1>4, <1>5, <1>6

LEMMA CallFacts ==
  ASSUME TypeInv
  PROVE  /\ \A r \in Runs : /\ run[r] \in RunRecord /\ run[r].queue \in Seq(Calls)
                            /\ run[r].target \in Calls \cup {None} /\ run[r].ok \in BOOLEAN
         /\ \A r \in Runs : Alive(r) => run[r].conv \in Conv /\ run[r].cluster \in Cluster
         /\ \A c \in Conv : row[c] \in Row /\ row[c].saved \in Seq(Calls)
         /\ ran \in [Calls -> Seq(Cluster)] /\ verdict \in [Calls -> Verdict \cup {None}]
         /\ run \in [Runs -> RunRecord] /\ row \in [Conv -> Row]
BY DEF TypeInv, RunsOK, RunOK, RunRecord, RowsOK, RowOK, Row, HistoryOK, Alive

HistoryKept == issued \subseteq issued' /\ UNCHANGED <<ran, verdict, auto>>

(* A step after which nobody holds a call he did not hold before.            *)
LEMMA NothingGained ==
  ASSUME CallsInv, HistoryKept,
         \A s \in Runs, k \in Calls : Holds(s, k)' => Holds(s, k),
         \A c \in Conv, k \in Calls : Keeps(c, k)' => Keeps(c, k),
         \A s \in Runs : Alive(s)' => Distinct(run'[s].queue),
         \A c \in Conv : row'[c].status = "paused" => Distinct(row'[c].saved),
         \A s \in Runs : Alive(s)' /\ run'[s].target # None =>
           /\ Alive(s) /\ run'[s].pc \in {"gate", "throw"} /\ run'[s].queue = run[s].queue
           /\ run'[s].target = run[s].target /\ run'[s].ok = run[s].ok,
         \A s \in Runs, k \in Calls : Holds(s, k)' /\ verdict[k] # None => run'[s].target = k
  PROVE  CallsInv'
<1> USE DEF HistoryKept
<1>1. WaitingIsFresh'
  BY DEF CallsInv, WaitingIsFresh
<1>2. QueuesAreDistinct'
  BY DEF QueuesAreDistinct
<1>3. OneHolder'
  BY DEF CallsInv, OneHolder
<1>4. NotIssued' /\ RunsOnce' /\ WritesAreApproved' /\ DeniedNeverRuns'
  BY DEF CallsInv, NotIssued, RunsOnce, WritesAreApproved, DeniedNeverRuns
<1>5. TargetIsDecided'
  BY DEF CallsInv, TargetIsDecided
<1>6. DecidedIsTarget'
  BY DEF CallsInv, DecidedIsTarget
<1> QED BY <1>1, <1>2, <1>3, <1>4, <1>5, <1>6 DEF CallsInv

(* The row changes without becoming paused, or only in other fields.         *)
RowIdle(c) ==
  row'[c].status = "paused" => row[c].status = "paused" /\ row'[c].saved = row[c].saved

(* A step that leaves every run its calls and its decision.                  *)
SameCalls(s) ==
  Alive(s)' => /\ Alive(s) /\ run'[s].queue = run[s].queue
               /\ run'[s].target = run[s].target /\ run'[s].ok = run[s].ok
               /\ run'[s].target # None => run'[s].pc \in {"gate", "throw"}

LEMMA CallsStay ==
  ASSUME CallsInv, HistoryKept, \A s \in Runs : SameCalls(s), \A c \in Conv : RowIdle(c)
  PROVE  CallsInv'
<1>1. \A s \in Runs, k \in Calls : Holds(s, k)' => Holds(s, k)
  BY DEF SameCalls, Holds
<1>2. \A c \in Conv, k \in Calls : Keeps(c, k)' => Keeps(c, k)
  BY DEF RowIdle, Keeps
<1>3. \A s \in Runs : Alive(s)' => Distinct(run'[s].queue)
  BY DEF CallsInv, QueuesAreDistinct, SameCalls
<1>4. \A c \in Conv : row'[c].status = "paused" => Distinct(row'[c].saved)
  BY DEF CallsInv, QueuesAreDistinct, RowIdle
<1>5. \A s \in Runs : Alive(s)' /\ run'[s].target # None =>
        /\ Alive(s) /\ run'[s].pc \in {"gate", "throw"} /\ run'[s].queue = run[s].queue
        /\ run'[s].target = run[s].target /\ run'[s].ok = run[s].ok
  BY DEF SameCalls
<1>6. \A s \in Runs, k \in Calls : Holds(s, k)' /\ verdict[k] # None => run'[s].target = k
  BY <1>1 DEF CallsInv, DecidedIsTarget, SameCalls, Holds
<1> QED BY <1>1, <1>2, <1>3, <1>4, <1>5, <1>6, NothingGained

-----------------------------------------------------------------------------
(* The steps of a run.                                                       *)

(* A run whose record changes only in other fields.                          *)
LEMMA RunKeepsCalls ==
  ASSUME CallsInv, TypeInv, NEW r \in Runs, Alive(r), NEW a,
         a.queue = run[r].queue, a.target = run[r].target, a.ok = run[r].ok,
         a.target # None => a.pc \in {"gate", "throw"},
         run' = [run EXCEPT ![r] = a], \A c \in Conv : RowIdle(c), HistoryKept
  PROVE  CallsInv'
<1>1. run'[r] = a /\ \A s \in Runs \ {r} : run'[s] = run[s]
  BY CallFacts
<1>2. ASSUME NEW s \in Runs, s # r PROVE SameCalls(s)
  BY <1>1, <1>2 DEF CallsInv, TargetIsDecided, SameCalls, Alive
<1>3. SameCalls(r)
  BY <1>1 DEF SameCalls
<1> QED BY <1>2, <1>3, CallsStay

(* A stored event: the run goes on as "after", or throws with its queue.     *)
LEMMA EventCases ==
  ASSUME TypeInv, NEW r \in Runs, Alive(r), NEW after, NEW x,
         OnStep(r, after, x), x.status = row[run[r].conv].status,
         x.saved = row[run[r].conv].saved
  PROVE  /\ \A c \in Conv : RowIdle(c)
         /\ \/ run' = [run EXCEPT ![r] = [run[r] EXCEPT !.pc = "throw"]]
            \/ run' = [run EXCEPT ![r] = after]
<1>1. run[r].conv \in Conv
  BY CallFacts
<1>2. \A c \in Conv : RowIdle(c)
  BY <1>1, CallFacts DEF OnStep, RowIdle
<1>3. CASE row[run[r].conv].status \notin Stored /\ ~IsSuperseded(r)
  BY <1>2, <1>3 DEF OnStep
<1>4. CASE ~(row[run[r].conv].status \notin Stored /\ ~IsSuperseded(r))
  BY <1>2, <1>4 DEF OnStep
<1> QED BY <1>3, <1>4

LEMMA ThrowKeepsCalls ==
  ASSUME CallsInv, TypeInv, NEW r \in Runs, Alive(r),
         run' = [run EXCEPT ![r] = [run[r] EXCEPT !.pc = "throw"]],
         \A c \in Conv : RowIdle(c), HistoryKept
  PROVE  CallsInv'
<1> DEFINE a == [run[r] EXCEPT !.pc = "throw"]
<1>1. /\ a.queue = run[r].queue /\ a.target = run[r].target /\ a.ok = run[r].ok
      /\ a.pc = "throw"
  BY CallFacts DEF RunRecord
<1> HIDE DEF a
<1>2. run' = [run EXCEPT ![r] = a]
  BY DEF a
<1> QED BY <1>1, <1>2, RunKeepsCalls

(* The head of a queue leaves it; ran' says whether it was executed.         *)
LEMMA HeadLeaves ==
  ASSUME CallsInv, TypeInv, NEW r \in Runs, Alive(r), run[r].queue # <<>>, NEW a,
         a.queue = Tail(run[r].queue), a.target = None, a.pc # "idle",
         run' = [run EXCEPT ![r] = a], \A c \in Conv : RowIdle(c), UNCHANGED issued
  PROVE  /\ \A s \in Runs, k \in Calls : Holds(s, k)' => Holds(s, k) /\ k # Head(run[r].queue)
         /\ \A c \in Conv, k \in Calls : Keeps(c, k)' => Keeps(c, k) /\ k # Head(run[r].queue)
         /\ \A s \in Runs : Alive(s)' => Distinct(run'[s].queue)
         /\ \A c \in Conv : row'[c].status = "paused" => Distinct(row'[c].saved)
         /\ \A s \in Runs : Alive(s)' /\ run'[s].target # None => s # r /\ run'[s] = run[s]
         /\ \A s \in Runs, k \in Calls :
              Holds(s, k)' /\ verdict[k] # None => s # r /\ run'[s].target = k
         /\ Head(run[r].queue) \in Calls /\ Holds(r, Head(run[r].queue))
<1> DEFINE q == run[r].queue
           k0 == Head(q)
<1>1. run'[r] = a /\ \A s \in Runs \ {r} : run'[s] = run[s]
  BY CallFacts
<1>2. q \in Seq(Calls) /\ Distinct(q)
  BY CallFacts DEF CallsInv, QueuesAreDistinct
<1>3. /\ k0 \in Calls /\ In(k0, q) /\ Distinct(Tail(q)) /\ ~In(k0, Tail(q))
      /\ \A k \in Calls : In(k, Tail(q)) => In(k, q)
  <2> HIDE DEF q
  <2> QED BY <1>2, QueueTail DEF q
<1>4. Holds(r, k0)
  BY <1>3 DEF Holds
<1> HIDE DEF k0
<1>5. \A k \in Calls : Holds(r, k)' => Holds(r, k) /\ k # k0
  BY <1>1, <1>3 DEF Holds
<1>6. \A s \in Runs \ {r}, k \in Calls : Holds(s, k)' => Holds(s, k) /\ k # k0
  BY <1>1, <1>3, <1>4 DEF Holds, CallsInv, OneHolder, Alive
<1>7. \A c \in Conv, k \in Calls : Keeps(c, k)' => Keeps(c, k) /\ k # k0
  BY <1>3, <1>4 DEF RowIdle, Keeps, CallsInv, OneHolder
<1>8. \A s \in Runs : Alive(s)' => Distinct(run'[s].queue)
  BY <1>1, <1>3 DEF CallsInv, QueuesAreDistinct, Alive
<1>9. \A c \in Conv : row'[c].status = "paused" => Distinct(row'[c].saved)
  BY DEF CallsInv, QueuesAreDistinct, RowIdle
<1>10. \A s \in Runs : Alive(s)' /\ run'[s].target # None => s # r /\ run'[s] = run[s]
  BY <1>1
<1>11. \A k \in Calls : Holds(r, k)' => verdict[k] = None
  <2> SUFFICES ASSUME NEW k \in Calls, Holds(r, k)', verdict[k] # None PROVE FALSE
    OBVIOUS
  <2>1. Holds(r, k) /\ k # k0
    BY <1>5
  <2>2. run[r].target = k
    BY <2>1 DEF CallsInv, DecidedIsTarget
  <2>3. k # None
    BY ConstantsAssumption
  <2>4. k0 = k
    BY <2>2, <2>3 DEF CallsInv, TargetIsDecided, k0
  <2> QED BY <2>1, <2>4
<1>12. \A s \in Runs, k \in Calls :
         Holds(s, k)' /\ verdict[k] # None => s # r /\ run'[s].target = k
  BY <1>1, <1>6, <1>11 DEF CallsInv, DecidedIsTarget
<1> QED BY <1>3, <1>4, <1>5, <1>6, <1>7, <1>8, <1>9, <1>10, <1>12 DEF k0

LEMMA SkipKeepsCalls ==
  ASSUME CallsInv, TypeInv, NEW r \in Runs, SkipTool(r)
  PROVE  CallsInv'
<1> DEFINE a == run[r]
           queue == Tail(a.queue)
           b == [a EXCEPT !.pc = AfterCheck(r, queue), !.queue = queue, !.target = None]
           x == [row[a.conv] EXCEPT !.trace = a.gen]
<1>1. /\ a.pc = "gate" /\ OnStep(r, b, x) /\ Alive(r) /\ a.queue # <<>>
      /\ UNCHANGED hist
  BY DEF SkipTool, Alive, TypeInv, RunsOK, RunOK
<1>2. a \in RunRecord /\ row[a.conv] \in Row
  BY <1>1, CallFacts
<1>3. x.status = row[a.conv].status /\ x.saved = row[a.conv].saved
  BY <1>2 DEF Row
<1> HIDE DEF x
<1>4. /\ \A c \in Conv : RowIdle(c)
      /\ \/ run' = [run EXCEPT ![r] = [run[r] EXCEPT !.pc = "throw"]]
         \/ run' = [run EXCEPT ![r] = b]
  BY <1>1, <1>3, EventCases
<1>5. CASE run' = [run EXCEPT ![r] = [run[r] EXCEPT !.pc = "throw"]]
  BY <1>1, <1>4, <1>5, ThrowKeepsCalls DEF hist, HistoryKept
<1>6. CASE run' = [run EXCEPT ![r] = b]
  <2>1. AfterCheck(r, queue) # "idle"
    BY AfterCheckOK
  <2> HIDE DEF queue
  <2>2. b.queue = queue /\ b.target = None /\ b.pc # "idle"
    BY <1>2, <2>1 DEF RunRecord
  <2> HIDE DEF b
  <2>3. /\ \A s \in Runs, k \in Calls : Holds(s, k)' => Holds(s, k)
        /\ \A c \in Conv, k \in Calls : Keeps(c, k)' => Keeps(c, k)
        /\ \A s \in Runs : Alive(s)' => Distinct(run'[s].queue)
        /\ \A c \in Conv : row'[c].status = "paused" => Distinct(row'[c].saved)
        /\ \A s \in Runs : Alive(s)' /\ run'[s].target # None => s # r /\ run'[s] = run[s]
        /\ \A s \in Runs, k \in Calls : Holds(s, k)' /\ verdict[k] # None => run'[s].target = k
    BY <1>1, <1>4, <1>6, <2>2, HeadLeaves DEF hist, queue
  <2>4. \A s \in Runs : Alive(s)' /\ run'[s].target # None =>
          /\ Alive(s) /\ run'[s].pc \in {"gate", "throw"} /\ run'[s].queue = run[s].queue
          /\ run'[s].target = run[s].target /\ run'[s].ok = run[s].ok
    BY <2>3 DEF CallsInv, TargetIsDecided, Alive
  <2>5. HistoryKept
    BY <1>1 DEF hist, HistoryKept
  <2> QED BY <2>3, <2>4, <2>5, NothingGained
<1> QED BY <1>4, <1>5, <1>6

(* A tool is executed: the call is approved or the mode lets it through, it  *)
(* has not been executed before, and nobody holds it any more.               *)
LEMMA ExecKeepsCalls ==
  ASSUME CallsInv, TypeInv, NEW r \in Runs, ExecTool(r)
  PROVE  CallsInv'
<1> DEFINE a == run[r]
           k0 == Head(a.queue)
           late == IF Stopped(r) THEN a.late + 1 ELSE a.late
           b == [a EXCEPT !.pc = "exec", !.queue = Tail(a.queue), !.target = None,
                          !.late = late]
<1>1. /\ a.pc = "gate" /\ MayExec(r) /\ Alive(r) /\ a.queue # <<>>
      /\ ran' = [ran EXCEPT ![k0] = Append(ran[k0], a.cluster)]
      /\ auto' = IF NeedsApproval(k0) THEN auto ELSE auto \cup {k0}
      /\ UNCHANGED <<row, issued, verdict>>
  BY DEF ExecTool, Alive, TypeInv, RunsOK, RunOK, HistoryOK
<1>2. a \in RunRecord
  BY CallFacts
<1>3. run' = [run EXCEPT ![r] = b]
  BY <1>2, CallFacts DEF ExecTool
<1> HIDE DEF late
<1>4. b.queue = Tail(a.queue) /\ b.target = None /\ b.pc # "idle"
  BY <1>2 DEF RunRecord
<1> HIDE DEF b
<1>5. \A c \in Conv : RowIdle(c)
  BY <1>1 DEF RowIdle
<1>6. /\ \A s \in Runs, k \in Calls : Holds(s, k)' => Holds(s, k) /\ k # k0
      /\ \A c \in Conv, k \in Calls : Keeps(c, k)' => Keeps(c, k) /\ k # k0
      /\ \A s \in Runs : Alive(s)' => Distinct(run'[s].queue)
      /\ \A c \in Conv : row'[c].status = "paused" => Distinct(row'[c].saved)
      /\ \A s \in Runs : Alive(s)' /\ run'[s].target # None => s # r /\ run'[s] = run[s]
      /\ \A s \in Runs, k \in Calls : Holds(s, k)' /\ verdict[k] # None => run'[s].target = k
      /\ k0 \in Calls /\ Holds(r, k0)
  BY <1>1, <1>3, <1>4, <1>5, HeadLeaves
<1>7. k0 \in issued /\ ran[k0] = <<>>
  BY <1>6 DEF CallsInv, WaitingIsFresh
<1>8. /\ \A k \in Calls \ {k0} : ran'[k] = ran[k]
      /\ ran'[k0] = <<a.cluster>> /\ ran'[k0] # <<>> /\ Len(ran'[k0]) = 1
  <2>1. ran'[k0] = Append(<<>>, a.cluster)
    BY <1>1, <1>6, <1>7, CallFacts
  <2>2. a.cluster \in Cluster
    BY <1>1, CallFacts
  <2>3. ran'[k0] = <<a.cluster>> /\ Len(ran'[k0]) = 1 /\ ran'[k0] # <<>>
    <3> HIDE DEF k0
    <3> QED BY <2>1, <2>2
  <2>4. \A k \in Calls \ {k0} : ran'[k] = ran[k]
    BY <1>1, CallFacts
  <2> QED BY <2>3, <2>4
<1>9. WaitingIsFresh'
  BY <1>1, <1>6, <1>8 DEF CallsInv, WaitingIsFresh
<1>10. QueuesAreDistinct'
  BY <1>6 DEF QueuesAreDistinct
<1>11. OneHolder'
  BY <1>6 DEF CallsInv, OneHolder
<1>12. NotIssued'
  BY <1>1, <1>7, <1>8 DEF CallsInv, NotIssued
<1>13. TargetIsDecided'
  BY <1>1, <1>6 DEF CallsInv, TargetIsDecided, Alive
<1>14. DecidedIsTarget'
  BY <1>1, <1>6 DEF CallsInv, DecidedIsTarget
<1>15. RunsOnce'
  <2>1. \A k \in Calls \ {k0} : Len(ran'[k]) <= 1
    BY <1>8 DEF CallsInv, RunsOnce
  <2>2. Len(ran'[k0]) <= 1
    <3> HIDE DEF k0
    <3> QED BY <1>8
  <2> QED BY <2>1, <2>2 DEF RunsOnce
(* A decided call is at the head of its run, which then follows the verdict. *)
<1>16. CASE IsTarget(r)
  <2>1. a.target = k0 /\ a.target # None /\ a.ok
    BY <1>1, <1>6, <1>16, ConstantsAssumption DEF IsTarget, MayExec
  <2>2. verdict[k0] # None /\ verdict[k0].ok
    BY <1>1, <2>1 DEF CallsInv, TargetIsDecided
  <2>3. WritesAreApproved'
    BY <1>1, <1>8, <2>2, ConstantsAssumption DEF CallsInv, WritesAreApproved
  <2>4. DeniedNeverRuns'
    BY <1>1, <1>8, <2>2 DEF CallsInv, DeniedNeverRuns
  <2> QED BY <1>9, <1>10, <1>11, <1>12, <1>13, <1>14, <1>15, <2>3, <2>4 DEF CallsInv
<1>17. CASE ~IsTarget(r)
  <2>1. ~NeedsApproval(k0) /\ a.target # k0
    BY <1>1, <1>17 DEF IsTarget, MayExec
  <2>2. verdict[k0] = None
    BY <1>6, <2>1 DEF CallsInv, DecidedIsTarget
  <2>3. WritesAreApproved'
    BY <1>1, <1>8, <2>1, ConstantsAssumption DEF CallsInv, WritesAreApproved
  <2>4. DeniedNeverRuns'
    BY <1>1, <1>8, <2>2 DEF CallsInv, DeniedNeverRuns
  <2> QED BY <1>9, <1>10, <1>11, <1>12, <1>13, <1>14, <1>15, <2>3, <2>4 DEF CallsInv
<1> QED BY <1>16, <1>17

(* The model asks for calls nobody has asked for.                            *)
LEMMA FreshQueue ==
  ASSUME CallsInv, TypeInv, NEW r \in Runs, NEW a, NEW queue,
         \A i \in DOMAIN queue : queue[i] \in issued' \ issued, Distinct(queue),
         a.queue = queue, a.target = None, run' = [run EXCEPT ![r] = a],
         \A c \in Conv : RowIdle(c), HistoryKept
  PROVE  CallsInv'
<1> USE DEF HistoryKept
<1>1. run'[r] = a /\ \A s \in Runs \ {r} : run'[s] = run[s]
  BY CallFacts
<1>2. \A k \in Calls : Holds(r, k)' => k \in issued' \ issued
  BY <1>1 DEF Holds, In
<1>3. \A s \in Runs \ {r}, k \in Calls : Holds(s, k)' => Holds(s, k) /\ k \in issued
  BY <1>1 DEF Holds, Alive, CallsInv, WaitingIsFresh
<1>4. \A c \in Conv, k \in Calls : Keeps(c, k)' => Keeps(c, k) /\ k \in issued
  BY DEF Keeps, RowIdle, CallsInv, WaitingIsFresh
<1>5. WaitingIsFresh'
  BY <1>2, <1>3, <1>4 DEF CallsInv, WaitingIsFresh, NotIssued
<1>6. QueuesAreDistinct'
  BY <1>1 DEF CallsInv, QueuesAreDistinct, RowIdle, Alive
<1>7. OneHolder'
  BY <1>2, <1>3, <1>4 DEF CallsInv, OneHolder
<1>8. NotIssued' /\ RunsOnce' /\ WritesAreApproved' /\ DeniedNeverRuns'
  BY DEF CallsInv, NotIssued, RunsOnce, WritesAreApproved, DeniedNeverRuns
<1>9. TargetIsDecided'
  BY <1>1 DEF CallsInv, TargetIsDecided, Alive
<1>10. DecidedIsTarget'
  BY <1>1, <1>2, <1>3, <1>4 DEF CallsInv, DecidedIsTarget, NotIssued
<1> QED BY <1>5, <1>6, <1>7, <1>8, <1>9, <1>10 DEF CallsInv

LEMMA EndRoundKeepsCalls ==
  ASSUME CallsInv, TypeInv, NEW r \in Runs, Alive(r), NEW next, NEW queue, NEW result,
         EndRound(r, next, queue, result), HistoryKept,
         \A i \in DOMAIN queue : queue[i] \in issued' \ issued, Distinct(queue)
  PROVE  CallsInv'
<1> DEFINE c == run[r].conv
           keep == IsSuperseded(r) \/ DbCancelled(c)
           partial == keep /\ run[r].partial
           content == IF DbCancelled(c) THEN row[c].content ELSE 0
           b == [run[r] EXCEPT !.pc = next, !.queue = queue, !.result = result,
                               !.target = None, !.partial = partial]
           x == [row[c] EXCEPT !.trace = run[r].gen, !.content = content]
<1>1. OnStep(r, b, x)
  BY DEF EndRound
<1>2. run[r] \in RunRecord /\ row[c] \in Row
  BY CallFacts
<1> HIDE DEF partial, content
<1>3. /\ b.queue = queue /\ b.target = None
      /\ x.status = row[c].status /\ x.saved = row[c].saved
  BY <1>2 DEF RunRecord, Row
<1> HIDE DEF b, x
<1>4. /\ \A d \in Conv : RowIdle(d)
      /\ \/ run' = [run EXCEPT ![r] = [run[r] EXCEPT !.pc = "throw"]]
         \/ run' = [run EXCEPT ![r] = b]
  BY <1>1, <1>3, EventCases
<1>5. CASE run' = [run EXCEPT ![r] = [run[r] EXCEPT !.pc = "throw"]]
  BY <1>4, <1>5, ThrowKeepsCalls
<1>6. CASE run' = [run EXCEPT ![r] = b]
  BY <1>3, <1>4, <1>6, FreshQueue
<1> QED BY <1>4, <1>5, <1>6

LEMMA ChatToolsKeepsCalls ==
  ASSUME CallsInv, TypeInv, NEW r \in Runs, ChatTools(r)
  PROVE  CallsInv'
<1>1. PICK queue \in {<<k>> : k \in Calls \ issued} \cup
                     {s \in (Calls \ issued) \X (Calls \ issued) : s[1] # s[2]} :
        /\ issued' = issued \cup {queue[i] : i \in DOMAIN queue}
        /\ EndRound(r, AfterCheck(r, queue), queue, "none")
  BY DEF ChatTools
<1>2. /\ \A i \in DOMAIN queue : queue[i] \in Calls \ issued
      /\ Distinct(queue)
  <2>1. CASE queue \in {<<k>> : k \in Calls \ issued}
    <3>1. PICK k \in Calls \ issued : queue = <<k>>
      BY <2>1
    <3> QED BY <3>1 DEF Distinct
  <2>2. CASE queue \in {s \in (Calls \ issued) \X (Calls \ issued) : s[1] # s[2]}
    <3>1. PICK j \in Calls \ issued, k \in Calls \ issued : queue = <<j, k>> /\ j # k
      BY <2>2
    <3> QED BY <3>1 DEF Distinct
  <2> QED BY <2>1, <2>2
<1>3. HistoryKept /\ \A i \in DOMAIN queue : queue[i] \in issued' \ issued
  BY <1>1, <1>2 DEF ChatTools, HistoryKept
<1>4. Alive(r)
  BY DEF ChatTools, Alive
<1> HIDE <1>2
<1> QED BY <1>1, <1>2, <1>3, <1>4, EndRoundKeepsCalls

(* A run that leaves takes its queue with it, or leaves it in the paused row.*)
LEMMA LeavesNothing ==
  ASSUME CallsInv, TypeInv, NEW r \in Runs, Exit(r), UNCHANGED hist,
         \A c \in Conv : RowIdle(c)
  PROVE  CallsInv'
<1>1. run'[r] = Idle /\ \A s \in Runs \ {r} : run'[s] = run[s]
  BY CallFacts DEF Exit
<1>2. \A s \in Runs : SameCalls(s)
  BY <1>1 DEF SameCalls, Alive, Idle, CallsInv, TargetIsDecided
<1> QED BY <1>2, CallsStay DEF hist, HistoryKept

LEMMA LeavesQueue ==
  ASSUME CallsInv, TypeInv, NEW r \in Runs, run[r].pc = "return", Exit(r), UNCHANGED hist,
         NEW c \in Conv, NEW x \in Row, x.status = "paused", x.saved = run[r].queue,
         row' = [row EXCEPT ![c] = x]
  PROVE  CallsInv'
<1>1. run'[r] = Idle /\ \A s \in Runs \ {r} : run'[s] = run[s]
  BY CallFacts DEF Exit
<1>2. Alive(r) /\ ~Alive(r)'
  BY <1>1 DEF Alive, Idle
<1>3. row'[c] = x /\ \A d \in Conv \ {c} : row'[d] = row[d]
  BY <1>2, CallFacts
<1>4. \A k \in Calls : Keeps(c, k)' => Holds(r, k)
  BY <1>2, <1>3 DEF Keeps, Holds
<1>5. \A s \in Runs, k \in Calls : Holds(s, k)' => s # r /\ Holds(s, k)
  BY <1>1, <1>2 DEF Holds, Alive
<1>6. \A d \in Conv \ {c}, k \in Calls : Keeps(d, k)' => Keeps(d, k)
  BY <1>3 DEF Keeps
<1>7. \A k \in Calls : Holds(r, k) => verdict[k] = None
  BY ConstantsAssumption, <1>2 DEF CallsInv, DecidedIsTarget, TargetIsDecided
<1>8. UNCHANGED <<issued, ran, verdict, auto>>
  BY DEF hist
<1>9. WaitingIsFresh'
  BY <1>4, <1>5, <1>6, <1>8 DEF CallsInv, WaitingIsFresh
<1>10. QueuesAreDistinct'
  BY <1>1, <1>2, <1>3 DEF CallsInv, QueuesAreDistinct, Alive
<1>11. OneHolder'
  BY <1>4, <1>5, <1>6 DEF CallsInv, OneHolder
<1>12. NotIssued' /\ RunsOnce' /\ WritesAreApproved' /\ DeniedNeverRuns'
  BY <1>8 DEF CallsInv, NotIssued, RunsOnce, WritesAreApproved, DeniedNeverRuns
<1>13. TargetIsDecided'
  BY <1>1, <1>2, <1>8 DEF CallsInv, TargetIsDecided, Alive
<1>14. DecidedIsTarget'
  BY <1>1, <1>4, <1>5, <1>6, <1>7, <1>8 DEF CallsInv, DecidedIsTarget
<1> QED BY <1>9, <1>10, <1>11, <1>12, <1>13, <1>14 DEF CallsInv

LEMMA ReturnKeepsCalls ==
  ASSUME CallsInv, TypeInv, NEW r \in Runs, Return(r)
  PROVE  CallsInv'
<1> DEFINE c == run[r].conv
           x == row[c]
<1>1. /\ run[r].pc = "return" /\ Exit(r) /\ UNCHANGED hist /\ c \in Conv
      /\ \/ row' = row
         \/ row' = [row EXCEPT ![c] = KeepPartial(x, run[r].partial)]
         \/ row' = [row EXCEPT ![c] = HandleAgentResult(r)]
  BY CallFacts DEF Return, Alive
<1>2. x \in Row /\ run[r] \in RunRecord
  BY <1>1, CallFacts
<1>3. CASE row' = row \/ row' = [row EXCEPT ![c] = KeepPartial(x, run[r].partial)]
  <2>1. KeepPartial(x, run[r].partial).status = x.status
        /\ KeepPartial(x, run[r].partial).saved = x.saved
    BY <1>2, KeepPartialOK DEF RunRecord
  <2>2. \A d \in Conv : RowIdle(d)
    BY <1>1, <1>3, <2>1, CallFacts DEF RowIdle
  <2> QED BY <1>1, <2>2, LeavesNothing
<1>4. CASE row' = [row EXCEPT ![c] = HandleAgentResult(r)]
  <2>1. HandleAgentResult(r) \in Row
    BY <1>1, HandleAgentResultOK DEF TypeInv, RowOK
  <2>2. CASE run[r].result = "pending"
    <3>1. HandleAgentResult(r).status = "paused" /\ HandleAgentResult(r).saved = run[r].queue
      BY <1>2, <2>2 DEF HandleAgentResult, Row
    <3> QED BY <1>1, <1>4, <2>1, <3>1, LeavesQueue
  <2>3. CASE run[r].result # "pending"
    <3>1. AppendAnswer(x) \in Row
      BY <1>2, AppendAnswerOK
    <3>2. HandleAgentResult(r).status = "done"
      BY <2>3, <3>1 DEF HandleAgentResult, Row
    <3>3. \A d \in Conv : RowIdle(d)
      BY <1>1, <1>4, <3>2, CallFacts DEF RowIdle
    <3> QED BY <1>1, <3>3, LeavesNothing
  <2> QED BY <2>2, <2>3
<1> QED BY <1>1, <1>3, <1>4

LEMMA CatchKeepsCalls ==
  ASSUME CallsInv, TypeInv, NEW r \in Runs, Catch(r)
  PROVE  CallsInv'
<1> DEFINE c == run[r].conv
           x == KeepPartial(row[c], run[r].partial)
           mine == IF run[r].partial THEN run[r].gen ELSE 0
           content == IF x = row[c] THEN x.content ELSE mine
           y == [x EXCEPT !.status = "failed", !.content = content]
<1>1. /\ Exit(r) /\ UNCHANGED hist /\ c \in Conv /\ row \in [Conv -> Row]
      /\ row' = row \/ row' = [row EXCEPT ![c] = x] \/ row' = [row EXCEPT ![c] = y]
  BY CallFacts DEF Catch, Alive
<1>2. row[c] \in Row /\ run[r].partial \in BOOLEAN
  BY <1>1, CallFacts DEF RunRecord
<1>3. x \in Row /\ x.status = row[c].status /\ x.saved = row[c].saved
  BY <1>2, KeepPartialOK
<1> HIDE DEF x
<1>4. y.status = "failed"
  BY <1>3 DEF Row
<1> HIDE DEF y
<1>5. \A d \in Conv : RowIdle(d)
  BY <1>1, <1>3, <1>4 DEF RowIdle
<1> QED BY <1>1, <1>5, LeavesNothing

LEMMA RunStepKeepsCalls ==
  ASSUME CallsInv, TypeInv, NEW r \in Runs, RunStep(r)
  PROVE  CallsInv'
<1> DEFINE a == run[r]
           c == run[r].conv
<1>0. /\ a \in RunRecord /\ run \in [Runs -> RunRecord] /\ row \in [Conv -> Row]
      /\ Alive(r) => c \in Conv
      /\ a.target # None => a.pc \in {"idle", "gate", "throw"}
  BY CallFacts DEF CallsInv, TargetIsDecided, Alive
<1>a. ASSUME UNCHANGED row PROVE \A d \in Conv : RowIdle(d)
  BY <1>a DEF RowIdle
<1>b. ASSUME UNCHANGED hist PROVE HistoryKept
  BY <1>b DEF hist, HistoryKept
<1>1. CASE GatePause(r)
  <2> DEFINE b == [a EXCEPT !.pc = "return", !.result = "pending"]
  <2>1. /\ Alive(r) /\ run' = [run EXCEPT ![r] = b] /\ UNCHANGED <<row, hist>>
        /\ a.pc = "gate" /\ ~IsTarget(r)
    BY <1>0, <1>1 DEF GatePause, Alive
  <2>2. a.target = None
    BY <2>1 DEF CallsInv, TargetIsDecided, IsTarget
  <2>3. b.queue = a.queue /\ b.target = a.target /\ b.ok = a.ok
    BY <1>0 DEF RunRecord
  <2> HIDE DEF b
  <2> QED BY <2>1, <2>2, <2>3, <1>a, <1>b, RunKeepsCalls
<1>2. CASE ExecTool(r)
  BY <1>2, ExecKeepsCalls
<1>3. CASE ToolDone(r)
  <2> DEFINE b == [a EXCEPT !.pc = AfterCheck(r, a.queue)]
             x == [row[c] EXCEPT !.trace = a.gen]
  <2>1. a.pc = "exec" /\ Alive(r) /\ OnStep(r, b, x) /\ UNCHANGED hist
    BY <1>3 DEF ToolDone, Alive
  <2>2. row[c] \in Row /\ a.target = None
    BY <1>0, <2>1
  <2>3. b.queue = a.queue /\ b.target = a.target /\ b.ok = a.ok
    BY <1>0 DEF RunRecord
  <2>4. x.status = row[c].status /\ x.saved = row[c].saved
    BY <2>2 DEF Row
  <2> HIDE DEF b, x
  <2>5. /\ \A d \in Conv : RowIdle(d)
        /\ \/ run' = [run EXCEPT ![r] = [run[r] EXCEPT !.pc = "throw"]]
           \/ run' = [run EXCEPT ![r] = b]
    BY <2>1, <2>4, EventCases
  <2> QED BY <2>1, <2>2, <2>3, <2>5, <1>b, RunKeepsCalls, ThrowKeepsCalls
<1>4. CASE SkipTool(r)
  BY <1>4, SkipKeepsCalls
<1>5. CASE ChatStart(r) \/ ChatError(r)
  <2>1. PICK pc \in {"chat", "throw"} : Goto(r, pc)
    BY <1>5 DEF ChatStart, ChatError
  <2> DEFINE b == [a EXCEPT !.pc = pc]
  <2>2. /\ Alive(r) /\ a.target = None /\ run' = [run EXCEPT ![r] = b]
        /\ UNCHANGED <<row, hist>>
    BY <1>0, <1>5, <2>1 DEF ChatStart, ChatError, Goto, Alive
  <2>3. b.queue = a.queue /\ b.target = a.target /\ b.ok = a.ok
    BY <1>0 DEF RunRecord
  <2> HIDE DEF b
  <2> QED BY <2>2, <2>3, <1>a, <1>b, RunKeepsCalls
<1>6. CASE ChatTools(r)
  BY <1>6, ChatToolsKeepsCalls
<1>7. CASE ChatFinal(r)
  <2>1. Alive(r) /\ EndRound(r, "return", <<>>, "final") /\ UNCHANGED hist
    BY <1>7 DEF ChatFinal, Alive
  <2>2. Distinct(<<>>) /\ \A i \in DOMAIN <<>> : <<>>[i] \in issued' \ issued
    BY DEF Distinct
  <2> QED BY <2>1, <2>2, <1>b, EndRoundKeepsCalls
<1>8. CASE \E flush \in BOOLEAN : Delta(r, flush)
  <2> DEFINE b == [a EXCEPT !.partial = TRUE]
  <2>1. PICK flush \in BOOLEAN : Delta(r, flush)
    BY <1>8
  <2>2. Alive(r) /\ a.target = None /\ run' = [run EXCEPT ![r] = b] /\ UNCHANGED hist
    BY <1>0, <2>1 DEF Delta, Alive
  <2>3. \A d \in Conv : RowIdle(d)
    BY <1>0, <2>1 DEF Delta, Row, RowIdle
  <2>4. b.queue = a.queue /\ b.target = a.target /\ b.ok = a.ok
    BY <1>0 DEF RunRecord
  <2> HIDE DEF b
  <2> QED BY <2>2, <2>3, <2>4, <1>b, RunKeepsCalls
<1>9. CASE Return(r)
  BY <1>9, ReturnKeepsCalls
<1>10. CASE Catch(r)
  BY <1>10, CatchKeepsCalls
<1> QED
  BY <1>1, <1>2, <1>3, <1>4, <1>5, <1>6, <1>7, <1>8, <1>9, <1>10 DEF RunStep, Progress

-----------------------------------------------------------------------------
(* The handlers.                                                             *)

(* A new turn starts with an empty queue.                                    *)
LEMMA NewTurnKeepsCalls ==
  ASSUME CallsInv, TypeInv, NEW r \in Runs, NEW c \in Conv, NEW x \in Row,
         x.status = "running", Launch(r, c, x, <<>>, None, FALSE), UNCHANGED hist
  PROVE  CallsInv'
<1>1. \A d \in Conv : RowIdle(d)
  <2>1. row' = [row EXCEPT ![c] = x] \/ row' = [row EXCEPT ![c] = [x EXCEPT !.status = "failed"]]
    BY DEF Launch
  <2>2. [x EXCEPT !.status = "failed"].status = "failed"
    BY DEF Row
  <2> QED BY <2>1, <2>2, CallFacts DEF RowIdle
<1>2. HistoryKept
  BY DEF hist, HistoryKept
<1>3. CASE UNCHANGED run
  BY <1>1, <1>2, <1>3, CallsStay DEF SameCalls, Alive, CallsInv, TargetIsDecided
<1>4. CASE proj # None
  <2> DEFINE a == [pc |-> IF <<>> # <<>> THEN "gate" ELSE "refresh",
                   conv |-> c, epoch |-> epoch[c] + 1,
                   gen |-> x.gen, cluster |-> proj, queue |-> <<>>,
                   target |-> None, ok |-> FALSE, partial |-> x.content # 0,
                   aborted |-> FALSE, late |-> 0, result |-> "none"]
  <2>1. run' = [run EXCEPT ![r] = a]
    BY <1>4 DEF Launch
  <2>2. a.queue = <<>> /\ a.target = None
    OBVIOUS
  <2> HIDE DEF a
  <2>3. Distinct(<<>>) /\ \A i \in DOMAIN <<>> : <<>>[i] \in issued' \ issued
    BY DEF Distinct
  <2> QED BY <1>1, <1>2, <2>1, <2>2, <2>3, FreshQueue
<1> QED BY <1>3, <1>4 DEF Launch

(* A decision hands the saved queue to a run that will act on it.            *)
LEMMA ResumeKeepsCalls ==
  ASSUME CallsInv, TypeInv, NEW r \in Runs, NEW c \in Conv, NEW ok \in BOOLEAN,
         NEW shown \in Calls, Resume(c, r, ok, shown), UNCHANGED <<issued, ran, auto>>,
         NEW k0 \in Calls, k0 = row[c].pending.call
  PROVE  CallsInv'
<1> DEFINE v0 == [ok |-> ok, cluster |-> row[c].pending.cluster, shown |-> shown,
                  missed |-> c \in missed]
           q == row[c].saved
           y == [Claimed(row[c]) EXCEPT !.status = "failed"]
<1>1. /\ row[c].status = "paused" /\ row[c] \in Row /\ q \in Seq(Calls) /\ q # <<>>
      /\ row[c].pending \in Pending /\ k0 = Head(q)
      /\ verdict' = [verdict EXCEPT ![k0] = v0]
      /\ Launch(r, c, Claimed(row[c]), q, k0, ok)
  BY CallFacts DEF Resume, TypeInv, RowsOK, RowOK, Resumable, Row
<1>2. k0 \in Calls /\ v0 \in Verdict /\ v0.ok = ok
  BY <1>1 DEF Pending, Verdict
<1>3. v0 # None
  BY <1>2, ConstantsAssumption DEF Verdict
<1>4. Claimed(row[c]).status = "running" /\ y.status = "failed"
  BY <1>1 DEF Claimed, Row
<1>5. In(k0, q) /\ Distinct(q)
  <2>1. Distinct(q)
    BY <1>1 DEF CallsInv, QueuesAreDistinct
  <2> HIDE DEF q
  <2> QED BY <1>1, <2>1, QueueTail
<1>6. Keeps(c, k0) /\ \A k \in Calls : In(k, q) => Keeps(c, k)
  BY <1>1, <1>5 DEF Keeps
<1> HIDE DEF v0, y
(* The row does not keep the calls any more, whatever Launch does.           *)
<1>7. row' = [row EXCEPT ![c] = Claimed(row[c])] \/ row' = [row EXCEPT ![c] = y]
  BY <1>1 DEF Launch, y
<1>8. row'[c].status # "paused" /\ \A d \in Conv \ {c} : row'[d] = row[d]
  BY <1>4, <1>7, CallFacts
<1>9. \A d \in Conv, k \in Calls : Keeps(d, k)' => d # c /\ Keeps(d, k)
  BY <1>8 DEF Keeps
<1>10. \A d \in Conv : row'[d].status = "paused" => Distinct(row'[d].saved)
  BY <1>8 DEF CallsInv, QueuesAreDistinct
<1>11. /\ verdict'[k0] = v0 /\ \A k \in Calls \ {k0} : verdict'[k] = verdict[k]
       /\ k0 \in issued /\ ran[k0] = <<>>
  <2>1. verdict'[k0] = v0 /\ \A k \in Calls \ {k0} : verdict'[k] = verdict[k]
    BY <1>1, <1>2, CallFacts
  <2>2. k0 \in issued /\ ran[k0] = <<>>
    BY <1>2, <1>6 DEF CallsInv, WaitingIsFresh
  <2> QED BY <2>1, <2>2
<1>12. \A s \in Runs : ~Holds(s, k0)
  BY <1>2, <1>6 DEF CallsInv, OneHolder
<1>13. \A s \in Runs : Alive(s) /\ run[s].target # None => run[s].target # k0
  <2> SUFFICES ASSUME NEW s \in Runs, Alive(s), run[s].target # None, run[s].target = k0
               PROVE  FALSE
    OBVIOUS
  <2>1. run[s].queue \in Seq(Calls) /\ run[s].queue # <<>> /\ Distinct(run[s].queue)
        /\ Head(run[s].queue) = k0
    BY CallFacts DEF CallsInv, TargetIsDecided, QueuesAreDistinct
  <2>2. In(k0, run[s].queue)
    BY <2>1, QueueTail
  <2> QED BY <1>12, <2>2 DEF Holds
<1>14. NotIssued' /\ RunsOnce'
  BY <1>11 DEF CallsInv, NotIssued, RunsOnce
<1>15. WritesAreApproved' /\ DeniedNeverRuns'
  BY <1>2, <1>11, ConstantsAssumption DEF CallsInv, WritesAreApproved, DeniedNeverRuns
<1>16. CASE proj = None
  <2>1. run' = run
    BY <1>1, <1>16 DEF Launch
  <2>2. \A s \in Runs, k \in Calls : Holds(s, k)' => Holds(s, k)
    BY <2>1 DEF Holds, Alive
  <2>3. WaitingIsFresh' /\ OneHolder'
    BY <1>9, <2>2 DEF CallsInv, WaitingIsFresh, OneHolder
  <2>4. QueuesAreDistinct'
    BY <1>10, <2>1 DEF CallsInv, QueuesAreDistinct, Alive
  <2>5. TargetIsDecided'
    BY <1>11, <1>13, <2>1, CallFacts DEF CallsInv, TargetIsDecided, Alive
  <2>6. DecidedIsTarget'
    <3>1. \A d \in Conv : ~Keeps(d, k0)'
      BY <1>6, <1>9 DEF CallsInv, OneHolder
    <3>2. \A s \in Runs : ~Holds(s, k0)'
      BY <1>12, <2>2
    <3> QED BY <1>9, <1>11, <2>1, <2>2, <3>1, <3>2 DEF CallsInv, DecidedIsTarget
  <2> QED BY <1>14, <1>15, <2>3, <2>4, <2>5, <2>6 DEF CallsInv
<1>17. CASE proj # None
  <2> DEFINE a == [pc |-> IF q # <<>> THEN "gate" ELSE "refresh",
                   conv |-> c, epoch |-> epoch[c] + 1,
                   gen |-> Claimed(row[c]).gen, cluster |-> proj, queue |-> q,
                   target |-> k0, ok |-> ok, partial |-> Claimed(row[c]).content # 0,
                   aborted |-> FALSE, late |-> 0, result |-> "none"]
  <2>1. run' = [run EXCEPT ![r] = a] /\ ~Alive(r)
    BY <1>1, <1>17 DEF Launch, Alive
  <2>2. a.pc = "gate" /\ a.queue = q /\ a.target = k0 /\ a.ok = ok
    BY <1>1
  <2> HIDE DEF a
  <2>3. run'[r] = a /\ Alive(r)' /\ \A s \in Runs \ {r} : run'[s] = run[s]
    BY <2>1, <2>2, CallFacts DEF Alive
  <2>4. \A k \in Calls : Holds(r, k)' => Keeps(c, k)
    BY <1>6, <2>2, <2>3 DEF Holds
  <2>5. \A s \in Runs \ {r}, k \in Calls : Holds(s, k)' => Holds(s, k)
    BY <2>3 DEF Holds, Alive
  <2>6. WaitingIsFresh'
    BY <1>9, <2>4, <2>5 DEF CallsInv, WaitingIsFresh
  <2>7. QueuesAreDistinct'
    BY <1>5, <1>10, <2>2, <2>3 DEF CallsInv, QueuesAreDistinct, Alive
  <2>8. OneHolder'
    BY <1>9, <2>4, <2>5 DEF CallsInv, OneHolder
  <2>9. TargetIsDecided'
    <3> SUFFICES ASSUME NEW s \in Runs, Alive(s)', run'[s].target # None
                 PROVE  /\ run'[s].pc \in {"gate", "throw"} /\ run'[s].queue # <<>>
                        /\ Head(run'[s].queue) = run'[s].target
                        /\ verdict'[run'[s].target] # None
                        /\ verdict'[run'[s].target].ok = run'[s].ok
      BY DEF TargetIsDecided
    <3>1. CASE s = r
      BY <1>1, <1>2, <1>3, <1>11, <2>2, <2>3, <3>1
    <3>2. CASE s # r
      <4>1. run'[s] = run[s] /\ Alive(s) /\ run[s].target # k0 /\ run[s].target \in Calls
        BY <1>13, <2>3, <3>2, CallFacts DEF Alive
      <4>2. verdict'[run[s].target] = verdict[run[s].target]
        BY <1>11, <4>1
      <4> QED BY <4>1, <4>2 DEF CallsInv, TargetIsDecided
    <3> QED BY <3>1, <3>2
  <2>10. DecidedIsTarget'
    <3> SUFFICES ASSUME NEW k \in Calls, verdict'[k] # None
                 PROVE  /\ \A d \in Conv : ~Keeps(d, k)'
                        /\ \A s \in Runs : Holds(s, k)' => run'[s].target = k
      BY DEF DecidedIsTarget
    <3>1. CASE k = k0
      <4>1. \A d \in Conv : ~Keeps(d, k)'
        BY <1>6, <1>9, <3>1 DEF CallsInv, OneHolder
      <4>2. \A s \in Runs : Holds(s, k)' => s = r
        BY <1>12, <2>5, <3>1
      <4> QED BY <2>2, <2>3, <3>1, <4>1, <4>2
    <3>2. CASE k # k0
      <4>1. verdict[k] # None
        BY <1>11, <3>2
      <4>2. \A d \in Conv : ~Keeps(d, k)
        BY <4>1 DEF CallsInv, DecidedIsTarget
      <4>3. \A s \in Runs : Holds(s, k)' => s # r /\ Holds(s, k)
        BY <2>4, <2>5, <4>2
      <4> QED BY <1>9, <2>3, <4>1, <4>2, <4>3 DEF CallsInv, DecidedIsTarget
    <3> QED BY <3>1, <3>2
  <2> QED BY <1>14, <1>15, <2>6, <2>7, <2>8, <2>9, <2>10 DEF CallsInv
<1> QED BY <1>16, <1>17

LEMMA HandlerKeepsCalls ==
  ASSUME CallsInv, TypeInv, Handler
  PROVE  CallsInv'
<1>0. row \in [Conv -> Row] /\ run \in [Runs -> RunRecord]
  BY CallFacts
<1>a. ASSUME UNCHANGED <<run, hist>>, \A c \in Conv : RowIdle(c) PROVE CallsInv'
  <2>1. \A s \in Runs : SameCalls(s)
    BY <1>a DEF SameCalls, Alive, CallsInv, TargetIsDecided
  <2> QED BY <1>a, <2>1, CallsStay DEF hist, HistoryKept
<1>b. ASSUME UNCHANGED row PROVE \A c \in Conv : RowIdle(c)
  BY <1>b DEF RowIdle
<1>c. ASSUME NEW cs, Abort(cs), UNCHANGED hist, \A c \in Conv : RowIdle(c) PROVE CallsInv'
  <2>1. \A s \in Runs : run'[s] = run[s] \/ run'[s] = [run[s] EXCEPT !.aborted = TRUE]
    BY <1>c DEF Abort
  <2>2. ASSUME NEW s \in Runs
        PROVE  /\ run'[s].pc = run[s].pc /\ run'[s].queue = run[s].queue
               /\ run'[s].target = run[s].target /\ run'[s].ok = run[s].ok
    <3>1. run[s] \in RunRecord
      BY CallFacts
    <3> QED BY <2>1, <3>1 DEF RunRecord
  <2>3. \A s \in Runs : SameCalls(s)
    BY <2>2 DEF SameCalls, Alive, CallsInv, TargetIsDecided
  <2> QED BY <1>c, <2>3, CallsStay DEF hist, HistoryKept
<1>d. ASSUME NEW c \in Conv, NEW status \in Ended, row' = [row EXCEPT ![c] = EndRow(row[c], status)]
      PROVE  \A d \in Conv : RowIdle(d)
  <2>1. EndRow(row[c], status).status = status
    BY <1>0, EndRowOK
  <2> QED BY <1>0, <1>d, <2>1 DEF RowIdle, Ended
<1>1. ASSUME NEW q \in Senders, NEW c \in Conv,
             AcceptCreate(q, c) \/ AcceptMessage(q, c) \/ AcceptEdit(q, c)
      PROVE  CallsInv'
  BY <1>1, <1>a, <1>b DEF AcceptCreate, AcceptMessage, AcceptEdit, Accept
<1>2. ASSUME NEW q \in Senders, RejectSend(q) PROVE CallsInv'
  BY <1>2, <1>a, <1>b DEF RejectSend
<1>3. ASSUME NEW q \in Senders, NEW r \in Runs, CommitSend(q, r) PROVE CallsInv'
  <2> DEFINE c == sending[q].conv
             x == row[c]
  <2>1. sending[q] \in SendRequest
    BY <1>3 DEF CommitSend, TypeInv, RequestsOK
  <2>2. c \in Conv /\ sending[q].anchor \in Nat
    BY <2>1 DEF SendRequest
  <2>3. x \in Row /\ x.msgs \in Seq(Nat) /\ x.gen + 1 \in Nat
    <3>1. x \in Row
      BY <1>0, <2>2
    <3> HIDE DEF x
    <3> QED BY <3>1 DEF Row
  <2>4. PICK kept \in KeptRows(sending[q], x.msgs) :
          Launch(r, c, ResetRow(x, Append(kept, x.gen + 1)), <<>>, None, FALSE)
    BY <1>3 DEF CommitSend
  <2>5. Append(kept, x.gen + 1) \in Seq(Nat)
    BY <2>2, <2>3, <2>4, KeptOK, AppendProperties DEF KeptRows
  <2>6. ResetRow(x, Append(kept, x.gen + 1)) \in Row
        /\ ResetRow(x, Append(kept, x.gen + 1)).status = "running"
    BY <2>3, <2>5, ResetRowOK DEF RowOK
  <2> QED BY <1>3, <2>2, <2>4, <2>6, NewTurnKeepsCalls DEF CommitSend
<1>4. ASSUME NEW c \in Conv, NEW r \in Runs, Regenerate(c, r) PROVE CallsInv'
  <2>1. PICK kept \in UpToLastUser(row[c].msgs) :
          Launch(r, c, ResetRow(row[c], kept), <<>>, None, FALSE)
    BY <1>4 DEF Regenerate
  <2>2. row[c] \in Row /\ kept \in Seq(Nat)
    BY <1>0, <2>1, KeptOK DEF Row
  <2>3. ResetRow(row[c], kept) \in Row /\ ResetRow(row[c], kept).status = "running"
    BY <2>2, ResetRowOK DEF RowOK
  <2> QED BY <1>4, <2>1, <2>3, NewTurnKeepsCalls DEF Regenerate
<1>5. ASSUME NEW c \in Conv, NEW r \in Runs, Deny(c, r) PROVE CallsInv'
  <2>1. row[c].pending.call \in Calls
    BY <1>5 DEF Deny, TypeInv, RowsOK, RowOK, Resumable, Row, Pending
  <2> QED BY <1>5, <2>1, ResumeKeepsCalls DEF Deny
<1>6. ASSUME NEW q \in Approvers, NEW c \in Conv, AcceptApprove(q, c) PROVE CallsInv'
  BY <1>6, <1>a, <1>b DEF AcceptApprove
<1>7. ASSUME NEW q \in Approvers, NEW r \in Runs, CommitApprove(q, r) PROVE CallsInv'
  <2>1. approving[q].conv \in Conv /\ approving[q].shown \in Calls
    BY <1>7 DEF CommitApprove, TypeInv, RequestsOK
  <2>2. PICK c \in Conv : c = approving[q].conv
    BY <2>1
  <2>3. row[c].pending.call \in Calls
    BY <1>7, <2>2 DEF CommitApprove, Resume, TypeInv, RowsOK, RowOK, Resumable, Row, Pending
  <2>4. PICK shown \in Calls : shown = approving[q].shown
    BY <2>1
  <2>5. Resume(c, r, TRUE, shown) /\ UNCHANGED <<issued, ran, auto>>
    BY <1>7, <2>2, <2>4 DEF CommitApprove
  <2> QED BY <2>3, <2>5, ResumeKeepsCalls
<1>8. ASSUME NEW q \in Approvers, RejectApprove(q) PROVE CallsInv'
  BY <1>8, <1>a, <1>b DEF RejectApprove
<1>9. ASSUME NEW c \in Conv, EndStaleApproval(c) PROVE CallsInv'
  BY <1>9, <1>a, <1>d DEF EndStaleApproval, Ended
<1>10. ASSUME NEW c \in Conv, DenyWithoutLlm(c) PROVE CallsInv'
  <2> DEFINE v0(k) == [ok |-> FALSE, cluster |-> row[c].pending.cluster, shown |-> k,
                       missed |-> c \in missed]
  <2>1. /\ row[c].status = "paused" /\ row[c].saved \in Seq(Calls) /\ row[c].saved # <<>>
        /\ row[c].pending \in Pending /\ row[c].pending.call = Head(row[c].saved)
        /\ row' = [row EXCEPT ![c] = EndRow(row[c], "failed")]
        /\ UNCHANGED <<run, issued, ran, auto>>
    BY <1>10 DEF DenyWithoutLlm, TypeInv, RowsOK, RowOK, Resumable, Row
  <2>2. PICK k0 \in Calls : k0 = row[c].pending.call
    BY <2>1 DEF Pending
  <2>3. verdict' = [verdict EXCEPT ![k0] = v0(k0)]
    BY <1>10, <2>2 DEF DenyWithoutLlm
  <2>4. v0(k0) \in Verdict /\ v0(k0).ok = FALSE
    BY <2>1, <2>2 DEF Pending, Verdict
  <2>5. v0(k0) # None
    BY <2>4, ConstantsAssumption
  <2> HIDE DEF v0
  <2>6. In(k0, row[c].saved)
    BY <2>1, <2>2, QueueTail DEF CallsInv, QueuesAreDistinct
  <2>7. Keeps(c, k0) /\ k0 \in issued /\ ran[k0] = <<>>
    BY <2>1, <2>6 DEF Keeps, CallsInv, WaitingIsFresh
  <2>8. verdict'[k0] = v0(k0) /\ \A k \in Calls \ {k0} : verdict'[k] = verdict[k]
    BY <2>3, CallFacts
  <2>9. \A d \in Conv : RowIdle(d)
    BY <2>1, <1>d DEF Ended
  <2>10. row'[c].status # "paused"
    BY <1>0, <2>1, EndRowOK DEF Ended
  <2>11. \A d \in Conv, k \in Calls : Keeps(d, k)' => d # c /\ Keeps(d, k)
    BY <2>9, <2>10 DEF Keeps, RowIdle
  <2>12. \A s \in Runs : (Alive(s)' <=> Alive(s)) /\ \A k \in Calls : Holds(s, k)' <=> Holds(s, k)
    BY <2>1 DEF Holds, Alive
  <2>13. \A s \in Runs : ~Holds(s, k0)
    BY <2>7 DEF CallsInv, OneHolder
  <2>14. WaitingIsFresh' /\ OneHolder'
    BY <2>1, <2>11, <2>12 DEF CallsInv, WaitingIsFresh, OneHolder
  <2>15. QueuesAreDistinct'
    BY <2>1, <2>9, <2>12 DEF CallsInv, QueuesAreDistinct, RowIdle
  <2>16. NotIssued' /\ RunsOnce'
    BY <2>1, <2>7, <2>8 DEF CallsInv, NotIssued, RunsOnce
  <2>17. WritesAreApproved' /\ DeniedNeverRuns'
    BY <2>1, <2>7, <2>8, ConstantsAssumption DEF CallsInv, WritesAreApproved, DeniedNeverRuns
  <2>18. \A s \in Runs : Alive(s) /\ run[s].target # None => run[s].target # k0
    <3> SUFFICES ASSUME NEW s \in Runs, Alive(s), run[s].target # None, run[s].target = k0
                 PROVE  FALSE
      OBVIOUS
    <3>1. run[s].queue \in Seq(Calls) /\ run[s].queue # <<>> /\ Distinct(run[s].queue)
          /\ Head(run[s].queue) = k0
      BY CallFacts DEF CallsInv, TargetIsDecided, QueuesAreDistinct
    <3> QED BY <2>13, <3>1, QueueTail DEF Holds
  <2>19. TargetIsDecided'
    BY <2>1, <2>8, <2>12, <2>18, CallFacts DEF CallsInv, TargetIsDecided
  <2>20. DecidedIsTarget'
    <3>1. \A d \in Conv : ~Keeps(d, k0)'
      BY <2>7, <2>11 DEF CallsInv, OneHolder
    <3> QED BY <2>1, <2>8, <2>11, <2>12, <2>13, <3>1 DEF CallsInv, DecidedIsTarget
  <2> QED BY <2>14, <2>15, <2>16, <2>17, <2>19, <2>20 DEF CallsInv
<1>11. ASSUME NEW c \in Conv, Cancel(c) PROVE CallsInv'
  BY <1>11, <1>c, <1>d DEF Cancel, Ended
<1>12. ASSUME NEW c \in Conv, DeleteConversation(c) PROVE CallsInv'
  <2>1. \A d \in Conv : RowIdle(d)
    BY <1>0, <1>12 DEF DeleteConversation, RowIdle, NoRow
  <2> QED BY <1>12, <1>c, <2>1 DEF DeleteConversation
<1>13. ASSUME DeleteProject PROVE CallsInv'
  <2>1. \A d \in Conv : RowIdle(d)
    BY <1>13 DEF DeleteProject, RowIdle, NoRow
  <2> QED BY <1>13, <1>c, <2>1 DEF DeleteProject
<1>14. ASSUME NEW q \in Rebinders, NEW to \in Cluster, AcceptRebind(q, to) PROVE CallsInv'
  BY <1>14, <1>a, <1>b DEF AcceptRebind
<1>15. ASSUME NEW q \in Rebinders, CommitRebind(q) PROVE CallsInv'
  <2>1. \A c \in Conv : EndRow(row[c], "failed").status = "failed"
    BY <1>0, EndRowOK DEF Ended
  <2>2. \A c \in Conv : RowIdle(c)
    BY <1>15, <2>1 DEF CommitRebind, RowIdle
  <2> QED BY <1>15, <1>c, <2>2 DEF CommitRebind
<1>16. ASSUME SetMode PROVE CallsInv'
  BY <1>16, <1>a, <1>b DEF SetMode
<1> QED
  BY <1>1, <1>2, <1>3, <1>4, <1>5, <1>6, <1>7, <1>8, <1>9, <1>10, <1>11, <1>12, <1>13,
     <1>14, <1>15, <1>16
  DEF Handler

LEMMA RestartKeepsCalls ==
  ASSUME CallsInv, TypeInv, Restart
  PROVE  CallsInv'
<1>1. \A s \in Runs : SameCalls(s)
  BY DEF Restart, SameCalls, Alive, Idle
<1>2. ASSUME NEW c \in Conv PROVE RowIdle(c)
  <2> DEFINE x == KeepPartial(row[c], row[c].content # 0)
  <2>1. x \in Row
    BY KeepPartialOK DEF TypeInv, RowsOK
  <2>2. row'[c] = IF row[c].status = "running" THEN [x EXCEPT !.status = "failed"] ELSE row[c]
    BY DEF Restart
  <2> HIDE DEF x
  <2> QED BY <2>1, <2>2 DEF Row, RowIdle
<1>3. HistoryKept
  BY DEF Restart, hist, HistoryKept
<1> QED BY <1>1, <1>2, <1>3, CallsStay

LEMMA StepKeepsCalls == CallsInv /\ TypeInv /\ [Next]_vars => CallsInv'
<1> SUFFICES ASSUME CallsInv, TypeInv, [Next]_vars PROVE CallsInv'
  OBVIOUS
<1>1. CASE Next
  BY <1>1, RunStepKeepsCalls, HandlerKeepsCalls, RestartKeepsCalls DEF Next
<1>2. CASE UNCHANGED vars
  <2>1. (\A s \in Runs : SameCalls(s)) /\ \A c \in Conv : RowIdle(c)
    BY <1>2 DEF vars, SameCalls, Alive, RowIdle, CallsInv, TargetIsDecided
  <2>2. HistoryKept
    BY <1>2 DEF vars, hist, HistoryKept
  <2> QED BY <2>1, <2>2, CallsStay
<1> QED BY <1>1, <1>2

LEMMA InitCalls == Init => CallsInv
<1> SUFFICES ASSUME Init PROVE CallsInv
  OBVIOUS
<1>1. /\ \A r \in Runs : ~Alive(r)
      /\ \A c \in Conv : row[c].status # "paused"
      /\ \A k \in Calls : ran[k] = <<>> /\ verdict[k] = None /\ Len(ran[k]) = 0
  BY DEF Init, Idle, NoRow, Alive
<1>2. WaitingIsFresh /\ QueuesAreDistinct /\ OneHolder /\ TargetIsDecided /\ DecidedIsTarget
  BY <1>1 DEF WaitingIsFresh, QueuesAreDistinct, OneHolder, TargetIsDecided, DecidedIsTarget,
              Holds, Keeps
<1>3. NotIssued /\ RunsOnce /\ WritesAreApproved /\ DeniedNeverRuns
  BY <1>1, ConstantsAssumption DEF NotIssued, RunsOnce, WritesAreApproved, DeniedNeverRuns
<1> QED BY <1>2, <1>3 DEF CallsInv

LEMMA CallsInvAlways == Spec => []CallsInv
BY InitCalls, StepKeepsCalls, TypeInvAlways, PTL DEF Spec

(* No tool call is executed twice: not by a double approval, not by a queue  *)
(* that is paused and resumed any number of times, not after a restart.      *)
THEOREM NoCallRunsTwice == Spec => []RunsOnce
<1>1. CallsInv => RunsOnce
  BY DEF CallsInv
<1> QED BY <1>1, CallsInvAlways, PTL

(* A call that requires approval runs only after this very call was          *)
(* approved, or because the approval mode let it through at its turn.        *)
THEOREM NothingRunsUnapproved == Spec => []WritesAreApproved
<1>1. CallsInv => WritesAreApproved
  BY DEF CallsInv
<1> QED BY <1>1, CallsInvAlways, PTL

(* A refused call never runs, however the approval mode changes between the  *)
(* refusal and the resumed run.                                              *)
THEOREM RefusedIsFinal == Spec => []DeniedNeverRuns
<1>1. CallsInv => DeniedNeverRuns
  BY DEF CallsInv
<1> QED BY <1>1, CallsInvAlways, PTL

-----------------------------------------------------------------------------
(* On which cluster a call runs.  The inductive invariant has two layers:    *)
(* busy conversations are on the bound cluster, because a rebind ends what   *)
(* is busy unless it leaves the cluster alone or takes itself for a replay,  *)
(* and then missed holds what is busy; and so a decided call waits in a run  *)
(* on the cluster it was decided for.                                        *)
BusyNeedsProject == proj = None => \A c \in Conv : row[c].status \notin Busy
BoundInv == BusyNeedsProject /\ BusyOnBoundCluster

TargetCluster ==
  \A r \in Runs : Alive(r) /\ run[r].target # None /\ ~verdict[run[r].target].missed =>
    run[r].cluster = verdict[run[r].target].cluster
ClusterInv == TargetCluster /\ ApprovedClusterOnly

(* A run that gains neither a conversation nor a call, a row that gains no   *)
(* approval but one for the bound cluster, unless it is among the missed.    *)
SameSeat(s) ==
  Alive(s)' => /\ Alive(s) /\ run'[s].conv = run[s].conv /\ run'[s].epoch = run[s].epoch
               /\ run'[s].cluster = run[s].cluster
               /\ run'[s].target # None => run'[s].target = run[s].target
RowBound(c) ==
  row'[c].status \in Busy =>
    /\ row[c].status \in Busy
    /\ \/ row'[c].pending \in {None, row[c].pending}
       \/ row'[c].pending.cluster = proj
       \/ c \in missed

LEMMA SeatsStay ==
  ASSUME RunsInv, TypeInv, \A s \in Runs : SameSeat(s),
         \A c \in Conv : epoch'[c] \in Nat /\ epoch'[c] >= epoch[c]
  PROVE  \A s \in Runs, c \in Conv : Current(s, c)' => Current(s, c)
<1> SUFFICES ASSUME NEW s \in Runs, NEW c \in Conv, Current(s, c)' PROVE Current(s, c)
  OBVIOUS
<1>1. Alive(s) /\ run[s].conv = c /\ run[s].epoch = epoch'[c]
  BY DEF Current, SameSeat
<1>2. run[s].epoch <= epoch[c] /\ run[s].epoch \in Nat /\ epoch[c] \in Nat
  BY <1>1, RunFacts DEF RunsInv, EpochsGrow
<1> QED BY <1>1, <1>2 DEF Current

LEMMA BoundStays ==
  ASSUME BoundInv, UNCHANGED proj, missed \subseteq missed', \A s \in Runs : SameSeat(s),
         \A s \in Runs, c \in Conv : Current(s, c)' => Current(s, c),
         \A c \in Conv : RowBound(c)
  PROVE  BoundInv'
<1>1. BusyNeedsProject'
  BY DEF BoundInv, BusyNeedsProject, RowBound
<1>2. BusyOnBoundCluster'
  <2> SUFFICES ASSUME NEW c \in Conv \ missed', row'[c].status \in Busy
               PROVE  /\ \A r \in Runs : Current(r, c)' => run'[r].cluster = proj
                      /\ row'[c].pending # None => row'[c].pending.cluster = proj
    BY DEF BusyOnBoundCluster
  <2>1. row[c].status \in Busy /\ c \in Conv \ missed
    BY DEF RowBound
  <2>2. ASSUME NEW r \in Runs, Current(r, c)' PROVE run'[r].cluster = proj
    <3>1. run'[r].cluster = run[r].cluster
      BY <2>2 DEF SameSeat, Current
    <3> QED BY <2>1, <2>2, <3>1 DEF BoundInv, BusyOnBoundCluster
  <2>3. row'[c].pending # None => row'[c].pending.cluster = proj
    BY <2>1 DEF RowBound, BoundInv, BusyOnBoundCluster
  <2> QED BY <2>2, <2>3
<1> QED BY <1>1, <1>2 DEF BoundInv

LEMMA ClusterStays ==
  ASSUME ClusterInv, UNCHANGED <<verdict, ran>>, \A s \in Runs : SameSeat(s)
  PROVE  ClusterInv'
BY DEF ClusterInv, TargetCluster, ApprovedClusterOnly, SameSeat

-----------------------------------------------------------------------------
(* The steps of a run.                                                       *)
LEMMA RunKeepsSeat ==
  ASSUME TypeInv, NEW r \in Runs, Alive(r), NEW a,
         a.pc # "idle" => /\ a.conv = run[r].conv /\ a.epoch = run[r].epoch
                          /\ a.cluster = run[r].cluster
                          /\ a.target # None => a.target = run[r].target,
         run' = [run EXCEPT ![r] = a]
  PROVE  \A s \in Runs : SameSeat(s)
<1>1. run'[r] = a /\ \A s \in Runs \ {r} : run'[s] = run[s]
  BY CallFacts
<1> QED BY <1>1 DEF SameSeat, Alive

LEMMA EventKeepsSeat ==
  ASSUME TypeInv, NEW r \in Runs, Alive(r), NEW after, NEW x,
         after.conv = run[r].conv, after.epoch = run[r].epoch,
         after.cluster = run[r].cluster, after.target # None => after.target = run[r].target,
         x.status = row[run[r].conv].status, x.pending = row[run[r].conv].pending,
         OnStep(r, after, x)
  PROVE  (\A s \in Runs : SameSeat(s)) /\ \A c \in Conv : RowBound(c)
<1>1. run[r] \in RunRecord /\ run[r].conv \in Conv
  BY CallFacts
<1> DEFINE a == IF row[run[r].conv].status \notin Stored /\ ~IsSuperseded(r)
                  THEN [run[r] EXCEPT !.pc = "throw"] ELSE after
<1>2. run' = [run EXCEPT ![r] = a]
  BY CallFacts DEF OnStep
<1>3. /\ a.conv = run[r].conv /\ a.epoch = run[r].epoch /\ a.cluster = run[r].cluster
      /\ a.target # None => a.target = run[r].target
  BY <1>1 DEF RunRecord
<1> HIDE DEF a
<1>4. \A s \in Runs : SameSeat(s)
  BY <1>2, <1>3, RunKeepsSeat
<1>5. \A c \in Conv : RowBound(c)
  BY <1>1, CallFacts DEF OnStep, RowBound
<1> QED BY <1>4, <1>5

LEMMA RoundKeepsSeat ==
  ASSUME TypeInv, NEW r \in Runs, Alive(r), NEW next, NEW queue, NEW result,
         EndRound(r, next, queue, result)
  PROVE  (\A s \in Runs : SameSeat(s)) /\ \A c \in Conv : RowBound(c)
<1> DEFINE c == run[r].conv
           keep == IsSuperseded(r) \/ DbCancelled(c)
           partial == keep /\ run[r].partial
           content == IF DbCancelled(c) THEN row[c].content ELSE 0
           b == [run[r] EXCEPT !.pc = next, !.queue = queue, !.result = result,
                               !.target = None, !.partial = partial]
           x == [row[c] EXCEPT !.trace = run[r].gen, !.content = content]
<1>1. OnStep(r, b, x)
  BY DEF EndRound
<1>2. run[r] \in RunRecord /\ row[c] \in Row
  BY CallFacts
<1> HIDE DEF partial, content
<1>3. /\ b.conv = c /\ b.epoch = run[r].epoch /\ b.cluster = run[r].cluster /\ b.target = None
      /\ x.status = row[c].status /\ x.pending = row[c].pending
  BY <1>2 DEF RunRecord, Row
<1> HIDE DEF b, x
<1> QED BY <1>1, <1>3, EventKeepsSeat

LEMMA RunStepKeepsSeat ==
  ASSUME TypeInv, RunsInv, BoundInv, NEW r \in Runs, RunStep(r)
  PROVE  (\A s \in Runs : SameSeat(s)) /\ \A c \in Conv : RowBound(c)
<1> DEFINE a == run[r]
           c == run[r].conv
<1>0. /\ a \in RunRecord /\ run \in [Runs -> RunRecord] /\ row \in [Conv -> Row]
      /\ Alive(r) => c \in Conv /\ row[c] \in Row
  BY CallFacts
<1>a. ASSUME UNCHANGED row PROVE \A d \in Conv : RowBound(d)
  BY <1>a DEF RowBound
<1>1. CASE GatePause(r)
  <2> DEFINE b == [a EXCEPT !.pc = "return", !.result = "pending"]
  <2>1. Alive(r) /\ run' = [run EXCEPT ![r] = b] /\ UNCHANGED row
    BY <1>0, <1>1 DEF GatePause, Alive
  <2>2. b.conv = c /\ b.epoch = a.epoch /\ b.cluster = a.cluster /\ b.target = a.target
    BY <1>0 DEF RunRecord
  <2> HIDE DEF b
  <2> QED BY <1>a, <2>1, <2>2, RunKeepsSeat
<1>2. CASE ExecTool(r)
  <2> DEFINE late == IF Stopped(r) THEN a.late + 1 ELSE a.late
             b == [a EXCEPT !.pc = "exec", !.queue = Tail(a.queue), !.target = None,
                            !.late = late]
  <2>1. Alive(r) /\ run' = [run EXCEPT ![r] = b] /\ UNCHANGED row
    BY <1>0, <1>2 DEF ExecTool, Alive
  <2> HIDE DEF late
  <2>2. b.conv = c /\ b.epoch = a.epoch /\ b.cluster = a.cluster /\ b.target = None
    BY <1>0 DEF RunRecord
  <2> HIDE DEF b
  <2> QED BY <1>a, <2>1, <2>2, RunKeepsSeat
<1>3. CASE ToolDone(r)
  <2> DEFINE b == [a EXCEPT !.pc = AfterCheck(r, a.queue)]
             x == [row[c] EXCEPT !.trace = a.gen]
  <2>1. Alive(r) /\ OnStep(r, b, x)
    BY <1>3 DEF ToolDone, Alive
  <2>2. /\ b.conv = c /\ b.epoch = a.epoch /\ b.cluster = a.cluster /\ b.target = a.target
        /\ x.status = row[c].status /\ x.pending = row[c].pending
    BY <1>0, <2>1 DEF RunRecord, Row
  <2> HIDE DEF b, x
  <2> QED BY <2>1, <2>2, EventKeepsSeat
<1>4. CASE SkipTool(r)
  <2> DEFINE queue == Tail(a.queue)
             b == [a EXCEPT !.pc = AfterCheck(r, queue), !.queue = queue, !.target = None]
             x == [row[c] EXCEPT !.trace = a.gen]
  <2>1. Alive(r) /\ OnStep(r, b, x)
    BY <1>4 DEF SkipTool, Alive
  <2> HIDE DEF queue
  <2>2. /\ b.conv = c /\ b.epoch = a.epoch /\ b.cluster = a.cluster /\ b.target = None
        /\ x.status = row[c].status /\ x.pending = row[c].pending
    BY <1>0, <2>1 DEF RunRecord, Row
  <2> HIDE DEF b, x
  <2> QED BY <2>1, <2>2, EventKeepsSeat
<1>5. CASE ChatStart(r) \/ ChatError(r)
  <2>1. PICK pc : Goto(r, pc)
    BY <1>5 DEF ChatStart, ChatError
  <2> DEFINE b == [a EXCEPT !.pc = pc]
  <2>2. Alive(r) /\ run' = [run EXCEPT ![r] = b] /\ UNCHANGED row
    BY <1>0, <1>5, <2>1 DEF ChatStart, ChatError, Goto, Alive
  <2>3. b.conv = c /\ b.epoch = a.epoch /\ b.cluster = a.cluster /\ b.target = a.target
    BY <1>0 DEF RunRecord
  <2> HIDE DEF b
  <2> QED BY <1>a, <2>2, <2>3, RunKeepsSeat
<1>6. CASE ChatTools(r) \/ ChatFinal(r)
  <2>1. PICK next, queue, result : EndRound(r, next, queue, result)
    BY <1>6 DEF ChatTools, ChatFinal
  <2> QED BY <1>6, <2>1, RoundKeepsSeat DEF ChatTools, ChatFinal, Alive
<1>7. CASE \E flush \in BOOLEAN : Delta(r, flush)
  <2> DEFINE b == [a EXCEPT !.partial = TRUE]
  <2>1. PICK flush \in BOOLEAN : Delta(r, flush)
    BY <1>7
  <2>2. Alive(r) /\ run' = [run EXCEPT ![r] = b]
    BY <1>0, <2>1 DEF Delta, Alive
  <2>3. \A d \in Conv : RowBound(d)
    BY <1>0, <2>1 DEF Delta, Row, RowBound
  <2>4. b.conv = c /\ b.epoch = a.epoch /\ b.cluster = a.cluster /\ b.target = a.target
    BY <1>0 DEF RunRecord
  <2> HIDE DEF b
  <2> QED BY <2>2, <2>3, <2>4, RunKeepsSeat
<1>8. ASSUME Return(r) \/ Catch(r) PROVE Alive(r) /\ \A s \in Runs : SameSeat(s)
  <2>1. Alive(r) /\ run' = [run EXCEPT ![r] = Idle] /\ Idle.pc = "idle"
    BY <1>8 DEF Return, Catch, Exit, Alive, Idle
  <2> QED BY <2>1, RunKeepsSeat
(* The approval a run leaves is for its own cluster.                         *)
<1>9. CASE Return(r)
  <2> DEFINE x == KeepPartial(row[c], a.partial)
             y == HandleAgentResult(r)
  <2>1. /\ row' = row \/ row' = [row EXCEPT ![c] = x]
           \/ (row' = [row EXCEPT ![c] = y] /\ ~IsSuperseded(r) /\ row[c].status \in Stored
               /\ ~DbCancelled(c))
        /\ c \in Conv /\ Alive(r) /\ a.partial \in BOOLEAN
    BY <1>0, <1>8, <1>9 DEF Return, RunRecord
  <2>2. CASE row' = row
    BY <1>8, <1>9, <1>a, <2>2
  <2>3. CASE row' = [row EXCEPT ![c] = x]
    <3>1. x.status = row[c].status /\ x.pending = row[c].pending
      BY <1>0, <2>1, KeepPartialOK
    <3> QED BY <1>0, <1>8, <1>9, <2>1, <2>3, <3>1 DEF RowBound
  <2>4. CASE row' = [row EXCEPT ![c] = y] /\ ~IsSuperseded(r) /\ row[c].status \in Stored
             /\ ~DbCancelled(c)
    <3>1. Entitled(r) /\ Current(r, c)
      BY <2>1, <2>4 DEF Entitled, Current, IsSuperseded
    <3>2. row[c].status = "running"
      BY <2>4, <3>1 DEF RunsInv, QuietIsFree, Quiet, Stored, Busy, Ended, DbCancelled
    <3>3. a.cluster = proj \/ c \in missed
      BY <2>1, <3>1, <3>2 DEF BoundInv, BusyOnBoundCluster, Busy
    <3>4. y.status \in Busy => y.pending.cluster = a.cluster
      <4>1. CASE a.result = "pending"
        BY <1>0, <2>1, <4>1 DEF HandleAgentResult, Row
      <4>2. CASE a.result # "pending"
        <5>1. AppendAnswer(row[c]) \in Row
          BY <1>0, <2>1, AppendAnswerOK
        <5> QED BY <4>2, <5>1 DEF HandleAgentResult, Row, Busy
      <4> QED BY <4>1, <4>2
    <3> HIDE DEF y
    <3>5. \A d \in Conv : RowBound(d)
      BY <1>0, <2>1, <2>4, <3>2, <3>3, <3>4 DEF RowBound, Busy
    <3> QED BY <1>8, <1>9, <3>5
  <2> QED BY <2>1, <2>2, <2>3, <2>4
<1>10. CASE Catch(r)
  <2> DEFINE x == KeepPartial(row[c], a.partial)
             mine == IF a.partial THEN a.gen ELSE 0
             content == IF x = row[c] THEN x.content ELSE mine
             y == [x EXCEPT !.status = "failed", !.content = content]
  <2>1. /\ row' = row \/ row' = [row EXCEPT ![c] = x] \/ row' = [row EXCEPT ![c] = y]
        /\ c \in Conv /\ Alive(r) /\ a.partial \in BOOLEAN
    BY <1>0, <1>8, <1>10 DEF Catch, RunRecord
  <2>2. x \in Row /\ x.status = row[c].status /\ x.pending = row[c].pending
    BY <1>0, <2>1, KeepPartialOK
  <2> HIDE DEF x, content
  <2>3. y.status = "failed"
    BY <2>2 DEF Row
  <2> HIDE DEF y
  <2>4. \A d \in Conv : RowBound(d)
    BY <1>0, <2>1, <2>2, <2>3 DEF RowBound, Busy
  <2> QED BY <1>8, <1>10, <2>4
<1> QED
  BY <1>1, <1>2, <1>3, <1>4, <1>5, <1>6, <1>7, <1>9, <1>10 DEF RunStep, Progress

LEMMA RunStepKeepsBound ==
  ASSUME TypeInv, RunsInv, BoundInv, NEW r \in Runs, RunStep(r)
  PROVE  BoundInv'
<1>1. UNCHANGED <<proj, missed, epoch>>
  BY DEF RunStep, Progress, GatePause, ExecTool, ToolDone, SkipTool, ChatStart, ChatTools,
         ChatFinal, ChatError, Delta, Return, Catch
<1>2. (\A s \in Runs : SameSeat(s)) /\ \A c \in Conv : RowBound(c)
  BY RunStepKeepsSeat
<1>3. \A c \in Conv : epoch'[c] \in Nat /\ epoch'[c] >= epoch[c]
  BY <1>1 DEF TypeInv, RestOK
<1>4. \A s \in Runs, c \in Conv : Current(s, c)' => Current(s, c)
  BY <1>2, <1>3, SeatsStay
<1> QED BY <1>1, <1>2, <1>4, BoundStays

LEMMA RunStepKeepsCluster ==
  ASSUME TypeInv, RunsInv, CallsInv, BoundInv, ClusterInv, NEW r \in Runs, RunStep(r)
  PROVE  ClusterInv'
<1>1. \A s \in Runs : SameSeat(s)
  BY RunStepKeepsSeat
<1>2. CASE UNCHANGED <<verdict, ran>>
  BY <1>1, <1>2, ClusterStays
<1>3. CASE ExecTool(r)
  <2> DEFINE a == run[r]
             k0 == Head(a.queue)
  <2>1. /\ a.pc = "gate" /\ MayExec(r) /\ Alive(r) /\ a.queue # <<>>
        /\ ran' = [ran EXCEPT ![k0] = Append(ran[k0], a.cluster)]
        /\ UNCHANGED verdict
    BY <1>3 DEF ExecTool, Alive, TypeInv, RunsOK, RunOK, HistoryOK
  <2>2. k0 \in Calls /\ In(k0, a.queue) /\ a.cluster \in Cluster
    BY <2>1, CallFacts, QueueTail DEF CallsInv, QueuesAreDistinct
  <2>3. Holds(r, k0) /\ ran[k0] = <<>>
    BY <2>1, <2>2 DEF Holds, CallsInv, WaitingIsFresh
  <2>4. /\ \A k \in Calls \ {k0} : ran'[k] = ran[k]
        /\ ran'[k0] = Append(<<>>, a.cluster)
    BY <2>1, <2>2, <2>3, CallFacts
  <2>5. \A i \in DOMAIN ran'[k0] : ran'[k0][i] = a.cluster
    <3> HIDE DEF k0
    <3> QED BY <2>2, <2>4
  <2>6. verdict[k0] # None /\ ~verdict[k0].missed => a.cluster = verdict[k0].cluster
    BY <2>1, <2>2, <2>3, ConstantsAssumption
    DEF CallsInv, DecidedIsTarget, ClusterInv, TargetCluster
  <2> HIDE DEF k0
  <2>7. ApprovedClusterOnly'
    BY <2>1, <2>2, <2>4, <2>5, <2>6 DEF ClusterInv, ApprovedClusterOnly
  <2>8. TargetCluster'
    BY <1>1, <2>1 DEF ClusterInv, TargetCluster, SameSeat
  <2> QED BY <2>7, <2>8 DEF ClusterInv
<1> QED
  BY <1>2, <1>3
  DEF RunStep, Progress, GatePause, ToolDone, SkipTool, ChatStart, ChatTools, ChatFinal,
      ChatError, Delta, Return, Catch, hist

-----------------------------------------------------------------------------
(* The handlers that launch a run: it works on the cluster of the project,   *)
(* which is also the one a waiting approval is for.                          *)
LEMMA LaunchIsBound ==
  ASSUME TypeInv, RunsInv, BoundInv, NEW r \in Runs, NEW c \in Conv, NEW x \in Row,
         x.status = "running", x.pending = None, NEW queue, NEW target, NEW ok,
         Launch(r, c, x, queue, target, ok), UNCHANGED proj, missed \subseteq missed' \cup {c}
  PROVE  BoundInv'
<1>0. row \in [Conv -> Row] /\ run \in [Runs -> RunRecord] /\ epoch \in [Conv -> Nat]
      /\ run[r].pc = "idle" /\ epoch' = [epoch EXCEPT ![c] = epoch[c] + 1]
  BY CallFacts DEF Launch, TypeInv, RestOK
<1>2. CASE proj = None
  <2> DEFINE y == [x EXCEPT !.status = "failed"]
  <2>1. row' = [row EXCEPT ![c] = y] /\ UNCHANGED run
    BY <1>2 DEF Launch
  <2>2. y.status = "failed"
    BY DEF Row
  <2> HIDE DEF y
  <2>3. \A d \in Conv : row'[d].status \notin Busy
    BY <1>0, <1>2, <2>1, <2>2 DEF BoundInv, BusyNeedsProject, Busy
  <2> QED BY <2>3 DEF BoundInv, BusyNeedsProject, BusyOnBoundCluster
<1>3. CASE proj # None
  <2> DEFINE a == [pc |-> IF queue # <<>> THEN "gate" ELSE "refresh",
                   conv |-> c, epoch |-> epoch[c] + 1,
                   gen |-> x.gen, cluster |-> proj, queue |-> queue,
                   target |-> target, ok |-> ok, partial |-> x.content # 0,
                   aborted |-> FALSE, late |-> 0, result |-> "none"]
  <2>1. row' = [row EXCEPT ![c] = x] /\ run' = [run EXCEPT ![r] = a]
    BY <1>3 DEF Launch
  <2>2. a.conv = c /\ a.cluster = proj
    OBVIOUS
  <2> HIDE DEF a
  <2>3. BusyNeedsProject'
    BY <1>3 DEF BusyNeedsProject
  <2>4. ASSUME NEW s \in Runs, NEW d \in Conv \ missed', Current(s, d)',
               row'[d].status \in Busy
        PROVE  run'[s].cluster = proj
    <3>1. CASE s = r
      BY <1>0, <2>1, <2>2, <3>1
    <3>2. CASE s # r
      <4>1. run'[s] = run[s] /\ Alive(s) /\ run[s].conv = d /\ run[s].epoch = epoch'[d]
        BY <1>0, <2>1, <2>4, <3>2 DEF Current, Alive
      <4>2. run[s].epoch <= epoch[d] /\ run[s].epoch \in Nat /\ epoch[d] \in Nat
        BY <4>1, RunFacts DEF RunsInv, EpochsGrow
      <4>3. d # c
        BY <1>0, <4>1, <4>2
      <4>4. epoch'[d] = epoch[d] /\ row'[d] = row[d]
        BY <1>0, <2>1, <4>3
      <4>5. Current(s, d) /\ row[d].status \in Busy /\ d \in Conv \ missed
        BY <2>4, <4>1, <4>3, <4>4 DEF Current
      <4> QED BY <4>1, <4>5 DEF BoundInv, BusyOnBoundCluster
    <3> QED BY <3>1, <3>2
  <2>5. ASSUME NEW d \in Conv \ missed', row'[d].status \in Busy, row'[d].pending # None
        PROVE  row'[d].pending.cluster = proj
    <3>1. d # c /\ row'[d] = row[d] /\ d \in Conv \ missed
      BY <1>0, <2>1, <2>5
    <3> QED BY <2>5, <3>1 DEF BoundInv, BusyOnBoundCluster
  <2>6. BusyOnBoundCluster'
    BY <2>4, <2>5 DEF BusyOnBoundCluster
  <2> QED BY <2>3, <2>6 DEF BoundInv
<1> QED BY <1>2, <1>3

(* What Launch does to the runs other than the one it starts.                *)
LEMMA LaunchTargets ==
  ASSUME TypeInv, NEW r \in Runs, NEW c \in Conv, NEW x, NEW queue, NEW target, NEW ok,
         Launch(r, c, x, queue, target, ok)
  PROVE  /\ \A s \in Runs \ {r} : run'[s] = run[s]
         /\ Alive(r)' => run'[r].target = target /\ run'[r].cluster = proj
<1>1. run \in [Runs -> RunRecord] /\ run[r].pc = "idle"
  BY CallFacts DEF Launch
<1>2. CASE UNCHANGED run
  BY <1>1, <1>2 DEF Alive
<1>3. CASE ~UNCHANGED run
  <2> DEFINE a == [pc |-> IF queue # <<>> THEN "gate" ELSE "refresh",
                   conv |-> c, epoch |-> epoch[c] + 1,
                   gen |-> x.gen, cluster |-> proj, queue |-> queue,
                   target |-> target, ok |-> ok, partial |-> x.content # 0,
                   aborted |-> FALSE, late |-> 0, result |-> "none"]
  <2>1. run' = [run EXCEPT ![r] = a]
    BY <1>3 DEF Launch
  <2>2. a.target = target /\ a.cluster = proj
    OBVIOUS
  <2> HIDE DEF a
  <2> QED BY <1>1, <2>1, <2>2
<1> QED BY <1>2, <1>3

LEMMA NewTurnKeepsCluster ==
  ASSUME TypeInv, ClusterInv, NEW r \in Runs, NEW c \in Conv, NEW x, NEW queue, NEW ok,
         Launch(r, c, x, queue, None, ok), UNCHANGED hist
  PROVE  ClusterInv'
<1>1. \A s \in Runs : Alive(s)' /\ run'[s].target # None => run'[s] = run[s] /\ Alive(s)
  BY LaunchTargets DEF Alive
<1> QED BY <1>1 DEF ClusterInv, TargetCluster, ApprovedClusterOnly, hist

(* The call a paused conversation waits for has not run, and no run acts on  *)
(* a decision about it.                                                      *)
LEMMA WaitingIsUndecided ==
  ASSUME CallsInv, TypeInv, NEW c \in Conv, row[c].status = "paused"
  PROVE  /\ row[c].pending \in Pending /\ row[c].pending.call \in Calls
         /\ ran[row[c].pending.call] = <<>>
         /\ \A s \in Runs : Alive(s) => run[s].target # row[c].pending.call
<1>1. /\ row[c].pending \in Pending /\ row[c].saved \in Seq(Calls) /\ row[c].saved # <<>>
      /\ row[c].pending.call = Head(row[c].saved)
  BY CallFacts DEF TypeInv, RowsOK, RowOK, Resumable, Row
<1>2. PICK k0 \in Calls : k0 = row[c].pending.call
  BY <1>1 DEF Pending
<1>3. Distinct(row[c].saved)
  BY DEF CallsInv, QueuesAreDistinct
<1>4. In(k0, row[c].saved)
  BY <1>1, <1>2, <1>3, QueueTail
<1>5. ran[k0] = <<>> /\ \A s \in Runs : ~Holds(s, k0)
  BY <1>4 DEF Keeps, CallsInv, WaitingIsFresh, OneHolder
<1>6. ASSUME NEW s \in Runs, Alive(s), run[s].target = k0 PROVE FALSE
  <2>1. /\ run[s].queue \in Seq(Calls) /\ run[s].queue # <<>> /\ Distinct(run[s].queue)
        /\ Head(run[s].queue) = k0
    BY <1>6, CallFacts, ConstantsAssumption DEF CallsInv, TargetIsDecided, QueuesAreDistinct
  <2>2. In(k0, run[s].queue)
    BY <2>1, QueueTail
  <2> QED BY <1>5, <1>6, <2>2 DEF Holds
<1> QED BY <1>1, <1>2, <1>5, <1>6

(* A decision about a call that has not run, for the cluster of whoever is   *)
(* to run it.                                                                *)
LEMMA DecisionKeepsCluster ==
  ASSUME TypeInv, CallsInv, ClusterInv, NEW k0 \in Calls, NEW v, ran[k0] = <<>>, UNCHANGED ran,
         verdict' = [verdict EXCEPT ![k0] = v],
         \A s \in Runs : Alive(s)' /\ run'[s].target # None =>
           \/ Alive(s) /\ run'[s] = run[s] /\ run[s].target # k0
           \/ run'[s].target = k0 /\ (~v.missed => run'[s].cluster = v.cluster)
  PROVE  ClusterInv'
<1>1. verdict'[k0] = v /\ \A k \in Calls \ {k0} : verdict'[k] = verdict[k]
  BY CallFacts
<1>2. TargetCluster'
  <2> SUFFICES ASSUME NEW s \in Runs, Alive(s)', run'[s].target # None,
                      ~verdict'[run'[s].target].missed
               PROVE  run'[s].cluster = verdict'[run'[s].target].cluster
    BY DEF TargetCluster
  <2>1. CASE Alive(s) /\ run'[s] = run[s] /\ run[s].target # k0
    <3>1. run[s].target \in Calls /\ run[s].target # None
      BY <2>1, CallFacts
    <3> QED BY <1>1, <2>1, <3>1 DEF ClusterInv, TargetCluster
  <2>2. CASE run'[s].target = k0 /\ (~v.missed => run'[s].cluster = v.cluster)
    BY <1>1, <2>2
  <2> QED BY <2>1, <2>2
<1>3. ApprovedClusterOnly'
  BY <1>1 DEF ClusterInv, ApprovedClusterOnly
<1> QED BY <1>2, <1>3 DEF ClusterInv

LEMMA ResumeIsBound ==
  ASSUME TypeInv, RunsInv, CallsInv, BoundInv, ClusterInv, NEW r \in Runs, NEW c \in Conv,
         NEW ok, NEW shown, Resume(c, r, ok, shown), UNCHANGED <<proj, missed, ran>>
  PROVE  BoundInv' /\ ClusterInv'
<1> DEFINE x == Claimed(row[c])
           v == [ok |-> ok, cluster |-> row[c].pending.cluster, shown |-> shown,
                 missed |-> c \in missed]
<1>1. /\ row[c].status = "paused" /\ row[c] \in Row
      /\ Launch(r, c, x, row[c].saved, row[c].pending.call, ok)
      /\ verdict' = [verdict EXCEPT ![row[c].pending.call] = v]
  BY CallFacts DEF Resume
<1>2. x.status = "running" /\ x.pending = None /\ x \in Row
  BY <1>1 DEF Claimed, Row, Status, Busy
<1>3. /\ row[c].pending \in Pending /\ row[c].pending.call \in Calls
      /\ ran[row[c].pending.call] = <<>>
      /\ \A s \in Runs : Alive(s) => run[s].target # row[c].pending.call
  BY <1>1, WaitingIsUndecided
<1>4. row[c].pending # None /\ (~v.missed => v.cluster = proj)
  <2>1. row[c].pending # None
    BY <1>3, ConstantsAssumption
  <2> QED BY <1>1, <2>1 DEF BoundInv, BusyOnBoundCluster, Busy
<1> HIDE DEF x, v
<1>5. BoundInv'
  BY <1>1, <1>2, LaunchIsBound
<1>6. PICK k0 \in Calls : k0 = row[c].pending.call
  BY <1>3
<1>7. ran[k0] = <<>> /\ UNCHANGED ran /\ verdict' = [verdict EXCEPT ![k0] = v]
  BY <1>1, <1>3, <1>6
<1>8. \A s \in Runs : Alive(s)' /\ run'[s].target # None =>
        \/ Alive(s) /\ run'[s] = run[s] /\ run[s].target # k0
        \/ run'[s].target = k0 /\ (~v.missed => run'[s].cluster = v.cluster)
  BY <1>1, <1>3, <1>4, <1>6, LaunchTargets DEF Alive
<1>9. ClusterInv'
  BY <1>7, <1>8, DecisionKeepsCluster
<1> QED BY <1>5, <1>9

-----------------------------------------------------------------------------
(* The other handlers.                                                       *)
LEMMA AbortKeepsSeat ==
  ASSUME TypeInv, NEW cs, Abort(cs)
  PROVE  \A s \in Runs : SameSeat(s)
<1> SUFFICES ASSUME NEW s \in Runs PROVE SameSeat(s)
  OBVIOUS
<1>1. run'[s] = run[s] \/ run'[s] = [run[s] EXCEPT !.aborted = TRUE]
  BY DEF Abort
<1>2. run[s] \in RunRecord
  BY CallFacts
<1>3. /\ run'[s].pc = run[s].pc /\ run'[s].conv = run[s].conv /\ run'[s].epoch = run[s].epoch
      /\ run'[s].cluster = run[s].cluster /\ run'[s].target = run[s].target
  BY <1>1, <1>2 DEF RunRecord
<1> QED BY <1>3 DEF SameSeat, Alive

(* A rebind ends whatever is busy, does not change the cluster, or puts      *)
(* whatever is busy among the missed.                                        *)
LEMMA RebindKeepsBound ==
  ASSUME TypeInv, RunsInv, BoundInv, ClusterInv, NEW q \in Rebinders, CommitRebind(q)
  PROVE  BoundInv' /\ ClusterInv'
<1> DEFINE hit == RebindHits(q)
<1>1. /\ row' = [c \in Conv |-> IF c \in hit THEN EndRow(row[c], "failed") ELSE row[c]]
      /\ epoch' = EpochsBumped(hit) /\ Abort(hit)
      /\ proj' = IF proj = None THEN None ELSE rebinding[q].to
      /\ rebinding' = [rebinding EXCEPT ![q] = None] /\ UNCHANGED <<verdict, ran>>
      /\ missed' = IF TakenForReplay(q) THEN missed \cup BusyConvs ELSE missed
      /\ rebinding[q] # None
  BY DEF CommitRebind, hist
<1>2. \A s \in Runs : SameSeat(s)
  BY <1>1, AbortKeepsSeat
<1>3. \A c \in Conv : epoch'[c] \in Nat /\ epoch'[c] >= epoch[c]
  BY <1>1 DEF EpochsBumped, TypeInv, RestOK
<1>4. \A s \in Runs, c \in Conv : Current(s, c)' => Current(s, c)
  BY <1>2, <1>3, SeatsStay
<1>5. \A c \in Conv : RowBound(c)
  <2>1. \A c \in Conv : EndRow(row[c], "failed").status = "failed"
    BY CallFacts, EndRowOK DEF Ended
  <2> QED BY <1>1, <2>1 DEF RowBound, Busy
<1>6. missed \subseteq missed' /\ (proj # None => proj' \in Cluster)
  BY <1>1 DEF TypeInv, RequestsOK
<1>7. ClusterInv'
  BY <1>1, <1>2, ClusterStays
<1>8. CASE proj' = proj
  BY <1>2, <1>4, <1>5, <1>6, <1>7, <1>8, BoundStays
<1>9. CASE proj' # proj
  <2>1. proj # None /\ proj' = rebinding[q].to /\ proj' # None
    BY <1>1, <1>6, <1>9, ConstantsAssumption
  <2>2. CASE rebinding[q].to # rebinding[q].was
    <3>1. hit = BusyConvs
      BY <2>2 DEF RebindHits
    <3>2. \A c \in Conv : EndRow(row[c], "failed").status = "failed"
      BY CallFacts, EndRowOK DEF Ended
    <3>3. \A c \in Conv : row'[c].status \notin Busy
      BY <1>1, <3>1, <3>2 DEF BusyConvs, Busy
    <3> QED BY <1>7, <3>3 DEF BoundInv, BusyNeedsProject, BusyOnBoundCluster
  <2>3. CASE rebinding[q].to = rebinding[q].was
    <3>1. missed' = missed \cup BusyConvs
      BY <1>1, <1>9, <2>1, <2>3 DEF TakenForReplay
    <3>2. \A c \in Conv : row'[c].status \in Busy => c \in missed'
      BY <1>5, <3>1 DEF RowBound, BusyConvs
    <3> QED BY <1>7, <2>1, <3>2 DEF BoundInv, BusyNeedsProject, BusyOnBoundCluster
  <2> QED BY <2>2, <2>3
<1> QED BY <1>8, <1>9

LEMMA HandlerKeepsBound ==
  ASSUME TypeInv, RunsInv, CallsInv, BoundInv, ClusterInv, Handler
  PROVE  BoundInv' /\ ClusterInv'
<1>0. row \in [Conv -> Row] /\ epoch \in [Conv -> Nat]
  BY CallFacts DEF TypeInv, RestOK
<1>a. ASSUME UNCHANGED <<proj, missed, epoch, verdict, ran>>,
             \A s \in Runs : SameSeat(s), \A c \in Conv : RowBound(c)
      PROVE  BoundInv' /\ ClusterInv'
  <2>1. \A c \in Conv : epoch'[c] \in Nat /\ epoch'[c] >= epoch[c]
    BY <1>0, <1>a
  <2>2. \A s \in Runs, c \in Conv : Current(s, c)' => Current(s, c)
    BY <1>a, <2>1, SeatsStay
  <2> QED BY <1>a, <2>2, BoundStays, ClusterStays
<1>c. ASSUME UNCHANGED run PROVE \A s \in Runs : SameSeat(s)
  BY <1>c DEF SameSeat, Alive
<1>d. ASSUME UNCHANGED row PROVE \A c \in Conv : RowBound(c)
  BY <1>d DEF RowBound
<1>e. ASSUME NEW c \in Conv, NEW status \in Ended, row' = [row EXCEPT ![c] = EndRow(row[c], status)]
      PROVE  \A d \in Conv : RowBound(d)
  <2>1. EndRow(row[c], status).status \notin Busy
    BY <1>0, EndRowOK DEF Ended, Busy
  <2> QED BY <1>0, <1>e, <2>1 DEF RowBound
(* Nothing but the requests in flight or the mode changes.                   *)
<1>1. CASE UNCHANGED <<proj, missed, row, epoch, run, verdict, ran>>
  BY <1>1, <1>a, <1>c, <1>d
<1>2. ASSUME NEW q \in Senders, NEW r \in Runs, CommitSend(q, r)
      PROVE  BoundInv' /\ ClusterInv'
  <2> DEFINE c == sending[q].conv
             x == row[c]
  <2>1. sending[q] \in SendRequest
    BY <1>2 DEF CommitSend, TypeInv, RequestsOK
  <2>2. c \in Conv /\ sending[q].anchor \in Nat
    BY <2>1 DEF SendRequest
  <2>3. x \in Row /\ x.msgs \in Seq(Nat) /\ x.gen + 1 \in Nat
    <3>1. x \in Row
      BY <1>0, <2>2
    <3> HIDE DEF x
    <3> QED BY <3>1 DEF Row
  <2>4. PICK kept \in KeptRows(sending[q], x.msgs) :
          Launch(r, c, ResetRow(x, Append(kept, x.gen + 1)), <<>>, None, FALSE)
    BY <1>2 DEF CommitSend
  <2> DEFINE y == ResetRow(x, Append(kept, x.gen + 1))
  <2>5. Append(kept, x.gen + 1) \in Seq(Nat)
    BY <2>2, <2>3, <2>4, KeptOK, AppendProperties DEF KeptRows
  <2>6. y \in Row /\ y.status = "running" /\ y.pending = None
    <3>1. y \in Row /\ y.status = "running"
      BY <2>3, <2>5, ResetRowOK DEF RowOK
    <3>2. y.pending = None
      BY <2>3 DEF ResetRow, Row
    <3> QED BY <3>1, <3>2
  <2> HIDE DEF y
  <2>7. /\ UNCHANGED <<proj, hist>> /\ missed' = missed \ {c}
        /\ Launch(r, c, y, <<>>, None, FALSE)
    BY <1>2, <2>4 DEF CommitSend, y
  <2> QED BY <2>2, <2>6, <2>7, LaunchIsBound, NewTurnKeepsCluster
<1>3. ASSUME NEW c \in Conv, NEW r \in Runs, Regenerate(c, r)
      PROVE  BoundInv' /\ ClusterInv'
  <2>1. PICK kept \in UpToLastUser(row[c].msgs) :
          Launch(r, c, ResetRow(row[c], kept), <<>>, None, FALSE)
    BY <1>3 DEF Regenerate
  <2> DEFINE y == ResetRow(row[c], kept)
  <2>2. row[c] \in Row /\ kept \in Seq(Nat)
    BY <1>0, <2>1, KeptOK DEF Row
  <2>3. y \in Row /\ y.status = "running" /\ y.pending = None
    <3>1. y \in Row /\ y.status = "running"
      BY <2>2, ResetRowOK DEF RowOK
    <3>2. y.pending = None
      BY <2>2 DEF ResetRow, Row
    <3> QED BY <3>1, <3>2
  <2> HIDE DEF y
  <2>4. /\ UNCHANGED <<proj, hist>> /\ missed' = missed \ {c}
        /\ Launch(r, c, y, <<>>, None, FALSE)
    BY <1>3, <2>1 DEF Regenerate, y
  <2> QED BY <2>3, <2>4, LaunchIsBound, NewTurnKeepsCluster
<1>4. ASSUME NEW c \in Conv, NEW r \in Runs, Deny(c, r) PROVE BoundInv' /\ ClusterInv'
  <2>1. Resume(c, r, FALSE, row[c].pending.call) /\ UNCHANGED <<proj, missed, ran>>
    BY <1>4 DEF Deny
  <2> QED BY <2>1, ResumeIsBound
<1>5. ASSUME NEW q \in Approvers, NEW r \in Runs, CommitApprove(q, r)
      PROVE  BoundInv' /\ ClusterInv'
  <2>1. PICK c \in Conv : c = approving[q].conv
    BY <1>5 DEF CommitApprove, TypeInv, RequestsOK
  <2>2. Resume(c, r, TRUE, approving[q].shown) /\ UNCHANGED <<proj, missed, ran>>
    BY <1>5, <2>1 DEF CommitApprove
  <2> QED BY <2>2, ResumeIsBound
<1>6. ASSUME NEW c \in Conv, EndStaleApproval(c) PROVE BoundInv' /\ ClusterInv'
  BY <1>6, <1>a, <1>c, <1>e DEF EndStaleApproval, Ended, hist
<1>7. ASSUME NEW c \in Conv, DenyWithoutLlm(c) PROVE BoundInv' /\ ClusterInv'
  <2> DEFINE v == [ok |-> FALSE, cluster |-> row[c].pending.cluster,
                   shown |-> row[c].pending.call, missed |-> c \in missed]
  <2>1. /\ row[c].status = "paused" /\ row' = [row EXCEPT ![c] = EndRow(row[c], "failed")]
        /\ verdict' = [verdict EXCEPT ![row[c].pending.call] = v]
        /\ UNCHANGED <<proj, missed, epoch, run, ran>>
    BY <1>7 DEF DenyWithoutLlm
  <2> HIDE DEF v
  <2>2. PICK k0 \in Calls : k0 = row[c].pending.call
    BY <2>1, WaitingIsUndecided
  <2>3. ran[k0] = <<>> /\ \A s \in Runs : Alive(s) => run[s].target # k0
    BY <2>1, <2>2, WaitingIsUndecided
  <2>4. ClusterInv'
    <3>1. verdict' = [verdict EXCEPT ![k0] = v] /\ UNCHANGED ran
      BY <2>1, <2>2
    <3>2. \A s \in Runs : Alive(s)' /\ run'[s].target # None =>
            Alive(s) /\ run'[s] = run[s] /\ run[s].target # k0
      BY <2>1, <2>3 DEF Alive
    <3> QED BY <2>3, <3>1, <3>2, DecisionKeepsCluster
  <2>5. \A s \in Runs, d \in Conv : Current(s, d)' => Current(s, d)
    BY <2>1 DEF Current, Alive
  <2>6. \A d \in Conv : RowBound(d)
    BY <2>1, <1>e DEF Ended
  <2>7. BoundInv'
    BY <2>1, <2>5, <2>6, <1>c, BoundStays
  <2> QED BY <2>4, <2>7
<1>8. ASSUME NEW c \in Conv, Cancel(c) PROVE BoundInv' /\ ClusterInv'
  BY <1>8, <1>a, <1>e, AbortKeepsSeat DEF Cancel, Ended, hist
<1>9. ASSUME NEW c \in Conv, DeleteConversation(c) PROVE BoundInv' /\ ClusterInv'
  <2>1. \A d \in Conv : RowBound(d)
    BY <1>0, <1>9 DEF DeleteConversation, RowBound, NoRow, Busy
  <2> QED BY <1>9, <1>a, <2>1, AbortKeepsSeat DEF DeleteConversation, hist
<1>10. ASSUME DeleteProject PROVE BoundInv' /\ ClusterInv'
  <2>1. \A c \in Conv : row'[c].status \notin Busy
    BY <1>10 DEF DeleteProject, NoRow, Busy, Stored
  <2>2. proj' = None /\ UNCHANGED <<verdict, ran>> /\ Abort(BusyConvs)
    BY <1>10 DEF DeleteProject, hist
  <2>3. BoundInv'
    BY <2>1, <2>2 DEF BoundInv, BusyNeedsProject, BusyOnBoundCluster
  <2> QED BY <2>2, <2>3, AbortKeepsSeat, ClusterStays
<1>11. ASSUME NEW q \in Rebinders, NEW to \in Cluster, AcceptRebind(q, to)
       PROVE  BoundInv' /\ ClusterInv'
  BY <1>11, <1>a, <1>c, <1>d DEF AcceptRebind, hist
<1>12. ASSUME NEW q \in Rebinders, CommitRebind(q) PROVE BoundInv' /\ ClusterInv'
  BY <1>12, RebindKeepsBound
<1> QED
  BY <1>1, <1>2, <1>3, <1>4, <1>5, <1>6, <1>7, <1>8, <1>9, <1>10, <1>11, <1>12
  DEF Handler, AcceptCreate, AcceptMessage, AcceptEdit, Accept, RejectSend, AcceptApprove,
      RejectApprove, SetMode, hist

LEMMA RestartKeepsBound ==
  ASSUME TypeInv, BoundInv, ClusterInv, Restart
  PROVE  BoundInv' /\ ClusterInv'
<1>1. (\A s \in Runs : ~Alive(s)') /\ UNCHANGED <<proj, missed, verdict, ran>>
  BY DEF Restart, Alive, Idle, hist
<1>3. ASSUME NEW c \in Conv PROVE RowBound(c)
  <2> DEFINE x == KeepPartial(row[c], row[c].content # 0)
  <2>1. x \in Row
    BY KeepPartialOK DEF TypeInv, RowsOK
  <2>2. row'[c] = IF row[c].status = "running" THEN [x EXCEPT !.status = "failed"] ELSE row[c]
    BY DEF Restart
  <2> HIDE DEF x
  <2> QED BY <2>1, <2>2 DEF Row, RowBound, Busy
<1>4. \A s \in Runs, c \in Conv : ~Current(s, c)'
  BY <1>1 DEF Current
<1>5. \A s \in Runs : SameSeat(s)
  BY <1>1 DEF SameSeat
<1> QED BY <1>1, <1>3, <1>4, <1>5, BoundStays, ClusterStays

LEMMA StepKeepsBound ==
  BoundInv /\ ClusterInv /\ CallsInv /\ RunsInv /\ TypeInv /\ [Next]_vars
    => BoundInv' /\ ClusterInv'
<1> SUFFICES ASSUME BoundInv, ClusterInv, CallsInv, RunsInv, TypeInv, [Next]_vars
             PROVE  BoundInv' /\ ClusterInv'
  OBVIOUS
<1>1. CASE Next
  BY <1>1, RunStepKeepsBound, RunStepKeepsCluster, HandlerKeepsBound, RestartKeepsBound DEF Next
<1>2. CASE UNCHANGED vars
  <2>1. UNCHANGED <<proj, missed, row, epoch, run, verdict, ran>>
    BY <1>2 DEF vars, hist
  <2>2. \A s \in Runs : SameSeat(s) /\ \A c \in Conv : Current(s, c)' => Current(s, c)
    BY <2>1 DEF SameSeat, Current, Alive
  <2>3. \A c \in Conv : RowBound(c)
    BY <2>1 DEF RowBound
  <2> QED BY <2>1, <2>2, <2>3, BoundStays, ClusterStays
<1> QED BY <1>1, <1>2

LEMMA InitBound == Init => BoundInv /\ ClusterInv
<1> SUFFICES ASSUME Init PROVE BoundInv /\ ClusterInv
  OBVIOUS
<1>1. /\ \A r \in Runs : ~Alive(r)
      /\ \A c \in Conv : row[c].status \notin Busy
      /\ \A k \in Calls : verdict[k] = None
  BY DEF Init, Idle, NoRow, Alive, Busy
<1>2. BoundInv
  BY <1>1 DEF BoundInv, BusyNeedsProject, BusyOnBoundCluster
<1>3. ClusterInv
  BY <1>1 DEF ClusterInv, TargetCluster, ApprovedClusterOnly
<1> QED BY <1>2, <1>3

LEMMA BoundInvAlways == Spec => [](BoundInv /\ ClusterInv)
BY StepKeepsBound, InitBound, CallsInvAlways, RunsInvAlways, TypeInvAlways, PTL DEF Spec

(* However many PUT cluster overlap, nothing goes on with the cluster the    *)
(* project has left, not an entitled run, not an approval that waits, but    *)
(* in the turns that were busy when one of them took itself for a replay.    *)
THEOREM NothingOutlivesARebind == Spec => []BusyOnBoundCluster
<1>1. BoundInv => BusyOnBoundCluster
  BY DEF BoundInv
<1> QED BY <1>1, BoundInvAlways, PTL

(* An approved call runs on no other cluster than the one its approval was   *)
(* stamped with, unless it was decided in such a turn.                       *)
THEOREM ApprovalsKeepTheirCluster == Spec => []ApprovedClusterOnly
<1>1. ClusterInv => ApprovedClusterOnly
  BY DEF ClusterInv
<1> QED BY <1>1, BoundInvAlways, PTL
=============================================================================
