----------------------------- MODULE TurnRecord -----------------------------
(***************************************************************************)
(* What the message rows of one conversation keep of its turns, and which   *)
(* of them the model has been given: workbench_messages with the users'     *)
(* remarks (POST steer), the events a run appends to the conversation, the  *)
(* slice of them stored with an answer, and the watermark up to which a run *)
(* has read the remarks, through pauses, resumptions, cancellation, failure,*)
(* regenerate, edit, a change of cluster and a restart of the gateway.      *)
(* The gateway is one process and its database calls are synchronous, so    *)
(* what lies between two awaits is one step. A run that is superseded       *)
(* writes nothing any more (module Conversation); it leaves at once here.   *)
(***************************************************************************)
EXTENDS Integers, Sequences, FiniteSets

CONSTANTS
  StepCap,      \* rounds after which the model is asked for its answer
  MaxCalls,     \* tool calls one round may ask for
  SteerLimit,   \* remarks a turn takes (50 in the code)
  MaxTurns,     \* bound: turns started
  MaxRestarts,  \* bound: restarts of the gateway
  None

ASSUME RecordAssumption ==
  /\ StepCap \in Nat \ {0} /\ MaxCalls \in Nat /\ SteerLimit \in Nat
  /\ MaxTurns \in Nat /\ MaxRestarts \in Nat

VARIABLES
  rows,      \* workbench_messages by seq: kind, events stored, turn
  status,    \* workbench_conversations.status
  trace,     \* .trace: the events since the turn began
  fresh,     \* those of them younger than the last message row
  content,   \* .content: some text of the round is checkpointed
  saved,     \* .messages, .queue, .steps and .steerWatermark of a paused turn
  run,       \* the run in progress
  steer,     \* a remark whose references are being fetched
  turn, restarts,
  dropped    \* this turn's output was given up: its project changed cluster,
             \* or the gateway died under a cancelled run

vars == <<rows, status, trace, fresh, content, saved, run, steer, turn, restarts, dropped>>

Busy == {"running", "paused"}
User == {"ask", "steer"}
Event == [turn : 1..MaxTurns, n : Nat \ {0}, at : Nat]
Row == [kind : User \union {"answer"}, events : SUBSET Event, turn : 1..MaxTurns]
Run == [kind : {"run", "resume"}, pc : {"poll", "chat", "tool", "exec"},
        ctx : Seq(Nat), wm : Nat, own : SUBSET Event, partial : BOOLEAN,
        queue : 0..MaxCalls, verdict : {None, "approved", "denied"}, steps : Nat]
Saved == [ctx : Seq(Nat), wm : Nat, queue : 1..MaxCalls, steps : Nat]

ASSUME NoneAssumption == None \notin Run /\ None \notin Saved

(* createdAt of the new row is younger than every event there is.            *)
AddRow(rs, kind, events) == Append(rs, [kind |-> kind, events |-> events, turn |-> turn])

Init ==
  /\ rows = <<>> /\ status = "done" /\ trace = {} /\ fresh = {} /\ content = FALSE
  /\ saved = None /\ run = None /\ steer = FALSE /\ turn = 0 /\ restarts = 0 /\ dropped = FALSE

----------------------------------------------------------------------------
(* Turns begin.                                                             *)

(* What every new turn resets in the conversation's row.                     *)
ResetKeepingTrace == UNCHANGED trace /\ fresh' = {} /\ content' = FALSE    \* mutant
Reset == trace' = {} /\ fresh' = {} /\ content' = FALSE

(* runConversation on the rows kept: buildHistory gives the model all of     *)
(* them, in full or in the recap, and the watermark starts at the last.      *)
Begin(kept) ==
  /\ status \notin Busy /\ turn < MaxTurns
  /\ turn' = turn + 1
  /\ rows' = kept
  /\ status' = "running" /\ Reset
  /\ saved' = None /\ dropped' = FALSE
  /\ run' = [kind |-> "run", pc |-> "poll", ctx |-> [i \in 1..Len(kept) |-> 1], wm |-> Len(kept),
             own |-> {}, partial |-> FALSE, queue |-> 0, verdict |-> None, steps |-> 0]
  /\ UNCHANGED <<steer, restarts>>

AskRow == [kind |-> "ask", events |-> {}, turn |-> turn + 1]

(* POST messages, from the second look at the status on.                     *)
Ask == Begin(Append(rows, AskRow))

(* POST regenerate: truncateAfterLastUser.                                   *)
Regenerate ==
  \E i \in DOMAIN rows :
    /\ rows[i].kind \in User /\ \A j \in DOMAIN rows : j > i => rows[j].kind \notin User
    /\ Begin(SubSeq(rows, 1, i))

(* POST edit: truncateFromMessage, then the new question.                    *)
Edit(i) ==
  /\ i \in DOMAIN rows /\ rows[i].kind \in User
  /\ Begin(Append(SubSeq(rows, 1, i - 1), AskRow))

----------------------------------------------------------------------------
(* Remarks: POST steer looks at the status before and after it awaits the    *)
(* references.                                                              *)

Asks == {0} \union {i \in DOMAIN rows : rows[i].kind = "ask"}
LastAsk == CHOOSE i \in Asks : \A j \in Asks : j <= i
Steered == Cardinality({i \in DOMAIN rows : i > LastAsk /\ rows[i].kind = "steer"})

SteerSent ==
  /\ ~steer /\ status \in Busy /\ Steered < SteerLimit
  /\ steer' = TRUE
  /\ UNCHANGED <<rows, status, trace, fresh, content, saved, run, turn, restarts, dropped>>

SteerLands ==
  /\ steer /\ steer' = FALSE
  /\ IF status \in Busy THEN rows' = AddRow(rows, "steer", {}) /\ fresh' = {}
                        ELSE UNCHANGED <<rows, fresh>>
  /\ UNCHANGED <<status, trace, content, saved, run, turn, restarts, dropped>>

----------------------------------------------------------------------------
(* How a run leaves.                                                        *)

(* An answer is stored when there is text or an event to keep.               *)
Keep(text, events) ==
  IF text \/ events # {} THEN rows' = AddRow(rows, "answer", events) /\ fresh' = {}
                         ELSE UNCHANGED <<rows, fresh>>

(* The events of the turn, for the message row at its end: a run has         *)
(* collected its own; a resumed one, and whoever has no list, takes what     *)
(* currentTurnTrace finds younger than the last row.                         *)
OwnOnly == run.own                                      \* mutant
OfTurn == IF run.kind = "run" THEN run.own ELSE fresh

Leave == run' = None /\ UNCHANGED <<trace, saved, steer, turn, restarts, dropped>>

(* The catch of run and resume: cancelledCatchGuard, or safeSalvage.         *)
Caught ==
  /\ IF status = "cancelled"
       THEN Keep(run.partial, fresh) /\ UNCHANGED <<status, content>>
       ELSE /\ Keep(run.partial, OfTurn)
            /\ status' = "failed" /\ content' = (content \/ run.partial)
  /\ Leave

(* The step of makeOnStep: appendTrace, and the run's own list.              *)
Emitted == [turn |-> turn, n |-> Cardinality(trace) + 1, at |-> Len(rows)]
Emits == trace' = trace \union {Emitted} /\ fresh' = fresh \union {Emitted}
Own == IF run.kind = "run" THEN run.own \union {Emitted} ELSE {}

----------------------------------------------------------------------------
(* The loop of agent.run.                                                   *)

Alive(pc) == run # None /\ run.pc = pc
Aborted == status = "cancelled"       \* shouldAbort

(* Before every round: shouldAbort, then pollSteer.                          *)
Unread == {i \in DOMAIN rows : i > run.wm /\ rows[i].kind = "steer"}
Given(c, i) == IF i \in DOMAIN c.ctx THEN c.ctx[i] ELSE 0

Poll ==
  /\ Alive("poll") /\ ~Aborted
  /\ run' = [run EXCEPT
       !.pc = "chat", !.steps = @ + 1,
       !.ctx = [i \in DOMAIN rows |-> Given(run, i) + (IF i \in Unread THEN 1 ELSE 0)],
       !.wm = IF Unread = {} THEN @ ELSE CHOOSE i \in Unread : \A j \in Unread : j <= i]
  /\ UNCHANGED <<rows, status, trace, fresh, content, saved, steer, turn, restarts, dropped>>

(* onDelta: the text reaches the row when a checkpoint is due.               *)
Delta ==
  /\ Alive("chat") /\ run' = [run EXCEPT !.partial = TRUE]
  /\ content' \in {content, TRUE}
  /\ UNCHANGED <<rows, status, trace, fresh, saved, steer, turn, restarts, dropped>>

(* The round is complete: its event, and resetRound unless cancelled.        *)
RoundCalls(n) ==
  /\ Alive("chat") /\ run.steps <= StepCap
  /\ Emits
  /\ content' = (content /\ Aborted)
  /\ run' = [run EXCEPT !.pc = "tool", !.queue = n, !.own = Own, !.partial = @ /\ Aborted]
  /\ UNCHANGED <<rows, status, saved, steer, turn, restarts, dropped>>

(* A round without tool calls ends the turn: handleAgentResult, or what is   *)
(* kept of a cancelled one.                                                  *)
RoundAnswers ==
  /\ Alive("chat")
  /\ trace' = trace \union {Emitted}
  /\ rows' = AddRow(rows, "answer", OfTurn \union {Emitted}) /\ fresh' = {}
  /\ status' = IF Aborted THEN status ELSE "done"
  /\ content' = IF Aborted THEN content ELSE TRUE
  /\ run' = None
  /\ UNCHANGED <<saved, steer, turn, restarts, dropped>>

(* The model fails for good, or the cancellation breaks the stream.          *)
ChatFails == Alive("chat") /\ Caught

(* The checkpoints of the loop, before each round and each tool, notice the  *)
(* cancellation.                                                             *)
AbortNoticed == (Alive("poll") \/ Alive("tool")) /\ Aborted /\ Caught

(* A tool passes its checkpoint; needsApproval is awaited after it.          *)
ToolTaken ==
  /\ Alive("tool") /\ ~Aborted /\ run.verdict # "denied"
  /\ run' = [run EXCEPT !.pc = "exec"]
  /\ UNCHANGED <<rows, status, trace, fresh, content, saved, steer, turn, restarts, dropped>>

Called(r) == [r EXCEPT !.queue = @ - 1, !.verdict = None,
                       !.pc = IF r.queue = 1 THEN "poll" ELSE "tool"]

(* needsApproval: the turn is paused with what is left to do.                *)
Pause ==
  /\ Alive("exec") /\ ~Aborted /\ run.verdict = None
  /\ status' = "paused" /\ content' = run.partial
  /\ saved' = [ctx |-> run.ctx, wm |-> run.wm, queue |-> run.queue, steps |-> run.steps]
  /\ run' = None
  /\ UNCHANGED <<rows, trace, fresh, steer, turn, restarts, dropped>>

(* The turn was cancelled while needsApproval was awaited.                   *)
PauseTooLate ==
  /\ Alive("exec") /\ Aborted /\ run.verdict = None
  /\ Keep(run.partial, OfTurn) /\ UNCHANGED <<status, content>>
  /\ Leave

(* The refused call is answered without being executed.                      *)
Denied ==
  /\ Alive("tool") /\ ~Aborted /\ run.verdict = "denied"
  /\ Emits /\ run' = Called([run EXCEPT !.own = Own])
  /\ UNCHANGED <<rows, status, content, saved, steer, turn, restarts, dropped>>

ToolEnds ==
  /\ Alive("exec") /\ Emits /\ run' = Called([run EXCEPT !.own = Own])
  /\ UNCHANGED <<rows, status, content, saved, steer, turn, restarts, dropped>>

(* POST approve and deny: resumeConversation reads its watermark from the    *)
(* row, where the pause has put it.                                          *)
LatestRow == Len(rows)        \* mutant
SteerWatermark == saved.wm

Resume(verdict) ==
  /\ status = "paused" /\ status' = "running"
  /\ run' = [kind |-> "resume", pc |-> "tool", ctx |-> saved.ctx, wm |-> SteerWatermark, own |-> {},
             partial |-> content, queue |-> saved.queue, verdict |-> verdict, steps |-> saved.steps]
  /\ UNCHANGED <<rows, trace, fresh, content, saved, steer, turn, restarts, dropped>>

----------------------------------------------------------------------------
(* Ends from outside.                                                       *)

(* cancelConversation, invalidateConversation and deny without a model, for  *)
(* a paused turn: preservePausedOutput first.                                *)
LeavePaused(st) ==
  /\ status = "paused" /\ st \in {"cancelled", "failed"}
  /\ Keep(FALSE, fresh) /\ status' = st
  /\ UNCHANGED <<trace, content, saved, run, steer, turn, restarts, dropped>>

(* cancelConversation of a running turn: its run notices it later.           *)
Cancel ==
  /\ status = "running" /\ status' = "cancelled"
  /\ UNCHANGED <<rows, trace, fresh, content, saved, run, steer, turn, restarts, dropped>>

(* invalidateConversation of a running turn: the run is superseded and what  *)
(* it has not stored is given up, being the former cluster's.                *)
Invalidate ==
  /\ status = "running" /\ status' = "failed" /\ run' = None /\ dropped' = TRUE
  /\ UNCHANGED <<rows, trace, fresh, content, saved, steer, turn, restarts>>

(* The gateway dies and starts again: salvageInterrupted.                    *)
Restart ==
  /\ restarts < MaxRestarts /\ restarts' = restarts + 1
  /\ run' = None /\ steer' = FALSE
  /\ dropped' = (dropped \/ (run # None /\ Aborted))
  /\ IF status = "running"
       THEN Keep(content, IF content THEN trace ELSE fresh) /\ status' = "failed"
       ELSE UNCHANGED <<rows, fresh, status>>
  /\ UNCHANGED <<trace, content, saved, turn>>

Next ==
  \/ Ask \/ Regenerate \/ (\E i \in DOMAIN rows : Edit(i))
  \/ SteerSent \/ SteerLands
  \/ Poll \/ Delta \/ (\E n \in 1..MaxCalls : RoundCalls(n)) \/ RoundAnswers \/ ChatFails
  \/ AbortNoticed \/ ToolTaken \/ Pause \/ PauseTooLate \/ Denied \/ ToolEnds
  \/ (\E v \in {"approved", "denied"} : Resume(v))
  \/ (\E st \in {"cancelled", "failed"} : LeavePaused(st))
  \/ Cancel \/ Invalidate \/ Restart

Spec == Init /\ [][Next]_vars

----------------------------------------------------------------------------
(* Properties.                                                              *)

(* Everything has the type its column or variable has.                       *)
TypeOK ==
  /\ rows \in Seq(Row) /\ status \in Busy \union {"done", "failed", "cancelled"}
  /\ trace \subseteq Event /\ fresh \subseteq trace /\ content \in BOOLEAN
  /\ saved \in Saved \union {None} /\ run \in Run \union {None}
  /\ steer \in BOOLEAN /\ turn \in 0..MaxTurns /\ restarts \in 0..MaxRestarts /\ dropped \in BOOLEAN

(* The model has been given every row up to the watermark once, and none     *)
(* behind it: a remark made while the turn ran, or waited for its approval,  *)
(* is neither read twice nor passed over, through any number of pauses       *)
(* (steerWatermark, pollSteer).                                              *)
ReadToWatermark(c) == \A i \in DOMAIN rows : Given(c, i) = IF i <= c.wm THEN 1 ELSE 0
ReadOnce ==
  /\ run # None => ReadToWatermark(run)
  /\ status = "paused" => ReadToWatermark(saved)

(* No tool call, refusal or round is stored with two answers, and none with  *)
(* the answer of another turn, whichever way the turns end: by the run, by   *)
(* the one who takes an approval away, or at the next start of the gateway.  *)
EventOnce ==
  \A i \in DOMAIN rows : \A e \in rows[i].events :
    /\ e.turn = rows[i].turn
    /\ \A j \in DOMAIN rows : e \in rows[j].events => j = i

(* Once a turn is over, everything it did is stored with its answer, unless  *)
(* a remark made later hides it from currentTurnTrace, or the turn's output  *)
(* is given up on purpose.                                                   *)
EventKept ==
  LET Stored == UNION {rows[i].events : i \in DOMAIN rows}
      Overtaken(e) == \E i \in DOMAIN rows : i > e.at /\ rows[i].kind = "steer"
  IN status \notin Busy /\ run = None /\ ~dropped =>
       \A e \in trace : e \in Stored \/ Overtaken(e)
=============================================================================
