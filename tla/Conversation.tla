---------------------------- MODULE Conversation ----------------------------
(* The lifecycle of workbench conversations: the HTTP handlers of            *)
(* server/routes/workbench-conversations.mjs and the two handlers of         *)
(* server/routes/workbench-projects.mjs that touch conversations, the        *)
(* detached runs of server/workbench-agent.mjs, and the tool queue of        *)
(* server/agent.mjs as far as it decides which tool runs.                    *)
(*                                                                           *)
(* The gateway is one node process over a synchronous database: the code     *)
(* between two awaits is one action.  A handler that awaits after its first  *)
(* checks is two actions with a request record in between; a run is a        *)
(* program counter.  Everything in row and proj is in the database and       *)
(* survives Restart; epoch, active, run and the requests are process memory. *)
EXTENDS Naturals, Sequences

CONSTANTS
  Conv,        \* conversation ids of one project
  Cluster,     \* clusters the project can be bound to ("" is one of them)
  Calls,       \* tool calls the model may ask for, each at most once
  Writes,      \* the calls whose tool requires approval
  Runs,        \* slots for detached runs
  Senders,     \* slots for create / messages / edit requests in flight
  Approvers,   \* slots for approve requests in flight
  Rebinders,   \* slots for PUT cluster requests in flight
  Modes,       \* approval modes the owner may choose ("ask", "auto")
  None,        \* "no value"
  MaxGen,      \* bound: turns started per conversation
  MaxEpoch,    \* bound: runs and invalidations per conversation and process
  MaxRestarts  \* bound: restarts of the gateway

Pending == [call : Calls, cluster : Cluster]     \* an approval that waits
Verdict == [ok : BOOLEAN, cluster : Cluster, shown : Calls, missed : BOOLEAN]     \* a decision

ASSUME ConstantsAssumption ==
  /\ Writes \subseteq Calls
  /\ None \notin Conv \cup Cluster \cup Calls \cup Runs \cup Pending \cup Verdict
  /\ MaxGen \in Nat /\ MaxEpoch \in Nat /\ MaxRestarts \in Nat

VARIABLES
  proj,       \* cluster of the project row, None once the project is deleted
  mode,       \* the owner's approval mode
  row,        \* conversation rows with their messages
  epoch,      \* runEpoch
  active,     \* activeRuns: the run registered for a conversation
  run,        \* the detached runs
  sending, approving, rebinding,   \* requests between their two halves
  issued,     \* calls the model has asked for
  verdict,    \* history: what a user decided about a call, and where
  ran,        \* history: how often, and on which cluster, a call was executed
  auto,       \* history: calls let through by the approval mode
  missed,     \* history: conversations that went on across a change of cluster
  restarts

hist == <<issued, verdict, ran, auto>>
reqs == <<sending, approving, rebinding>>
vars == <<proj, missed, mode, row, epoch, active, run, reqs, hist, restarts>>

-----------------------------------------------------------------------------
Assistant == 0      \* an assistant row; a user row is the turn that added it
Busy == {"running", "paused"}
Ended == {"done", "failed", "cancelled"}
Status == Busy \cup Ended \cup {"none", "gone"}
Stored == Busy \cup Ended      \* the row is in the database

NoRow == [status |-> "none", pending |-> None, saved |-> <<>>, gen |-> 0,
          content |-> 0, trace |-> 0, msgs |-> <<>>]
Idle == [pc |-> "idle", conv |-> None, epoch |-> 0, gen |-> 0,
         cluster |-> None, queue |-> <<>>, target |-> None, ok |-> FALSE,
         partial |-> FALSE, aborted |-> FALSE, late |-> 0, result |-> "none"]

Init ==
  /\ proj \in Cluster
  /\ mode \in Modes
  /\ row = [c \in Conv |-> NoRow]
  /\ epoch = [c \in Conv |-> 0]
  /\ active = [c \in Conv |-> None]
  /\ run = [r \in Runs |-> Idle]
  /\ sending = [q \in Senders |-> None]
  /\ approving = [q \in Approvers |-> None]
  /\ rebinding = [q \in Rebinders |-> None]
  /\ issued = {}
  /\ verdict = [k \in Calls |-> None]
  /\ ran = [k \in Calls |-> <<>>]
  /\ auto = {} /\ missed = {}
  /\ restarts = 0

-----------------------------------------------------------------------------
(* What the helpers of the code do to one row.                               *)

(* appendMessage of an assistant row: the events stored so far are older     *)
(* than the new row, so the unsaved slice of the trace becomes empty.        *)
AppendAnswer(x) == [x EXCEPT !.msgs = Append(@, Assistant), !.trace = 0]

(* preservePausedOutput *)
PreservePausedOutput(x) == IF x.trace # 0 THEN AppendAnswer(x) ELSE x

(* The row a run leaves behind when it ends without an answer.               *)
KeepPartial(x, partial) ==
  IF partial \/ x.trace # 0 THEN AppendAnswer(x) ELSE x

(* The part common to cancelConversation, invalidateConversation and the     *)
(* handlers that end a paused conversation.                                  *)
EndRow(x, status) ==
  [(IF x.status = "paused" THEN PreservePausedOutput(x) ELSE x)
     EXCEPT !.status = status, !.pending = None]

ResetRowKeepingContent(x, msgs) ==     \* mutant: the checkpoint survives
  [x EXCEPT !.status = "running", !.pending = None, !.trace = 0,
            !.gen = @ + 1, !.msgs = msgs]

(* The reset that messages, edit and regenerate apply before a new run.      *)
ResetRow(x, msgs) ==
  [x EXCEPT !.status = "running", !.pending = None, !.content = 0,
            !.trace = 0, !.gen = @ + 1, !.msgs = msgs]

UserRows(m) == {i \in 1..Len(m) : m[i] # Assistant}

UpToLastRow(m) == IF UserRows(m) = {} THEN {} ELSE {m}   \* mutant: cuts nothing

(* truncateAfterLastUser keeps the rows up to the last user row.             *)
UpToLastUser(m) ==
  {SubSeq(m, 1, i) : i \in {i \in UserRows(m) : \A j \in UserRows(m) : j <= i}}

(* truncateFromMessage drops the anchor row and all that follow; there is no *)
(* result when the anchor is gone.                                           *)
BeforeAnchor(m, anchor) ==
  {SubSeq(m, 1, i - 1) : i \in {i \in UserRows(m) : m[i] = anchor}}

-----------------------------------------------------------------------------
(* Runs.                                                                     *)

NeverSuperseded(r) == FALSE            \* mutant: the epoch is not compared
IsSuperseded(r) == run[r].epoch # epoch[run[r].conv]
NeverCancelled(c) == FALSE             \* mutant: the stored status is not read
DbCancelled(c) == row[c].status = "cancelled"
EpochSignal(r) == IsSuperseded(r)      \* mutant: a cancel does not reach the loop
CancelSignal(r) == IsSuperseded(r) \/ DbCancelled(run[r].conv)
Stopped(r) ==
  run[r].epoch # epoch[run[r].conv] \/ row[run[r].conv].status \in {"cancelled", "gone"}

(* The synchronous part of runConversation and resumeConversation: claim the *)
(* epoch, register the handle, give up at once when the project is gone, and *)
(* pass the first checkpoint of agent.run.                                   *)
Launch(r, c, x, queue, target, ok) ==
  /\ run[r].pc = "idle"
  /\ epoch[c] < MaxEpoch
  /\ epoch' = [epoch EXCEPT ![c] = @ + 1]
  /\ IF proj = None
       THEN /\ row' = [row EXCEPT ![c] = [x EXCEPT !.status = "failed"]]
            /\ UNCHANGED <<run, active>>
       ELSE /\ row' = [row EXCEPT ![c] = x]
            /\ active' = [active EXCEPT ![c] = r]
            /\ run' = [run EXCEPT ![r] =
                 [pc |-> IF queue # <<>> THEN "gate" ELSE "refresh",
                  conv |-> c, epoch |-> epoch[c] + 1,
                  gen |-> x.gen, cluster |-> proj, queue |-> queue,
                  target |-> target, ok |-> ok, partial |-> x.content # 0,
                  aborted |-> FALSE, late |-> 0, result |-> "none"]]

(* The finally block: only the run's own handle is removed.                  *)
Exit(r) ==
  /\ run' = [run EXCEPT ![r] = Idle]
  /\ active' = [active EXCEPT ![run[r].conv] = IF @ = r THEN None ELSE @]

Goto(r, pc) == run' = [run EXCEPT ![r].pc = pc]

(* controller.abort() on the registered handle of every conversation in cs.  *)
Abort(cs) ==
  run' = [r \in Runs |-> IF \E c \in cs : active[c] = r
                           THEN [run[r] EXCEPT !.aborted = TRUE]
                           ELSE run[r]]

(* Checkpoints 1 and 2 of the loop: shouldAbort is asked before each tool    *)
(* and before each chat round, in one go with what precedes it.              *)
AfterCheck(r, queue) ==
  IF CancelSignal(r) THEN "throw" ELSE IF queue # <<>> THEN "gate" ELSE "refresh"

IsTarget(r) == Head(run[r].queue) = run[r].target
NeedsApproval(k) == k \in Writes /\ mode = "ask"

(* A call that needs approval and is not the one just decided ends the run   *)
(* with the whole queue.                                                     *)
GatePause(r) ==
  /\ run[r].pc = "gate" /\ ~IsTarget(r) /\ NeedsApproval(Head(run[r].queue))
  /\ run' = [run EXCEPT ![r].pc = "return", ![r].result = "pending"]
  /\ UNCHANGED <<proj, missed, mode, row, epoch, active, reqs, hist, restarts>>

StickyApproval(r) ==    \* mutant: the decision outlives its call
  run[r].ok \/ ~NeedsApproval(Head(run[r].queue))
PolicyOnly(r) ==        \* mutant: the policy is asked again about the decided call
  ~NeedsApproval(Head(run[r].queue))
MayExec(r) == IF IsTarget(r) THEN run[r].ok ELSE ~NeedsApproval(Head(run[r].queue))

(* The queue is shifted and execTool is called.                              *)
ExecTool(r) ==
  /\ run[r].pc = "gate" /\ MayExec(r)
  /\ LET k == Head(run[r].queue) IN
       /\ ran' = [ran EXCEPT ![k] = Append(@, run[r].cluster)]
       /\ auto' = IF NeedsApproval(k) THEN auto ELSE auto \cup {k}
  /\ run' = [run EXCEPT ![r].pc = "exec", ![r].queue = Tail(@), ![r].target = None,
                        ![r].late = IF Stopped(r) THEN @ + 1 ELSE @]
  /\ UNCHANGED <<proj, missed, mode, row, epoch, active, reqs, issued, verdict, restarts>>

OnStepUnguarded(r, after, x) ==     \* mutant: a superseded run still stores its event
  IF row[run[r].conv].status \notin Stored
    THEN Goto(r, "throw") /\ UNCHANGED row
    ELSE run' = [run EXCEPT ![r] = after] /\ row' = [row EXCEPT ![run[r].conv] = x]

(* makeOnStep: silent when superseded, appendTrace throws when the row is    *)
(* gone, otherwise the event is stored and the row becomes x.                *)
OnStep(r, after, x) ==
  LET gone == row[run[r].conv].status \notin Stored IN
    /\ run' = [run EXCEPT ![r] =
         IF gone /\ ~IsSuperseded(r) THEN [@ EXCEPT !.pc = "throw"] ELSE after]
    /\ row' = IF gone \/ IsSuperseded(r) THEN row ELSE [row EXCEPT ![run[r].conv] = x]

ToolDone(r) ==
  /\ run[r].pc = "exec"
  /\ OnStep(r, [run[r] EXCEPT !.pc = AfterCheck(r, run[r].queue)],
               [row[run[r].conv] EXCEPT !.trace = run[r].gen])
  /\ UNCHANGED <<proj, missed, mode, epoch, active, reqs, hist, restarts>>

(* A call leaves the queue unexecuted: it was refused, or its arguments are  *)
(* not JSON.                                                                 *)
SkipTool(r) ==
  /\ run[r].pc = "gate" /\ (IsTarget(r) \/ ~NeedsApproval(Head(run[r].queue)))
  /\ LET queue == Tail(run[r].queue) IN
       OnStep(r, [run[r] EXCEPT !.pc = AfterCheck(r, queue), !.queue = queue, !.target = None],
                 [row[run[r].conv] EXCEPT !.trace = run[r].gen])
  /\ UNCHANGED <<proj, missed, mode, epoch, active, reqs, hist, restarts>>

(* refreshSystem has been awaited; an aborted signal rejects the fetch.      *)
ChatStart(r) ==
  /\ run[r].pc = "refresh"
  /\ Goto(r, IF run[r].aborted THEN "throw" ELSE "chat")
  /\ UNCHANGED <<proj, missed, mode, row, epoch, active, reqs, hist, restarts>>

(* onDelta: the text is accumulated, and written to the row when one of the  *)
(* two thresholds (200 characters, 500 ms) is reached.                       *)
Delta(r, flush) ==
  /\ run[r].pc = "chat" /\ ~IsSuperseded(r)
  /\ run' = [run EXCEPT ![r].partial = TRUE]
  /\ row' = IF flush /\ row[run[r].conv].status \in Stored
              THEN [row EXCEPT ![run[r].conv].content = run[r].gen] ELSE row
  /\ UNCHANGED <<proj, missed, mode, epoch, active, reqs, hist, restarts>>

(* The assistant step ends a round: the event is stored and resetRound       *)
(* clears the checkpoint unless the user cancelled.                          *)
EndRound(r, next, queue, result) ==
  LET x == row[run[r].conv]
      keep == IsSuperseded(r) \/ DbCancelled(run[r].conv) IN
    OnStep(r, [run[r] EXCEPT !.pc = next, !.queue = queue, !.result = result,
                             !.target = None, !.partial = keep /\ @],
              [x EXCEPT !.trace = run[r].gen,
                        !.content = IF DbCancelled(run[r].conv) THEN @ ELSE 0])

(* The model asks for tools it has not asked for before.                     *)
ChatTools(r) ==
  /\ run[r].pc = "chat"
  /\ \E queue \in {<<k>> : k \in Calls \ issued} \cup
                  {s \in (Calls \ issued) \X (Calls \ issued) : s[1] # s[2]} :
       /\ issued' = issued \cup {queue[i] : i \in DOMAIN queue}
       /\ EndRound(r, AfterCheck(r, queue), queue, "none")
  /\ UNCHANGED <<proj, missed, mode, epoch, active, reqs, verdict, ran, auto, restarts>>

ChatFinal(r) ==
  /\ run[r].pc = "chat"
  /\ EndRound(r, "return", <<>>, "final")
  /\ UNCHANGED <<proj, missed, mode, epoch, active, reqs, hist, restarts>>

(* The stream fails: provider error, deadline, or the abort of the signal.   *)
ChatError(r) ==
  /\ run[r].pc = "chat"
  /\ Goto(r, "throw")
  /\ UNCHANGED <<proj, missed, mode, row, epoch, active, reqs, hist, restarts>>

PauseWithoutHead(r) ==      \* mutant: the pending call is not in the saved queue
  LET x == row[run[r].conv] IN
    IF run[r].result = "pending"
      THEN [x EXCEPT !.status = "paused", !.saved = Tail(run[r].queue),
                     !.pending = [call |-> Head(run[r].queue), cluster |-> run[r].cluster]]
      ELSE [AppendAnswer(x) EXCEPT !.status = "done", !.content = run[r].gen]

(* handleAgentResult for a run that may still write.                         *)
HandleAgentResult(r) ==
  LET x == row[run[r].conv]
      mine == IF run[r].partial THEN run[r].gen ELSE 0 IN
    IF run[r].result = "pending"
      THEN [x EXCEPT !.status = "paused", !.saved = run[r].queue, !.content = mine,
                     !.pending = [call |-> Head(run[r].queue), cluster |-> run[r].cluster]]
      ELSE [AppendAnswer(x) EXCEPT !.status = "done", !.content = run[r].gen]

(* run() has returned: superseded, cancelled, deleted or a result to store.  *)
Return(r) ==
  LET c == run[r].conv IN
    /\ run[r].pc = "return"
    /\ row' = CASE IsSuperseded(r) \/ row[c].status \notin Stored -> row
                [] ~IsSuperseded(r) /\ DbCancelled(c) ->
                     [row EXCEPT ![c] = KeepPartial(@, run[r].partial)]
                [] OTHER -> [row EXCEPT ![c] = HandleAgentResult(r)]
    /\ Exit(r)
    /\ UNCHANGED <<proj, missed, mode, epoch, reqs, hist, restarts>>

CatchUnguarded(r) ==        \* mutant: no cancelledCatchGuard
  LET c == run[r].conv IN
    /\ run[r].pc = "throw"
    /\ row' = IF IsSuperseded(r) \/ row[c].status \notin Stored THEN row
              ELSE [row EXCEPT ![c] = [KeepPartial(@, run[r].partial) EXCEPT !.status = "failed"]]
    /\ Exit(r)
    /\ UNCHANGED <<proj, missed, mode, epoch, reqs, hist, restarts>>
CatchSilently(r) ==         \* mutant: the error is swallowed
  /\ run[r].pc = "throw"
  /\ Exit(r)
  /\ UNCHANGED <<proj, missed, mode, row, epoch, reqs, hist, restarts>>

(* run() has thrown: superseded, cancelledCatchGuard, or safeSalvage.        *)
Catch(r) ==
  LET c == run[r].conv
      x == KeepPartial(row[c], run[r].partial)
      mine == IF run[r].partial THEN run[r].gen ELSE 0 IN
    /\ run[r].pc = "throw"
    /\ row' = CASE IsSuperseded(r) \/ row[c].status \notin Stored -> row
                [] ~IsSuperseded(r) /\ DbCancelled(c) -> [row EXCEPT ![c] = x]
                [] OTHER -> [row EXCEPT ![c] =
                               [x EXCEPT !.status = "failed",
                                         !.content = IF x = row[c] THEN @ ELSE mine]]
    /\ Exit(r)
    /\ UNCHANGED <<proj, missed, mode, epoch, reqs, hist, restarts>>

-----------------------------------------------------------------------------
(* Requests that start a turn.  Both halves check that the conversation is   *)
(* not busy; the reference fetch in between is awaited.                      *)

Accept(q, kind, c, anchor) ==
  /\ sending[q] = None
  /\ sending' = [sending EXCEPT ![q] = [kind |-> kind, conv |-> c, anchor |-> anchor]]
  /\ UNCHANGED <<proj, missed, mode, row, epoch, active, run, approving, rebinding, hist, restarts>>

AcceptCreate(q, c) ==
  /\ proj # None /\ row[c].status = "none"
  /\ \A p \in Senders : sending[p] # None => sending[p].conv # c
  /\ Accept(q, "create", c, 0)

AcceptMessage(q, c) ==
  /\ proj # None /\ row[c].status \in Ended
  /\ Accept(q, "message", c, 0)

AcceptEdit(q, c) ==
  /\ proj # None /\ row[c].status \in Ended
  /\ \E i \in UserRows(row[c].msgs) : Accept(q, "edit", c, row[c].msgs[i])

MayStartUnchecked(kind, x) ==    \* mutant: busy is checked only before the await
  IF kind = "create" THEN x.status = "none" ELSE x.status \in Stored

(* The re-check of the status after the await.                               *)
MayStart(kind, x) ==
  IF kind = "create" THEN x.status = "none" ELSE x.status \in Ended

KeptRows(s, m) == IF s.kind = "edit" THEN BeforeAnchor(m, s.anchor) ELSE {m}

(* The second half: re-read the row, then write and launch without awaiting. *)
CommitSend(q, r) ==
  /\ sending[q] # None
  /\ LET c == sending[q].conv
         x == row[c] IN
       /\ MayStart(sending[q].kind, x)
       /\ x.gen < MaxGen
       /\ \E kept \in KeptRows(sending[q], x.msgs) :
            Launch(r, c, ResetRow(x, Append(kept, x.gen + 1)), <<>>, None, FALSE)
  /\ sending' = [sending EXCEPT ![q] = None]
  /\ missed' = missed \ {sending[q].conv}
  /\ UNCHANGED <<proj, mode, approving, rebinding, hist, restarts>>

(* The re-read finds the conversation busy, deleted, or the anchor cut off.  *)
RejectSend(q) ==
  /\ sending[q] # None
  /\ LET x == row[sending[q].conv] IN
       ~MayStart(sending[q].kind, x) \/ KeptRows(sending[q], x.msgs) = {}
  /\ sending' = [sending EXCEPT ![q] = None]
  /\ UNCHANGED <<proj, missed, mode, row, epoch, active, run, approving, rebinding, hist, restarts>>

(* regenerate awaits nothing.                                                *)
Regenerate(c, r) ==
  /\ proj # None /\ row[c].status \in Ended /\ row[c].gen < MaxGen
  /\ \E kept \in UpToLastUser(row[c].msgs) :
       Launch(r, c, ResetRow(row[c], kept), <<>>, None, FALSE)
  /\ missed' = missed \ {c}
  /\ UNCHANGED <<proj, mode, reqs, hist, restarts>>

-----------------------------------------------------------------------------
(* Approvals.                                                                *)

StaleApproval(c) == row[c].pending # None /\ row[c].pending.cluster # proj

(* approvalClusterStale: the conversation ends instead of resuming.          *)
EndStaleApproval(c) ==
  /\ proj # None /\ row[c].status = "paused" /\ StaleApproval(c)
  /\ row' = [row EXCEPT ![c] = EndRow(@, "failed")]
  /\ UNCHANGED <<proj, missed, mode, epoch, active, run, reqs, hist, restarts>>

(* The gates of approve; then the body is awaited.  The snapshot taken here  *)
(* is convForGate.                                                           *)
AcceptApprove(q, c) ==
  /\ approving[q] = None
  /\ proj # None /\ row[c].status = "paused" /\ ~StaleApproval(c)
  /\ approving' = [approving EXCEPT ![q] = [conv |-> c, shown |-> row[c].pending.call]]
  /\ UNCHANGED <<proj, missed, mode, row, epoch, active, run, sending, rebinding, hist, restarts>>

NotClaimed(x) == x          \* mutant: the claim is not stored
Claimed(x) == [x EXCEPT !.status = "running", !.pending = None]

(* claimPausedForResume followed by the synchronous part of                  *)
(* resumeConversation; shown is the call the decision was made about.        *)
Resume(c, r, ok, shown) ==
  LET k == row[c].pending.call IN
    /\ row[c].status = "paused"
    /\ verdict' = [verdict EXCEPT ![k] =
         [ok |-> ok, cluster |-> row[c].pending.cluster, shown |-> shown,
          missed |-> c \in missed]]
    /\ Launch(r, c, Claimed(row[c]), row[c].saved, k, ok)

CommitApprove(q, r) ==
  /\ approving[q] # None
  /\ Resume(approving[q].conv, r, TRUE, approving[q].shown)
  /\ approving' = [approving EXCEPT ![q] = None]
  /\ UNCHANGED <<proj, missed, mode, sending, rebinding, issued, ran, auto, restarts>>

(* The claim finds the row no longer paused, or the bookkeeping after it     *)
(* fails and the status is rolled back.                                      *)
RejectApprove(q) ==
  /\ approving[q] # None
  /\ approving' = [approving EXCEPT ![q] = None]
  /\ UNCHANGED <<proj, missed, mode, row, epoch, active, run, sending, rebinding, hist, restarts>>

(* deny awaits nothing; without an LLM configuration it ends the             *)
(* conversation instead of resuming it.                                      *)
Deny(c, r) ==
  /\ proj # None /\ row[c].status = "paused" /\ ~StaleApproval(c)
  /\ Resume(c, r, FALSE, row[c].pending.call)
  /\ UNCHANGED <<proj, missed, mode, reqs, issued, ran, auto, restarts>>

DenyWithoutLlm(c) ==
  /\ proj # None /\ row[c].status = "paused" /\ ~StaleApproval(c)
  /\ verdict' = [verdict EXCEPT ![row[c].pending.call] =
       [ok |-> FALSE, cluster |-> row[c].pending.cluster, shown |-> row[c].pending.call,
        missed |-> c \in missed]]
  /\ row' = [row EXCEPT ![c] = EndRow(@, "failed")]
  /\ UNCHANGED <<proj, missed, mode, epoch, active, run, reqs, issued, ran, auto, restarts>>

-----------------------------------------------------------------------------
(* Cancel, delete, rebind, restart.                                          *)

BusyConvs == {c \in Conv : row[c].status \in Busy}

Cancel(c) ==
  /\ proj # None /\ row[c].status \in Busy
  /\ row' = [row EXCEPT ![c] = EndRow(@, "cancelled")]
  /\ Abort({c})
  /\ UNCHANGED <<proj, missed, mode, epoch, active, reqs, hist, restarts>>

(* DELETE of a conversation cancels it, then removes its rows.               *)
DeleteConversation(c) ==
  /\ proj # None /\ row[c].status \in Stored
  /\ row' = [row EXCEPT ![c] = [NoRow EXCEPT !.status = "gone"]]
  /\ Abort({c} \cap BusyConvs)
  /\ UNCHANGED <<proj, missed, mode, epoch, active, reqs, hist, restarts>>

(* DELETE of the project does so for all its conversations.                  *)
DeleteProject ==
  /\ proj # None
  /\ proj' = None
  /\ row' = [c \in Conv |-> IF row[c].status \in Stored
                              THEN [NoRow EXCEPT !.status = "gone"] ELSE row[c]]
  /\ Abort(BusyConvs)
  /\ UNCHANGED <<missed, mode, epoch, active, reqs, hist, restarts>>

(* PUT cluster: the project row p is read, the body is awaited, ...          *)
AcceptRebind(q, to) ==
  /\ rebinding[q] = None /\ proj # None
  /\ rebinding' = [rebinding EXCEPT ![q] = [was |-> proj, to |-> to]]
  /\ UNCHANGED <<proj, missed, mode, row, epoch, active, run, sending, approving, hist, restarts>>

RebindHitsRunning(q) ==     \* mutant: waiting approvals are forgotten
  IF rebinding[q].to # rebinding[q].was
    THEN {c \in Conv : row[c].status = "running"} ELSE {}

(* The conversations a rebind invalidates: those busy, when the new cluster  *)
(* differs from the one of the row read before the await.                    *)
RebindHits(q) == IF rebinding[q].to # rebinding[q].was THEN BusyConvs ELSE {}

(* Another request has bound the project elsewhere since, and this one binds *)
(* it back to where it was: it takes itself for a replay.                    *)
TakenForReplay(q) == rebinding[q].to = rebinding[q].was /\ proj # rebinding[q].to

EpochsBumped(hit) == [c \in Conv |-> IF c \in hit THEN epoch[c] + 1 ELSE epoch[c]]

(* ... the new cluster is written, and invalidateConversation ends every hit *)
(* conversation, bumps its epoch and aborts its run.                         *)
CommitRebind(q) ==
  /\ rebinding[q] # None
  /\ LET hit == RebindHits(q) IN
       /\ \A c \in hit : epoch[c] < MaxEpoch
       /\ row' = [c \in Conv |-> IF c \in hit THEN EndRow(row[c], "failed") ELSE row[c]]
       /\ epoch' = EpochsBumped(hit)
       /\ Abort(hit)
  /\ proj' = IF proj = None THEN None ELSE rebinding[q].to
  /\ missed' = IF TakenForReplay(q) THEN missed \cup BusyConvs ELSE missed
  /\ rebinding' = [rebinding EXCEPT ![q] = None]
  /\ UNCHANGED <<mode, active, sending, approving, hist, restarts>>

(* The owner changes the approval mode; runs read it at every gate.          *)
SetMode ==
  /\ mode' \in Modes \ {mode}
  /\ UNCHANGED <<proj, missed, row, epoch, active, run, reqs, hist, restarts>>

(* The process dies with everything in memory; at startup salvageInterrupted *)
(* saves the checkpoint or the stored events of every running conversation   *)
(* and marks it failed.                                                      *)
Restart ==
  /\ restarts < MaxRestarts
  /\ restarts' = restarts + 1
  /\ row' = [c \in Conv |-> IF row[c].status = "running"
               THEN [KeepPartial(row[c], row[c].content # 0) EXCEPT !.status = "failed"]
               ELSE row[c]]
  /\ epoch' = [c \in Conv |-> 0]
  /\ active' = [c \in Conv |-> None]
  /\ run' = [r \in Runs |-> Idle]
  /\ sending' = [q \in Senders |-> None]
  /\ approving' = [q \in Approvers |-> None]
  /\ rebinding' = [q \in Rebinders |-> None]
  /\ UNCHANGED <<proj, missed, mode, hist>>

-----------------------------------------------------------------------------
(* The steps of a run that bring it closer to its end.                       *)
Progress(r) ==
  \/ GatePause(r) \/ ExecTool(r) \/ ToolDone(r)
  \/ SkipTool(r)
  \/ ChatStart(r) \/ ChatTools(r) \/ ChatFinal(r) \/ ChatError(r)
  \/ Return(r) \/ Catch(r)

RunStep(r) == Progress(r) \/ \E flush \in BOOLEAN : Delta(r, flush)

Handler ==
  \/ \E q \in Senders, c \in Conv :
       AcceptCreate(q, c) \/ AcceptMessage(q, c) \/ AcceptEdit(q, c)
  \/ \E q \in Senders : RejectSend(q) \/ \E r \in Runs : CommitSend(q, r)
  \/ \E c \in Conv, r \in Runs : Regenerate(c, r) \/ Deny(c, r)
  \/ \E q \in Approvers : \/ \E c \in Conv : AcceptApprove(q, c)
                          \/ \E r \in Runs : CommitApprove(q, r)
                          \/ RejectApprove(q)
  \/ \E c \in Conv : \/ EndStaleApproval(c) \/ DenyWithoutLlm(c)
                     \/ Cancel(c) \/ DeleteConversation(c)
  \/ DeleteProject
  \/ \E q \in Rebinders : CommitRebind(q) \/ \E to \in Cluster : AcceptRebind(q, to)
  \/ SetMode

Next == (\E r \in Runs : RunStep(r)) \/ Handler \/ Restart

Spec == Init /\ [][Next]_vars

(* Every detached run keeps moving: tools return, and the LLM stream ends by *)
(* itself, by its deadline or by the abort.                                  *)
FairSpec == Spec /\ \A r \in Runs : WF_vars(Progress(r))

-----------------------------------------------------------------------------
(* Properties.                                                               *)

Row == [status : Status, pending : Pending \cup {None}, saved : Seq(Calls),
        gen : Nat, content : Nat, trace : Nat, msgs : Seq(Nat)]
Pc == {"idle", "gate", "exec", "refresh", "chat", "return", "throw"}
RunRecord == [pc : Pc, conv : Conv \cup {None}, epoch : Nat, gen : Nat,
              cluster : Cluster \cup {None}, queue : Seq(Calls),
              target : Calls \cup {None}, ok : BOOLEAN, partial : BOOLEAN,
              aborted : BOOLEAN, late : Nat, result : {"none", "pending", "final"}]
SendRequest == [kind : {"create", "message", "edit"}, conv : Conv, anchor : Nat]

(* Every variable has its type.                                              *)
TypeOK ==
  /\ proj \in Cluster \cup {None}
  /\ mode \in Modes
  /\ row \in [Conv -> Row]
  /\ epoch \in [Conv -> Nat]
  /\ active \in [Conv -> Runs \cup {None}]
  /\ run \in [Runs -> RunRecord]
  /\ sending \in [Senders -> SendRequest \cup {None}]
  /\ approving \in [Approvers -> [conv : Conv, shown : Calls] \cup {None}]
  /\ rebinding \in [Rebinders -> [was : Cluster, to : Cluster] \cup {None}]
  /\ issued \in SUBSET Calls
  /\ verdict \in [Calls -> Verdict \cup {None}]
  /\ ran \in [Calls -> Seq(Cluster)]
  /\ auto \in SUBSET Calls /\ missed \in SUBSET Conv
  /\ restarts \in Nat

Alive(r) == run[r].pc # "idle"
Current(r, c) == Alive(r) /\ run[r].conv = c /\ run[r].epoch = epoch[c]

(* A row says "running" exactly as long as one run is entitled to write its  *)
(* end: no running row without a run (it would count against the quota for   *)
(* ever), and no entitled run behind a paused, done or failed row.           *)
RunningHasItsRun ==
  \A c \in Conv :
    /\ row[c].status = "running" => \E r \in Runs : Current(r, c)
    /\ row[c].status \in {"paused", "done", "failed"} => ~\E r \in Runs : Current(r, c)
    /\ \A r, s \in Runs : Current(r, c) /\ Current(s, c) => r = s

(* Every run that lost its conversation to a newer one has had its signal    *)
(* aborted, so two runs never stream for one conversation, and cancel finds  *)
(* the entitled run through activeRuns.                                      *)
StaleRunsAreAborted ==
  \A r \in Runs : Alive(r) =>
    /\ IsSuperseded(r) => run[r].aborted
    /\ ~IsSuperseded(r) => active[run[r].conv] = r

(* What a turn leaves belongs to it: nobody appends an answer to a question  *)
(* that is not its own, no turn is answered twice, and the checkpoint and    *)
(* events that salvageInterrupted or a resumed run picks up are never those  *)
(* of an earlier turn.                                                       *)
TurnIsItsOwn ==
  \A c \in Conv : LET m == row[c].msgs IN
    /\ row[c].status \in Busy => m # <<>> /\ m[Len(m)] # Assistant
    /\ \A i \in 1..Len(m) - 1 : m[i] = Assistant => m[i + 1] # Assistant
    /\ row[c].content \in {0, row[c].gen} /\ row[c].trace \in {0, row[c].gen}

(* A paused row can be resumed (its approval is there and heads the saved    *)
(* queue), and only a paused row carries an approval.                        *)
PausedIsResumable ==
  \A c \in Conv :
    IF row[c].status = "paused"
      THEN /\ row[c].pending # None /\ row[c].saved # <<>>
           /\ Head(row[c].saved) = row[c].pending.call
      ELSE row[c].pending = None

(* A call that requires approval runs only after a user approved this very   *)
(* call, or because the approval mode let it through when it was its turn.   *)
WritesAreApproved ==
  \A k \in Writes : ran[k] # <<>> =>
    k \in auto \/ (verdict[k] # None /\ verdict[k].ok)

(* A refused call never runs, whatever the approval mode becomes later.      *)
DeniedNeverRuns ==
  \A k \in Calls : verdict[k] # None /\ ~verdict[k].ok => ran[k] = <<>>

(* No call runs twice: not by a double approval, not by a resumed queue, not *)
(* after a restart.                                                          *)
RunsOnce == \A k \in Calls : Len(ran[k]) <= 1

(* An approved call runs on the cluster its approval was stamped with,       *)
(* unless its conversation went on across a change of cluster that a PUT     *)
(* cluster took for a replay.                                                *)
ApprovedClusterOnly ==
  \A k \in Calls : verdict[k] # None /\ verdict[k].ok /\ ~verdict[k].missed =>
    \A i \in DOMAIN ran[k] : ran[k][i] = verdict[k].cluster

(* After a change of the project's cluster nothing goes on with the old one: *)
(* every entitled run of a busy row and every waiting approval is for the    *)
(* cluster the project is bound to, however many PUT cluster overlap.  The   *)
(* one exception: a turn that was busy when one of them took itself for a    *)
(* replay.                                                                   *)
BusyOnBoundCluster ==
  \A c \in Conv \ missed : row[c].status \in Busy =>
    /\ \A r \in Runs : Current(r, c) => run[r].cluster = proj
    /\ row[c].pending # None => row[c].pending.cluster = proj

(* The approval that resumes a call was given for that call.                 *)
ApprovedWhatWasShown ==
  \A k \in Calls : verdict[k] # None => verdict[k].shown = k

(* A run that was cancelled, superseded or deleted starts at most one more   *)
(* tool: the one that had already passed its checkpoint.                     *)
AtMostOneLateTool == \A r \in Runs : run[r].late <= 1

(* A step of a superseded run changes nothing in the database.               *)
SupersededIsSilent ==
  [][\A r \in Runs :
       Alive(r) /\ IsSuperseded(r) /\ run'[r].pc # run[r].pc /\ restarts' = restarts
         => UNCHANGED row]_vars

(* A cancelled turn stays cancelled: the conversation leaves that status     *)
(* only by a new turn or by being deleted.                                   *)
CancelSticks ==
  [][\A c \in Conv : row[c].status = "cancelled" /\ row'[c].status # "cancelled"
       => row'[c].gen > row[c].gen \/ row'[c].status = "gone"]_vars

(* A running conversation does not run for ever: it pauses or ends.          *)
RunningEnds ==
  \A c \in Conv : row[c].status = "running" ~> row[c].status # "running"

(* A conversation keeps the promises of ConversationLifecycle: its status    *)
(* moves only along that diagram, a completed turn has its answer, and a     *)
(* turn that ended any other way than by cancel does not change any more.    *)
Answered(m) == m # <<>> /\ m[Len(m)] = Assistant
LifeOf(x) == [phase |-> x.status, turn |-> x.gen, answered |-> Answered(x.msgs)]
life == [c \in Conv |-> LifeOf(row[c])]
Lifecycle == INSTANCE ConversationLifecycle WITH st <- life
LifecycleHolds == Lifecycle!Spec
=============================================================================
