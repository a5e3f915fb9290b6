------------------------------ MODULE ChatStream ------------------------------
(* One conversation as a browser follows it: the run writes its checkpoint   *)
(* and its events and emits them on the bus (workbench-agent.mjs,            *)
(* conv-bus.mjs), the gateway streams them or answers polls from the         *)
(* database (routes/workbench-conversations.mjs), and WorkbenchChat.vue      *)
(* merges streams, snapshots, polls and its user's own requests into turns   *)
(* (conv-stream.js).  A piece of text is a number; reasoning goes the way of *)
(* content; tool calls, rebuilding after a reload and wording are left out.  *)
EXTENDS Integers, FiniteSets, Sequences, SequencesExt

CONSTANTS
  MaxTurns, MaxPieces, MaxAsks,  \* bounds: turns, pieces of text and approvals
                                 \* of the conversation
  MaxUpsets,                     \* bound: streams, polls and requests that fail,
                                 \* cancels and failures of the run
  MaxPolls,                      \* bound: polls the timers have under way
  None

Requests == [k : {"send", "approve"}, ask : Nat \union {None}, st : {"sent", "served", "refused"}]

ASSUME ChatAssumption ==
  /\ \A n \in {MaxTurns, MaxPieces, MaxAsks, MaxUpsets, MaxPolls} : n \in Nat
  /\ None \notin Nat \union Requests

VARIABLES
  conv,      \* the row: status, checkpoint, the events after its last message row,
             \* the approval it waits for, how many turns it has
  run,       \* the run in memory: pieces produced, the text of its round
  turns,     \* the agent's turns in the browser
  view,      \* convStatus, sending, the approval asked for, those decided
  es,        \* the EventSource with what is under way to it, and its subscription;
             \* cut is history: it broke off before all of an ended turn had arrived
  polls,     \* polls under way: the epoch of their start, the response once read
  timer,     \* pollTimer and watchdogTimer
  pollEpoch,
  post,      \* the request of the user under way
  upsets

server == <<conv, run>>
browser == <<turns, view, timer, pollEpoch, post>>
vars == <<conv, run, turns, view, es, polls, timer, pollEpoch, post, upsets>>

Terminal == {"done", "failed", "cancelled"}
ThinkingTurn == [st |-> "thinking", content |-> <<>>, trace |-> <<>>]
NoStream == [st |-> "none", q |-> <<>>, sub |-> FALSE, cut |-> FALSE]
Connecting == [NoStream EXCEPT !.st = "connecting"]

Init ==
  /\ conv = [st |-> "running", content |-> <<>>, slice |-> <<>>, ask |-> 0, turn |-> 1]
  /\ run = [on |-> TRUE, n |-> 0, partial |-> <<>>, calls |-> FALSE]
  /\ turns = <<ThinkingTurn>>
  /\ view = [st |-> "running", sending |-> TRUE, modal |-> None, decided |-> {}]
  /\ es = Connecting /\ polls = {}
  /\ timer = [poll |-> FALSE, dog |-> TRUE]
  /\ pollEpoch = 1 /\ post = None /\ upsets = 0

Upset == upsets < MaxUpsets /\ upsets' = upsets + 1

-----------------------------------------------------------------------------
(* The run.  What it emits reaches the stream that is subscribed; dispose    *)
(* ends the subscription.                                                    *)
Emit(evs) == es' = IF es.sub THEN [es EXCEPT !.q = @ \o evs] ELSE es
EmitLast(evs) ==
  es' = IF es.sub THEN [es EXCEPT !.q = @ \o evs, !.sub = FALSE] ELSE es
Status(s) == [k |-> "status", st |-> s]
Paused(ask) == [k |-> "status", st |-> "paused", ask |-> ask]
End == [k |-> "end"]

Running == run.on /\ conv.st = "running"

(* A delta: the checkpoint follows at once or later.                         *)
Produce ==
  /\ Running /\ run.n < MaxPieces
  /\ LET piece == run.n + 1 IN
     /\ run' = [run EXCEPT !.n = piece, !.partial = Append(@, piece), !.calls = FALSE]
     /\ \E content \in {conv.content, run'.partial} : conv' = [conv EXCEPT !.content = content]
     /\ Emit(<<[k |-> "delta", p |-> piece]>>)
  /\ UNCHANGED <<browser, polls, upsets>>

(* A round that ends in tool calls.                                          *)
RoundEnds ==
  /\ Running /\ run.partial # <<>> /\ run.n < MaxPieces
  /\ conv' = [conv EXCEPT !.slice = Append(@, run.partial), !.content = <<>>]
  /\ run' = [run EXCEPT !.partial = <<>>, !.calls = TRUE]
  /\ Emit(<<[k |-> "step", p |-> run.partial]>>)
  /\ UNCHANGED <<browser, polls, upsets>>

(* One of them needs the user's approval.                                    *)
Pause ==
  /\ Running /\ run.calls /\ conv.ask < MaxAsks
  /\ conv' = [conv EXCEPT !.st = "paused", !.content = run.partial, !.ask = @ + 1]
  /\ run' = [run EXCEPT !.on = FALSE]
  /\ Emit(<<Paused(conv'.ask), End>>)
  /\ UNCHANGED <<browser, polls, upsets>>

(* The last round is the answer; its row closes the turn's events.           *)
Finish ==
  /\ Running /\ run.partial # <<>>
  /\ conv' = [conv EXCEPT !.st = "done", !.content = run.partial, !.slice = <<>>]
  /\ run' = [run EXCEPT !.on = FALSE, !.partial = <<>>]
  /\ EmitLast(<<[k |-> "step", p |-> run.partial], Status("done"), End>>)
  /\ UNCHANGED <<browser, polls, upsets>>

(* It fails: what the turn has becomes a row.                                *)
Fail ==
  /\ Running /\ Upset
  /\ conv' = [conv EXCEPT !.st = "failed", !.slice = <<>>,
                          !.content = IF run.partial # <<>> \/ conv.slice # <<>> THEN run.partial ELSE @]
  /\ run' = [run EXCEPT !.on = FALSE]
  /\ EmitLast(<<Status("failed"), End>>)
  /\ UNCHANGED <<browser, polls>>

(* Somebody cancels; a run under way notices later and leaves its row.       *)
Cancel ==
  /\ conv.st \in {"running", "paused"} /\ Upset
  /\ conv' = [conv EXCEPT !.st = "cancelled", !.slice = IF conv.st = "paused" THEN <<>> ELSE @]
  /\ EmitLast(<<Status("cancelled"), End>>)
  /\ UNCHANGED <<run, browser, polls>>

CancelledRunLeaves ==
  /\ run.on /\ conv.st = "cancelled"
  /\ conv' = [conv EXCEPT !.slice = <<>>]
  /\ run' = [run EXCEPT !.on = FALSE]
  /\ UNCHANGED <<es, browser, polls, upsets>>

(* A remark becomes a message row while the turn is under way.               *)
Steer ==
  /\ conv.st \in {"running", "paused"}
  /\ conv' = [conv EXCEPT !.slice = <<>>]
  /\ UNCHANGED <<run, es, browser, polls, upsets>>

(* approve, from this browser or from another one, goes by the row.          *)
Resumes ==
  /\ conv' = [conv EXCEPT !.st = "running"]
  /\ run' = [run EXCEPT !.on = TRUE, !.partial = conv.content, !.calls = FALSE]
  /\ Emit(<<Status("running")>>)

ApprovedElsewhere ==
  /\ conv.st = "paused" /\ Resumes
  /\ UNCHANGED <<browser, polls, upsets>>

-----------------------------------------------------------------------------
(* The browser: the turn that events go to, and what they make of it.        *)
ActiveOf(ts) ==
  IF \E i \in DOMAIN ts : ts[i].st = "thinking"
  THEN SelectLastInSeq(ts, LAMBDA t : t.st = "thinking") ELSE Len(ts)
Active == ActiveOf(turns)
IsFinal(ts) == ts[ActiveOf(ts)].st # "thinking"

PollFor(then, ask) == [epoch |-> pollEpoch, then |-> then, ask |-> ask, resp |-> None]
Poll(then) == PollFor(then, None)

(* ensureFinalAnswerBlock                                                    *)
WithFinalBlock(t) ==
  IF t.content # <<>> /\ t.trace # <<>> /\ Last(t.trace) # t.content
  THEN [t EXCEPT !.trace = Append(@, t.content)] ELSE t

Merged(t, e) ==
  [t EXCEPT !.content = IF e.content # <<>> THEN e.content ELSE @,
            !.trace = IF e.trace # <<>> THEN e.trace ELSE @]

Done(t) ==
  LET d == WithFinalBlock([t EXCEPT !.st = "done"]) IN
  IF d.content = <<>> /\ d.trace # <<>> THEN [d EXCEPT !.content = Last(d.trace)] ELSE d

(* applyStreamEvent                                                          *)
Reduced(t, e) ==
  CASE e.k = "delta" -> [t EXCEPT !.content = Append(@, e.p)]
    [] e.k = "step" -> [t EXCEPT !.content = <<>>, !.trace = Append(@, e.p)]
    [] e.k = "snapshot" -> Merged(t, e)
    [] e.k = "hello" -> [t EXCEPT !.st = CASE e.st = "done" -> "done"
                                           [] e.st = "failed" -> "error"
                                           [] OTHER -> "thinking"]
    [] e.k = "status" -> CASE e.st = "done" -> Done(t)
                           [] e.st = "paused" -> [t EXCEPT !.st = "pending"]
                           [] e.st = "running" -> [t EXCEPT !.st = "thinking"]
                           [] OTHER -> [t EXCEPT !.st = "error"]
    [] e.k = "end" -> t
Applied(ts, e) == [ts EXCEPT ![ActiveOf(ts)] = Reduced(@, e)]

IsTerminal(e) == e.k = "status" /\ e.st \in Terminal
Hears(e) ==
  [view EXCEPT
    !.st = IF e.k \in {"hello", "status"} THEN e.st ELSE @,
    !.modal = IF e.k = "status" /\ e.st = "paused"
              THEN (IF e.ask \notin view.decided THEN e.ask ELSE @)
              ELSE IF e.k \in {"hello", "status"} /\ e.st # "paused" THEN None ELSE @,
    !.sending = IF IsTerminal(e) \/ e.k = "end" THEN FALSE ELSE @]

(* onmessage.  A terminal status and the end close the stream.               *)
Receive ==
  /\ es.st = "open" /\ es.q # <<>>
  /\ LET e == Head(es.q)
         closes == IsTerminal(e) \/ e.k = "end" IN
     /\ view' = Hears(e)
     /\ turns' = Applied(turns, e)
     /\ es' = IF closes THEN NoStream ELSE [es EXCEPT !.q = Tail(@)]
     /\ timer' = IF IsTerminal(e) THEN [timer EXCEPT !.dog = FALSE] ELSE timer
     /\ polls' = IF closes /\ (e.k = "end" => ~IsFinal(turns)) THEN polls \union {Poll("nothing")}
                 ELSE polls
  /\ UNCHANGED <<server, pollEpoch, post, upsets>>

(* The gateway answers a stream: hello, and for a turn under way the         *)
(* subscription, the checkpoint brought up to date and the snapshot.         *)
NotFlushed == conv                 \* mutant: the snapshot lags behind the run
Flushed == IF Running THEN [conv EXCEPT !.content = run.partial] ELSE conv
Greeting ==
  LET hello == [k |-> "hello", st |-> conv.st]
      snapshot == [k |-> "snapshot", content |-> Flushed.content, trace |-> conv.slice] IN
  CASE conv.st = "paused" -> <<hello, Paused(conv.ask), End>>
    [] conv.st = "running" -> IF Flushed.content = <<>> /\ conv.slice = <<>> THEN <<hello>>
                              ELSE <<hello, snapshot>>
    [] OTHER -> <<hello, snapshot, Status(conv.st), End>>
Connect ==
  /\ es.st = "connecting"
  /\ conv' = Flushed
  /\ es' = [NoStream EXCEPT !.st = "open", !.sub = conv.st = "running", !.q = Greeting]
  /\ UNCHANGED <<run, browser, polls, upsets>>

(* The stream breaks: the browser reconnects by itself, or, in the middle of *)
(* a turn when it has heard all, notices nothing.  A connection that is      *)
(* refused is given up for polling.                                          *)
StreamBreaks ==
  /\ Upset
  /\ \/ /\ es.st = "open"
        /\ es' = [Connecting EXCEPT !.cut = es.q # <<>> /\ view.st = "done"]
        /\ UNCHANGED <<view, polls>>
     \/ es.sub /\ es.q = <<>> /\ es' = [NoStream EXCEPT !.st = "open"] /\ UNCHANGED <<view, polls>>
     \/ /\ es.st = "connecting" /\ es' = [es EXCEPT !.st = "none"]
        /\ view' = IF IsFinal(turns) THEN [view EXCEPT !.sending = FALSE] ELSE view
        /\ polls' = IF IsFinal(turns) THEN polls ELSE polls \union {Poll("go on")}
  /\ UNCHANGED <<server, turns, timer, pollEpoch, post>>

-----------------------------------------------------------------------------
(* Polls.                                                                    *)
Polling == timer.poll              \* mutant: no watchdog beside the stream
Watching == timer.poll \/ (timer.dog /\ ~IsFinal(turns))
Ticks ==
  /\ \/ /\ Watching
        /\ Cardinality(polls) < MaxPolls
        /\ Poll("nothing") \notin polls /\ polls' = polls \union {Poll("nothing")}
        /\ UNCHANGED timer
     \/ timer.dog /\ IsFinal(turns) /\ timer' = [timer EXCEPT !.dog = FALSE] /\ UNCHANGED polls
  /\ UNCHANGED <<server, turns, view, es, pollEpoch, post, upsets>>

PollRead ==
  /\ \E p \in polls :
       /\ p.resp = None
       /\ polls' = (polls \ {p}) \union
            {[p EXCEPT !.resp = [st |-> conv.st, ask |-> conv.ask,
                                 content |-> conv.content, trace |-> conv.slice]]}
  /\ UNCHANGED <<server, es, browser, upsets>>

(* What a response makes of the turn: without a stream its trace is replaced.*)
Aligned(t, r) ==
  IF es.st # "none" THEN t
  ELSE [t EXCEPT !.trace = r.trace,
                 !.content = IF r.st \in {"running", "paused"} /\ r.content # <<>>
                             THEN r.content ELSE @]
Polled(t, r) ==
  CASE r.st = "running" -> Aligned(t, r)
    [] r.st = "paused" -> [Aligned(t, r) EXCEPT !.st = "pending"]
    [] r.st = "done" -> WithFinalBlock([Aligned(t, r) EXCEPT !.st = "done", !.content = r.content])
    [] OTHER -> [Aligned(t, r) EXCEPT !.st = "error"]

LateCounts(p) == FALSE             \* mutant: a response of an earlier turn counts
IsStale(p) == p.epoch # pollEpoch
TurnsAfter(p) ==
  IF p.resp = None \/ IsStale(p) THEN turns ELSE [turns EXCEPT ![Active] = Polled(@, p.resp)]
OnlyByStream(r) ==                 \* mutant: a poll takes a modal away, never asks
  IF r.st # "paused" THEN None ELSE view.modal
Asked(r) ==
  IF r.st # "paused" THEN None ELSE IF r.ask \in view.decided THEN view.modal ELSE r.ask
ViewAfter(p) ==
  LET r == p.resp IN
  IF r = None \/ IsStale(p) THEN view
  ELSE [view EXCEPT !.st = r.st,
                    !.sending = IF r.st = "running" THEN @ ELSE FALSE,
                    !.modal = Asked(r)]
TimerAfter(p) ==
  LET r == p.resp IN
  IF r = None \/ IsStale(p) \/ r.st = "running" THEN timer
  ELSE [poll |-> r.st = "paused" /\ r.ask \in view.decided, dog |-> FALSE]

(* What awaits the poll: a stream that was given up turns into polling; an   *)
(* approval that was refused is asked for again, or the turn is followed.    *)
MayFollow(p) == ~IsFinal(TurnsAfter(p)) /\ ViewAfter(p).st = "running"
ThenNothing(p) ==
  /\ p.then = "nothing" \/ (p.then = "go on" /\ ~MayFollow(p))
  /\ view' = ViewAfter(p) /\ timer' = TimerAfter(p)
  /\ polls' = polls \ {p} /\ UNCHANGED es
ThenPolls(p) ==
  /\ p.then = "go on" /\ MayFollow(p)
  /\ view' = ViewAfter(p)
  /\ timer' = [TimerAfter(p) EXCEPT !.poll = TRUE]
  /\ polls' = (polls \ {p}) \union {Poll("nothing")} /\ UNCHANGED es
ThenAsksAgain(p) ==
  /\ p.then = "ask again"
  /\ LET v == ViewAfter(p) IN
     IF v.st # "paused" /\ MayFollow(p)
     THEN view' = v /\ es' = Connecting /\ timer' = [poll |-> FALSE, dog |-> TRUE]
     ELSE /\ view' = CASE v.st # "paused" -> [v EXCEPT !.sending = FALSE]
                       [] v.st = "paused" /\ v.modal = None ->
                            [v EXCEPT !.sending = FALSE, !.modal = p.ask, !.decided = @ \ {p.ask}]
                       [] OTHER -> v
          /\ timer' = TimerAfter(p) /\ UNCHANGED es
  /\ polls' = polls \ {p}

Lands(p) == turns' = TurnsAfter(p) /\ (ThenNothing(p) \/ ThenPolls(p) \/ ThenAsksAgain(p))
PollLands ==
  /\ \E p \in polls : p.resp # None /\ Lands(p)
  /\ UNCHANGED <<server, pollEpoch, post, upsets>>
PollFails ==
  /\ \E p \in polls : p.resp = None /\ Lands(p)
  /\ Upset
  /\ UNCHANGED <<server, pollEpoch, post>>

-----------------------------------------------------------------------------
(* The user's requests.  The new turn is shown before it is answered for.    *)
Request(k, ask) == [k |-> k, ask |-> ask, st |-> "sent"]

Send ==
  /\ post = None /\ conv.turn < MaxTurns /\ run.n < MaxPieces
  /\ ~view.sending /\ view.st # "paused" /\ IsFinal(turns) /\ conv.st \in Terminal
  /\ turns' = Append(turns, ThinkingTurn)
  /\ view' = [view EXCEPT !.sending = TRUE]
  /\ post' = Request("send", None)
  /\ UNCHANGED <<server, es, polls, timer, pollEpoch, upsets>>

Approve ==
  /\ post = None /\ view.modal # None
  /\ view' = [view EXCEPT !.modal = None, !.decided = @ \union {view.modal}, !.sending = TRUE]
  /\ post' = Request("approve", view.modal)
  /\ UNCHANGED <<server, turns, es, polls, timer, pollEpoch, upsets>>

NewTurn ==
  /\ conv' = [conv EXCEPT !.st = "running", !.content = <<>>, !.slice = <<>>, !.turn = @ + 1]
  /\ run' = [run EXCEPT !.on = TRUE, !.partial = <<>>, !.calls = FALSE]
  /\ UNCHANGED es

Served ==
  /\ post # None /\ post.st = "sent"
  /\ \/ post.k = "send" /\ NewTurn /\ post' = [post EXCEPT !.st = "served"]
     \/ post.k = "approve" /\ conv.st = "paused" /\ Resumes /\ post' = [post EXCEPT !.st = "served"]
     \/ /\ post.k = "approve" /\ conv.st # "paused"
        /\ post' = [post EXCEPT !.st = "refused"] /\ UNCHANGED <<conv, run, es>>
  /\ UNCHANGED <<turns, view, polls, timer, pollEpoch, upsets>>

(* The answer starts the new turn: polls begun before it no longer count.    *)
Answered ==
  /\ post # None /\ post.st = "served"
  /\ view' = [view EXCEPT !.st = "running"]
  /\ pollEpoch' = pollEpoch + 1
  /\ turns' = IF post.k = "approve" THEN [turns EXCEPT ![Active].st = "thinking"] ELSE turns
  /\ es' = Connecting /\ timer' = [poll |-> FALSE, dog |-> TRUE]
  /\ post' = None
  /\ UNCHANGED <<server, polls, upsets>>

Refused ==
  /\ post # None /\ post.st = "refused" /\ post' = None
  /\ polls' = polls \union {PollFor("ask again", post.ask)}
  /\ UNCHANGED <<server, turns, view, es, timer, pollEpoch, upsets>>

(* The answer to an approval is lost, or the approval itself.                *)
PostLost ==
  /\ post # None /\ post.k = "approve" /\ post.st # "refused" /\ Upset
  /\ view' = [view EXCEPT !.modal = post.ask, !.decided = @ \ {post.ask}, !.sending = FALSE]
  /\ post' = None
  /\ UNCHANGED <<server, turns, es, polls, timer, pollEpoch>>

-----------------------------------------------------------------------------
RunSteps == Produce \/ RoundEnds \/ Pause \/ Finish \/ CancelledRunLeaves
Follows == Receive \/ Connect \/ Ticks \/ PollRead \/ PollLands
Next ==
  \/ RunSteps \/ Fail \/ Cancel \/ Steer \/ ApprovedElsewhere
  \/ Follows \/ StreamBreaks \/ PollFails
  \/ Send \/ Approve \/ Served \/ Answered \/ Refused \/ PostLost

Spec == Init /\ [][Next]_vars

(* Events are delivered, timers fire, requests and polls are answered.       *)
FairSpec ==
  Spec /\ WF_vars(Receive) /\ WF_vars(Connect) /\ WF_vars(Ticks) /\ WF_vars(PollRead)
       /\ WF_vars(PollLands) /\ WF_vars(Served) /\ WF_vars(Answered) /\ WF_vars(Refused)

-----------------------------------------------------------------------------
Texts == Seq(1 .. run.n)
IsTurn(t) ==
  /\ t.st \in {"thinking", "pending", "done", "error"}
  /\ t.content \in Texts /\ t.trace \in Seq(Texts)

(* The types of the variables.                                               *)
TypeOK ==
  /\ conv.st \in {"running", "paused"} \union Terminal
  /\ conv.content \in Texts /\ conv.slice \in Seq(Texts)
  /\ conv.ask \in 0 .. MaxAsks /\ conv.turn \in 1 .. MaxTurns
  /\ run.on \in BOOLEAN /\ run.partial \in Texts
  /\ run.calls \in BOOLEAN
  /\ \A i \in DOMAIN turns : IsTurn(turns[i])
  /\ view.modal \in {None} \union 1 .. MaxAsks /\ view.decided \subseteq 1 .. MaxAsks
  /\ es.st \in {"none", "connecting", "open"} /\ es.sub \in BOOLEAN /\ es.cut \in BOOLEAN
  /\ \A p \in polls : p.epoch \in 1 .. pollEpoch /\ p.then \in {"nothing", "go on", "ask again"}
  /\ post \in Requests \union {None}

(* While a stream follows a running turn, what the browser shows once it has *)
(* heard all that is under way ends in the whole text of the current round:  *)
(* a snapshot and the deltas after it leave no gap, wherever it connects.    *)
ShowsTurns == post = None /\ Len(turns) = conv.turn
OneUnderWay == \A i \in 1 .. Len(turns) - 1 : turns[i].st # "thinking"
NoTextLost ==
  es.sub /\ Running /\ ShowsTurns /\ OneUnderWay =>
    IsSuffix(run.partial, Last(FoldLeft(Applied, turns, es.q)).content)

(* When everything is quiet and the browser calls its latest turn done, it   *)
(* shows the answer of that turn, whichever of stream, snapshot, watchdog and*)
(* poll told it, and however late the others were.  Outside this is a stream *)
(* that breaks between its hello, which calls the turn done, and its answer: *)
(* if it cannot be reconnected, nobody asks for the answer any more.         *)
Quiet ==
  /\ ShowsTurns /\ polls = {} /\ es.st # "connecting" /\ es.q = <<>>
  /\ ~timer.poll /\ ~timer.dog
Shown(t) == IF t.trace # <<>> THEN Last(t.trace) ELSE t.content
AnswerShown ==
  Quiet /\ view.st = "done" /\ Last(turns).st = "done" /\ conv.st = "done" /\ ~es.cut =>
    Shown(Last(turns)) = conv.content

(* When the conversation is over for good, the browser stops showing it as   *)
(* under way, even if its stream died without a word.  Two crossings are     *)
(* outside this: a question asked while the old turn still has a stream or a *)
(* poll under way, which are taken for the new turn's; and an approval       *)
(* decided elsewhere, which leaves a turn without its watchdog.              *)
Over == conv.st \in Terminal /\ post = None
CleanStart == post # None /\ post.k = "send" => es.st = "none" /\ polls = {}
DecidedHere ==
  conv.st = "running" /\ conv.ask > 0 =>
    conv.ask \in view.decided /\ (post = None \/ post.st = "served")
ViewSettles ==
  [](CleanStart /\ DecidedHere) /\ <>[]Over => <>[](~view.sending /\ Last(turns).st # "thinking")

(* An approval that stays open is put to a browser that was following the    *)
(* turn, unless that browser has decided it: however the stream or a poll    *)
(* fails, one of them brings it.                                             *)
Waits(a) ==
  /\ conv.st = "paused" /\ conv.ask = a
  /\ a \notin view.decided /\ Len(turns) = conv.turn /\ post = None
ApprovalReaches ==
  \A a \in 1 .. MaxAsks : []CleanStart /\ <>[]Waits(a) => <>(view.modal = a)

(* An approval decided elsewhere leaves the browser that shows it.           *)
ModalLeaves == [](view.modal # None => <>(view.modal = None \/ conv.st = "paused"))
=============================================================================
