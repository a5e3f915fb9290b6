----------------------- MODULE ConversationLifecycle -----------------------
(* What a conversation promises to the people who use it, without runs,      *)
(* epochs, requests or restarts: which status follows which, and what the    *)
(* status says about the answer of the turn.                                 *)
EXTENDS Naturals

CONSTANTS Conv

VARIABLE st     \* per conversation: phase, turn, and whether the turn is answered

Phases == {"none", "running", "paused", "done", "failed", "cancelled", "gone"}
States == [phase : Phases, turn : Nat, answered : BOOLEAN]

(* A question opens a new turn; only a conversation that is not busy takes   *)
(* one.  It fails at once when its project is gone.                          *)
Ask(a, b) ==
  /\ a.phase \in {"none", "done", "failed", "cancelled"}
  /\ b.phase \in {"running", "failed"} /\ b.turn = a.turn + 1 /\ ~b.answered

SameTurn(a, b) == b.turn = a.turn

(* A run stops for a decision, and goes on after it.                         *)
Pause(a, b) == a.phase = "running" /\ b.phase = "paused" /\ SameTurn(a, b) /\ ~b.answered
Decide(a, b) == a.phase = "paused" /\ b.phase = "running" /\ SameTurn(a, b) /\ ~b.answered

(* Only a running turn completes, and it completes with its answer.          *)
Complete(a, b) == a.phase = "running" /\ b.phase = "done" /\ SameTurn(a, b) /\ b.answered

(* A busy turn can fail or be cancelled, with or without a partial answer.   *)
Break(a, b) ==
  a.phase \in {"running", "paused"} /\ b.phase \in {"failed", "cancelled"} /\ SameTurn(a, b)

(* A cancelled turn may still receive what had been streamed before.         *)
SavePartial(a, b) ==
  /\ a.phase = "cancelled" /\ b.phase = "cancelled" /\ SameTurn(a, b)
  /\ ~a.answered /\ b.answered

Delete(a, b) ==
  /\ a.phase \in Phases \ {"none", "gone"}
  /\ b = [phase |-> "gone", turn |-> 0, answered |-> FALSE]

Step(a, b) ==
  \/ b = a
  \/ Ask(a, b) \/ Pause(a, b) \/ Decide(a, b) \/ Complete(a, b)
  \/ Break(a, b) \/ SavePartial(a, b) \/ Delete(a, b)

Init == st = [c \in Conv |-> [phase |-> "none", turn |-> 0, answered |-> FALSE]]

(* Deleting a project, rebinding it or restarting moves several at once.     *)
Next == st' \in [Conv -> States] /\ \A c \in Conv : Step(st[c], st'[c])

Spec == Init /\ [][Next]_st
=============================================================================
