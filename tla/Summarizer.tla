----------------------------- MODULE Summarizer -----------------------------
(* What the model is told about a long conversation: the message rows, the   *)
(* watermark summarizedUpTo below which rows are no longer sent in full, and *)
(* the recap that stands for them (server/workbench-summarize.mjs, with the  *)
(* routes that truncate rows).  Both summaries await an LLM between reading  *)
(* and writing, and the conversation goes on meanwhile.                      *)
(*                                                                           *)
(* seq numbers the rows from 1 without gaps and is reused after a            *)
(* truncation, so it is the index in msgs; an id is never reused.  The recap *)
(* is the set of the ids it was written from.                                *)
EXTENDS Naturals, Sequences, FiniteSets

CONSTANTS
  Compacts,     \* slots for compact requests in flight
  Threshold,    \* thresholdTurns: more unsummarised rows trigger a summary
  RecentKeep,   \* recentKeep: rows kept in full
  VolumeKeep,   \* rows kept when the volume line triggered the summary
  Steering,     \* whether users add remarks to a running turn
  None,
  MaxRows,      \* bound: rows of the conversation
  MaxId         \* bound: rows ever written

COMPACT_KEEP_RECENT == 2
COMPACT_MIN_MESSAGES == 4

ASSUME ConstantsAssumption ==
  /\ Threshold \in Nat /\ RecentKeep \in Nat /\ VolumeKeep \in Nat
  /\ Steering \in BOOLEAN
  /\ MaxRows \in Nat /\ MaxId \in Nat
  /\ None \notin [seen : Nat, from : Nat, upTo : Nat, rows : SUBSET Nat, torn : BOOLEAN]

VARIABLES
  msgs,      \* the rows in seq order
  busy,      \* status is running or paused
  wm,        \* summarizedUpTo
  recap,     \* ids the recap was written from
  auto,      \* the maybeSummarize in flight (single-flight), or None
  compact,   \* per slot the compactConversation in flight, or None
  lastId,    \* ids given out
  gap        \* history: which gaps in the guards have been met: "torn", a
             \* summary of rows that were cut meanwhile passed all of them;
             \* "back", a compact lowered the watermark below what the recap covers

jobs == <<auto, compact>>
vars == <<msgs, busy, wm, recap, jobs, lastId, gap>>

Kinds == {"ask", "steer", "answer", "blank"}     \* blank: an answer without text
Gaps == {"torn", "back"}
Rows == [id : Nat, kind : Kinds]

Init ==
  /\ msgs = <<>> /\ busy = FALSE
  /\ wm = 0 /\ recap = {}
  /\ auto = None /\ compact = [c \in Compacts |-> None]
  /\ lastId = 0 /\ gap = {}

-----------------------------------------------------------------------------
Min(a, b) == IF a <= b THEN a ELSE b
Minus(a, b) == IF b <= a THEN a - b ELSE 0
UserRows(m) == {i \in 1..Len(m) : m[i].kind \in {"ask", "steer"}}
LastUser(m) == CHOOSE i \in UserRows(m) : \A j \in UserRows(m) : j <= i

(* The ids of the rows in (from, upTo] that have text (transcriptLine).      *)
TextIds(m, from, upTo) ==
  {m[i].id : i \in {i \in 1..Len(m) : from < i /\ i <= upTo /\ m[i].kind # "blank"}}

CanAppend(m) == Len(m) < MaxRows /\ lastId < MaxId
Add(m, kind) == Append(m, [id |-> lastId + 1, kind |-> kind])

(* The rows from index f on are cut: a summary in flight that was written    *)
(* from one of them, or from a recap of one of them, is torn.                *)
Tear(j, f) == IF j # None /\ (f <= j.upTo \/ f <= j.from) THEN [j EXCEPT !.torn = TRUE] ELSE j
TearJobs(f) ==
  /\ auto' = Tear(auto, f)
  /\ compact' = [c \in Compacts |-> Tear(compact[c], f)]

-----------------------------------------------------------------------------
(* maybeSummarize.                                                           *)

Due(m, volume) == volume \/ Cardinality(TextIds(m, wm, Len(m))) > Threshold

AutoUpTo(m, volume) ==
  Min(Minus(Len(m), IF volume THEN Min(RecentKeep, VolumeKeep) ELSE RecentKeep),
      LastUser(m) - 1)

(* Up to its await, run for the rows m in one go with the step that wrote    *)
(* them.  Whether the volume line is passed depends on how long the rows     *)
(* are.  A window without text moves the watermark at once.                  *)
TryAuto(m) ==
  \E volume \in BOOLEAN :
    LET upTo == AutoUpTo(m, volume)
        fold == TextIds(m, wm, upTo) IN
      IF auto # None \/ ~Due(m, volume) \/ upTo <= wm
        THEN UNCHANGED <<auto, wm>>
        ELSE IF fold = {}
          THEN wm' = upTo /\ UNCHANGED auto
          ELSE /\ auto' = [seen |-> Len(m), from |-> wm, upTo |-> upTo,
                           rows |-> recap \cup fold, torn |-> FALSE]
               /\ UNCHANGED wm

(* The bookkeeping of gap: summary j is stored by a code with these guards.  *)
Meets(guards, j) ==
  gap' = gap \cup {g \in Gaps : guards /\ ((g = "torn" /\ j.torn) \/ (g = "back" /\ j.upTo < wm))}

StoreIfUnmoved == wm = auto.from             \* mutant: no look at the rows again
StoreIfNotShrunk == Len(msgs) >= auto.seen   \* mutant: an unconditional UPDATE
MayStoreAuto == Len(msgs) >= auto.seen /\ wm = auto.from

(* The LLM has answered: the rows must not have become fewer, and nobody     *)
(* else may have moved the watermark.                                        *)
FinishAuto ==
  /\ auto # None
  /\ IF MayStoreAuto
       THEN /\ recap' = auto.rows
            /\ wm' = Min(auto.upTo, Len(msgs))
       ELSE UNCHANGED <<recap, wm>>
  /\ Meets(Len(msgs) >= auto.seen /\ wm = auto.from, auto)
  /\ auto' = None
  /\ UNCHANGED <<msgs, busy, compact, lastId>>

(* The LLM failed or gave nothing; nothing is stored.                        *)
FailAuto ==
  /\ auto # None
  /\ auto' = None
  /\ UNCHANGED <<msgs, busy, wm, recap, compact, lastId, gap>>

-----------------------------------------------------------------------------
(* compactConversation: the old recap and all but the last rows become the   *)
(* new recap.                                                                *)

StartCompact(c) ==
  /\ compact[c] = None /\ ~busy /\ Len(msgs) >= COMPACT_MIN_MESSAGES
  /\ LET upTo == Len(msgs) - COMPACT_KEEP_RECENT IN
       compact' = [compact EXCEPT ![c] =
         [seen |-> Len(msgs), from |-> wm, upTo |-> upTo,
          rows |-> recap \cup TextIds(msgs, 0, upTo), torn |-> FALSE]]
  /\ UNCHANGED <<msgs, busy, wm, recap, auto, lastId, gap>>

StoreWhileBusy(c) == wm = compact[c].from    \* mutant: the status is not read again
MayStoreCompact(c) == ~busy /\ wm = compact[c].from
UpToFinal(j) == Min(j.upTo, Len(msgs))

FinishCompact(c) ==
  /\ compact[c] # None
  /\ IF MayStoreCompact(c)
       THEN /\ recap' = compact[c].rows
            /\ wm' = UpToFinal(compact[c])
       ELSE UNCHANGED <<recap, wm>>
  /\ Meets(~busy /\ wm = compact[c].from, compact[c])
  /\ compact' = [compact EXCEPT ![c] = None]
  /\ UNCHANGED <<msgs, busy, auto, lastId>>

FailCompact(c) ==
  /\ compact[c] # None
  /\ compact' = [compact EXCEPT ![c] = None]
  /\ UNCHANGED <<msgs, busy, wm, recap, auto, lastId, gap>>

-----------------------------------------------------------------------------
(* The conversation.                                                         *)

(* POST messages, and create for the first question.                         *)
Ask ==
  /\ ~busy /\ CanAppend(msgs)
  /\ msgs' = Add(msgs, "ask") /\ lastId' = lastId + 1
  /\ busy' = TRUE
  /\ IF msgs = <<>> THEN UNCHANGED <<auto, wm>> ELSE TryAuto(msgs')
  /\ UNCHANGED <<recap, compact, gap>>

(* POST steer.                                                               *)
Steer ==
  /\ Steering /\ busy /\ CanAppend(msgs)
  /\ msgs' = Add(msgs, "steer") /\ lastId' = lastId + 1
  /\ UNCHANGED <<busy, wm, recap, jobs, gap>>

DeepEditKeepsRecap(f) == wm' = Min(wm, f - 1) /\ UNCHANGED recap   \* mutant
(* POST edit: an anchor at or below the watermark takes the recap with it.   *)
EditWatermark(f) ==
  IF f <= wm THEN wm' = 0 /\ recap' = {}
             ELSE wm' = Min(wm, f - 1) /\ UNCHANGED recap

Edit(f) ==
  /\ ~busy /\ f \in UserRows(msgs) /\ lastId < MaxId
  /\ msgs' = Add(SubSeq(msgs, 1, f - 1), "ask") /\ lastId' = lastId + 1
  /\ busy' = TRUE
  /\ EditWatermark(f)
  /\ TearJobs(f)
  /\ UNCHANGED gap

RegenWatermark(prevUpTo, lastUserSeq) == Min(prevUpTo, lastUserSeq - 1)

(* POST regenerate: the rows after the last user row go.                     *)
Regenerate ==
  /\ ~busy /\ UserRows(msgs) # {}
  /\ msgs' = SubSeq(msgs, 1, LastUser(msgs))
  /\ wm' = RegenWatermark(wm, LastUser(msgs))
  /\ busy' = TRUE
  /\ TearJobs(LastUser(msgs) + 1)
  /\ UNCHANGED <<recap, lastId, gap>>

(* A turn completes with its answer, which may have no text.                 *)
Complete(kind) ==
  /\ busy /\ CanAppend(msgs)
  /\ msgs' = Add(msgs, kind) /\ lastId' = lastId + 1
  /\ busy' = FALSE
  /\ TryAuto(msgs')
  /\ UNCHANGED <<recap, compact, gap>>

(* A turn fails or is cancelled, with or without a partial answer.           *)
Break ==
  /\ busy
  /\ \/ UNCHANGED <<msgs, lastId>>
     \/ /\ CanAppend(msgs) /\ lastId' = lastId + 1
        /\ \E kind \in {"answer", "blank"} : msgs' = Add(msgs, kind)
  /\ busy' = FALSE
  /\ UNCHANGED <<wm, recap, jobs, gap>>

(* A run that pauses for an approval asks for a summary as well.             *)
Pause ==
  /\ busy
  /\ TryAuto(msgs)
  /\ UNCHANGED <<msgs, busy, recap, compact, lastId, gap>>

(* The process dies with the summaries in flight.                            *)
Restart ==
  /\ auto' = None /\ compact' = [c \in Compacts |-> None]
  /\ UNCHANGED <<msgs, busy, wm, recap, lastId, gap>>

Summaries ==
  \/ FinishAuto \/ FailAuto
  \/ \E c \in Compacts : StartCompact(c) \/ FinishCompact(c) \/ FailCompact(c)

Turns ==
  \/ Ask \/ Steer \/ (\E f \in 1..MaxRows : Edit(f)) \/ Regenerate
  \/ (\E kind \in {"answer", "blank"} : Complete(kind)) \/ Break \/ Pause

Next == Summaries \/ Turns \/ Restart

Spec == Init /\ [][Next]_vars

-----------------------------------------------------------------------------
(* Properties.                                                               *)

Job == [seen : Nat, from : Nat, upTo : Nat, rows : SUBSET Nat, torn : BOOLEAN]

(* Every variable has its type.                                              *)
TypeOK ==
  /\ msgs \in Seq(Rows) /\ busy \in BOOLEAN
  /\ wm \in Nat /\ recap \in SUBSET Nat
  /\ auto \in Job \cup {None} /\ compact \in [Compacts -> Job \cup {None}]
  /\ lastId \in Nat /\ gap \in SUBSET Gaps

(* The watermark never lies above the last row: seq is reused, so the rows   *)
(* appended next would be skipped by buildHistory for ever.                  *)
WatermarkInRange == wm <= Len(msgs)

Skipped(i) == i <= wm
Covered(i) == msgs[i].id \in recap \/ msgs[i].kind = "blank"

(* A row that buildHistory skips is in the recap: neither summary makes the  *)
(* model forget a row it was never told about.                               *)
NothingForgotten == \A i \in 1..Len(msgs) : Skipped(i) => Covered(i)

(* The recap was not written from rows the user has edited away.             *)
RecapIsCurrent == recap \subseteq {msgs[i].id : i \in 1..Len(msgs)}

(* The last thing the user wrote in a turn in progress is sent in full.      *)
QuestionInFull == busy => ~Skipped(LastUser(msgs))

(* A row is forgotten, or the question of a turn in progress, only through a *)
(* summary of rows that were cut during its await; and an edit takes what it *)
(* cuts out of the recap, unless such a summary came in between or the       *)
(* watermark had been lowered.                                               *)
GuardsHold ==
  /\ "torn" \in gap \/ (NothingForgotten /\ QuestionInFull)
  /\ gap # {} \/ RecapIsCurrent

(* Two summaries in flight never overwrite each other: only a new turn takes *)
(* rows out of the recap, or a summary stored through one of the gaps.       *)
NoSummaryLost ==
  [][recap \ recap' # {} => (~busy /\ busy') \/ gap' # {}]_vars
=============================================================================
