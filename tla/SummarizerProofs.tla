-------------------------- MODULE SummarizerProofs --------------------------
(* Proofs about Summarizer.                                                  *)
EXTENDS Summarizer, SequenceTheorems, WellFoundedInduction, TLAPS

(* A nonempty set of naturals with an upper bound has a greatest element.    *)
LEMMA Greatest ==
  ASSUME NEW n \in Nat, NEW S \in SUBSET (1..n), S # {}
  PROVE  \E i \in S : \A j \in S : j <= i
<1> DEFINE T == {n - i : i \in S}
<1>1. IsWellFoundedOn(OpToRel(<, Nat), Nat)
  BY NatLessThanWellFounded
<1>2. T \subseteq Nat /\ T # {}
  <2>1. \A i \in S : i \in 1..n /\ n - i \in Nat
    OBVIOUS
  <2> QED BY <2>1
<1>3. PICK x \in T : \A y \in T : ~(<<y, x>> \in OpToRel(<, Nat))
  <2> DEFINE R == OpToRel(<, Nat)
  <2>1. IsWellFoundedOn(R, Nat)
    BY <1>1
  <2> HIDE DEF R, T
  <2>2. \E x \in T : \A y \in T : ~(<<y, x>> \in R)
    BY <2>1, <1>2, WFMin
  <2> QED BY <2>2 DEF R
<1>4. PICK i \in S : x = n - i
  OBVIOUS
<1>5. ASSUME NEW j \in S PROVE j <= i
  <2>1. ~(<<n - j, x>> \in OpToRel(<, Nat))
    BY <1>3
  <2>2. ~(n - j < x)
    BY <2>1, <1>2 DEF OpToRel
  <2> QED BY <2>2, <1>4
<1> QED BY <1>5

-----------------------------------------------------------------------------
(* The last row of a user, where there is one.                               *)
LEMMA LastUserOK ==
  ASSUME NEW m \in Seq(Rows), UserRows(m) # {}
  PROVE  LastUser(m) \in 1..Len(m) /\ LastUser(m) \in UserRows(m)
<1>1. Len(m) \in Nat /\ UserRows(m) \in SUBSET (1..Len(m))
  BY DEF UserRows
<1>2. \E i \in UserRows(m) : \A j \in UserRows(m) : j <= i
  BY <1>1, Greatest
<1> QED BY <1>1, <1>2 DEF LastUser

LEMMA MinOK ==
  ASSUME NEW a \in Int, NEW b \in Int
  PROVE  /\ Min(a, b) \in {a, b} /\ Min(a, b) <= a /\ Min(a, b) <= b
BY DEF Min

(* Where a summary of the rows m may end.                                    *)
LEMMA AutoUpToOK ==
  ASSUME NEW m \in Seq(Rows), UserRows(m) # {}, NEW volume \in BOOLEAN
  PROVE  AutoUpTo(m, volume) \in Nat /\ AutoUpTo(m, volume) <= Len(m)
<1>1. LastUser(m) - 1 \in Nat /\ LastUser(m) - 1 <= Len(m)
  BY LastUserOK
<1>2. \A k \in Nat : Minus(Len(m), k) \in Nat /\ Minus(Len(m), k) <= Len(m)
  BY DEF Minus
<1>3. (IF volume THEN Min(RecentKeep, VolumeKeep) ELSE RecentKeep) \in Nat
  BY ConstantsAssumption DEF Min
<1> DEFINE k == IF volume THEN Min(RecentKeep, VolumeKeep) ELSE RecentKeep
           a == Minus(Len(m), k)
           b == LastUser(m) - 1
<1>4. a \in Nat /\ a <= Len(m)
  BY <1>2, <1>3
<1>5. AutoUpTo(m, volume) = Min(a, b)
  BY DEF AutoUpTo
<1> HIDE DEF a, b
<1>6. b \in Nat /\ b <= Len(m)
  BY <1>1 DEF b
<1> QED BY <1>4, <1>5, <1>6 DEF Min

(* The ids of rows.                                                          *)
LEMMA TextIdsOK ==
  ASSUME NEW m \in Seq(Rows), NEW a, NEW b
  PROVE  TextIds(m, a, b) \in SUBSET Nat
<1>1. \A i \in 1..Len(m) : m[i] \in Rows
  OBVIOUS
<1>2. \A x \in Rows : x.id \in Nat
  BY DEF Rows
<1> QED BY <1>1, <1>2 DEF TextIds

-----------------------------------------------------------------------------
(* A conversation begins with a question, and a busy one has it.             *)
Begins(m) == m # <<>> => 1 \in UserRows(m)
Inv ==
  /\ TypeOK
  /\ WatermarkInRange
  /\ Begins(msgs)
  /\ busy => msgs # <<>>

LEMMA BeginsOK ==
  ASSUME NEW m \in Seq(Rows), Begins(m), m # <<>>
  PROVE  UserRows(m) # {}
BY DEF Begins

LEMMA AddOK ==
  ASSUME NEW m \in Seq(Rows), Begins(m), NEW kind \in Kinds, lastId \in Nat,
         m # <<>> \/ kind = "ask"
  PROVE  /\ Add(m, kind) \in Seq(Rows) /\ Add(m, kind) # <<>>
         /\ Begins(Add(m, kind)) /\ Len(Add(m, kind)) = Len(m) + 1
<1> DEFINE x == [id |-> lastId + 1, kind |-> kind]
<1>1. x \in Rows
  BY DEF Rows
<1> HIDE DEF x
<1>2. Add(m, kind) = Append(m, x)
  BY DEF Add, x
<1>3. /\ Append(m, x) \in Seq(Rows) /\ Len(Append(m, x)) = Len(m) + 1
      /\ \A i \in 1..Len(m) : Append(m, x)[i] = m[i]
      /\ Append(m, x)[Len(m) + 1] = x
  BY <1>1
<1>4. Append(m, x) # <<>>
  BY <1>3
<1>5. 1 \in UserRows(Append(m, x))
  <2>1. CASE m # <<>>
    <3>1. 1 \in 1..Len(m) /\ m[1].kind \in {"ask", "steer"}
      BY <2>1 DEF Begins, UserRows
    <3>2. Append(m, x)[1] = m[1] /\ 1 \in 1..Len(Append(m, x))
      BY <3>1, <1>3
    <3> QED BY <3>1, <3>2 DEF UserRows
  <2>2. CASE m = <<>>
    <3>1. x.kind = "ask" /\ Len(m) = 0
      BY <2>2 DEF x
    <3>2. Append(m, x)[1] = x /\ Len(Append(m, x)) = 1
      BY <3>1, <1>3
    <3> QED BY <3>1, <3>2 DEF UserRows
  <2> QED BY <2>1, <2>2
<1> QED BY <1>2, <1>3, <1>4, <1>5 DEF Begins

LEMMA CutOK ==
  ASSUME NEW m \in Seq(Rows), Begins(m), NEW n \in 0..Len(m)
  PROVE  /\ SubSeq(m, 1, n) \in Seq(Rows) /\ Begins(SubSeq(m, 1, n))
         /\ Len(SubSeq(m, 1, n)) = n
<1> DEFINE s == SubSeq(m, 1, n)
<1>1. s \in Seq(Rows) /\ Len(s) = n /\ \A i \in 1..n : s[i] = m[i]
  BY SubSeqProperties
<1>2. ASSUME s # <<>> PROVE 1 \in UserRows(s)
  <2> HIDE DEF s
  <2>1. n >= 1
    BY <1>1, <1>2
  <2>2. m # <<>>
    BY <2>1
  <2>3. 1 \in UserRows(m)
    BY <2>2 DEF Begins
  <2> QED BY <2>1, <2>3, <1>1 DEF UserRows
<1> QED BY <1>1, <1>2 DEF Begins

LEMMA TearOK ==
  ASSUME NEW j \in Job \cup {None}, NEW f
  PROVE  Tear(j, f) \in Job \cup {None}
BY DEF Tear, Job

-----------------------------------------------------------------------------
LEMMA TryAutoOK ==
  ASSUME Inv, NEW m \in Seq(Rows), UserRows(m) # {}, wm <= Len(m), TryAuto(m)
  PROVE  auto' \in Job \cup {None} /\ wm' \in Nat /\ wm' <= Len(m)
<1> USE DEF Inv, TypeOK
<1>1. PICK volume \in BOOLEAN :
        LET upTo == AutoUpTo(m, volume)
            fold == TextIds(m, wm, upTo) IN
          IF auto # None \/ ~Due(m, volume) \/ upTo <= wm
            THEN UNCHANGED <<auto, wm>>
            ELSE IF fold = {}
              THEN wm' = upTo /\ UNCHANGED auto
              ELSE /\ auto' = [seen |-> Len(m), from |-> wm, upTo |-> upTo,
                               rows |-> recap \cup fold, torn |-> FALSE]
                   /\ UNCHANGED wm
  BY DEF TryAuto
<1> DEFINE upTo == AutoUpTo(m, volume)
           fold == TextIds(m, wm, upTo)
           job == [seen |-> Len(m), from |-> wm, upTo |-> upTo,
                   rows |-> recap \cup fold, torn |-> FALSE]
<1>2. upTo \in Nat /\ upTo <= Len(m)
  BY AutoUpToOK
<1>3. fold \in SUBSET Nat
  BY TextIdsOK
<1> HIDE DEF upTo, fold
<1>4. job \in Job
  BY <1>2, <1>3 DEF Job
<1>5. \/ UNCHANGED <<auto, wm>>
      \/ wm' = upTo /\ UNCHANGED auto
      \/ auto' = job /\ UNCHANGED wm
  BY <1>1 DEF upTo, fold
<1> QED BY <1>2, <1>4, <1>5

LEMMA FinishAutoKeeps == ASSUME Inv, FinishAuto PROVE Inv'
<1> USE DEF Inv, TypeOK, WatermarkInRange
<1>1. auto \in Job /\ auto.rows \in SUBSET Nat /\ auto.upTo \in Nat
  BY DEF FinishAuto, Job
<1>2. recap' \in SUBSET Nat /\ wm' \in Nat /\ wm' <= Len(msgs)
  <2>1. Min(auto.upTo, Len(msgs)) \in Nat /\ Min(auto.upTo, Len(msgs)) <= Len(msgs)
    BY <1>1 DEF Min
  <2>2. CASE MayStoreAuto
    BY <2>1, <2>2, <1>1 DEF FinishAuto
  <2>3. CASE ~MayStoreAuto
    BY <2>3 DEF FinishAuto
  <2> QED BY <2>2, <2>3
<1>3. gap' \in SUBSET Gaps
  BY DEF FinishAuto, Meets
<1> QED BY <1>2, <1>3 DEF FinishAuto

LEMMA StartCompactKeeps ==
  ASSUME Inv, NEW c \in Compacts, StartCompact(c) PROVE Inv'
<1> USE DEF Inv, TypeOK, WatermarkInRange
<1> DEFINE upTo == Len(msgs) - COMPACT_KEEP_RECENT
           fold == TextIds(msgs, 0, upTo)
           job == [seen |-> Len(msgs), from |-> wm, upTo |-> upTo,
                   rows |-> recap \cup fold, torn |-> FALSE]
<1>1. upTo \in Nat
  BY DEF StartCompact, COMPACT_KEEP_RECENT, COMPACT_MIN_MESSAGES
<1>2. fold \in SUBSET Nat
  BY TextIdsOK
<1> HIDE DEF upTo, fold
<1>3. job \in Job
  BY <1>1, <1>2 DEF Job
<1>4. compact' = [compact EXCEPT ![c] = job]
  BY DEF StartCompact, upTo, fold
<1> HIDE DEF job
<1>5. compact' \in [Compacts -> Job \cup {None}]
  BY <1>3, <1>4
<1> QED BY <1>5 DEF StartCompact

LEMMA FinishCompactKeeps ==
  ASSUME Inv, NEW c \in Compacts, FinishCompact(c) PROVE Inv'
<1> USE DEF Inv, TypeOK, WatermarkInRange
<1>1. compact[c] \in Job /\ compact[c].rows \in SUBSET Nat /\ compact[c].upTo \in Nat
  BY DEF FinishCompact, Job
<1>2. recap' \in SUBSET Nat /\ wm' \in Nat /\ wm' <= Len(msgs)
  <2>1. UpToFinal(compact[c]) \in Nat /\ UpToFinal(compact[c]) <= Len(msgs)
    BY <1>1 DEF UpToFinal, Min
  <2>2. CASE MayStoreCompact(c)
    BY <2>1, <2>2, <1>1 DEF FinishCompact
  <2>3. CASE ~MayStoreCompact(c)
    BY <2>3 DEF FinishCompact
  <2> QED BY <2>2, <2>3
<1>3. gap' \in SUBSET Gaps
  BY DEF FinishCompact, Meets
<1>4. compact' \in [Compacts -> Job \cup {None}]
  BY DEF FinishCompact
<1> QED BY <1>2, <1>3, <1>4 DEF FinishCompact

LEMMA AskKeeps == ASSUME Inv, Ask PROVE Inv'
<1> USE DEF Inv, TypeOK, WatermarkInRange
<1>1. /\ msgs' \in Seq(Rows) /\ msgs' # <<>> /\ Begins(msgs')
      /\ Len(msgs') = Len(msgs) + 1
  BY AddOK DEF Ask, Kinds
<1>2. auto' \in Job \cup {None} /\ wm' \in Nat /\ wm' <= Len(msgs')
  <2>1. CASE msgs = <<>>
    BY <2>1, <1>1 DEF Ask
  <2>2. CASE msgs # <<>>
    <3>1. UserRows(msgs') # {} /\ wm <= Len(msgs')
      BY <1>1, BeginsOK
    <3> QED BY <2>2, <3>1, <1>1, TryAutoOK DEF Ask
  <2> QED BY <2>1, <2>2
<1> QED BY <1>1, <1>2 DEF Ask, Begins

LEMMA SteerKeeps == ASSUME Inv, Steer PROVE Inv'
<1> USE DEF Inv, TypeOK, WatermarkInRange
<1>1. /\ msgs' \in Seq(Rows) /\ msgs' # <<>> /\ Begins(msgs')
      /\ Len(msgs') = Len(msgs) + 1
  BY AddOK DEF Steer, Kinds
<1> QED BY <1>1 DEF Steer, Begins, jobs

LEMMA TearJobsOK ==
  ASSUME Inv, NEW f, TearJobs(f)
  PROVE  auto' \in Job \cup {None} /\ compact' \in [Compacts -> Job \cup {None}]
<1> USE DEF Inv, TypeOK
<1>1. auto' \in Job \cup {None}
  BY TearOK DEF TearJobs
<1>2. \A c \in Compacts : Tear(compact[c], f) \in Job \cup {None}
  BY TearOK
<1> QED BY <1>1, <1>2 DEF TearJobs

LEMMA EditKeeps == ASSUME Inv, NEW f \in 1..MaxRows, Edit(f) PROVE Inv'
<1> USE DEF Inv, TypeOK, WatermarkInRange
<1> DEFINE kept == SubSeq(msgs, 1, f - 1)
<1>1. f \in 1..Len(msgs)
  BY DEF Edit, UserRows
<1>2. kept \in Seq(Rows) /\ Begins(kept) /\ Len(kept) = f - 1
  BY <1>1, CutOK
<1> HIDE DEF kept
<1>3. /\ msgs' \in Seq(Rows) /\ msgs' # <<>> /\ Begins(msgs') /\ Len(msgs') = f
  <2>1. msgs' = Add(kept, "ask")
    BY DEF Edit, kept
  <2> QED BY <2>1, <1>1, <1>2, AddOK DEF Kinds
<1>4. wm' \in Nat /\ wm' <= f /\ recap' \in SUBSET Nat
  <2>1. Min(wm, f - 1) \in Nat /\ Min(wm, f - 1) <= f
    BY <1>1 DEF Min
  <2>2. EditWatermark(f)
    BY DEF Edit
  <2>3. \/ wm' = 0 /\ recap' = {}
        \/ wm' = Min(wm, f - 1) /\ recap' = recap
    BY <2>2 DEF EditWatermark
  <2>4. CASE wm' = 0 /\ recap' = {}
    BY <2>4, <1>1
  <2>5. CASE wm' = Min(wm, f - 1) /\ recap' = recap
    BY <2>1, <2>5
  <2> QED BY <2>3, <2>4, <2>5
<1>5. auto' \in Job \cup {None} /\ compact' \in [Compacts -> Job \cup {None}]
  BY TearJobsOK DEF Edit
<1> QED BY <1>3, <1>4, <1>5 DEF Edit, Begins

LEMMA RegenerateKeeps == ASSUME Inv, Regenerate PROVE Inv'
<1> USE DEF Inv, TypeOK, WatermarkInRange
<1> DEFINE last == LastUser(msgs)
<1>1. last \in 1..Len(msgs)
  BY LastUserOK DEF Regenerate
<1> HIDE DEF last
<1>2. msgs' = SubSeq(msgs, 1, last) /\ wm' = RegenWatermark(wm, last)
  BY DEF Regenerate, last
<1>3. msgs' \in Seq(Rows) /\ Begins(msgs') /\ Len(msgs') = last
  BY <1>1, <1>2, CutOK
<1>4. wm' \in Nat /\ wm' <= last
  BY <1>1, <1>2 DEF RegenWatermark, Min
<1>5. auto' \in Job \cup {None} /\ compact' \in [Compacts -> Job \cup {None}]
  BY TearJobsOK DEF Regenerate
<1>6. msgs' # <<>>
  BY <1>1, <1>3
<1> QED BY <1>3, <1>4, <1>5, <1>6 DEF Regenerate, Begins

LEMMA CompleteKeeps ==
  ASSUME Inv, NEW kind \in {"answer", "blank"}, Complete(kind) PROVE Inv'
<1> USE DEF Inv, TypeOK, WatermarkInRange
<1>1. /\ msgs' \in Seq(Rows) /\ msgs' # <<>> /\ Begins(msgs')
      /\ Len(msgs') = Len(msgs) + 1
  BY AddOK DEF Complete, Kinds
<1>2. auto' \in Job \cup {None} /\ wm' \in Nat /\ wm' <= Len(msgs')
  <2>1. UserRows(msgs') # {} /\ wm <= Len(msgs')
    BY <1>1, BeginsOK
  <2> QED BY <2>1, <1>1, TryAutoOK DEF Complete
<1>3. lastId' \in Nat /\ busy' = FALSE /\ UNCHANGED <<recap, compact, gap>>
  BY DEF Complete
<1> QED BY <1>1, <1>2, <1>3 DEF Begins

LEMMA BreakKeeps == ASSUME Inv, Break PROVE Inv'
<1> USE DEF Inv, TypeOK, WatermarkInRange
<1>1. CASE UNCHANGED <<msgs, lastId>>
  BY <1>1 DEF Break, jobs, Begins, UserRows
<1>2. CASE lastId' = lastId + 1 /\ \E kind \in {"answer", "blank"} : msgs' = Add(msgs, kind)
  <2>1. /\ msgs' \in Seq(Rows) /\ msgs' # <<>> /\ Begins(msgs')
        /\ Len(msgs') = Len(msgs) + 1
    BY <1>2, AddOK DEF Break, Kinds
  <2>2. lastId' \in Nat /\ busy' = FALSE /\ UNCHANGED <<wm, recap, auto, compact, gap>>
    BY <1>2 DEF Break, jobs
  <2>3. TypeOK'
    BY <2>1, <2>2
  <2>4. wm' <= Len(msgs')
    BY <2>1, <2>2
  <2> HIDE DEF TypeOK
  <2> QED BY <2>1, <2>2, <2>3, <2>4
<1> QED BY <1>1, <1>2 DEF Break

LEMMA PauseKeeps == ASSUME Inv, Pause PROVE Inv'
<1> USE DEF Inv, TypeOK, WatermarkInRange
<1>1. UserRows(msgs) # {}
  BY BeginsOK DEF Pause
<1>2. auto' \in Job \cup {None} /\ wm' \in Nat /\ wm' <= Len(msgs)
  BY <1>1, TryAutoOK DEF Pause
<1> QED BY <1>2 DEF Pause, Begins, UserRows

-----------------------------------------------------------------------------
LEMMA InitInv == Init => Inv
<1> SUFFICES ASSUME Init PROVE Inv
  OBVIOUS
<1>1. TypeOK
  <2>1. msgs \in Seq(Rows) /\ busy \in BOOLEAN /\ wm \in Nat /\ lastId \in Nat
    <3>1. msgs = <<>> /\ busy = FALSE /\ wm = 0 /\ lastId = 0
      BY DEF Init
    <3>2. <<>> \in Seq(Rows)
      BY EmptySeq
    <3> QED BY <3>1, <3>2
  <2>2. recap \in SUBSET Nat /\ gap \in SUBSET Gaps
    BY DEF Init
  <2>3. auto \in Job \cup {None} /\ compact \in [Compacts -> Job \cup {None}]
    <3> DEFINE J == Job \cup {None}
    <3>1. None \in J
      OBVIOUS
    <3> HIDE DEF J
    <3>2. auto \in J /\ compact \in [Compacts -> J]
      BY <3>1 DEF Init
    <3> QED BY <3>2 DEF J
  <2> QED BY <2>1, <2>2, <2>3 DEF TypeOK
<1>2. WatermarkInRange /\ Begins(msgs) /\ ~busy
  BY DEF Init, WatermarkInRange, Begins
<1> QED BY <1>1, <1>2 DEF Inv

LEMMA StepKeepsInv == Inv /\ [Next]_vars => Inv'
<1> SUFFICES ASSUME Inv, [Next]_vars PROVE Inv'
  OBVIOUS
<1>1. CASE Summaries
  <2>1. CASE FinishAuto
    BY <2>1, FinishAutoKeeps
  <2>2. CASE FailAuto
    BY <2>2 DEF FailAuto, Inv, TypeOK, WatermarkInRange, Begins, UserRows
  <2>3. ASSUME NEW c \in Compacts, StartCompact(c) PROVE Inv'
    BY <2>3, StartCompactKeeps
  <2>4. ASSUME NEW c \in Compacts, FinishCompact(c) PROVE Inv'
    BY <2>4, FinishCompactKeeps
  <2>5. ASSUME NEW c \in Compacts, FailCompact(c) PROVE Inv'
    <3>1. compact' \in [Compacts -> Job \cup {None}]
      BY <2>5 DEF FailCompact, Inv, TypeOK
    <3> QED BY <2>5, <3>1 DEF FailCompact, Inv, TypeOK, WatermarkInRange, Begins, UserRows
  <2> QED BY <1>1, <2>1, <2>2, <2>3, <2>4, <2>5 DEF Summaries
<1>2. CASE Turns
  <2>1. ASSUME NEW f \in 1..MaxRows, Edit(f) PROVE Inv'
    BY <2>1, EditKeeps
  <2>2. ASSUME NEW kind \in {"answer", "blank"}, Complete(kind) PROVE Inv'
    BY <2>2, CompleteKeeps
  <2> QED BY <1>2, <2>1, <2>2, AskKeeps, SteerKeeps, RegenerateKeeps, BreakKeeps,
             PauseKeeps DEF Turns
<1>3. CASE Restart
  BY <1>3 DEF Restart, Inv, TypeOK, WatermarkInRange, Begins, UserRows
<1>4. CASE UNCHANGED vars
  BY <1>4 DEF vars, jobs, Inv, TypeOK, WatermarkInRange, Begins, UserRows
<1> QED BY <1>1, <1>2, <1>3, <1>4 DEF Next

LEMMA InvAlways == Spec => []Inv
BY InitInv, StepKeepsInv, PTL DEF Spec

(* Every variable keeps its type, for any thresholds and any number of       *)
(* messages, summaries and edits.                                            *)
THEOREM TypeCorrect == Spec => []TypeOK
<1>1. Inv => TypeOK
  BY DEF Inv
<1> QED BY <1>1, InvAlways, PTL

(* The watermark never lies above the last row, whatever is cut while a      *)
(* summary is in flight: the clamp of compactConversation and the two guards *)
(* of maybeSummarize suffice for that (they do not suffice for               *)
(* NothingForgotten).                                                        *)
THEOREM WatermarkStaysInRange == Spec => []WatermarkInRange
<1>1. Inv => WatermarkInRange
  BY DEF Inv
<1> QED BY <1>1, InvAlways, PTL

-----------------------------------------------------------------------------
(* What the recap stands for.  As long as no summary was stored through a    *)
(* gap, the recap is exactly the text of the rows below the watermark, and a *)
(* summary in flight that is not torn is that for the watermark it will set. *)
UserAbove(m, n) == \E i \in UserRows(m) : n < i

RecapHolds(m, w, r, g) ==
  "torn" \notin g =>
    /\ m # <<>> => UserAbove(m, w)
    /\ TextIds(m, 0, w) \subseteq r
    /\ g = {} => r \subseteq TextIds(m, 0, w)
(* A compact may lower the watermark it has read, so its rows lie below the  *)
(* higher of the two.                                                        *)
JobHolds(j, m, g) ==
  j # None /\ ~j.torn /\ "torn" \notin g =>
    /\ UserAbove(m, j.upTo) /\ UserAbove(m, j.from)
    /\ TextIds(m, 0, j.upTo) \subseteq j.rows
    /\ g = {} => j.rows \subseteq TextIds(m, 0, j.upTo) \cup TextIds(m, 0, j.from)
(* At most the answer follows the last row of the user: that is why the rows *)
(* a compact keeps in full contain one.                                      *)
UserIsLast(m, b) ==
  /\ m # <<>> => \E i \in UserRows(m) : Len(m) <= i + 1
  /\ b => Len(m) \in UserRows(m)

JobsHold ==
  /\ JobHolds(auto, msgs, gap)
  /\ \A c \in Compacts : JobHolds(compact[c], msgs, gap)
StoryInv == UserIsLast(msgs, busy) /\ RecapHolds(msgs, wm, recap, gap) /\ JobsHold

LEMMA LastUserIsGreatest ==
  ASSUME NEW m \in Seq(Rows), UserRows(m) # {}
  PROVE  /\ LastUser(m) \in UserRows(m) /\ LastUser(m) \in 1..Len(m)
         /\ \A j \in UserRows(m) : j \in Nat /\ j <= LastUser(m)
<1>1. Len(m) \in Nat /\ UserRows(m) \in SUBSET (1..Len(m))
  BY DEF UserRows
<1>2. \E i \in UserRows(m) : \A j \in UserRows(m) : j <= i
  BY <1>1, Greatest
<1>3. LastUser(m) \in UserRows(m) /\ \A j \in UserRows(m) : j <= LastUser(m)
  BY <1>2 DEF LastUser
<1> QED BY <1>1, <1>3

LEMMA UserAboveOK ==
  ASSUME NEW m \in Seq(Rows), NEW n \in Nat, UserAbove(m, n)
  PROVE  n < Len(m) /\ UserRows(m) # {} /\ n < LastUser(m)
<1>1. PICK i \in UserRows(m) : n < i
  BY DEF UserAbove
<1>2. i \in 1..Len(m) /\ UserRows(m) # {}
  BY DEF UserRows
<1>3. i <= LastUser(m) /\ LastUser(m) \in 1..Len(m)
  BY <1>2, LastUserIsGreatest
<1> QED BY <1>1, <1>2, <1>3

(* The text below a watermark.                                               *)
LEMMA TextGrows ==
  ASSUME NEW m \in Seq(Rows), NEW a \in Nat, NEW b \in Nat, a <= b
  PROVE  /\ TextIds(m, 0, a) \subseteq TextIds(m, 0, b)
         /\ TextIds(m, 0, b) = TextIds(m, 0, a) \cup TextIds(m, a, b)
<1>1. \A i \in 1..Len(m) : 0 < i /\ (i <= a => i <= b) /\ (i <= a \/ a < i)
  OBVIOUS
<1> QED BY <1>1 DEF TextIds

LEMMA NoText ==
  ASSUME NEW m \in Seq(Rows)
  PROVE  TextIds(m, 0, 0) = {} /\ (m = <<>> => \A w : TextIds(m, 0, w) = {})
<1>1. \A i \in 1..Len(m) : ~(0 < i /\ i <= 0)
  OBVIOUS
<1>2. m = <<>> => 1..Len(m) = {}
  OBVIOUS
<1> QED BY <1>1, <1>2 DEF TextIds

Agree(m, n, b) == b <= Len(m) /\ b <= Len(n) /\ \A i \in 1..b : n[i] = m[i]

LEMMA SameText ==
  ASSUME NEW m \in Seq(Rows), NEW n \in Seq(Rows), NEW b \in Nat, Agree(m, n, b),
         NEW a \in Nat, a <= b
  PROVE  TextIds(n, 0, a) = TextIds(m, 0, a)
<1>1. ASSUME NEW i PROVE i \in 1..Len(m) /\ i <= a <=> i \in 1..Len(n) /\ i <= a
  BY DEF Agree
<1>2. \A i \in 1..Len(m) : i <= a => n[i] = m[i]
  BY DEF Agree
<1> QED BY <1>1, <1>2 DEF TextIds

(* Rows are added at the end, or cut from the end.                           *)
LEMMA AddAgrees ==
  ASSUME NEW m \in Seq(Rows), NEW kind \in Kinds, lastId \in Nat
  PROVE  /\ Add(m, kind) \in Seq(Rows) /\ Len(Add(m, kind)) = Len(m) + 1
         /\ Agree(m, Add(m, kind), Len(m))
         /\ \A n \in Nat : UserAbove(m, n) => UserAbove(Add(m, kind), n)
         /\ kind \in {"ask", "steer"} => Len(m) + 1 \in UserRows(Add(m, kind))
<1> DEFINE x == [id |-> lastId + 1, kind |-> kind]
           n == Add(m, kind)
<1>1. x \in Rows /\ x.kind = kind
  BY DEF Rows
<1> HIDE DEF x
<1>2. n = Append(m, x)
  BY DEF Add, x
<1>3. /\ n \in Seq(Rows) /\ Len(n) = Len(m) + 1
      /\ \A i \in 1..Len(m) : n[i] = m[i]
      /\ n[Len(m) + 1] = x
  BY <1>1, <1>2
<1> HIDE DEF n
<1>4. Agree(m, n, Len(m))
  BY <1>3 DEF Agree
<1>5. UserRows(m) \subseteq UserRows(n)
  BY <1>3 DEF UserRows
<1>6. kind \in {"ask", "steer"} => Len(m) + 1 \in UserRows(n)
  BY <1>1, <1>3 DEF UserRows
<1> QED BY <1>3, <1>4, <1>5, <1>6 DEF n, UserAbove

LEMMA CutAgrees ==
  ASSUME NEW m \in Seq(Rows), NEW b \in 0..Len(m)
  PROVE  /\ SubSeq(m, 1, b) \in Seq(Rows) /\ Len(SubSeq(m, 1, b)) = b
         /\ Agree(m, SubSeq(m, 1, b), b)
<1>1. SubSeq(m, 1, b) \in Seq(Rows) /\ Len(SubSeq(m, 1, b)) = b
      /\ \A i \in 1..b : SubSeq(m, 1, b)[i] = m[i]
  BY SubSeqProperties
<1> QED BY <1>1 DEF Agree

-----------------------------------------------------------------------------
(* A summary in flight while rows come and go.                               *)
LEMMA JobStays ==
  ASSUME NEW m \in Seq(Rows), NEW n \in Seq(Rows), NEW g, NEW j \in Job \cup {None},
         JobHolds(j, m, g), NEW b \in Nat, Agree(m, n, b),
         \A k \in Nat : k <= b /\ UserAbove(m, k) => UserAbove(n, k),
         j # None /\ ~j.torn => j.upTo <= b /\ j.from <= b
  PROVE  JobHolds(j, n, g)
<1> SUFFICES ASSUME j # None, ~j.torn, "torn" \notin g
             PROVE  /\ UserAbove(n, j.upTo) /\ UserAbove(n, j.from)
                    /\ TextIds(n, 0, j.upTo) \subseteq j.rows
                    /\ g = {} => j.rows \subseteq TextIds(n, 0, j.upTo) \cup TextIds(n, 0, j.from)
  BY DEF JobHolds
<1>1. j.upTo \in Nat /\ j.from \in Nat
  BY DEF Job
<1>2. UserAbove(n, j.upTo) /\ UserAbove(n, j.from)
  BY <1>1 DEF JobHolds
<1>3. TextIds(n, 0, j.upTo) = TextIds(m, 0, j.upTo) /\ TextIds(n, 0, j.from) = TextIds(m, 0, j.from)
  BY <1>1, SameText
<1> QED BY <1>2, <1>3 DEF JobHolds

LEMMA JobGrows ==
  ASSUME NEW m \in Seq(Rows), NEW n \in Seq(Rows), NEW g, NEW j \in Job \cup {None},
         JobHolds(j, m, g), Agree(m, n, Len(m)),
         \A k \in Nat : UserAbove(m, k) => UserAbove(n, k)
  PROVE  JobHolds(j, n, g)
<1>1. CASE j # None /\ ~j.torn /\ "torn" \notin g
  <2>1. j.upTo \in Nat /\ j.from \in Nat
    BY <1>1 DEF Job
  <2>2. j.upTo < Len(m) /\ j.from < Len(m)
    BY <1>1, <2>1, UserAboveOK DEF JobHolds
  <2>3. Len(m) \in Nat /\ j.upTo <= Len(m) /\ j.from <= Len(m)
    BY <2>1, <2>2
  <2> QED BY <2>3, JobStays
<1>2. CASE ~(j # None /\ ~j.torn /\ "torn" \notin g)
  BY <1>2 DEF JobHolds
<1> QED BY <1>1, <1>2

LEMMA JobTears ==
  ASSUME NEW m \in Seq(Rows), NEW n \in Seq(Rows), NEW g, NEW j \in Job \cup {None},
         JobHolds(j, m, g), NEW b \in Nat, Agree(m, n, b),
         \A k \in Nat : k <= b /\ UserAbove(m, k) => UserAbove(n, k)
  PROVE  JobHolds(Tear(j, b + 1), n, g)
<1>1. CASE j # None /\ (b + 1 <= j.upTo \/ b + 1 <= j.from)
  <2>1. Tear(j, b + 1) = [j EXCEPT !.torn = TRUE] /\ j \in Job
    BY <1>1 DEF Tear
  <2>2. [j EXCEPT !.torn = TRUE].torn
    BY <2>1 DEF Job
  <2> QED BY <2>1, <2>2 DEF JobHolds
<1>2. CASE ~(j # None /\ (b + 1 <= j.upTo \/ b + 1 <= j.from))
  <2>1. Tear(j, b + 1) = j
    BY <1>2 DEF Tear
  <2>2. j # None => j.upTo <= b /\ j.from <= b
    BY <1>2 DEF Job
  <2> QED BY <2>1, <2>2, JobStays
<1> QED BY <1>1, <1>2

LEMMA JobInGap ==
  ASSUME NEW j, NEW m, NEW g, NEW h, JobHolds(j, m, g), g \subseteq h
  PROVE  JobHolds(j, m, h)
BY DEF JobHolds

-----------------------------------------------------------------------------
(* maybeSummarize up to its await, for the rows m.                           *)
LEMMA TryAutoHolds ==
  ASSUME Inv, NEW m \in Seq(Rows), UserRows(m) # {}, TryAuto(m),
         RecapHolds(m, wm, recap, gap), JobHolds(auto, m, gap)
  PROVE  RecapHolds(m, wm', recap, gap) /\ JobHolds(auto', m, gap)
<1>0. wm \in Nat /\ recap \in SUBSET Nat
  BY DEF Inv, TypeOK
<1>1. PICK volume \in BOOLEAN :
        LET upTo == AutoUpTo(m, volume)
            fold == TextIds(m, wm, upTo) IN
          IF auto # None \/ ~Due(m, volume) \/ upTo <= wm
            THEN UNCHANGED <<auto, wm>>
            ELSE IF fold = {}
              THEN wm' = upTo /\ UNCHANGED auto
              ELSE /\ auto' = [seen |-> Len(m), from |-> wm, upTo |-> upTo,
                               rows |-> recap \cup fold, torn |-> FALSE]
                   /\ UNCHANGED wm
  BY DEF TryAuto
<1> DEFINE upTo == AutoUpTo(m, volume)
           fold == TextIds(m, wm, upTo)
           job == [seen |-> Len(m), from |-> wm, upTo |-> upTo,
                   rows |-> recap \cup fold, torn |-> FALSE]
<1>2. upTo \in Nat
  BY AutoUpToOK
<1>3. upTo <= wm \/ UserAbove(m, upTo)
  <2>1. LastUser(m) \in UserRows(m) /\ LastUser(m) \in 1..Len(m)
    BY LastUserIsGreatest
  <2>2. upTo <= LastUser(m) - 1
    <3> DEFINE a == Minus(Len(m), IF volume THEN Min(RecentKeep, VolumeKeep) ELSE RecentKeep)
               b == LastUser(m) - 1
    <3>1. upTo = Min(a, b)
      BY DEF AutoUpTo
    <3>2. a \in Int /\ b \in Int
      BY <2>1, ConstantsAssumption DEF Minus, Min
    <3> HIDE DEF a, upTo
    <3> QED BY <3>1, <3>2, <2>1, MinOK
  <2>3. upTo < LastUser(m)
    BY <2>1, <2>2, <1>2
  <2> QED BY <2>1, <2>3 DEF UserAbove
<1> HIDE DEF upTo, fold
<1>4. CASE UNCHANGED <<auto, wm>>
  BY <1>4
<1>5. m # <<>>
  BY DEF UserRows
<1>6. ASSUME upTo > wm
      PROVE  /\ TextIds(m, 0, wm) \subseteq TextIds(m, 0, upTo)
             /\ TextIds(m, 0, upTo) = TextIds(m, 0, wm) \cup fold
  BY <1>0, <1>2, <1>6, TextGrows DEF fold
<1>7. CASE upTo > wm /\ fold = {} /\ wm' = upTo /\ UNCHANGED auto
  <2>1. TextIds(m, 0, upTo) = TextIds(m, 0, wm) /\ UserAbove(m, upTo)
    BY <1>0, <1>2, <1>3, <1>6, <1>7
  <2>2. RecapHolds(m, upTo, recap, gap)
    BY <1>5, <2>1 DEF RecapHolds
  <2> QED BY <1>7, <2>2
<1>8. CASE upTo > wm /\ auto' = job /\ UNCHANGED wm
  <2>1. /\ job.from = wm /\ job.upTo = upTo /\ job.rows = recap \cup fold
    OBVIOUS
  <2> HIDE DEF job
  <2>2. UserAbove(m, upTo)
    BY <1>0, <1>2, <1>3, <1>8
  <2>3. JobHolds(job, m, gap)
    BY <1>5, <1>6, <1>8, <2>1, <2>2 DEF JobHolds, RecapHolds
  <2> QED BY <1>8, <2>3
<1> QED BY <1>0, <1>1, <1>2, <1>4, <1>7, <1>8 DEF upTo, fold

(* Rows were added and the watermark was not looked at yet.                  *)
LEMMA RowsAdded ==
  ASSUME Inv, StoryInv, NEW kind \in Kinds, NEW n, n = Add(msgs, kind),
         msgs # <<>> \/ kind = "ask"
  PROVE  /\ n \in Seq(Rows) /\ UserRows(n) # {} /\ RecapHolds(n, wm, recap, gap)
         /\ JobHolds(auto, n, gap) /\ \A c \in Compacts : JobHolds(compact[c], n, gap)
         /\ kind \in {"ask", "steer"} => \A b \in BOOLEAN : UserIsLast(n, b)
         /\ busy => UserIsLast(n, FALSE)
<1>0. /\ msgs \in Seq(Rows) /\ lastId \in Nat /\ wm \in Nat /\ wm <= Len(msgs)
      /\ auto \in Job \cup {None} /\ \A c \in Compacts : compact[c] \in Job \cup {None}
      /\ Len(msgs) \in Nat
  BY DEF Inv, TypeOK, WatermarkInRange
<1>1. /\ n \in Seq(Rows) /\ Len(n) = Len(msgs) + 1 /\ Agree(msgs, n, Len(msgs))
      /\ \A k \in Nat : UserAbove(msgs, k) => UserAbove(n, k)
      /\ kind \in {"ask", "steer"} => Len(n) \in UserRows(n)
  BY <1>0, AddAgrees
<1>2. UserRows(n) # {}
  BY <1>0, AddOK, BeginsOK DEF Inv
<1>3. /\ JobHolds(auto, n, gap)
      /\ \A c \in Compacts : JobHolds(compact[c], n, gap)
  BY <1>0, <1>1, JobGrows DEF StoryInv, JobsHold
<1>4. TextIds(n, 0, wm) = TextIds(msgs, 0, wm)
  BY <1>0, <1>1, SameText
<1>5. "torn" \notin gap => UserAbove(n, wm)
  <2>1. CASE msgs # <<>>
    BY <1>0, <1>1, <2>1 DEF StoryInv, RecapHolds
  <2>2. CASE msgs = <<>>
    <3>1. wm = 0 /\ Len(n) = 1 /\ 1 \in UserRows(n)
      BY <1>0, <1>1, <2>2
    <3> QED BY <3>1 DEF UserAbove
  <2> QED BY <2>1, <2>2
<1>6. RecapHolds(n, wm, recap, gap)
  BY <1>4, <1>5 DEF StoryInv, RecapHolds
<1>7. ASSUME kind \in {"ask", "steer"}, NEW b \in BOOLEAN PROVE UserIsLast(n, b)
  <2>1. Len(n) \in UserRows(n) /\ Len(n) <= Len(n) + 1
    BY <1>0, <1>1, <1>7
  <2> QED BY <2>1 DEF UserIsLast
<1>8. ASSUME busy PROVE UserIsLast(n, FALSE)
  <2>1. Len(msgs) \in UserRows(msgs)
    BY <1>8 DEF StoryInv, UserIsLast
  <2>2. Len(msgs) \in UserRows(n)
    BY <1>0, <1>1, <2>1 DEF UserRows, Agree
  <2> QED BY <1>1, <2>2 DEF UserIsLast
<1> QED BY <1>1, <1>2, <1>3, <1>6, <1>7, <1>8

(* Rows were cut after row b.                                                *)
LEMMA RowsCut ==
  ASSUME Inv, StoryInv, NEW b \in Nat, NEW n \in Seq(Rows), Agree(msgs, n, b), TearJobs(b + 1),
         \A k \in Nat : k <= b /\ UserAbove(msgs, k) => UserAbove(n, k)
  PROVE  /\ JobHolds(auto', n, gap)
         /\ \A c \in Compacts : JobHolds(compact'[c], n, gap)
<1>0. /\ msgs \in Seq(Rows)
      /\ auto \in Job \cup {None} /\ \A c \in Compacts : compact[c] \in Job \cup {None}
  BY DEF Inv, TypeOK
<1>1. auto' = Tear(auto, b + 1) /\ \A c \in Compacts : compact'[c] = Tear(compact[c], b + 1)
  BY DEF TearJobs
<1>2. JobHolds(Tear(auto, b + 1), n, gap)
  BY <1>0, JobTears DEF StoryInv, JobsHold
<1>3. \A c \in Compacts : JobHolds(Tear(compact[c], b + 1), n, gap)
  BY <1>0, JobTears DEF StoryInv, JobsHold
<1> QED BY <1>1, <1>2, <1>3

(* A summary is stored; gap' says whether it was through a gap.              *)
LEMMA StoredHolds ==
  ASSUME Inv, StoryInv, NEW j \in Job, JobHolds(j, msgs, gap), j.from = wm, Meets(TRUE, j)
  PROVE  /\ RecapHolds(msgs, Min(j.upTo, Len(msgs)), j.rows, gap') /\ gap \subseteq gap'
         /\ gap' = {} => recap \subseteq j.rows
<1>0. /\ msgs \in Seq(Rows) /\ Len(msgs) \in Nat /\ wm \in Nat
      /\ j.upTo \in Nat /\ j.torn \in BOOLEAN
  BY DEF Inv, TypeOK, Job
<1>1. /\ gap \subseteq gap'
      /\ "torn" \notin gap' => ~j.torn
      /\ gap' = {} => j.upTo >= wm
  <2>1. gap' = gap \cup {g \in Gaps : (g = "torn" /\ j.torn) \/ (g = "back" /\ j.upTo < wm)}
    BY DEF Meets
  <2>2. gap \subseteq gap' /\ ("torn" \notin gap' => ~j.torn)
    BY <1>0, <2>1 DEF Gaps
  <2>3. gap' = {} => ~(j.upTo < wm)
    BY <2>1 DEF Gaps
  <2> QED BY <1>0, <2>2, <2>3
<1>2. ASSUME "torn" \notin gap'
      PROVE  /\ UserAbove(msgs, j.upTo) /\ TextIds(msgs, 0, j.upTo) \subseteq j.rows
             /\ gap = {} => j.rows \subseteq TextIds(msgs, 0, j.upTo) \cup TextIds(msgs, 0, wm)
             /\ Min(j.upTo, Len(msgs)) = j.upTo
  <2>1. j # None /\ ~j.torn /\ "torn" \notin gap
    BY <1>1, <1>2, ConstantsAssumption DEF Job
  <2>2. UserAbove(msgs, j.upTo)
    BY <2>1 DEF JobHolds
  <2>3. j.upTo < Len(msgs)
    BY <1>0, <2>2, UserAboveOK
  <2> QED BY <1>0, <2>1, <2>2, <2>3 DEF JobHolds, Min
<1>3. ASSUME gap' = {}
      PROVE  /\ TextIds(msgs, 0, wm) \subseteq TextIds(msgs, 0, j.upTo)
             /\ gap = {} /\ recap \subseteq TextIds(msgs, 0, wm)
  BY <1>0, <1>1, <1>3, TextGrows DEF StoryInv, RecapHolds
<1>4. RecapHolds(msgs, Min(j.upTo, Len(msgs)), j.rows, gap')
  BY <1>2, <1>3 DEF RecapHolds
<1>5. gap' = {} => recap \subseteq j.rows
  BY <1>2, <1>3
<1> QED BY <1>1, <1>4, <1>5

-----------------------------------------------------------------------------
(* The steps.                                                                *)
RecapKept == recap \ recap' # {} => (~busy /\ busy') \/ gap' # {}

LEMMA StoryFacts ==
  ASSUME Inv
  PROVE  /\ msgs \in Seq(Rows) /\ Len(msgs) \in Nat /\ wm \in Nat /\ wm <= Len(msgs)
         /\ auto \in Job \cup {None} /\ compact \in [Compacts -> Job \cup {None}]
         /\ lastId \in Nat /\ busy \in BOOLEAN
         /\ \A g : JobHolds(None, msgs, g)
BY DEF Inv, TypeOK, WatermarkInRange, JobHolds

LEMMA FinishAutoTells ==
  ASSUME Inv, StoryInv, FinishAuto
  PROVE  StoryInv' /\ RecapKept
<1>1. /\ auto # None /\ auto' = None /\ UNCHANGED <<msgs, busy, compact>>
      /\ auto \in Job /\ JobHolds(auto, msgs, gap)
  BY StoryFacts DEF FinishAuto, StoryInv, JobsHold
<1>2. /\ RecapHolds(msgs, wm', recap', gap') /\ gap \subseteq gap'
      /\ gap' = {} => recap \subseteq recap'
  <2>1. CASE MayStoreAuto
    <3>1. Meets(TRUE, auto) /\ auto.from = wm
      BY <2>1 DEF FinishAuto, MayStoreAuto, Meets
    <3>2. recap' = auto.rows /\ wm' = Min(auto.upTo, Len(msgs))
      BY <2>1 DEF FinishAuto
    <3> QED BY <1>1, <3>1, <3>2, StoredHolds
  <2>2. CASE ~MayStoreAuto
    <3>1. UNCHANGED <<recap, wm>>
      BY <2>2 DEF FinishAuto
    <3>2. gap' = gap
      BY <2>2 DEF FinishAuto, MayStoreAuto, Meets
    <3> QED BY <3>1, <3>2 DEF StoryInv
  <2> QED BY <2>1, <2>2
<1>3. JobHolds(auto', msgs, gap')
  BY <1>1, StoryFacts
<1>4. \A c \in Compacts : JobHolds(compact[c], msgs, gap')
  BY <1>2, JobInGap DEF StoryInv, JobsHold
<1> QED BY <1>1, <1>2, <1>3, <1>4 DEF StoryInv, JobsHold, RecapKept

LEMMA FinishCompactTells ==
  ASSUME Inv, StoryInv, NEW c \in Compacts, FinishCompact(c)
  PROVE  StoryInv' /\ RecapKept
<1> DEFINE j == compact[c]
<1>1. /\ j # None /\ compact' = [compact EXCEPT ![c] = None] /\ UNCHANGED <<msgs, busy, auto>>
      /\ j \in Job /\ JobHolds(j, msgs, gap)
  BY StoryFacts DEF FinishCompact, StoryInv, JobsHold
<1>2. /\ RecapHolds(msgs, wm', recap', gap') /\ gap \subseteq gap'
      /\ gap' = {} => recap \subseteq recap'
  <2>1. CASE MayStoreCompact(c)
    <3>1. Meets(TRUE, j) /\ j.from = wm
      BY <2>1 DEF FinishCompact, MayStoreCompact, Meets
    <3>2. recap' = j.rows /\ wm' = Min(j.upTo, Len(msgs))
      BY <2>1 DEF FinishCompact, UpToFinal
    <3> HIDE DEF j
    <3> QED BY <1>1, <3>1, <3>2, StoredHolds
  <2>2. CASE ~MayStoreCompact(c)
    <3>1. UNCHANGED <<recap, wm>>
      BY <2>2 DEF FinishCompact
    <3>2. gap' = gap
      BY <2>2 DEF FinishCompact, MayStoreCompact, Meets
    <3> QED BY <3>1, <3>2 DEF StoryInv
  <2> QED BY <2>1, <2>2
<1>3. JobHolds(auto, msgs, gap')
  BY <1>2, JobInGap DEF StoryInv, JobsHold
<1>4. ASSUME NEW d \in Compacts PROVE JobHolds(compact'[d], msgs, gap')
  <2>1. compact'[d] = None \/ compact'[d] = compact[d]
    BY <1>1, StoryFacts
  <2>2. JobHolds(compact[d], msgs, gap')
    BY <1>2, JobInGap DEF StoryInv, JobsHold
  <2> QED BY <2>1, <2>2, StoryFacts
<1> QED BY <1>1, <1>2, <1>3, <1>4 DEF StoryInv, JobsHold, RecapKept

LEMMA StartCompactTells ==
  ASSUME Inv, StoryInv, NEW c \in Compacts, StartCompact(c)
  PROVE  StoryInv'
<1> DEFINE upTo == Len(msgs) - COMPACT_KEEP_RECENT
           fold == TextIds(msgs, 0, upTo)
           job == [seen |-> Len(msgs), from |-> wm, upTo |-> upTo,
                   rows |-> recap \cup fold, torn |-> FALSE]
<1>1. /\ compact' = [compact EXCEPT ![c] = job] /\ UNCHANGED <<msgs, busy, wm, recap, auto, gap>>
      /\ Len(msgs) >= 4
  BY DEF StartCompact, COMPACT_MIN_MESSAGES
<1>2. UserAbove(msgs, upTo)
  <2>1. msgs # <<>>
    BY <1>1
  <2>2. PICK i \in UserRows(msgs) : Len(msgs) <= i + 1
    BY <2>1 DEF StoryInv, UserIsLast
  <2>3. upTo < i
    BY <2>2, StoryFacts DEF COMPACT_KEEP_RECENT, UserRows
  <2> QED BY <2>3 DEF UserAbove
<1>3. "torn" \notin gap => UserAbove(msgs, wm)
  BY <1>1 DEF StoryInv, RecapHolds
<1>4. job.upTo = upTo /\ job.from = wm /\ job.rows = recap \cup fold
  OBVIOUS
<1>5. JobHolds(job, msgs, gap)
  <2> HIDE DEF job, upTo
  <2> QED BY <1>2, <1>3, <1>4 DEF JobHolds, StoryInv, RecapHolds
<1> HIDE DEF job
<1>6. \A d \in Compacts : compact'[d] = job \/ compact'[d] = compact[d]
  BY <1>1, StoryFacts
<1>7. \A d \in Compacts : JobHolds(compact'[d], msgs, gap)
  BY <1>5, <1>6 DEF StoryInv, JobsHold
<1> QED BY <1>1, <1>7 DEF StoryInv, JobsHold

LEMMA AskTells == ASSUME Inv, StoryInv, Ask PROVE StoryInv'
<1>1. /\ msgs' = Add(msgs, "ask") /\ UNCHANGED <<recap, compact, gap>> /\ busy' = TRUE
      /\ IF msgs = <<>> THEN UNCHANGED <<auto, wm>> ELSE TryAuto(msgs')
  BY DEF Ask
<1>2. /\ msgs' \in Seq(Rows) /\ UserRows(msgs') # {} /\ RecapHolds(msgs', wm, recap, gap)
      /\ JobHolds(auto, msgs', gap) /\ \A c \in Compacts : JobHolds(compact[c], msgs', gap)
      /\ UserIsLast(msgs', busy')
  BY <1>1, RowsAdded DEF Kinds
<1>3. RecapHolds(msgs', wm', recap, gap) /\ JobHolds(auto', msgs', gap)
  BY <1>1, <1>2, TryAutoHolds
<1> QED BY <1>1, <1>2, <1>3 DEF StoryInv, JobsHold

LEMMA SteerTells == ASSUME Inv, StoryInv, Steer PROVE StoryInv'
<1>1. /\ msgs' = Add(msgs, "steer") /\ UNCHANGED <<busy, wm, recap, auto, compact, gap>>
      /\ busy /\ msgs # <<>>
  BY DEF Steer, jobs, Inv
<1>2. /\ RecapHolds(msgs', wm, recap, gap)
      /\ JobHolds(auto, msgs', gap) /\ \A c \in Compacts : JobHolds(compact[c], msgs', gap)
      /\ UserIsLast(msgs', TRUE)
  BY <1>1, RowsAdded DEF Kinds
<1>3. UserIsLast(msgs', busy')
  BY <1>1, <1>2 DEF UserIsLast
<1> QED BY <1>1, <1>2, <1>3 DEF StoryInv, JobsHold

LEMMA CompleteTells ==
  ASSUME Inv, StoryInv, NEW kind \in {"answer", "blank"}, Complete(kind) PROVE StoryInv'
<1>1. /\ msgs' = Add(msgs, kind) /\ UNCHANGED <<recap, compact, gap>> /\ busy' = FALSE
      /\ busy /\ msgs # <<>> /\ TryAuto(msgs')
  BY DEF Complete, Inv
<1>2. /\ msgs' \in Seq(Rows) /\ UserRows(msgs') # {} /\ RecapHolds(msgs', wm, recap, gap)
      /\ JobHolds(auto, msgs', gap) /\ \A c \in Compacts : JobHolds(compact[c], msgs', gap)
      /\ UserIsLast(msgs', FALSE)
  BY <1>1, RowsAdded DEF Kinds
<1>3. RecapHolds(msgs', wm', recap, gap) /\ JobHolds(auto', msgs', gap)
  BY <1>1, <1>2, TryAutoHolds
<1> QED BY <1>1, <1>2, <1>3 DEF StoryInv, JobsHold

LEMMA BreakTells == ASSUME Inv, StoryInv, Break PROVE StoryInv'
<1>0. busy /\ busy' = FALSE /\ UNCHANGED <<wm, recap, auto, compact, gap>> /\ msgs # <<>>
  BY DEF Break, jobs, Inv
<1>1. CASE UNCHANGED msgs
  <2>1. UserIsLast(msgs', busy')
    BY <1>0, <1>1 DEF StoryInv, UserIsLast
  <2> QED BY <1>0, <1>1, <2>1 DEF StoryInv, JobsHold
<1>2. CASE \E kind \in {"answer", "blank"} : msgs' = Add(msgs, kind)
  <2>1. PICK kind \in {"answer", "blank"} : msgs' = Add(msgs, kind)
    BY <1>2
  <2>2. /\ RecapHolds(msgs', wm, recap, gap)
        /\ JobHolds(auto, msgs', gap) /\ \A c \in Compacts : JobHolds(compact[c], msgs', gap)
        /\ UserIsLast(msgs', FALSE)
    BY <1>0, <2>1, RowsAdded DEF Kinds
  <2> QED BY <1>0, <2>2 DEF StoryInv, JobsHold
<1> QED BY <1>1, <1>2 DEF Break

LEMMA EditTells == ASSUME Inv, StoryInv, NEW f \in 1..MaxRows, Edit(f) PROVE StoryInv'
<1> DEFINE b == f - 1
           kept == SubSeq(msgs, 1, b)
<1>1. /\ f \in 1..Len(msgs) /\ b \in Nat /\ b \in 0..Len(msgs) /\ f = b + 1
      /\ busy' = TRUE /\ UNCHANGED gap /\ EditWatermark(f) /\ TearJobs(f)
      /\ msgs' = Add(kept, "ask")
  BY StoryFacts DEF Edit, UserRows
<1> HIDE DEF b
<1>2. kept \in Seq(Rows) /\ Len(kept) = b /\ Agree(msgs, kept, b)
  BY <1>1, StoryFacts, CutAgrees
<1> HIDE DEF kept
<1>3. /\ msgs' \in Seq(Rows) /\ Len(msgs') = b + 1 /\ Agree(kept, msgs', b)
      /\ b + 1 \in UserRows(msgs')
  BY <1>1, <1>2, StoryFacts, AddAgrees DEF Kinds
<1>4. Agree(msgs, msgs', b)
  BY <1>2, <1>3 DEF Agree
<1>5. \A k \in Nat : k <= b => UserAbove(msgs', k)
  <2>1. \A k \in Nat : k <= b => k < b + 1
    BY <1>1
  <2> QED BY <1>3, <2>1 DEF UserAbove
<1>6. JobHolds(auto', msgs', gap) /\ \A c \in Compacts : JobHolds(compact'[c], msgs', gap)
  BY <1>1, <1>3, <1>4, <1>5, RowsCut
<1>7. UserIsLast(msgs', busy')
  <2>1. Len(msgs') <= (b + 1) + 1
    BY <1>1, <1>3
  <2> QED BY <1>3, <2>1 DEF UserIsLast
<1>8. RecapHolds(msgs', wm', recap', gap)
  <2>1. CASE f <= wm
    <3>1. wm' = 0 /\ recap' = {}
      BY <1>1, <2>1 DEF EditWatermark
    <3>2. UserAbove(msgs', 0) /\ TextIds(msgs', 0, 0) = {}
      BY <1>1, <1>3, <1>5, NoText
    <3> QED BY <3>1, <3>2 DEF RecapHolds
  <2>2. CASE ~(f <= wm)
    <3>1. wm <= b
      BY <1>1, <2>2, StoryFacts
    <3>2. wm' = wm /\ recap' = recap
      BY <1>1, <2>2, <3>1, StoryFacts DEF EditWatermark, Min, b
    <3>3. TextIds(msgs', 0, wm) = TextIds(msgs, 0, wm) /\ UserAbove(msgs', wm)
      BY <1>1, <1>3, <1>4, <1>5, <3>1, StoryFacts, SameText
    <3> QED BY <3>2, <3>3 DEF StoryInv, RecapHolds, UserAbove, UserRows
  <2> QED BY <2>1, <2>2
<1> QED BY <1>1, <1>6, <1>7, <1>8 DEF StoryInv, JobsHold

LEMMA RegenerateTells == ASSUME Inv, StoryInv, Regenerate PROVE StoryInv'
<1> DEFINE b == LastUser(msgs)
<1>1. /\ b \in 1..Len(msgs) /\ b \in Nat /\ b \in 0..Len(msgs) /\ b \in UserRows(msgs)
      /\ \A i \in UserRows(msgs) : i <= b
      /\ UserRows(msgs) # {}
  BY StoryFacts, LastUserIsGreatest DEF Regenerate
<1>2. /\ msgs' = SubSeq(msgs, 1, b) /\ wm' = RegenWatermark(wm, b) /\ TearJobs(b + 1)
      /\ UNCHANGED <<recap, gap>>
  BY DEF Regenerate
<1> HIDE DEF b
<1>3. msgs' \in Seq(Rows) /\ Len(msgs') = b /\ Agree(msgs, msgs', b)
  BY <1>1, <1>2, StoryFacts, CutAgrees
<1>4. UserRows(msgs') = UserRows(msgs)
  BY <1>1, <1>3 DEF UserRows, Agree
<1>5. \A k : UserAbove(msgs, k) => UserAbove(msgs', k)
  BY <1>4 DEF UserAbove
<1>6. JobHolds(auto', msgs', gap) /\ \A c \in Compacts : JobHolds(compact'[c], msgs', gap)
  BY <1>1, <1>2, <1>3, <1>5, RowsCut
<1>7. UserIsLast(msgs', busy')
  BY <1>1, <1>3, <1>4 DEF UserIsLast
<1>8. RecapHolds(msgs', wm', recap, gap)
  <2> SUFFICES ASSUME "torn" \notin gap PROVE RecapHolds(msgs', wm', recap, gap)
    BY DEF RecapHolds
  <2>1. UserAbove(msgs, wm)
    BY <1>1 DEF StoryInv, RecapHolds, UserRows
  <2>2. wm < b
    BY <2>1, StoryFacts, UserAboveOK DEF b
  <2>3. wm' = wm
    BY <1>1, <1>2, <2>2, StoryFacts DEF RegenWatermark, Min
  <2>4. TextIds(msgs', 0, wm) = TextIds(msgs, 0, wm) /\ UserAbove(msgs', wm)
    BY <1>1, <1>3, <1>5, <2>1, <2>2, StoryFacts, SameText
  <2> QED BY <2>1, <2>3, <2>4 DEF StoryInv, RecapHolds, UserAbove, UserRows
<1> QED BY <1>2, <1>6, <1>7, <1>8 DEF StoryInv, JobsHold

LEMMA PauseTells == ASSUME Inv, StoryInv, Pause PROVE StoryInv'
<1>1. UserRows(msgs) # {}
  BY StoryFacts, BeginsOK DEF Pause, Inv
<1>2. RecapHolds(msgs, wm', recap, gap) /\ JobHolds(auto', msgs, gap)
  BY <1>1, StoryFacts, TryAutoHolds DEF Pause, StoryInv, JobsHold
<1> QED BY <1>2 DEF Pause, StoryInv, JobsHold

LEMMA InitStory == Init => StoryInv
<1> SUFFICES ASSUME Init PROVE StoryInv
  OBVIOUS
<1>1. msgs = <<>> /\ busy = FALSE /\ recap = {} /\ auto = None
      /\ \A c \in Compacts : compact[c] = None
  BY DEF Init
<1>2. TextIds(msgs, 0, wm) = {}
  <2>1. <<>> \in Seq(Rows)
    BY EmptySeq
  <2> QED BY <1>1, <2>1, NoText
<1> QED BY <1>1, <1>2 DEF StoryInv, UserIsLast, RecapHolds, JobsHold, JobHolds

LEMMA StepKeepsStory == Inv /\ StoryInv /\ [Next]_vars => StoryInv' /\ RecapKept
<1> SUFFICES ASSUME Inv, StoryInv, [Next]_vars PROVE StoryInv' /\ RecapKept
  OBVIOUS
<1>1. CASE Summaries
  <2>1. CASE FinishAuto
    BY <2>1, FinishAutoTells
  <2>2. CASE FailAuto
    <3>1. UNCHANGED <<msgs, busy, wm, recap, compact, gap>> /\ auto' = None
      BY <2>2 DEF FailAuto
    <3> QED BY <3>1, StoryFacts DEF StoryInv, JobsHold, RecapKept
  <2>3. ASSUME NEW c \in Compacts, StartCompact(c) PROVE StoryInv' /\ RecapKept
    BY <2>3, StartCompactTells DEF StartCompact, RecapKept
  <2>4. ASSUME NEW c \in Compacts, FinishCompact(c) PROVE StoryInv' /\ RecapKept
    BY <2>4, FinishCompactTells
  <2>5. ASSUME NEW c \in Compacts, FailCompact(c) PROVE StoryInv' /\ RecapKept
    <3>1. UNCHANGED <<msgs, busy, wm, recap, auto, gap>>
          /\ \A d \in Compacts : compact'[d] = None \/ compact'[d] = compact[d]
      BY <2>5, StoryFacts DEF FailCompact
    <3> QED BY <3>1, StoryFacts DEF StoryInv, JobsHold, RecapKept
  <2> QED BY <1>1, <2>1, <2>2, <2>3, <2>4, <2>5 DEF Summaries
<1>2. CASE Turns
  <2>1. StoryInv'
    BY <1>2, AskTells, SteerTells, EditTells, RegenerateTells, CompleteTells, BreakTells,
       PauseTells DEF Turns
  <2>2. CASE UNCHANGED recap
    BY <2>1, <2>2 DEF RecapKept
  <2>3. ASSUME NEW f \in 1..MaxRows, Edit(f) PROVE RecapKept
    BY <2>3 DEF Edit, RecapKept
  <2> QED BY <1>2, <2>1, <2>2, <2>3 DEF Turns, Ask, Steer, Regenerate, Complete, Break, Pause
<1>3. CASE Restart
  <2>1. UNCHANGED <<msgs, busy, wm, recap, gap>> /\ auto' = None
        /\ \A c \in Compacts : compact'[c] = None
    BY <1>3 DEF Restart
  <2> QED BY <2>1, StoryFacts DEF StoryInv, JobsHold, RecapKept
<1>4. CASE UNCHANGED vars
  BY <1>4 DEF vars, jobs, StoryInv, JobsHold, RecapKept
<1> QED BY <1>1, <1>2, <1>3, <1>4 DEF Next

LEMMA StoryAlways == Spec => []StoryInv
BY InitStory, StepKeepsStory, InvAlways, PTL DEF Spec

(* No row is forgotten, and no question of a turn in progress, but through a *)
(* summary of rows that were cut during its await; and without that, and     *)
(* without a lowered watermark, an edit takes what it cuts out of the recap: *)
(* for any thresholds and any number of messages, edits and summaries.       *)
THEOREM SummariesForgetNothing == Spec => []GuardsHold
<1>1. ASSUME Inv, StoryInv PROVE GuardsHold
  <2>1. ASSUME "torn" \notin gap PROVE NothingForgotten
    <3> SUFFICES ASSUME NEW i \in 1..Len(msgs), i <= wm, msgs[i].kind # "blank"
                 PROVE  msgs[i].id \in recap
      BY DEF NothingForgotten, Skipped, Covered
    <3>1. msgs[i].id \in TextIds(msgs, 0, wm)
      BY DEF TextIds
    <3> QED BY <1>1, <2>1, <3>1 DEF StoryInv, RecapHolds
  <2>2. ASSUME "torn" \notin gap, busy PROVE ~Skipped(LastUser(msgs))
    <3>1. UserAbove(msgs, wm)
      BY <1>1, <2>2 DEF Inv, StoryInv, RecapHolds
    <3>2. wm < LastUser(msgs) /\ LastUser(msgs) \in Nat
      BY <1>1, <3>1, StoryFacts, UserAboveOK, LastUserIsGreatest
    <3> QED BY <1>1, <3>2, StoryFacts DEF Skipped
  <2>3. ASSUME gap = {} PROVE RecapIsCurrent
    BY <1>1, <2>3 DEF StoryInv, RecapHolds, RecapIsCurrent, TextIds
  <2> QED BY <2>1, <2>2, <2>3 DEF GuardsHold, QuestionInFull
<1> QED BY <1>1, InvAlways, StoryAlways, PTL

(* Two summaries in flight never overwrite each other: what is in the recap  *)
(* leaves it only with a new turn, or through one of the gaps.               *)
THEOREM SummariesAreKept == Spec => NoSummaryLost
<1>1. Inv /\ StoryInv /\ [Next]_vars
        => [recap \ recap' # {} => (~busy /\ busy') \/ gap' # {}]_vars
  BY StepKeepsStory DEF RecapKept
<1> QED BY <1>1, InvAlways, StoryAlways, PTL DEF Spec, NoSummaryLost
=============================================================================
