-------------------------- MODULE RemoteJobProofs --------------------------
(* Proofs about RemoteJob.                                                   *)
EXTENDS RemoteJob, TLAPS

(* The wrapper and its files follow the launch script.                       *)
InOrder ==
  \A j \in Job :
    /\ call[j] \in {"idle", "list"} => script[j] = "none"
    /\ script[j] \notin {"up", "done"} =>
         wrap[j] = "none" /\ files[j] = {} /\ off[j] = 0 /\ rd[j] = None
    /\ files[j] # {} => "dir" \in files[j]
    /\ script[j] = "up" => "dir" \in files[j]
    /\ wrap[j] = "alive" /\ script[j] = "done" => "pid" \in files[j]

(* Only what was launched long ago is old, and only that is looked at twice. *)
OldIsDone == \A j \in Job : old[j] \/ sweep.at = j => script[j] = "done"

(* Only a live dd has something in the pipe, and room for it.                *)
PipeFits == \A j \in Job : piped[j] => wrap[j] = "alive" /\ out[j] < Cap

(* code is the last thing that is written.                                   *)
CodeIsLast ==
  \A j \in Job : "code" \in files[j] \/ told[j] => wrap[j] = "gone" /\ cmd[j] = "ended"

HostInv == InOrder /\ OldIsDone /\ PipeFits /\ CodeIsLast

(* What a read under way will add to the offset is what tail gave, or the    *)
(* directory has gone before wc and the answer will be an error.             *)
Counted(j) ==
  LET r == rd[j] IN
  \/ ~Exists(j) /\ (IF r.size = None THEN out[j] ELSE r.size) = 0
  \/ off[j] + r.given = Lesser(IF r.size = None THEN out[j] ELSE r.size, off[j] + Chunk)
ReadInv ==
  \A j \in Job :
    /\ Exists(j) => off[j] <= out[j]
    /\ rd[j] # None /\ rd[j].size # None /\ Exists(j) => rd[j].size <= out[j]
    /\ j \in Talk \ torn => got[j] = off[j] /\ (rd[j] # None => Counted(j))

-----------------------------------------------------------------------------
LEMMA TypeInit == Init => TypeOK
<1> SUFFICES ASSUME Init PROVE TypeOK
  OBVIOUS
<1>1. call \in [Job -> {"idle", "list", "launch", "over"}]
      /\ script \in [Job -> {"none", "sent", "sweeping", "up", "done"}]
      /\ files \in [Job -> SUBSET File] /\ old \in [Job -> BOOLEAN]
  BY DEF Init
<1>2. wrap \in [Job -> {"none", "alive", "gone"}] /\ cmd \in [Job -> {"none", "running", "ended"}]
      /\ piped \in [Job -> BOOLEAN]
  BY DEF Init
<1>3. out \in [Job -> 0..Cap] /\ crashes \in 0..MaxCrashes
  BY JobAssumption DEF Init
<1>4. rd \in [Job -> {None} \union [size : Nat \union {None}, given : Nat]]
  BY DEF Init
<1>5. off \in [Job -> Nat] /\ got \in [Job -> Nat] /\ torn \subseteq Job /\ told \in [Job -> BOOLEAN]
  BY DEF Init
<1>6. sweep \in [todo : SUBSET Job, at : Job \union {None}] /\ known \in BOOLEAN
  BY DEF Init, NoSweep
<1> QED BY <1>1, <1>2, <1>3, <1>4, <1>5, <1>6 DEF TypeOK

LEMMA TypeNext ==
  ASSUME TypeOK, PipeFits, [Next]_vars PROVE TypeOK'
<1> USE JobAssumption DEF TypeOK, File, PipeFits
<1>1. ASSUME NEW j \in Job, Run(j) PROVE TypeOK'
  BY <1>1 DEF Run, host, reader
<1>2. ASSUME NEW j \in Job, Refused(j) PROVE TypeOK'
  BY <1>2 DEF Refused, Full, host, reader
<1>3. ASSUME NEW j \in Job, NEW rows \in SUBSET Running, Launch(j, rows) PROVE TypeOK'
  BY <1>3 DEF Launch, host, reader
<1>4. ASSUME NEW j \in Job, Launched(j) PROVE TypeOK'
  BY <1>4 DEF Launched, host, reader
<1>5. ASSUME NEW j \in Job, GivesUp(j) PROVE TypeOK'
  <2>1. call' \in [Job -> {"idle", "list", "launch", "over"}]
    BY <1>5 DEF GivesUp
  <2>2. script' \in [Job -> {"none", "sent", "sweeping", "up", "done"}]
    BY <1>5 DEF GivesUp
  <2> QED BY <1>5, <2>1, <2>2 DEF GivesUp, host, reader
<1>6. ASSUME NEW j \in Job, ScriptSweeps(j) PROVE TypeOK'
  BY <1>6 DEF ScriptSweeps, NoSweep, Exists, host, reader
<1>7. ASSUME NEW j \in Job, ScriptStarts(j) PROVE TypeOK'
  BY <1>7 DEF ScriptStarts, NoSweep, host, reader
<1>8. ASSUME NEW j \in Job, ScriptEnds(j) PROVE TypeOK'
  BY <1>8 DEF ScriptEnds, host, reader
<1>9. ASSUME NEW j \in Job, Copies(j) PROVE TypeOK'
  <2>1. out' \in [Job -> 0..Cap]
    BY <1>9 DEF Copies
  <2>2. torn' \subseteq Job
    BY <1>9 DEF Copies
  <2> QED BY <1>9, <2>1, <2>2 DEF Copies
<1>10. ASSUME NEW j \in Job, Ends(j) PROVE TypeOK'
  BY <1>10 DEF Ends, host, reader
<1>11. ASSUME NEW j \in Job, WrapperEnds(j) PROVE TypeOK'
  BY <1>11 DEF WrapperEnds, Exists, Drained, host, reader
<1>12. ASSUME NEW j \in Job, Kill(j) PROVE TypeOK'
  BY <1>12 DEF Kill, Alive, host, reader
<1>13. ASSUME NEW j \in Job, Ages(j) PROVE TypeOK'
  BY <1>13 DEF Ages, Exists, host, reader
<1>14. ASSUME NEW j \in Talk, Writes(j) PROVE TypeOK'
  BY <1>14 DEF Writes, host, reader
<1>15. ASSUME NEW j \in Talk, Tail(j) PROVE TypeOK'
  BY <1>15 DEF Tail, Exists, Lesser, host, reader
<1>16. ASSUME NEW j \in Talk, Size(j) PROVE TypeOK'
  BY <1>16 DEF Size, host, reader
<1>17. ASSUME NEW j \in Talk, Answer(j) PROVE TypeOK'
  <2>1. rd[j] \in [size : Nat \union {None}, given : Nat] /\ rd[j].size \in Nat
    BY <1>17 DEF Answer
  <2>2. NextOffset(j, rd[j].size) \in Nat
    BY <2>1 DEF NextOffset, Lesser
  <2>3. got' \in [Job -> Nat] /\ off' \in [Job -> Nat] /\ told' \in [Job -> BOOLEAN]
    <3>1. CASE Nothing(j)
      BY <1>17, <3>1 DEF Answer
    <3>2. CASE ~Nothing(j)
      <4>1. got' = [got EXCEPT ![j] = @ + rd[j].given]
            /\ off' = [off EXCEPT ![j] = NextOffset(j, rd[j].size)]
            /\ told' = [told EXCEPT ![j] = "code" \in files[j]]
        BY <1>17, <3>2 DEF Answer
      <4>2. got[j] + rd[j].given \in Nat
        BY <2>1
      <4> QED BY <2>2, <4>1, <4>2
    <3> QED BY <3>1, <3>2
  <2>4. rd' \in [Job -> {None} \union [size : Nat \union {None}, given : Nat]]
    BY <1>17 DEF Answer
  <2> QED BY <1>17, <2>3, <2>4 DEF Answer, host
<1>18. ASSUME NEW j \in Talk, ReadFails(j) PROVE TypeOK'
  BY <1>18 DEF ReadFails, host, reader
<1>19. ASSUME NEW j \in Job, SweepLooks(j) PROVE TypeOK'
  BY <1>19 DEF SweepLooks, Exists, RemoveIf, host, reader
<1>20. ASSUME SweepActs PROVE TypeOK'
  BY <1>20 DEF SweepActs, Dead, Alive, RemoveIf, host, reader
<1>21. ASSUME SweepStarts PROVE TypeOK'
  BY <1>21 DEF SweepStarts, NoSweep, Exists, host, reader
<1>22. ASSUME Reboot PROVE TypeOK'
  BY <1>22 DEF Reboot, Disconnected, NoSweep, host, reader
<1>23. ASSUME Restart PROVE TypeOK'
  <2>1. call' \in [Job -> {"idle", "list", "launch", "over"}]
    BY <1>23 DEF Restart, Disconnected
  <2>2. rd' \in [Job -> {None} \union [size : Nat \union {None}, given : Nat]]
    BY <1>23 DEF Restart
  <2>3. crashes' \in 0..MaxCrashes
    BY <1>23 DEF Restart
  <2>4. known' = FALSE /\ UNCHANGED <<script, host, off, got, told, torn, sweep>>
    BY <1>23 DEF Restart
  <2> QED BY <2>1, <2>2, <2>3, <2>4 DEF host
<1>24. CASE UNCHANGED vars
  BY <1>24 DEF vars, host, reader
<1> QED
  BY <1>1, <1>2, <1>3, <1>4, <1>5, <1>6, <1>7, <1>8, <1>9, <1>10, <1>11, <1>12, <1>13, <1>14, <1>15, <1>16, <1>17, <1>18, <1>19, <1>20, <1>21, <1>22, <1>23, <1>24
  DEF Next, Script, Process, SweepGoes

LEMMA HostInvInit == Init => HostInv
BY JobAssumption DEF Init, NoSweep, HostInv, InOrder, OldIsDone, PipeFits, CodeIsLast

LEMMA HostInvNext ==
  ASSUME TypeOK, HostInv, [Next]_vars PROVE HostInv'
<1> USE JobAssumption DEF TypeOK, File, HostInv, InOrder, OldIsDone, PipeFits, CodeIsLast
<1>1. ASSUME NEW j \in Job, Run(j) PROVE HostInv'
  BY <1>1 DEF Run, host, reader
<1>2. ASSUME NEW j \in Job, Refused(j) PROVE HostInv'
  BY <1>2 DEF Refused, host, reader
<1>3. ASSUME NEW j \in Job, NEW rows \in SUBSET Running, Launch(j, rows) PROVE HostInv'
  BY <1>3 DEF Launch, host, reader
<1>4. ASSUME NEW j \in Job, Launched(j) PROVE HostInv'
  BY <1>4 DEF Launched, host, reader
<1>5. ASSUME NEW j \in Job, GivesUp(j) PROVE HostInv'
  BY <1>5 DEF GivesUp, host, reader
<1>6. ASSUME NEW j \in Job, ScriptSweeps(j) PROVE HostInv'
  BY <1>6 DEF ScriptSweeps, NoSweep, Exists, host, reader
<1>7. ASSUME NEW j \in Job, ScriptStarts(j) PROVE HostInv'
  BY <1>7 DEF ScriptStarts, NoSweep, host, reader
<1>8. ASSUME NEW j \in Job, ScriptEnds(j) PROVE HostInv'
  BY <1>8 DEF ScriptEnds, host, reader
<1>9. ASSUME NEW j \in Job, Copies(j) PROVE HostInv'
  BY <1>9 DEF Copies, Exists, host, reader
<1>10. ASSUME NEW j \in Job, Ends(j) PROVE HostInv'
  BY <1>10 DEF Ends, host, reader
<1>11. ASSUME NEW j \in Job, WrapperEnds(j) PROVE HostInv'
  BY <1>11 DEF WrapperEnds, Exists, Drained, host, reader
<1>12. ASSUME NEW j \in Job, Kill(j) PROVE HostInv'
  BY <1>12 DEF Kill, Alive, host, reader
<1>13. ASSUME NEW j \in Job, Ages(j) PROVE HostInv'
  BY <1>13 DEF Ages, Exists, host, reader
<1>14. ASSUME NEW j \in Talk, Writes(j) PROVE HostInv'
  BY <1>14 DEF Writes, host, reader
<1>15. ASSUME NEW j \in Talk, Tail(j) PROVE HostInv'
  BY <1>15 DEF Tail, Exists, Lesser, host, reader
<1>16. ASSUME NEW j \in Talk, Size(j) PROVE HostInv'
  BY <1>16 DEF Size, host, reader
<1>17. ASSUME NEW j \in Talk, Answer(j) PROVE HostInv'
  BY <1>17 DEF Answer, NextOffset, Lesser, Nothing, Alive, host, reader
<1>18. ASSUME NEW j \in Talk, ReadFails(j) PROVE HostInv'
  BY <1>18 DEF ReadFails, host, reader
<1>19. ASSUME NEW j \in Job, SweepLooks(j) PROVE HostInv'
  BY <1>19 DEF SweepLooks, Exists, RemoveIf, host, reader
<1>20. ASSUME SweepActs PROVE HostInv'
  BY <1>20 DEF SweepActs, Dead, Alive, RemoveIf, host, reader
<1>21. ASSUME SweepStarts PROVE HostInv'
  BY <1>21 DEF SweepStarts, NoSweep, Exists, host, reader
<1>22. ASSUME Reboot PROVE HostInv'
  BY <1>22 DEF Reboot, Disconnected, NoSweep, host, reader
<1>23. ASSUME Restart PROVE HostInv'
  BY <1>23 DEF Restart, Disconnected, host, reader
<1>24. CASE UNCHANGED vars
  BY <1>24 DEF vars, host, reader
<1> QED
  BY <1>1, <1>2, <1>3, <1>4, <1>5, <1>6, <1>7, <1>8, <1>9, <1>10, <1>11, <1>12, <1>13, <1>14, <1>15, <1>16, <1>17, <1>18, <1>19, <1>20, <1>21, <1>22, <1>23, <1>24
  DEF Next, Script, Process, SweepGoes

LEMMA ReadInvInit == Init => ReadInv
BY JobAssumption DEF Init, ReadInv, Exists

LEMMA ReadInvNext ==
  ASSUME TypeOK, HostInv, ReadInv, [Next]_vars PROVE ReadInv'
<1> USE JobAssumption DEF TypeOK, File, HostInv, InOrder, PipeFits, CodeIsLast, ReadInv
<1>1. ASSUME NEW j \in Job, Run(j) PROVE ReadInv'
  BY <1>1 DEF Run, Counted, Exists, Lesser, host, reader
<1>2. ASSUME NEW j \in Job, Refused(j) PROVE ReadInv'
  BY <1>2 DEF Refused, Counted, Exists, Lesser, host, reader
<1>3. ASSUME NEW j \in Job, NEW rows \in SUBSET Running, Launch(j, rows) PROVE ReadInv'
  BY <1>3 DEF Launch, Counted, Exists, Lesser, host, reader
<1>4. ASSUME NEW j \in Job, Launched(j) PROVE ReadInv'
  BY <1>4 DEF Launched, Counted, Exists, Lesser, host, reader
<1>5. ASSUME NEW j \in Job, GivesUp(j) PROVE ReadInv'
  BY <1>5 DEF GivesUp, Counted, Exists, Lesser, host, reader
<1>6. ASSUME NEW j \in Job, ScriptSweeps(j) PROVE ReadInv'
  BY <1>6 DEF ScriptSweeps, NoSweep, Counted, Exists, Lesser, host, reader
<1>7. ASSUME NEW j \in Job, ScriptStarts(j) PROVE ReadInv'
  BY <1>7 DEF ScriptStarts, NoSweep, Counted, Exists, Lesser, host, reader
<1>8. ASSUME NEW j \in Job, ScriptEnds(j) PROVE ReadInv'
  BY <1>8 DEF ScriptEnds, Counted, Exists, Lesser, host, reader
<1>9. ASSUME NEW j \in Job, Copies(j) PROVE ReadInv'
  BY <1>9 DEF Copies, Counted, Exists, Lesser, host, reader
<1>10. ASSUME NEW j \in Job, Ends(j) PROVE ReadInv'
  BY <1>10 DEF Ends, Counted, Exists, Lesser, host, reader
<1>11. ASSUME NEW j \in Job, WrapperEnds(j) PROVE ReadInv'
  BY <1>11 DEF WrapperEnds, Drained, Counted, Exists, Lesser, host, reader
<1>12. ASSUME NEW j \in Job, Kill(j) PROVE ReadInv'
  BY <1>12 DEF Kill, Alive, Counted, Exists, Lesser, host, reader
<1>13. ASSUME NEW j \in Job, Ages(j) PROVE ReadInv'
  BY <1>13 DEF Ages, Counted, Exists, Lesser, host, reader
<1>14. ASSUME NEW j \in Talk, Writes(j) PROVE ReadInv'
  BY <1>14 DEF Writes, Counted, Exists, Lesser, host, reader
<1>15. ASSUME NEW j \in Talk, Tail(j) PROVE ReadInv'
  <2> DEFINE given == IF out[j] > off[j] THEN Lesser(Chunk, out[j] - off[j]) ELSE 0
  <2>1. off[j] + given = Lesser(out[j], off[j] + Chunk)
    <3>1. out[j] \in Nat /\ off[j] \in Nat /\ Chunk \in Nat /\ off[j] <= out[j]
      BY <1>15 DEF Tail, Exists
    <3> QED BY <3>1 DEF Lesser
  <2>2. rd' = [rd EXCEPT ![j] = [size |-> None, given |-> given]]
    BY <1>15 DEF Tail
  <2> HIDE DEF given
  <2>3. rd'[j].size = None /\ rd'[j].given = given
    BY <2>2
  <2>4. UNCHANGED <<off, out, got, torn, files>> /\ Exists(j)
    BY <1>15 DEF Tail, host
  <2>5. Counted(j)'
    BY <2>1, <2>3, <2>4 DEF Counted
  <2>6. \A i \in Job \ {j} : rd'[i] = rd[i]
    BY <2>2
  <2> QED BY <2>3, <2>4, <2>5, <2>6 DEF Counted, Exists
<1>16. ASSUME NEW j \in Talk, Size(j) PROVE ReadInv'
  BY <1>16 DEF Size, Counted, Exists, Lesser, host, reader
<1>17. ASSUME NEW j \in Talk, Answer(j) PROVE ReadInv'
  BY <1>17 DEF Answer, NextOffset, Nothing, Alive, Counted, Exists, Lesser, host, reader
<1>18. ASSUME NEW j \in Talk, ReadFails(j) PROVE ReadInv'
  BY <1>18 DEF ReadFails, Counted, Exists, Lesser, host, reader
<1>19. ASSUME NEW j \in Job, SweepLooks(j) PROVE ReadInv'
  BY <1>19 DEF SweepLooks, RemoveIf, Counted, Exists, Lesser, host, reader
<1>20. ASSUME SweepActs PROVE ReadInv'
  BY <1>20 DEF SweepActs, Dead, Alive, RemoveIf, Counted, Exists, Lesser, host, reader
<1>21. ASSUME SweepStarts PROVE ReadInv'
  BY <1>21 DEF SweepStarts, NoSweep, Counted, Exists, Lesser, host, reader
<1>22. ASSUME Reboot PROVE ReadInv'
  BY <1>22 DEF Reboot, Disconnected, NoSweep, Counted, Exists, Lesser, host, reader
<1>23. ASSUME Restart PROVE ReadInv'
  BY <1>23 DEF Restart, Disconnected, Counted, Exists, Lesser, host, reader
<1>24. CASE UNCHANGED vars
  BY <1>24 DEF vars, host, reader, Counted, Exists, Lesser
<1> QED
  BY <1>1, <1>2, <1>3, <1>4, <1>5, <1>6, <1>7, <1>8, <1>9, <1>10, <1>11, <1>12, <1>13, <1>14, <1>15, <1>16, <1>17, <1>18, <1>19, <1>20, <1>21, <1>22, <1>23, <1>24
  DEF Next, Script, Process, SweepGoes

-----------------------------------------------------------------------------
(* The theorems.                                                             *)

LEMMA InvAlways == Spec => [](TypeOK /\ HostInv /\ ReadInv)
<1>1. Init => TypeOK /\ HostInv /\ ReadInv
  BY TypeInit, HostInvInit, ReadInvInit
<1>2. TypeOK /\ HostInv /\ ReadInv /\ [Next]_vars => (TypeOK /\ HostInv /\ ReadInv)'
  <2>1. HostInv => PipeFits
    BY DEF HostInv
  <2> QED BY <2>1, TypeNext, HostInvNext, ReadInvNext
<1> QED BY <1>1, <1>2, PTL DEF Spec

(* The calls, scripts, directories, processes and reads keep their types.    *)
THEOREM TypeCorrect == Spec => []TypeOK
<1> QED BY InvAlways, PTL

(* Reads go on from the offset answered (jobOut) and leave no gap, however   *)
(* much is read at a time, with reads that fail and are made again.          *)
THEOREM NoGapInReads == Spec => []ReadsGapless
<1>1. ReadInv => ReadsGapless
  BY JobAssumption DEF ReadInv, ReadsGapless
<1> QED BY <1>1, InvAlways, PTL

(* An exit code is told only of a job that is over, with its output in the   *)
(* file (the wrapper of launchScript, readScript).                           *)
THEOREM ExitCodeComesLast == Spec => []EndIsTheEnd
<1>1. HostInv => EndIsTheEnd
  BY JobAssumption DEF HostInv, CodeIsLast, PipeFits, EndIsTheEnd
<1> QED BY <1>1, InvAlways, PTL

SweepStep ==
  \A j \in Job : Exists(j) /\ ~Exists(j)' /\ crashes' = crashes =>
    /\ wrap[j] # "alive" /\ script[j] = "done"
    /\ old[j] \/ sweep.at = j

(* No sweep, whoever's launch or minute it runs in, takes the directory of a *)
(* job that runs or starts (sweepSnippet).                                   *)
THEOREM SweepsSpareTheLiving == Spec => SweepsTheDead
<1>1. TypeOK /\ HostInv /\ [Next]_vars => [SweepStep]_vars
  <2> SUFFICES ASSUME TypeOK, HostInv, [Next]_vars, NEW i \in Job,
                      Exists(i), ~Exists(i)', crashes' = crashes
               PROVE  wrap[i] # "alive" /\ script[i] = "done" /\ (old[i] \/ sweep.at = i)
    BY DEF SweepStep
  <2> USE JobAssumption DEF TypeOK, File, HostInv, InOrder, OldIsDone, CodeIsLast
  <2>1. ASSUME NEW j \in Job, Run(j) PROVE wrap[i] # "alive" /\ script[i] = "done" /\ (old[i] \/ sweep.at = i)
    BY <2>1 DEF Run, Exists, host, reader
  <2>2. ASSUME NEW j \in Job, Refused(j) PROVE wrap[i] # "alive" /\ script[i] = "done" /\ (old[i] \/ sweep.at = i)
    BY <2>2 DEF Refused, Exists, host, reader
  <2>3. ASSUME NEW j \in Job, NEW rows \in SUBSET Running, Launch(j, rows) PROVE wrap[i] # "alive" /\ script[i] = "done" /\ (old[i] \/ sweep.at = i)
    BY <2>3 DEF Launch, Exists, host, reader
  <2>4. ASSUME NEW j \in Job, Launched(j) PROVE wrap[i] # "alive" /\ script[i] = "done" /\ (old[i] \/ sweep.at = i)
    BY <2>4 DEF Launched, Exists, host, reader
  <2>5. ASSUME NEW j \in Job, GivesUp(j) PROVE wrap[i] # "alive" /\ script[i] = "done" /\ (old[i] \/ sweep.at = i)
    BY <2>5 DEF GivesUp, Exists, host, reader
  <2>6. ASSUME NEW j \in Job, ScriptSweeps(j) PROVE wrap[i] # "alive" /\ script[i] = "done" /\ (old[i] \/ sweep.at = i)
    BY <2>6 DEF ScriptSweeps, NoSweep, Exists, host, reader
  <2>7. ASSUME NEW j \in Job, ScriptStarts(j) PROVE wrap[i] # "alive" /\ script[i] = "done" /\ (old[i] \/ sweep.at = i)
    BY <2>7 DEF ScriptStarts, NoSweep, Exists, host, reader
  <2>8. ASSUME NEW j \in Job, ScriptEnds(j) PROVE wrap[i] # "alive" /\ script[i] = "done" /\ (old[i] \/ sweep.at = i)
    BY <2>8 DEF ScriptEnds, Exists, host, reader
  <2>9. ASSUME NEW j \in Job, Copies(j) PROVE wrap[i] # "alive" /\ script[i] = "done" /\ (old[i] \/ sweep.at = i)
    BY <2>9 DEF Copies, Exists, host, reader
  <2>10. ASSUME NEW j \in Job, Ends(j) PROVE wrap[i] # "alive" /\ script[i] = "done" /\ (old[i] \/ sweep.at = i)
    BY <2>10 DEF Ends, Exists, host, reader
  <2>11. ASSUME NEW j \in Job, WrapperEnds(j) PROVE wrap[i] # "alive" /\ script[i] = "done" /\ (old[i] \/ sweep.at = i)
    BY <2>11 DEF WrapperEnds, Drained, Exists, host, reader
  <2>12. ASSUME NEW j \in Job, Kill(j) PROVE wrap[i] # "alive" /\ script[i] = "done" /\ (old[i] \/ sweep.at = i)
    BY <2>12 DEF Kill, Alive, Exists, host, reader
  <2>13. ASSUME NEW j \in Job, Ages(j) PROVE wrap[i] # "alive" /\ script[i] = "done" /\ (old[i] \/ sweep.at = i)
    BY <2>13 DEF Ages, Exists, host, reader
  <2>14. ASSUME NEW j \in Talk, Writes(j) PROVE wrap[i] # "alive" /\ script[i] = "done" /\ (old[i] \/ sweep.at = i)
    BY <2>14 DEF Writes, Exists, host, reader
  <2>15. ASSUME NEW j \in Talk, Tail(j) PROVE wrap[i] # "alive" /\ script[i] = "done" /\ (old[i] \/ sweep.at = i)
    BY <2>15 DEF Tail, Lesser, Exists, host, reader
  <2>16. ASSUME NEW j \in Talk, Size(j) PROVE wrap[i] # "alive" /\ script[i] = "done" /\ (old[i] \/ sweep.at = i)
    BY <2>16 DEF Size, Exists, host, reader
  <2>17. ASSUME NEW j \in Talk, Answer(j) PROVE wrap[i] # "alive" /\ script[i] = "done" /\ (old[i] \/ sweep.at = i)
    BY <2>17 DEF Answer, NextOffset, Lesser, Nothing, Alive, Exists, host, reader
  <2>18. ASSUME NEW j \in Talk, ReadFails(j) PROVE wrap[i] # "alive" /\ script[i] = "done" /\ (old[i] \/ sweep.at = i)
    BY <2>18 DEF ReadFails, Exists, host, reader
  <2>19. ASSUME NEW j \in Job, SweepLooks(j) PROVE wrap[i] # "alive" /\ script[i] = "done" /\ (old[i] \/ sweep.at = i)
    BY <2>19 DEF SweepLooks, RemoveIf, Exists, host, reader
  <2>20. ASSUME SweepActs PROVE wrap[i] # "alive" /\ script[i] = "done" /\ (old[i] \/ sweep.at = i)
    BY <2>20 DEF SweepActs, Dead, Alive, RemoveIf, Exists, host, reader
  <2>21. ASSUME SweepStarts PROVE wrap[i] # "alive" /\ script[i] = "done" /\ (old[i] \/ sweep.at = i)
    BY <2>21 DEF SweepStarts, NoSweep, Exists, host, reader
  <2>22. ASSUME Reboot PROVE wrap[i] # "alive" /\ script[i] = "done" /\ (old[i] \/ sweep.at = i)
    BY <2>22 DEF Reboot, Disconnected, NoSweep, Exists, host, reader
  <2>23. ASSUME Restart PROVE wrap[i] # "alive" /\ script[i] = "done" /\ (old[i] \/ sweep.at = i)
    BY <2>23 DEF Restart, Disconnected, Exists, host, reader
  <2>24. CASE UNCHANGED vars
    BY <2>24 DEF vars, host, reader, Exists
  <2> QED
    BY <2>1, <2>2, <2>3, <2>4, <2>5, <2>6, <2>7, <2>8, <2>9, <2>10, <2>11, <2>12, <2>13, <2>14, <2>15, <2>16, <2>17, <2>18, <2>19, <2>20, <2>21, <2>22, <2>23, <2>24
    DEF Next, Script, Process, SweepGoes
<1> QED BY <1>1, InvAlways, PTL DEF Spec, SweepsTheDead, SweepStep
=============================================================================
