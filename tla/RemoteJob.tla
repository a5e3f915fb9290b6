----------------------------- MODULE RemoteJob -----------------------------
(***************************************************************************)
(* Background jobs on one SSH server (ssh/job-bridge.mjs, job-remote.mjs).  *)
(* A job lives in a directory of the remote host, which is the only record  *)
(* of it: the gateway starts, reads, lists, kills and sweeps jobs by short  *)
(* shell scripts, each of which may be given up after 15 s while it goes on *)
(* over there, and which run among the jobs' own processes. Every run call  *)
(* makes a job of its own, so a call is named by its job.                   *)
(***************************************************************************)
EXTENDS Integers, FiniteSets

CONSTANTS
  Job,          \* run calls
  Talk,         \* jobs that write output, which somebody reads
  Limit,        \* maxPerServer
  Chunk,        \* maxBytes of one read
  Cap,          \* maxOutMb: what dd copies
  MaxCrashes,   \* bound: restarts of the gateway and reboots of the host
  None

ASSUME JobAssumption ==
  /\ Talk \subseteq Job /\ IsFiniteSet(Job) /\ None \notin Job \union Nat
  /\ Limit \in Nat \ {0} /\ Chunk \in Nat \ {0} /\ Cap \in Nat
  /\ MaxCrashes \in Nat

VARIABLES
  call,    \* the gateway's run call
  script,  \* its launch script on the host
  files,   \* what is in the job's directory ("dir" is the directory)
  old,     \* the directory and its code file are older than the TTL
  wrap,    \* the wrapper with its dd: the process named in pid
  cmd,     \* the command, under timeout
  piped,   \* output waits in the pipe between the command and dd
  out,     \* output dd has copied into the file
  rd,      \* a read under way: what tail gave, and what wc counted
  off, got, told,  \* the reader's offset, the bytes it has, whether it was told an exit code
  sweep,   \* the sweep on the host: directories ahead, and the one found dead so far
  known,   \* sweepSeenServers has this server
  crashes,
  torn     \* readers overtaken by output

host == <<files, old, wrap, cmd, piped, out>>
reader == <<rd, off, got, told, torn>>
vars == <<call, script, host, reader, sweep, known, crashes>>

File == {"dir", "pid", "code"}
Lesser(a, b) == IF a <= b THEN a ELSE b
NoSweep == [todo |-> {}, at |-> None]

Init ==
  /\ call = [j \in Job |-> "idle"] /\ script = [j \in Job |-> "none"]
  /\ files = [j \in Job |-> {}] /\ old = [j \in Job |-> FALSE]
  /\ wrap = [j \in Job |-> "none"] /\ cmd = [j \in Job |-> "none"]
  /\ piped = [j \in Job |-> FALSE] /\ out = [j \in Job |-> 0]
  /\ rd = [j \in Job |-> None] /\ off = [j \in Job |-> 0] /\ got = [j \in Job |-> 0]
  /\ told = [j \in Job |-> FALSE] /\ torn = {}
  /\ sweep = NoSweep /\ known = FALSE
  /\ crashes = 0

Exists(j) == "dir" \in files[j]
Alive(j) == "pid" \in files[j] /\ wrap[j] = "alive"      \* kill -0 of the pid file

----------------------------------------------------------------------------
(* run: the listing, then the launch script.                                *)

(* parseListOutput: the directories without a code file.                     *)
Running == {j \in Job : Exists(j) /\ "code" \notin files[j]}
Full(rows) == Cardinality(rows) >= Limit

Run(j) ==
  /\ call[j] = "idle" /\ script[j] = "none" /\ call' = [call EXCEPT ![j] = "list"]
  /\ UNCHANGED <<script, host, reader, sweep, known, crashes>>

Refused(j) ==
  /\ call[j] = "list" /\ Full(Running) /\ call' = [call EXCEPT ![j] = "idle"]
  /\ UNCHANGED <<script, host, reader, sweep, known, crashes>>

(* The rows may be fewer than there are: a listing that timed out is counted *)
(* like any other, and other jobs may have been launched after it.           *)
Launch(j, rows) ==
  /\ call[j] = "list" /\ ~Full(rows) /\ call' = [call EXCEPT ![j] = "launch"]
  /\ script' = [script EXCEPT ![j] = "sent"]
  /\ UNCHANGED <<host, reader, sweep, known, crashes>>

(* OK has come back: the job is announced and the server remembered.         *)
Launched(j) ==
  /\ call[j] = "launch" /\ script[j] = "done" /\ call' = [call EXCEPT ![j] = "over"]
  /\ known' = TRUE
  /\ UNCHANGED <<script, host, reader, sweep, crashes>>

(* No connection, or 15 s are over; a script that has begun goes on.         *)
GivesUp(j) ==
  /\ \/ call[j] = "list" /\ call' = [call EXCEPT ![j] = "idle"] /\ UNCHANGED script
     \/ /\ call[j] = "launch" /\ call' = [call EXCEPT ![j] = "over"]
        /\ \/ UNCHANGED script
           \/ script[j] = "sent" /\ script' = [script EXCEPT ![j] = "none"]
  /\ UNCHANGED <<host, reader, sweep, known, crashes>>

----------------------------------------------------------------------------
(* launchScript on the host.                                                *)

(* It begins with a sweep of its own. Sweeps run one after the other here.   *)
ScriptSweeps(j) ==
  /\ script[j] = "sent" /\ sweep = NoSweep
  /\ script' = [script EXCEPT ![j] = "sweeping"]
  /\ sweep' = [todo |-> {i \in Job : Exists(i)}, at |-> None]
  /\ UNCHANGED <<call, host, reader, known, crashes>>

(* mkdir, meta, mkfifo; setsid starts the wrapper in the background.         *)
ScriptStarts(j) ==
  /\ script[j] = "sweeping" /\ sweep = NoSweep
  /\ script' = [script EXCEPT ![j] = "up"] /\ files' = [files EXCEPT ![j] = {"dir"}]
  /\ wrap' = [wrap EXCEPT ![j] = "alive"] /\ cmd' = [cmd EXCEPT ![j] = "running"]
  /\ UNCHANGED <<call, old, piped, out, reader, sweep, known, crashes>>

ScriptEnds(j) ==
  /\ script[j] = "up" /\ script' = [script EXCEPT ![j] = "done"]
  /\ files' = [files EXCEPT ![j] = @ \union {"pid"}]
  /\ UNCHANGED <<call, old, wrap, cmd, piped, out, reader, sweep, known, crashes>>

----------------------------------------------------------------------------
(* The processes of a job.                                                  *)

(* Output, into the pipe of dd; without dd it ends the command (SIGPIPE).    *)
Writes(j) ==
  /\ cmd[j] = "running"
  /\ IF wrap[j] = "alive" /\ out[j] < Cap
       THEN ~piped[j] /\ piped' = [piped EXCEPT ![j] = TRUE] /\ UNCHANGED cmd
       ELSE cmd' = [cmd EXCEPT ![j] = "ended"] /\ UNCHANGED piped
  /\ UNCHANGED <<call, script, files, old, wrap, out, reader, sweep, known, crashes>>

Copies(j) ==
  /\ wrap[j] = "alive" /\ piped[j] /\ piped' = [piped EXCEPT ![j] = FALSE]
  /\ out' = [out EXCEPT ![j] = IF Exists(j) THEN @ + 1 ELSE @]
  /\ torn' = IF rd[j] = None THEN torn ELSE torn \union {j}
  /\ UNCHANGED <<call, script, files, old, wrap, cmd, rd, off, got, told, sweep, known, crashes>>

(* The command ends and leaves its exit status in .rc, which makes the       *)
(* directory young again; or timeout ends it.                                *)
Ends(j) ==
  /\ cmd[j] = "running" /\ cmd' = [cmd EXCEPT ![j] = "ended"]
  /\ old' \in {old, [old EXCEPT ![j] = FALSE]}
  /\ UNCHANGED <<call, script, files, wrap, piped, out, reader, sweep, known, crashes>>

(* The pipe is empty: .rc becomes code, or 141 is written into it.           *)
NotWaitingForDd(j) == TRUE                     \* mutant
Drained(j) == ~piped[j]

WrapperEnds(j) ==
  /\ wrap[j] = "alive" /\ cmd[j] = "ended" /\ Drained(j)
  /\ wrap' = [wrap EXCEPT ![j] = "gone"] /\ old' = [old EXCEPT ![j] = FALSE]
  /\ files' = [files EXCEPT ![j] = IF Exists(j) THEN @ \union {"code"} ELSE @]
  /\ UNCHANGED <<call, script, cmd, piped, out, reader, sweep, known, crashes>>

(* jobKill: the group of the wrapper. timeout has made a group of its own,   *)
(* so the command is not in it.                                             *)
Kill(j) ==
  /\ Alive(j) /\ wrap' = [wrap EXCEPT ![j] = "gone"] /\ piped' = [piped EXCEPT ![j] = FALSE]
  /\ UNCHANGED <<call, script, files, old, cmd, out, reader, sweep, known, crashes>>

(* Time passes; a launch script does not take a TTL.                         *)
Ages(j) ==
  /\ Exists(j) /\ ~old[j] /\ script[j] = "done"
  /\ old' = [old EXCEPT ![j] = TRUE]
  /\ UNCHANGED <<call, script, files, wrap, cmd, piped, out, reader, sweep, known, crashes>>

(* The connection of a call is gone.                                         *)
Disconnected ==
  call' = [j \in Job |-> IF call[j] = "list" THEN "idle"
                          ELSE IF call[j] = "launch" THEN "over" ELSE call[j]]

(* The host is rebooted; /tmp may survive.                                   *)
Reboot ==
  /\ crashes < MaxCrashes /\ crashes' = crashes + 1 /\ Disconnected
  /\ wrap' = [j \in Job |-> IF wrap[j] = "alive" THEN "gone" ELSE wrap[j]]
  /\ cmd' = [j \in Job |-> IF cmd[j] = "running" THEN "ended" ELSE cmd[j]]
  /\ script' = [j \in Job |-> IF script[j] \in {"sent", "sweeping", "up"} THEN "done" ELSE script[j]]
  /\ piped' = [j \in Job |-> FALSE]
  /\ \E wiped \in BOOLEAN :
       /\ files' = [j \in Job |-> IF wiped THEN {} ELSE files[j]]
       /\ out' = [j \in Job |-> IF wiped THEN 0 ELSE out[j]]
       /\ old' = [j \in Job |-> old[j] /\ ~wiped]
  /\ sweep' = NoSweep /\ rd' = [j \in Job |-> None]
  /\ UNCHANGED <<off, got, told, torn, known>>

----------------------------------------------------------------------------
(* sweepSnippet, every minute on the servers remembered, and in each launch. *)

SweepStarts ==
  /\ known /\ sweep = NoSweep
  /\ sweep' = [todo |-> {j \in Job : Exists(j)}, at |-> None]
  /\ sweep'.todo # {}
  /\ UNCHANGED <<call, script, host, reader, known, crashes>>

RemoveIf(j, dead) ==
  /\ files' = [files EXCEPT ![j] = IF dead THEN {} ELSE @]
  /\ out' = [out EXCEPT ![j] = IF dead THEN 0 ELSE @]
  /\ old' = [old EXCEPT ![j] = @ /\ ~dead]

(* By the age of the code file; without one, by the directory's age and then *)
(* its process.                                                             *)
SweepLooks(j) ==
  /\ j \in sweep.todo /\ sweep.at = None
  /\ sweep' = [todo |-> sweep.todo \ {j},
               at |-> IF Exists(j) /\ old[j] /\ "code" \notin files[j] THEN j ELSE None]
  /\ RemoveIf(j, old[j] /\ "code" \in files[j])
  /\ UNCHANGED <<call, script, wrap, cmd, piped, reader, known, crashes>>

ByAgeAlone(j) == TRUE                          \* mutant
OnlyFinished(j) == FALSE                       \* mutant
Dead(j) == ~Alive(j)

SweepActs ==
  /\ sweep.at # None /\ sweep' = [sweep EXCEPT !.at = None]
  /\ RemoveIf(sweep.at, Dead(sweep.at))
  /\ UNCHANGED <<call, script, wrap, cmd, piped, reader, known, crashes>>

----------------------------------------------------------------------------
(* jobOut: readScript asks for the bytes, the size and the state in turn.    *)
(* A reader who has everything of an ended job stops.                        *)

Tail(j) ==
  /\ Exists(j) /\ rd[j] = None /\ ~(told[j] /\ off[j] = out[j])
  /\ rd' = [rd EXCEPT ![j] = [size |-> None,
               given |-> IF out[j] > off[j] THEN Lesser(Chunk, out[j] - off[j]) ELSE 0]]
  /\ UNCHANGED <<call, script, host, off, got, told, torn, sweep, known, crashes>>

Size(j) ==
  /\ rd[j] # None /\ rd[j].size = None /\ rd' = [rd EXCEPT ![j].size = out[j]]
  /\ UNCHANGED <<call, script, host, off, got, told, torn, sweep, known, crashes>>

AChunkOn(j, size) == off[j] + Chunk            \* mutant
NextOffset(j, size) == Lesser(size, off[j] + Chunk)

(* The side band is complete and jobOut answers; a job of which there is     *)
(* nothing to see is an error.                                              *)
Nothing(j) == rd[j].size = 0 /\ "code" \notin files[j] /\ ~Alive(j)

Answer(j) ==
  /\ rd[j] # None /\ rd[j].size # None /\ rd' = [rd EXCEPT ![j] = None]
  /\ IF Nothing(j) THEN UNCHANGED <<off, got, told>>
       ELSE /\ got' = [got EXCEPT ![j] = @ + rd[j].given]
            /\ off' = [off EXCEPT ![j] = NextOffset(j, rd[j].size)]
            /\ told' = [told EXCEPT ![j] = "code" \in files[j]]
  /\ UNCHANGED <<call, script, host, torn, sweep, known, crashes>>

ReadFails(j) ==
  /\ rd[j] # None /\ rd' = [rd EXCEPT ![j] = None]
  /\ UNCHANGED <<call, script, host, off, got, told, torn, sweep, known, crashes>>

----------------------------------------------------------------------------
(* The gateway starts again: its calls are lost and so is sweepSeenServers.  *)
Restart ==
  /\ crashes < MaxCrashes /\ crashes' = crashes + 1
  /\ Disconnected /\ rd' = [j \in Job |-> None] /\ known' = FALSE
  /\ UNCHANGED <<script, host, off, got, told, torn, sweep>>

Process(j) == Copies(j) \/ Ends(j) \/ WrapperEnds(j)
Script(j) == ScriptSweeps(j) \/ ScriptStarts(j) \/ ScriptEnds(j)
SweepGoes == SweepActs \/ \E j \in Job : SweepLooks(j)

Next ==
  \/ \E j \in Job :
       \/ Run(j) \/ Refused(j) \/ (\E rows \in SUBSET Running : Launch(j, rows)) \/ Launched(j) \/ GivesUp(j)
       \/ Script(j) \/ Process(j) \/ Kill(j) \/ Ages(j)
  \/ \E j \in Talk : Writes(j) \/ Tail(j) \/ Size(j) \/ Answer(j) \/ ReadFails(j)
  \/ SweepStarts \/ SweepGoes \/ Reboot \/ Restart

Spec == Init /\ [][Next]_vars

(* A command ends or meets its time-out, dd and the wrapper finish, scripts  *)
(* run on, and the gateway sweeps every minute. Nobody has to start, read or *)
(* kill anything.                                                           *)
FairSpec ==
  /\ Spec /\ WF_vars(SweepStarts) /\ WF_vars(SweepGoes)
  /\ \A j \in Job : WF_vars(Process(j)) /\ WF_vars(Script(j)) /\ WF_vars(Ages(j))

----------------------------------------------------------------------------
(* Properties.                                                              *)

(* Everything has the type of the thing on the host or in the gateway.       *)
TypeOK ==
  /\ call \in [Job -> {"idle", "list", "launch", "over"}]
  /\ script \in [Job -> {"none", "sent", "sweeping", "up", "done"}]
  /\ files \in [Job -> SUBSET File] /\ old \in [Job -> BOOLEAN]
  /\ wrap \in [Job -> {"none", "alive", "gone"}] /\ cmd \in [Job -> {"none", "running", "ended"}]
  /\ piped \in [Job -> BOOLEAN] /\ out \in [Job -> 0..Cap]
  /\ rd \in [Job -> {None} \union [size : Nat \union {None}, given : Nat]]
  /\ off \in [Job -> Nat] /\ got \in [Job -> Nat] /\ torn \subseteq Job
  /\ told \in [Job -> BOOLEAN]
  /\ sweep \in [todo : SUBSET Job, at : Job \union {None}]
  /\ known \in BOOLEAN
  /\ crashes \in 0..MaxCrashes

(* Whoever reads from the offset of the last answer gets every byte once,    *)
(* however reads fail and are repeated, unless output came during a read:    *)
(* what comes between the script's tail and its wc is skipped.               *)
ReadsGapless == \A j \in Talk \ torn : got[j] = off[j]

(* When a reader is told an exit code, the command is over and its output    *)
(* is in the file, all that dd let through: code is written after both.      *)
EndIsTheEnd ==
  \A j \in Talk : told[j] =>
    cmd[j] = "ended" /\ wrap[j] = "gone" /\ (Exists(j) => ~piped[j])

(* A sweep removes no directory whose job runs or is being launched, and     *)
(* none younger than the TTL, but the one of a job that ended just between   *)
(* the sweep's look at the age and its look at the process.                  *)
SweepsTheDead ==
  [][\A j \in Job : Exists(j) /\ ~Exists(j)' /\ crashes' = crashes =>
       /\ wrap[j] # "alive" /\ script[j] = "done"
       /\ old[j] \/ sweep.at = j]_vars

(* Every directory is removed in the end, also of a job that was killed and  *)
(* has no code (such a job counts as running, so its place in the limit is   *)
(* lost with it), as long as the gateway remembers the server.               *)
ClearedAway == \A j \in Job : Exists(j) ~> ~Exists(j) \/ ~known
=============================================================================
