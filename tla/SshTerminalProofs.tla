-------------------------- MODULE SshTerminalProofs --------------------------
(* The safety of SshTerminal, for any number of sockets and sessions.        *)
EXTENDS SshTerminal, TLAPS

(* A socket waits only for a session that is being created.                  *)
QueuedIsCreating == \A s \in Sock : sock[s].pc = "queued" => cur # None /\ cur.status = "CREATING"

(* A shell that was asked for will be answered to the session of the map:    *)
(* this is what Evict's assumption on the network is for.                    *)
OpeningIsCurrent == \A i \in Session : shell[i] = "opening" => cur # None /\ cur.id = i

(* A live session has its shell, unless it is being created; and as long as  *)
(* the shell it asked for is not answered, somebody waits for it.            *)
LiveHasShell ==
  IsAlive => \/ cur.status # "CREATING" /\ shell[cur.id] = "open"
             \/ cur.status = "CREATING" /\ shell[cur.id] = "closed"
             \/ /\ cur.status = "CREATING" /\ shell[cur.id] = "opening"
                /\ \E s \in Sock : sock[s].pc = "queued"

IInv ==
  /\ TypeOK /\ HandlesAccounted /\ NoStrayShell /\ AttachedIsWired
  /\ QueuedIsCreating /\ OpeningIsCurrent /\ LiveHasShell

(* The statuses, spelled out.                                                *)
LEMMA StatusIs ==
  /\ Status = {"CREATING", "ATTACHED", "DETACHED", "DETACHED_TIMEOUT", "LOST", "CLOSED"}
  /\ Final \subseteq Status
BY DEF Status, TERMINAL_TRANSITIONS, Final

LEMMA SockRecords ==
  /\ Off \in SockType /\ Off.pc = "off" /\ Off.gone = FALSE
  /\ \A pc \in {"acquiring", "queued", "wired"} : At(pc) \in SockType /\ At(pc).pc = pc /\ At(pc).gone = FALSE
BY DEF Off, At, SockType

(* The end of a session, whoever ends it, provided that no channel stays     *)
(* open and none is asked for.                                               *)
LEMMA EndKeeps ==
  ASSUME IInv, cur # None, NEW to \in Final, End(to), server' \in BOOLEAN,
         shell' \in [Session -> ShellType],
         \A j \in Session : shell'[j] # "open",
         \A j \in Session : shell'[j] = "opening" => shell[j] = "opening"
  PROVE  IInv'
<1>1. cur \in SessionType /\ to \in Status /\ sock \in [Sock -> SockType]
  BY StatusIs DEF IInv, TypeOK
<1>2. /\ cur' \in SessionType /\ cur' # None
      /\ cur'.id = cur.id /\ cur'.status = to /\ cur'.att = {} /\ cur'.rel = FALSE
  BY <1>1, TerminalAssumption DEF End, SessionType
<1>3. held' = 0
  BY <1>1 DEF End, GivenBack, IInv, HandlesAccounted, SessionType
<1>4. /\ sock' \in [Sock -> SockType]
      /\ \A s \in Sock : sock'[s].pc \notin {"queued", "wired"}
  <2>1. \A s \in Sock : sock[s].pc \in {"queued", "wired"} => s \in Sockets
    BY DEF IInv, AttachedIsWired, Sockets, Queued
  <2>2. \A s \in Sock : sock'[s] = IF s \in Sockets THEN Off ELSE sock[s]
    BY DEF End
  <2> QED
    BY <1>1, <2>1, <2>2 DEF End, Off, SockType
<1>5. TypeOK'
  BY <1>2, <1>3, <1>4 DEF TypeOK
<1>6. HandlesAccounted'
  BY <1>2, <1>3 DEF HandlesAccounted
<1>7. NoStrayShell'
  BY DEF NoStrayShell
<1>8. AttachedIsWired'
  BY <1>2, <1>4 DEF AttachedIsWired, Final
<1>9. QueuedIsCreating'
  BY <1>4 DEF QueuedIsCreating
<1>10. OpeningIsCurrent'
  BY <1>2 DEF IInv, OpeningIsCurrent
<1>11. LiveHasShell'
  BY <1>2 DEF LiveHasShell, IsAlive
<1> QED
  BY <1>5, <1>6, <1>7, <1>8, <1>9, <1>10, <1>11 DEF IInv

(* service.attach of a session in the map, by a socket not yet attached.     *)
LEMMA AttachKeeps ==
  ASSUME IInv, cur # None, NEW s \in Sock, sock[s].pc \in {"off", "acquiring"}, AttachTo(s),
         UNCHANGED <<server, shell, held>>
  PROVE  IInv'
<1>1. /\ cur \in SessionType /\ sock \in [Sock -> SockType]
      /\ cur.id \in Session /\ cur.status \in Status /\ cur.att \subseteq Sock /\ cur.rel \in BOOLEAN
  BY DEF IInv, TypeOK, SessionType
<1>2. PICK r \in {At("queued"), At("wired"), Off} :
        /\ sock' = [sock EXCEPT ![s] = r]
        /\ r.pc = "wired" => cur' = Attach(cur, {s}) /\ cur.status \notin Final \union {"CREATING"}
        /\ r.pc # "wired" => cur' = cur
        /\ r.pc = "queued" => cur.status = "CREATING"
  BY DEF AttachTo, At, Off
<1>3. /\ r \in SockType /\ ~r.gone
      /\ sock' \in [Sock -> SockType]
      /\ sock'[s] = r /\ \A x \in Sock \ {s} : sock'[x] = sock[x]
  <2>1. r \in SockType /\ ~r.gone
    BY SockRecords
  <2>2. sock' = [sock EXCEPT ![s] = r]
    BY <1>2
  <2> QED
    BY <1>1, <2>1, <2>2
<1>4. /\ cur' \in SessionType /\ cur' # None
      /\ cur'.id = cur.id /\ cur'.rel = cur.rel
      /\ cur'.status \in Final <=> cur.status \in Final
      /\ cur'.att = IF r.pc = "wired" THEN cur.att \union {s} ELSE cur.att
      /\ cur'.status = IF r.pc = "wired" THEN "ATTACHED" ELSE cur.status
  <2>1. CASE r.pc = "wired"
    <3>1. cur' = [cur EXCEPT !.att = @ \union {s}, !.status = "ATTACHED"]
      BY <1>2, <2>1 DEF Attach
    <3>2. /\ cur'.id = cur.id /\ cur'.rel = cur.rel /\ cur'.att = cur.att \union {s}
          /\ cur'.status = "ATTACHED" /\ cur' \in SessionType
      BY <1>1, <3>1, StatusIs DEF SessionType
    <3> QED
      BY <1>2, <2>1, <3>2, TerminalAssumption DEF Final
  <2>2. CASE r.pc # "wired"
    BY <1>1, <1>2, <2>2
  <2> QED
    BY <2>1, <2>2
<1>5. TypeOK'
  BY <1>3, <1>4 DEF IInv, TypeOK
<1>6. HandlesAccounted'
  BY <1>4 DEF IInv, HandlesAccounted
<1>7. NoStrayShell'
  BY <1>4 DEF IInv, NoStrayShell, IsAlive
<1>8. AttachedIsWired'
  <2>1. {x \in Sock : sock'[x].pc = "wired"} = cur'.att
    BY <1>1, <1>3, <1>4 DEF IInv, AttachedIsWired
  <2>2. \A x \in Sock : sock'[x].pc = "wired" => ~sock'[x].gone
    BY <1>3 DEF IInv, AttachedIsWired
  <2>3. cur'.status = "ATTACHED" <=> cur'.att # {}
    BY <1>4 DEF IInv, AttachedIsWired
  <2> QED
    BY <1>4, <2>1, <2>2, <2>3 DEF AttachedIsWired
<1>9. QueuedIsCreating'
  BY <1>2, <1>3, <1>4, StatusIs DEF IInv, QueuedIsCreating
<1>10. OpeningIsCurrent'
  BY <1>4 DEF IInv, OpeningIsCurrent
<1>11. LiveHasShell'
  <2>1. ASSUME NEW x \in Sock, sock[x].pc = "queued" PROVE sock'[x].pc = "queued"
    BY <1>3, <2>1
  <2> QED
    BY <1>2, <1>4, <2>1 DEF IInv, LiveHasShell, IsAlive, Final
<1> QED
  BY <1>5, <1>6, <1>7, <1>8, <1>9, <1>10, <1>11 DEF IInv

-----------------------------------------------------------------------------
LEMMA InitInv == Init => IInv
<1> SUFFICES ASSUME Init PROVE IInv
  OBVIOUS
<1> USE DEF Init
<1>1. TypeOK
  BY DEF TypeOK, Off, SockType, ShellType
<1>2. HandlesAccounted /\ NoStrayShell /\ AttachedIsWired
  BY DEF HandlesAccounted, NoStrayShell, AttachedIsWired, Off
<1>3. QueuedIsCreating /\ OpeningIsCurrent /\ LiveHasShell
  BY DEF QueuedIsCreating, OpeningIsCurrent, LiveHasShell, IsAlive, Off
<1> QED
  BY <1>1, <1>2, <1>3 DEF IInv

(* A step that only moves a socket that neither waits nor is attached, to    *)
(* where it neither waits nor is attached.                                   *)
LEMMA AsideKeeps ==
  ASSUME IInv, NEW s \in Sock, NEW r \in SockType, sock[s].pc \in {"off", "acquiring"},
         r.pc \in {"off", "acquiring"}, sock' = [sock EXCEPT ![s] = r],
         UNCHANGED <<server, cur, shell, held>>
  PROVE  IInv'
<1>1. /\ sock' \in [Sock -> SockType]
      /\ sock'[s] = r /\ \A x \in Sock \ {s} : sock'[x] = sock[x]
  BY DEF IInv, TypeOK
<1>2. TypeOK'
  BY <1>1 DEF IInv, TypeOK
<1>3. HandlesAccounted' /\ NoStrayShell' /\ OpeningIsCurrent'
  BY DEF IInv, HandlesAccounted, NoStrayShell, OpeningIsCurrent, IsAlive
<1>4. AttachedIsWired' /\ QueuedIsCreating' /\ LiveHasShell'
  <2>1. \A x \in Sock : \A pc \in {"wired", "queued"} : sock'[x].pc = pc <=> sock[x].pc = pc
    BY <1>1
  <2>2. \A x \in Sock : sock'[x].pc = "wired" => ~sock'[x].gone
    BY <1>1 DEF IInv, AttachedIsWired
  <2> QED
    BY <2>1, <2>2 DEF IInv, AttachedIsWired, QueuedIsCreating, LiveHasShell, IsAlive
<1> QED
  BY <1>2, <1>3, <1>4 DEF IInv

LEMMA OpenKeeps == ASSUME IInv, NEW s \in Sock, Open(s) PROVE IInv'
<1>1. CASE cur = None
  BY <1>1, AsideKeeps DEF Open, At, SockType
<1>2. CASE cur # None
  BY <1>2, AttachKeeps DEF Open
<1> QED
  BY <1>1, <1>2

(* A new session takes the handle, and its shell is asked for by the socket  *)
(* that made it, or was refused.                                             *)
LEMMA AcquiredKeeps == ASSUME IInv, NEW s \in Sock, Acquired(s) PROVE IInv'
<1>1. CASE sock[s].gone
  <2>1. sock' = [sock EXCEPT ![s] = Off] /\ UNCHANGED <<server, cur, shell>> /\ held' = held
    BY <1>1 DEF Acquired, GoneReturns, IInv, TypeOK
  <2> QED
    BY <2>1, AsideKeeps DEF Acquired, Off, SockType
<1>2. CASE ~sock[s].gone /\ cur # None
  BY <1>2, AttachKeeps DEF Acquired
<1>3. CASE ~sock[s].gone /\ cur = None
  <2>1. PICK i \in Session, r \in {At("queued"), Off} :
          /\ shell[i] = "closed" /\ cur' = NewTerminal(i)
          /\ sock' = [sock EXCEPT ![s] = r]
          /\ shell' = [shell EXCEPT ![i] = IF r.pc = "queued" THEN "opening" ELSE "closed"]
    <3>1. PICK i \in Session : /\ shell[i] = "closed" /\ cur' = NewTerminal(i)
                               /\ \/ shell' = [shell EXCEPT ![i] = "opening"] /\ sock' = [sock EXCEPT ![s] = At("queued")]
                                  \/ UNCHANGED shell /\ sock' = [sock EXCEPT ![s] = Off]
      BY <1>3 DEF Acquired
    <3>2. shell = [shell EXCEPT ![i] = "closed"]
      BY <3>1 DEF IInv, TypeOK
    <3> QED
      BY <3>1, <3>2 DEF At, Off
  <2>2. /\ shell' \in [Session -> ShellType]
        /\ \A j \in Session : shell'[j] = "open" => shell[j] = "open"
        /\ \A j \in Session : shell'[j] = "opening" => shell[j] = "opening" \/ j = i
    BY <2>1 DEF IInv, TypeOK, ShellType
  <2>3. /\ r \in SockType /\ r.pc # "wired" /\ sock' \in [Sock -> SockType]
        /\ sock'[s] = r /\ \A x \in Sock \ {s} : sock'[x] = sock[x]
    <3>1. r \in SockType /\ r.pc # "wired"
      BY SockRecords
    <3> QED
      BY <2>1, <3>1 DEF IInv, TypeOK
  <2>4. /\ cur' \in SessionType /\ cur' # None
        /\ cur'.id = i /\ cur'.status = "CREATING" /\ cur'.att = {} /\ cur'.rel = TRUE
    <3>1. NewTerminal(i) \in SessionType
      BY StatusIs DEF NewTerminal, SessionType
    <3> QED
      BY <2>1, <3>1, TerminalAssumption DEF NewTerminal
  <2>5. held' = 1 /\ server' \in BOOLEAN
    BY <1>3 DEF Acquired, IInv, TypeOK, HandlesAccounted
  <2>6. TypeOK'
    BY <2>2, <2>3, <2>4, <2>5 DEF TypeOK
  <2>7. HandlesAccounted'
    BY <2>4, <2>5 DEF HandlesAccounted, Final
  <2>8. NoStrayShell' /\ OpeningIsCurrent'
    BY <1>3, <2>2, <2>4 DEF IInv, NoStrayShell, OpeningIsCurrent, IsAlive
  <2>9. AttachedIsWired'
    <3>1. \A x \in Sock : sock'[x].pc # "wired"
      BY <1>3, <2>3 DEF IInv, AttachedIsWired
    <3> QED
      BY <2>4, <3>1 DEF AttachedIsWired
  <2>10. QueuedIsCreating'
    BY <2>4 DEF QueuedIsCreating
  <2>11. LiveHasShell'
    <3>1. shell'[i] = IF r.pc = "queued" THEN "opening" ELSE "closed"
      BY <2>1 DEF IInv, TypeOK
    <3> QED
      BY <2>3, <2>4, <3>1 DEF LiveHasShell
  <2> QED
    BY <2>6, <2>7, <2>8, <2>9, <2>10, <2>11 DEF IInv
<1> QED
  BY <1>1, <1>2, <1>3

LEMMA AcquireFailsKeeps == ASSUME IInv, NEW s \in Sock, AcquireFails(s) PROVE IInv'
BY AsideKeeps DEF AcquireFails, Off, SockType

-----------------------------------------------------------------------------
(* The callback of a shell in time finds its own session, CREATING: this is  *)
(* the only step by which a shell becomes open.                              *)
LEMMA ShellOpenKeeps == ASSUME IInv, NEW i \in Session, ShellOpen(i) PROVE IInv'
<1>1. /\ shell[i] = "opening" /\ shell \in [Session -> ShellType]
      /\ cur # None /\ cur.id = i /\ cur \in SessionType
      /\ server' \in BOOLEAN /\ held' = held /\ held \in Nat
  BY DEF ShellOpen, IInv, OpeningIsCurrent, TypeOK
<1>2. CASE IsLate
  <2>1. shell' = [shell EXCEPT ![i] = "closing"] /\ UNCHANGED <<server, cur, sock, held>>
    BY <1>2 DEF ShellOpen
  <2>2. /\ shell' \in [Session -> ShellType]
        /\ \A j \in Session : shell'[j] \in {"open", "opening"} => shell[j] = shell'[j]
    BY <1>1, <2>1 DEF ShellType
  <2>3. TypeOK' /\ HandlesAccounted' /\ AttachedIsWired' /\ QueuedIsCreating'
    BY <2>1, <2>2 DEF IInv, TypeOK, HandlesAccounted, AttachedIsWired, QueuedIsCreating
  <2>4. NoStrayShell' /\ OpeningIsCurrent' /\ LiveHasShell'
    BY <1>2, <2>1, <2>2 DEF IInv, NoStrayShell, OpeningIsCurrent, LiveHasShell, IsAlive, IsLate
  <2> QED
    BY <2>3, <2>4 DEF IInv
<1>3. CASE ~IsLate
  <2> DEFINE there == {s \in Queued : IsThere(s)}
  <2>1. /\ shell' = [shell EXCEPT ![i] = "open"]
        /\ cur' = IF there # {} THEN Attach(cur, there)
                  ELSE IF Queued # {} THEN [cur EXCEPT !.status = "DETACHED"] ELSE cur
        /\ sock' = [s \in Sock |-> IF s \in there THEN [sock[s] EXCEPT !.pc = "wired"]
                                   ELSE IF s \in Queued THEN Off ELSE sock[s]]
    BY <1>3 DEF ShellOpen
  <2>2. /\ shell' \in [Session -> ShellType] /\ shell'[i] = "open"
        /\ \A j \in Session \ {i} : shell'[j] = shell[j]
    BY <1>1, <2>1 DEF ShellType
  <2>3. /\ there \subseteq Queued /\ Queued \subseteq Sock /\ sock \in [Sock -> SockType]
        /\ \A s \in Sock : s \in Queued <=> sock[s].pc = "queued"
        /\ \A s \in there : sock[s].gone = FALSE
    BY DEF Queued, IsThere, IInv, TypeOK, SockType
  <2>4. /\ sock' \in [Sock -> SockType]
        /\ \A s \in Sock : sock'[s].pc # "queued"
        /\ \A s \in Sock : sock'[s].pc = "wired" <=> s \in there \/ sock[s].pc = "wired"
        /\ \A s \in Sock : sock'[s].pc = "wired" => ~sock'[s].gone
    <3>1. \A s \in there : [sock[s] EXCEPT !.pc = "wired"] \in SockType
      BY <2>3 DEF SockType
    <3>2. sock' \in [Sock -> SockType]
      BY <2>1, <2>3, <3>1, SockRecords
    <3>3. ASSUME NEW s \in Sock
          PROVE  /\ sock'[s].pc # "queued"
                 /\ sock'[s].pc = "wired" <=> s \in there \/ sock[s].pc = "wired"
                 /\ sock'[s].pc = "wired" => ~sock'[s].gone
      <4>1. CASE s \in there
        <5>1. sock'[s] = [sock[s] EXCEPT !.pc = "wired"] /\ sock[s] \in SockType /\ sock[s].gone = FALSE
          BY <2>1, <2>3, <4>1
        <5>2. sock'[s].pc = "wired" /\ sock'[s].gone = FALSE
          BY <5>1 DEF SockType
        <5> QED
          BY <4>1, <5>2
      <4>2. CASE s \in Queued \ there
        BY <2>1, <2>3, <4>2, SockRecords
      <4>3. CASE s \notin Queued
        <5>1. sock'[s] = sock[s] /\ s \notin there
          BY <2>1, <2>3, <4>3
        <5> QED
          BY <2>3, <4>3, <5>1 DEF IInv, AttachedIsWired
      <4> QED
        BY <4>1, <4>2, <4>3
    <3> QED
      BY <3>2, <3>3
  <2>5. cur.status \notin Final /\ cur.status = "CREATING" /\ cur.att = {} /\ Queued # {}
    BY <1>1, <1>3, <2>3 DEF IsLate, IsAlive, IInv, LiveHasShell, AttachedIsWired
  <2>6. /\ cur' \in SessionType /\ cur' # None /\ cur'.id = i /\ cur'.rel = cur.rel
        /\ cur'.status \notin Final
        /\ cur'.att = cur.att \union there
        /\ cur'.status = "ATTACHED" <=> cur'.att # {}
        /\ cur'.status # "CREATING"
    <3>1. CASE there # {}
      <4>1. cur' = [cur EXCEPT !.att = @ \union there, !.status = "ATTACHED"]
        BY <2>1, <3>1 DEF Attach
      <4>2. /\ cur' \in SessionType /\ cur'.id = cur.id /\ cur'.rel = cur.rel
            /\ cur'.att = cur.att \union there /\ cur'.status = "ATTACHED"
        BY <1>1, <2>3, <4>1, StatusIs DEF SessionType
      <4> QED
        BY <1>1, <3>1, <4>2, TerminalAssumption DEF Final
    <3>2. CASE there = {}
      <4>1. cur' = [cur EXCEPT !.status = "DETACHED"]
        BY <2>1, <2>5, <3>2
      <4>2. /\ cur' \in SessionType /\ cur'.id = cur.id /\ cur'.rel = cur.rel
            /\ cur'.att = cur.att /\ cur'.status = "DETACHED"
        BY <1>1, <4>1, StatusIs DEF SessionType
      <4> QED
        BY <1>1, <2>5, <3>2, <4>2, TerminalAssumption DEF Final
    <3> QED
      BY <3>1, <3>2
  <2> HIDE DEF there
  <2>7. TypeOK'
    BY <1>1, <2>2, <2>4, <2>6 DEF TypeOK
  <2>8. HandlesAccounted'
    BY <1>1, <2>5, <2>6 DEF IInv, HandlesAccounted
  <2>9. NoStrayShell' /\ OpeningIsCurrent' /\ LiveHasShell'
    BY <1>1, <2>2, <2>6 DEF IInv, NoStrayShell, OpeningIsCurrent, LiveHasShell, IsAlive
  <2>10. AttachedIsWired'
    <3>1. {s \in Sock : sock'[s].pc = "wired"} = cur'.att
      BY <1>1, <2>3, <2>4, <2>6 DEF IInv, AttachedIsWired
    <3> QED
      BY <2>4, <2>6, <3>1 DEF AttachedIsWired
  <2>11. QueuedIsCreating'
    BY <2>4 DEF QueuedIsCreating
  <2> QED
    BY <2>7, <2>8, <2>9, <2>10, <2>11 DEF IInv
<1> QED
  BY <1>2, <1>3

(* A channel closes that is not the live session's.                          *)
LEMMA ShellKeeps ==
  ASSUME IInv, NEW i \in Session, shell' = [shell EXCEPT ![i] = "closed"],
         ~(IsAlive /\ cur.id = i), UNCHANGED <<server, cur, sock, held>>
  PROVE  IInv'
<1>1. /\ shell' \in [Session -> ShellType]
      /\ \A j \in Session : shell'[j] \in {"open", "opening"} => shell[j] = shell'[j]
      /\ \A j \in Session \ {i} : shell'[j] = shell[j]
  BY DEF IInv, TypeOK, ShellType
<1>2. TypeOK' /\ HandlesAccounted' /\ AttachedIsWired' /\ QueuedIsCreating'
  BY <1>1 DEF IInv, TypeOK, HandlesAccounted, AttachedIsWired, QueuedIsCreating
<1>3. NoStrayShell' /\ OpeningIsCurrent'
  BY <1>1 DEF IInv, NoStrayShell, OpeningIsCurrent, IsAlive
<1>4. LiveHasShell'
  <2>1. IsAlive => cur.id \in Session \ {i}
    BY DEF IInv, TypeOK, IsAlive, SessionType
  <2> QED
    BY <1>1, <2>1 DEF IInv, LiveHasShell, IsAlive
<1> QED
  BY <1>2, <1>3, <1>4 DEF IInv

(* The session's own channel closes with it: no other one is open.           *)
LEMMA LostKeeps ==
  ASSUME IInv, NEW i \in Session, shell' = [shell EXCEPT ![i] = "closed"],
         IsAlive, cur.id = i, End("LOST"), server' = server
  PROVE  IInv'
<1>1. /\ shell' \in [Session -> ShellType] /\ server' \in BOOLEAN
      /\ shell'[i] = "closed" /\ \A j \in Session \ {i} : shell'[j] = shell[j]
  BY DEF IInv, TypeOK, ShellType
<1>2. \A j \in Session : shell'[j] # "open"
  BY <1>1 DEF IInv, NoStrayShell
<1>3. \A j \in Session : shell'[j] = "opening" => shell[j] = "opening"
  BY <1>1
<1> QED
  BY <1>1, <1>2, <1>3, EndKeeps DEF IsAlive, Final

LEMMA ShellErrKeeps == ASSUME IInv, NEW i \in Session, ShellErr(i) PROVE IInv'
<1>1. CASE IsAlive
  BY <1>1, LostKeeps DEF ShellErr, IInv, OpeningIsCurrent
<1>2. CASE ~IsAlive
  BY <1>2, ShellKeeps DEF ShellErr
<1> QED
  BY <1>1, <1>2

LEMMA ChannelCloseKeeps == ASSUME IInv, NEW i \in Session, ChannelClose(i) PROVE IInv'
<1>1. CASE IsAlive /\ IsMine(i)
  BY <1>1, LostKeeps DEF ChannelClose, IsMine
<1>2. CASE ~(IsAlive /\ IsMine(i))
  BY <1>2, ShellKeeps DEF ChannelClose, IsMine
<1> QED
  BY <1>1, <1>2

LEMMA WsCloseKeeps == ASSUME IInv, NEW s \in Sock, WsClose(s) PROVE IInv'
<1>1. /\ sock \in [Sock -> SockType] /\ sock[s] \in SockType
      /\ cur \in SessionType \union {None}
      /\ UNCHANGED <<server, shell, held>>
  BY DEF IInv, TypeOK, WsClose
<1>2. CASE sock[s].pc \in {"acquiring", "queued"}
  <2>1. sock' = [sock EXCEPT ![s].gone = TRUE] /\ UNCHANGED cur
    BY <1>2 DEF WsClose
  <2>2. /\ sock' \in [Sock -> SockType]
        /\ sock'[s].pc = sock[s].pc /\ \A x \in Sock \ {s} : sock'[x] = sock[x]
    BY <1>1, <2>1 DEF SockType
  <2>3. TypeOK' /\ HandlesAccounted'
    BY <1>1, <2>1, <2>2 DEF IInv, TypeOK, HandlesAccounted
  <2>4. NoStrayShell' /\ OpeningIsCurrent'
    BY <1>1, <2>1 DEF IInv, NoStrayShell, OpeningIsCurrent, IsAlive
  <2>5. AttachedIsWired' /\ QueuedIsCreating' /\ LiveHasShell'
    <3>1. \A x \in Sock : sock'[x].pc = sock[x].pc
      BY <2>2
    <3>2. \A x \in Sock : sock'[x].pc = "wired" => ~sock'[x].gone
      BY <1>2, <2>2 DEF IInv, AttachedIsWired
    <3> QED
      BY <1>1, <2>1, <3>1, <3>2 DEF IInv, AttachedIsWired, QueuedIsCreating, LiveHasShell, IsAlive
  <2> QED
    BY <2>3, <2>4, <2>5 DEF IInv
<1>3. CASE sock[s].pc = "wired"
  <2>1. sock' = [sock EXCEPT ![s] = Off] /\ cur' = Detach(cur, s)
    BY <1>3 DEF WsClose
  <2>2. /\ sock' \in [Sock -> SockType]
        /\ sock'[s].pc = "off" /\ \A x \in Sock \ {s} : sock'[x] = sock[x]
    BY <1>1, <2>1, SockRecords
  <2>3. /\ cur # None /\ cur \in SessionType /\ s \in cur.att
        /\ cur.att \subseteq Sock /\ cur.status = "ATTACHED"
    BY <1>1, <1>3 DEF IInv, AttachedIsWired, SessionType
  <2>4. /\ cur' \in SessionType /\ cur' # None
        /\ cur'.id = cur.id /\ cur'.rel = cur.rel /\ cur'.att = cur.att \ {s}
        /\ cur'.status = IF cur.att = {s} THEN "DETACHED" ELSE "ATTACHED"
    <3> DEFINE st == IF cur.att = {s} THEN "DETACHED" ELSE cur.status
    <3>1. cur' = [cur EXCEPT !.att = @ \ {s}, !.status = st]
      BY <2>1 DEF Detach
    <3>2. st \in Status /\ st = IF cur.att = {s} THEN "DETACHED" ELSE "ATTACHED"
      BY <2>3, StatusIs
    <3> HIDE DEF st
    <3>3. /\ cur'.id = cur.id /\ cur'.rel = cur.rel /\ cur'.att = cur.att \ {s}
          /\ cur'.status = st /\ cur' \in SessionType
      BY <2>3, <3>1, <3>2 DEF SessionType
    <3> QED
      BY <3>2, <3>3, TerminalAssumption
  <2>5. TypeOK' /\ HandlesAccounted'
    BY <1>1, <2>2, <2>3, <2>4 DEF IInv, TypeOK, HandlesAccounted, Final
  <2>6. NoStrayShell' /\ OpeningIsCurrent' /\ LiveHasShell'
    BY <1>1, <2>3, <2>4 DEF IInv, NoStrayShell, OpeningIsCurrent, LiveHasShell, IsAlive, Final
  <2>7. AttachedIsWired'
    <3>1. {x \in Sock : sock'[x].pc = "wired"} = cur'.att
      BY <2>2, <2>3, <2>4 DEF IInv, AttachedIsWired
    <3>2. \A x \in Sock : sock'[x].pc = "wired" => ~sock'[x].gone
      BY <2>2 DEF IInv, AttachedIsWired
    <3>3. cur'.status = "ATTACHED" <=> cur'.att # {}
      BY <2>3, <2>4
    <3> QED
      BY <2>4, <3>1, <3>2, <3>3 DEF AttachedIsWired
  <2>8. QueuedIsCreating'
    BY <2>2, <2>3 DEF IInv, QueuedIsCreating
  <2> QED
    BY <2>5, <2>6, <2>7, <2>8 DEF IInv
<1> QED
  BY <1>2, <1>3 DEF WsClose

(* A session ended by the gateway: its channel, if open, is being closed.    *)
LEMMA ClosedKeeps ==
  ASSUME IInv, cur # None, NEW to \in Final, End(to), CloseChannel(cur.id), server' \in BOOLEAN
  PROVE  IInv'
<1>1. /\ shell \in [Session -> ShellType] /\ cur.id \in Session
      /\ shell' = [shell EXCEPT ![cur.id] = IF @ = "open" THEN "closing" ELSE @]
  BY DEF CloseChannel, IInv, TypeOK, SessionType
<1>2. shell' \in [Session -> ShellType]
  BY <1>1 DEF ShellType
<1>3. \A j \in Session : shell'[j] # "open" /\ (shell'[j] = "opening" => shell[j] = "opening")
  BY <1>1 DEF IInv, NoStrayShell
<1> QED
  BY <1>2, <1>3, EndKeeps

(* A stage of the reaper that keeps the session alive finds no attachment.   *)
LEMMA SweepKeeps == ASSUME IInv, Sweep PROVE IInv'
<1>1. PICK to \in Status :
        /\ Reapable(to)
        /\ IF to \in Final THEN End(to) /\ CloseChannel(cur.id)
           ELSE cur' = [cur EXCEPT !.status = to] /\ UNCHANGED <<shell, sock, held>>
  BY DEF Sweep
<1>2. IsAlive /\ cur # None /\ cur \in SessionType /\ server' = server /\ server \in BOOLEAN
  BY DEF Sweep, IsAlive, IInv, TypeOK
<1>3. CASE to \in Final
  BY <1>1, <1>2, <1>3, ClosedKeeps
<1>4. CASE to \notin Final
  <2>1. cur' = [cur EXCEPT !.status = to] /\ UNCHANGED <<server, shell, sock, held>>
    BY <1>1, <1>2, <1>4
  <2>2. /\ cur' \in SessionType /\ cur' # None
        /\ cur'.id = cur.id /\ cur'.rel = cur.rel /\ cur'.att = cur.att /\ cur'.status = to
    BY <1>2, <2>1, TerminalAssumption DEF SessionType
  <2>3. to # "ATTACHED" /\ cur.att = {} /\ cur.status \notin Final \union {"CREATING"}
    BY <1>1, <1>2, <1>4 DEF Reapable, Final, IInv, AttachedIsWired
  <2>4. TypeOK'
    BY <1>2, <2>1, <2>2 DEF IInv, TypeOK
  <2>5. HandlesAccounted' /\ NoStrayShell' /\ OpeningIsCurrent' /\ LiveHasShell'
    <3>1. HandlesAccounted'
      BY <1>2, <1>4, <2>1, <2>2, <2>3 DEF IInv, HandlesAccounted, IsAlive
    <3>2. to # "CREATING"
      BY <1>1 DEF Reapable
    <3>3. NoStrayShell' /\ OpeningIsCurrent' /\ LiveHasShell'
      BY <1>2, <1>4, <2>1, <2>2, <2>3, <3>2 DEF IInv, NoStrayShell, OpeningIsCurrent, LiveHasShell, IsAlive
    <3> QED
      BY <3>1, <3>3
  <2>6. AttachedIsWired' /\ QueuedIsCreating'
    BY <1>2, <2>1, <2>2, <2>3 DEF IInv, AttachedIsWired, QueuedIsCreating
  <2> QED
    BY <2>4, <2>5, <2>6 DEF IInv
<1> QED
  BY <1>3, <1>4

LEMMA EvictKeeps == ASSUME IInv, Evict PROVE IInv'
<1>1. /\ cur # None /\ cur.status \in Final /\ shell[cur.id] # "opening"
      /\ cur' = None /\ UNCHANGED <<server, shell, sock, held>>
  BY DEF Evict
<1>2. cur \in SessionType /\ ~cur.rel /\ cur.att = {} /\ held = 0
  BY <1>1 DEF IInv, TypeOK, HandlesAccounted, AttachedIsWired, Final
<1>3. TypeOK' /\ HandlesAccounted' /\ AttachedIsWired'
  BY <1>1, <1>2 DEF IInv, TypeOK, HandlesAccounted, AttachedIsWired
<1>4. NoStrayShell' /\ OpeningIsCurrent' /\ QueuedIsCreating' /\ LiveHasShell'
  BY <1>1 DEF IInv, NoStrayShell, OpeningIsCurrent, QueuedIsCreating, LiveHasShell, IsAlive, Final
<1> QED
  BY <1>3, <1>4 DEF IInv

LEMMA KillKeeps == ASSUME IInv, Kill PROVE IInv'
BY ClosedKeeps DEF Kill, Final, IInv, TypeOK

LEMMA DeleteServerKeeps == ASSUME IInv, DeleteServer PROVE IInv'
<1>1. CASE cur # None /\ cur.status # "CLOSED"
  BY <1>1, ClosedKeeps DEF DeleteServer, Final
<1>2. CASE ~(cur # None /\ cur.status # "CLOSED")
  <2>1. server' \in BOOLEAN /\ UNCHANGED <<cur, shell, sock, held>>
    BY <1>2 DEF DeleteServer
  <2>2. TypeOK' /\ HandlesAccounted' /\ AttachedIsWired'
    BY <2>1 DEF IInv, TypeOK, HandlesAccounted, AttachedIsWired
  <2>3. NoStrayShell' /\ OpeningIsCurrent' /\ QueuedIsCreating' /\ LiveHasShell'
    BY <2>1 DEF IInv, NoStrayShell, OpeningIsCurrent, QueuedIsCreating, LiveHasShell, IsAlive
  <2> QED
    BY <2>2, <2>3 DEF IInv
<1> QED
  BY <1>1, <1>2

LEMMA NextInv == IInv /\ [Next]_vars => IInv'
<1> SUFFICES ASSUME IInv, [Next]_vars PROVE IInv'
  OBVIOUS
<1>1. CASE Next
  BY <1>1, OpenKeeps, AcquiredKeeps, AcquireFailsKeeps, WsCloseKeeps, ShellOpenKeeps, ShellErrKeeps,
     ChannelCloseKeeps, SweepKeeps, EvictKeeps, KillKeeps, DeleteServerKeeps DEF Next
<1>2. CASE UNCHANGED vars
  <2>1. TypeOK' /\ HandlesAccounted' /\ AttachedIsWired'
    BY <1>2 DEF vars, IInv, TypeOK, HandlesAccounted, AttachedIsWired
  <2>2. NoStrayShell' /\ OpeningIsCurrent' /\ QueuedIsCreating' /\ LiveHasShell'
    BY <1>2 DEF vars, IInv, NoStrayShell, OpeningIsCurrent, QueuedIsCreating, LiveHasShell, IsAlive
  <2> QED
    BY <2>1, <2>2 DEF IInv
<1> QED
  BY <1>1, <1>2

-----------------------------------------------------------------------------
LEMMA Invariance == Spec => []IInv
<1>1. Init => IInv
  BY InitInv
<1>2. IInv /\ [Next]_vars => IInv'
  BY NextInv
<1> QED
  BY <1>1, <1>2, PTL DEF Spec

(* Every variable keeps its type; in particular no handle is given back      *)
(* twice (releaseBackend takes the reference before it calls it).            *)
THEOREM TypeCorrect == Spec => []TypeOK
<1>1. IInv => TypeOK
  BY DEF IInv
<1> QED
  BY <1>1, Invariance, PTL

(* Every handle taken from the pool is with the live session, which will     *)
(* give it back (releaseBackend, and the two early releases of the handler). *)
THEOREM NoHandleLeaks == Spec => []HandlesAccounted
<1>1. IInv => HandlesAccounted
  BY DEF IInv
<1> QED
  BY <1>1, Invariance, PTL

(* An open remote shell always belongs to the live session of its id (the    *)
(* guard for late callbacks of the handler).                                 *)
THEOREM NoShellIsStray == Spec => []NoStrayShell
<1>1. IInv => NoStrayShell
  BY DEF IInv
<1> QED
  BY <1>1, Invariance, PTL

(* The attachments are the sockets whose browser is there, and the status    *)
(* says whether there are any (attach, detach and the close sentinel).       *)
THEOREM AttachmentsAreWired == Spec => []AttachedIsWired
<1>1. IInv => AttachedIsWired
  BY DEF IInv
<1> QED
  BY <1>1, Invariance, PTL

(* An established session is lost only when its own channel closes (the      *)
(* identity guard of the channel's close event).                             *)
THEOREM LostOnlyByItsShell == Spec => LostByItsOwnShell
<1>1. ASSUME IInv, [Next]_vars,
             IsAlive, cur.status # "CREATING", cur' # None, cur'.status = "LOST"
      PROVE  shell[cur.id] = "open" /\ shell'[cur.id] = "closed"
  <2>1. /\ cur # None /\ cur \in SessionType /\ cur.status \in Status \ (Final \union {"CREATING"})
        /\ shell \in [Session -> ShellType] /\ shell[cur.id] = "open"
    BY <1>1 DEF IInv, TypeOK, LiveHasShell, IsAlive, SessionType
  <2>3. ASSUME NEW s \in Sock, Open(s) \/ Acquired(s) \/ AcquireFails(s) \/ WsClose(s)
        PROVE  FALSE
    <3>1. \/ cur' = cur \/ cur' = Attach(cur, {s}) \/ cur' = Detach(cur, s)
      BY <2>1, <2>3 DEF Open, Acquired, AcquireFails, WsClose, AttachTo
    <3>2. Attach(cur, {s}).status = "ATTACHED"
      BY <2>1 DEF Attach, SessionType
    <3>3. Detach(cur, s).status \in {"DETACHED", cur.status}
      BY <2>1 DEF Detach, SessionType
    <3> QED
      BY <1>1, <2>1, <3>1, <3>2, <3>3 DEF Final
  <2>4. ASSUME NEW i \in Session, ShellOpen(i) \/ ShellErr(i) PROVE FALSE
    <3>1. shell[i] = "opening"
      BY <2>4 DEF ShellOpen, ShellErr
    <3> QED
      BY <1>1, <2>1, <3>1 DEF IInv, OpeningIsCurrent
  <2>5. ASSUME NEW i \in Session, ChannelClose(i)
        PROVE  shell'[cur.id] = "closed"
    <3>1. CASE cur.id = i
      BY <2>1, <2>5, <3>1 DEF ChannelClose
    <3>2. CASE cur.id # i
      BY <1>1, <2>1, <2>5, <3>2 DEF ChannelClose, IsMine, Final
    <3> QED
      BY <3>1, <3>2
  <2>6. ~Sweep
    <3>1. \A to \in Status : Reapable(to) => to # "LOST"
      BY <2>1 DEF Reapable
    <3>2. \A to \in Status : End(to) => cur'.status = to
      BY <2>1 DEF End, SessionType
    <3>3. \A to \in Status : cur' = [cur EXCEPT !.status = to] => cur'.status = to
      BY <2>1 DEF SessionType
    <3> QED
      BY <1>1, <3>1, <3>2, <3>3 DEF Sweep
  <2>7. ~(Evict \/ Kill \/ DeleteServer)
    <3>1. End("CLOSED") => cur'.status = "CLOSED"
      BY <2>1 DEF End, SessionType
    <3> QED
      BY <1>1, <2>1, <3>1 DEF Evict, Kill, DeleteServer, Final
  <2>8. CASE UNCHANGED vars
    BY <1>1, <2>1, <2>8 DEF vars, Final
  <2> QED
    BY <1>1, <2>1, <2>3, <2>4, <2>5, <2>6, <2>7, <2>8 DEF Next
<1> QED
  BY <1>1, Invariance, PTL DEF Spec, LostByItsOwnShell

=============================================================================
