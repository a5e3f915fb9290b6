----------------------------- MODULE SshTerminal -----------------------------
(* One terminal id of the web terminals over SSH: the session object behind  *)
(* it (server/ssh/terminal-service.mjs), its remote shell, and the browsers' *)
(* sockets that open, share and leave it (server/ssh/terminal-handler.mjs).  *)
(* The connection below is SshPool's: here only the handles taken from it    *)
(* are counted.                                                              *)
EXTENDS Integers

CONSTANTS
  Session,    \* session objects; one is free again when its shell is closed
  Sock,
  Policy,     \* the conditions of the reaping policy that are not 0
  None

Conditions == {"detachedIdleMin", "attachedIdleMin", "maxLifetimeMin", "backendIdleMin"}

VARIABLES
  server,     \* the server's row exists
  cur,        \* the session in the service's map, or None
  shell,      \* per session object its remote channel
  sock,       \* per socket how far its handler is, and whether it has closed
  held        \* handles taken from the pool and not given back

vars == <<server, cur, shell, sock, held>>

Final == {"LOST", "CLOSED"}
(* A session is CLOSING only within one synchronous call: left out.          *)
TERMINAL_TRANSITIONS == [
  CREATING |-> {"ATTACHED"} \union Final,
  ATTACHED |-> {"DETACHED"} \union Final,
  DETACHED |-> {"ATTACHED", "DETACHED_TIMEOUT"} \union Final,
  DETACHED_TIMEOUT |-> {"ATTACHED"} \union Final,
  LOST |-> {"CLOSED"},
  CLOSED |-> {}]
Status == DOMAIN TERMINAL_TRANSITIONS
SockType == [pc : {"off", "acquiring", "queued", "wired"}, gone : BOOLEAN]
ShellType == {"closed", "opening", "open", "closing"}
SessionType == [id : Session, status : Status, att : SUBSET Sock, rel : BOOLEAN]

ASSUME TerminalAssumption == Policy \subseteq Conditions /\ None \notin SessionType

NewTerminal(i) == [id |-> i, status |-> "CREATING", att |-> {}, rel |-> TRUE]
Off == [pc |-> "off", gone |-> FALSE]
At(pc) == [pc |-> pc, gone |-> FALSE]

Queued == {s \in Sock : sock[s].pc = "queued"}
IsAlive == cur # None /\ cur.status \notin Final

Init ==
  /\ server = TRUE
  /\ cur = None
  /\ shell = [i \in Session |-> "closed"]
  /\ sock = [s \in Sock |-> Off]
  /\ held = 0

-----------------------------------------------------------------------------
(* transition into LOST or CLOSED with its releaseBackend: the handle goes   *)
(* back, attached and waiting sockets are closed, and so is the channel.     *)
GivesAgain(c) == 1                 \* mutant: an ended session gives it back again
GivenBack(c) == IF c.rel THEN 1 ELSE 0
AttachedOnly == cur.att            \* mutant: the waiting sockets are not closed
Sockets == cur.att \union Queued

End(to) ==
  /\ to \in TERMINAL_TRANSITIONS[cur.status]
  /\ cur' = [cur EXCEPT !.status = to, !.att = {}, !.rel = FALSE]
  /\ held' = held - GivenBack(cur)
  /\ sock' = [s \in Sock |-> IF s \in Sockets THEN Off ELSE sock[s]]

CloseChannel(i) == shell' = [shell EXCEPT ![i] = IF @ = "open" THEN "closing" ELSE @]

Attach(c, ss) == [c EXCEPT !.att = @ \union ss, !.status = "ATTACHED"]
Detach(c, s) ==
  [c EXCEPT !.att = @ \ {s}, !.status = IF c.att = {s} THEN "DETACHED" ELSE @]

-----------------------------------------------------------------------------
(* A browser connects.                                                       *)

(* service.attach of a session that exists.                                  *)
AttachTo(s) ==
  \/ /\ cur.status = "CREATING"
     /\ sock' = [sock EXCEPT ![s] = At("queued")]
     /\ UNCHANGED cur
  \/ /\ cur.status \notin Final \union {"CREATING"}
     /\ sock' = [sock EXCEPT ![s] = At("wired")]
     /\ cur' = Attach(cur, {s})
  \/ /\ cur.status \in Final
     /\ sock' = [sock EXCEPT ![s] = Off]
     /\ UNCHANGED cur

Open(s) ==
  /\ sock[s].pc = "off" /\ server
  /\ IF cur = None THEN sock' = [sock EXCEPT ![s] = At("acquiring")] /\ UNCHANGED cur
                   ELSE AttachTo(s)
  /\ UNCHANGED <<server, shell, held>>

(* The pool's promise resolves with a handle.  A socket that closed while    *)
(* waiting, and one that finds a session made meanwhile, give it back.  The  *)
(* maker of the session asks for a shell, which throws if the client's       *)
(* socket is no longer writable: its handler then closes the socket only.    *)
GoneKeeps == 1                     \* mutant: a closed socket keeps its handle
GoneReturns == 0

Acquired(s) ==
  /\ sock[s].pc = "acquiring"
  /\ \/ /\ sock[s].gone
        /\ sock' = [sock EXCEPT ![s] = Off]
        /\ held' = held + GoneReturns
        /\ UNCHANGED <<cur, shell>>
     \/ /\ ~sock[s].gone /\ cur # None
        /\ AttachTo(s)
        /\ UNCHANGED <<shell, held>>
     \/ /\ ~sock[s].gone /\ cur = None
        /\ \E i \in Session :
             /\ shell[i] = "closed"
             /\ cur' = NewTerminal(i)
             /\ \/ shell' = [shell EXCEPT ![i] = "opening"] /\ sock' = [sock EXCEPT ![s] = At("queued")]
                \/ UNCHANGED shell /\ sock' = [sock EXCEPT ![s] = Off]
        /\ held' = held + 1
  /\ UNCHANGED server

AcquireFails(s) ==
  /\ sock[s].pc = "acquiring"
  /\ sock' = [sock EXCEPT ![s] = Off]
  /\ UNCHANGED <<server, cur, shell, held>>

-----------------------------------------------------------------------------
(* The shell's callback, with the steps of all who waited for it: a socket   *)
(* that closed meanwhile attaches and detaches at once.                      *)
NeverLate == cur = None            \* mutant: a channel is bound to an ended session
IsLate == ~IsAlive
IsThere(s) == ~sock[s].gone

ShellOpen(i) ==
  /\ shell[i] = "opening"
  /\ IF IsLate
     THEN shell' = [shell EXCEPT ![i] = "closing"] /\ UNCHANGED <<cur, sock>>
     ELSE LET there == {s \in Queued : IsThere(s)} IN
          /\ shell' = [shell EXCEPT ![i] = "open"]
          /\ cur' = IF there # {} THEN Attach(cur, there)
                    ELSE IF Queued # {} THEN [cur EXCEPT !.status = "DETACHED"] ELSE cur
          /\ sock' = [s \in Sock |-> IF s \in there THEN [sock[s] EXCEPT !.pc = "wired"]
                                     ELSE IF s \in Queued THEN Off ELSE sock[s]]
  /\ UNCHANGED <<server, held>>

ShellErr(i) ==
  /\ shell[i] = "opening"
  /\ shell' = [shell EXCEPT ![i] = "closed"]
  /\ IF IsAlive THEN End("LOST") ELSE UNCHANGED <<cur, sock, held>>
  /\ UNCHANGED server

(* The channel closes: the shell exits, the connection dies, or the gateway  *)
(* asked for it.  The event may come after the session was replaced.         *)
AnySession(i) == TRUE              \* mutant: whoever has the id is lost
IsMine(i) == cur.id = i

ChannelClose(i) ==
  /\ shell[i] \in {"open", "closing"}
  /\ shell' = [shell EXCEPT ![i] = "closed"]
  /\ IF IsAlive /\ IsMine(i) THEN End("LOST") ELSE UNCHANGED <<cur, sock, held>>
  /\ UNCHANGED server

(* A browser leaves.  Before its handler has wired it, a sentinel notes it.  *)
WsClose(s) ==
  /\ ~sock[s].gone
  /\ \/ /\ sock[s].pc \in {"acquiring", "queued"}
        /\ sock' = [sock EXCEPT ![s].gone = TRUE]
        /\ UNCHANGED cur
     \/ /\ sock[s].pc = "wired"
        /\ sock' = [sock EXCEPT ![s] = Off]
        /\ cur' = Detach(cur, s)
  /\ UNCHANGED <<server, shell, held>>

-----------------------------------------------------------------------------
(* One session in the service's sweep.  The clocks are left out: what has    *)
(* been true long enough for the sweep is what it may find true.             *)
FirstStage(to) ==                  \* mutant: the second stage never comes
  to = "DETACHED_TIMEOUT" /\ cur.status = "DETACHED"

Reapable(to) ==
  \/ to = "DETACHED" /\ cur.status = "ATTACHED" /\ cur.att = {} /\ Queued = {}
  \/ to = "LOST" /\ cur.status = "CREATING" /\ Queued = {}
  \/ to = "CLOSED" /\ "maxLifetimeMin" \in Policy
  \/ to = "CLOSED" /\ "attachedIdleMin" \in Policy /\ cur.status = "ATTACHED" /\ cur.att # {}
  \/ to = "DETACHED_TIMEOUT" /\ "detachedIdleMin" \in Policy /\ cur.status = "DETACHED"
  \/ to = "CLOSED" /\ "backendIdleMin" \in Policy /\ cur.status = "DETACHED_TIMEOUT"

Sweep ==
  /\ IsAlive
  /\ \E to \in Status :
       /\ Reapable(to)
       /\ IF to \in Final THEN End(to) /\ CloseChannel(cur.id)
          ELSE cur' = [cur EXCEPT !.status = to] /\ UNCHANGED <<shell, sock, held>>
  /\ UNCHANGED server

(* Thirty minutes after its end the sweep takes it out of the map.  By then  *)
(* the shell it asked for has been answered (an assumption on the network).  *)
Evict ==
  /\ cur # None /\ cur.status \in Final /\ shell[cur.id] # "opening"
  /\ cur' = None
  /\ UNCHANGED <<server, shell, sock, held>>

(* DELETE of the session by an admin.                                        *)
Kill ==
  /\ cur # None /\ cur.status # "CLOSED"
  /\ End("CLOSED") /\ CloseChannel(cur.id)
  /\ UNCHANGED server

(* DELETE of the server: closeByServer.                                      *)
DeleteServer ==
  /\ server /\ server' = FALSE
  /\ IF cur # None /\ cur.status # "CLOSED" THEN End("CLOSED") /\ CloseChannel(cur.id)
     ELSE UNCHANGED <<cur, shell, sock, held>>

-----------------------------------------------------------------------------
Next ==
  \/ \E s \in Sock : Open(s) \/ Acquired(s) \/ AcquireFails(s) \/ WsClose(s)
  \/ \E i \in Session : ShellOpen(i) \/ ShellErr(i) \/ ChannelClose(i)
  \/ Sweep \/ Evict \/ Kill \/ DeleteServer

Spec == Init /\ [][Next]_vars

(* A handshake has 15 s; a shell that was asked for is answered and a        *)
(* channel that was closed closes, or the connection dies, which its         *)
(* keepalives notice; the sweep runs every minute.                           *)
FairSpec ==
  /\ Spec
  /\ \A s \in Sock : WF_vars(Acquired(s) \/ AcquireFails(s))
  /\ \A i \in Session : /\ WF_vars(ShellOpen(i) \/ ShellErr(i))
                        /\ WF_vars(shell[i] = "closing" /\ ChannelClose(i))
  /\ WF_vars(Sweep) /\ WF_vars(Evict)

-----------------------------------------------------------------------------
TypeOK ==
  /\ server \in BOOLEAN
  /\ cur \in SessionType \union {None}
  /\ shell \in [Session -> ShellType]
  /\ sock \in [Sock -> SockType]
  /\ held \in Nat

(* Every handle of the pool is with the session that will give it back, once *)
(* only (terminal-service.mjs:83: a second release corrupts the pool's count *)
(* of a connection that others use), and a session that ended has none.      *)
HandlesAccounted ==
  /\ held = IF cur # None /\ cur.rel THEN 1 ELSE 0
  /\ cur # None => (cur.rel <=> cur.status \notin Final)

(* A remote shell that is open belongs to the live session of the id: none   *)
(* is left to an ended one, which nobody would close                         *)
(* (terminal-handler.mjs:52).                                                *)
NoStrayShell == \A i \in Session : shell[i] = "open" => IsAlive /\ cur.id = i

(* The attachments are the wired sockets whose browser is there, and ATTACHED*)
(* says that there are some: the reaper sees every session nobody watches    *)
(* (terminal-service.mjs:218, a session that stayed ATTACHED for hours).     *)
AttachedIsWired ==
  /\ {s \in Sock : sock[s].pc = "wired"} = IF cur = None THEN {} ELSE cur.att
  /\ \A s \in Sock : sock[s].pc = "wired" => ~sock[s].gone
  /\ cur # None => (cur.status = "ATTACHED" <=> cur.att # {})

(* An established session is lost only by the end of its own shell, never by *)
(* a late event of a former one with the same id (terminal-handler.mjs:73).  *)
LostByItsOwnShell ==
  [][IsAlive /\ cur.status # "CREATING" /\ cur' # None /\ cur'.status = "LOST" =>
       shell[cur.id] = "open" /\ shell'[cur.id] = "closed"]_vars

(* A session that waits for a shell nobody asked for, with sockets queued.   *)
IsStuck == cur # None /\ cur.status = "CREATING" /\ shell[cur.id] = "closed" /\ Queued # {}

(* Whoever waits for the shell is told how it ended, also when the session   *)
(* is killed or its server deleted meanwhile, unless the session is stuck.   *)
WaitersAnswered == \A s \in Sock : sock[s].pc = "queued" ~> sock[s].pc # "queued" \/ IsStuck

(* A session that all browsers have left for good goes through both stages   *)
(* of the reaper and leaves the map, unless it is stuck.                     *)
NobodyThere == \A s \in Sock : sock[s].pc = "off" \/ sock[s].gone
ForsakenEnds == <>[]NobodyThere => []<>(cur = None \/ IsStuck)
=============================================================================
