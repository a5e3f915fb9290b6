------------------------------- MODULE SshPool -------------------------------
(* The pool of SSH connections to one server (server/ssh/pool.mjs): one      *)
(* connection per lane, shared by reference count, made on demand and ended  *)
(* when idle, evicted when the server's row changes.  The users are the      *)
(* callers of acquire: terminals, AI commands, background jobs, transfers.   *)
(*                                                                           *)
(* A promise that resolves runs its continuations before the next event, so  *)
(* "ready" and everything the awaiting callers do with it is one step.       *)
EXTENDS Naturals, FiniteSets

CONSTANTS
  Lane,       \* the lanes of the server in use
  ExecLane,   \* those of the two AI bridges, whose time-outs end the client
  Slot,       \* a client is a slot of its lane, free again once it is closed
  User,
  None,
  MaxCred     \* bound: generations of the server's row

Conn == Lane \X Slot
LaneOf(n) == n[1]

ASSUME PoolAssumption ==
  /\ IsFiniteSet(User) /\ ExecLane \subseteq Lane
  /\ MaxCred \in Nat \ {0}
  /\ None \notin Conn

VARIABLES
  creds,      \* generation of the row, changed by every PUT; 0: deleted
  conns,      \* per lane the pooled client, or None
  pending,    \* per lane the client being connected that acquire waits for, or None
  conn,       \* per client: state, the credentials it was given, refs, idleAt set
  user,       \* per user: what it does, and with which client
  torn        \* history: the lanes where an eviction overtook a handshake

vars == <<creds, conns, pending, conn, user, torn>>

States == {"closed", "connecting", "open", "ending"}
Live == {"connecting", "open"}
Free == [st |-> "closed", cred |-> 0, refs |-> 0, idle |-> FALSE]
Idle == [pc |-> "idle", conn |-> None]

OnClient(pc, n) == {u \in User : user[u].pc = pc /\ user[u].conn = n}
Holders(n) == OnClient("holds", n)

Init ==
  /\ creds = 1
  /\ conns = [l \in Lane |-> None] /\ pending = [l \in Lane |-> None]
  /\ conn = [n \in Conn |-> Free]
  /\ user = [u \in User |-> Idle]
  /\ torn = {}

-----------------------------------------------------------------------------
(* acquire.                                                                  *)
Acquired(c) == [c EXCEPT !.refs = @ + 1, !.idle = FALSE]

AcquirePooled(u, l) ==
  /\ user[u].pc = "idle" /\ conns[l] # None
  /\ conn' = [conn EXCEPT ![conns[l]] = Acquired(@)]
  /\ user' = [user EXCEPT ![u] = [pc |-> "holds", conn |-> conns[l]]]
  /\ UNCHANGED <<creds, conns, pending, torn>>

NotShared(l) == None               \* mutant: every caller connects on its own
InFlight(l) == pending[l]

AcquireInFlight(u, l) ==
  /\ user[u].pc = "idle" /\ conns[l] = None /\ InFlight(l) # None
  /\ user' = [user EXCEPT ![u] = [pc |-> "waits", conn |-> InFlight(l)]]
  /\ UNCHANGED <<creds, conns, pending, conn, torn>>

Connecting == [Free EXCEPT !.st = "connecting", !.cred = creds]

(* A deleted server is refused: materializeCreds finds no row.               *)
AcquireNew(u, l) ==
  /\ user[u].pc = "idle" /\ conns[l] = None /\ InFlight(l) = None
  /\ creds # 0
  /\ \E n \in {l} \X Slot :
       /\ conn[n].st = "closed" /\ \A v \in User : user[v].conn # n
       /\ conn' = [conn EXCEPT ![n] = Connecting]
       /\ pending' = [pending EXCEPT ![l] = n]
       /\ user' = [user EXCEPT ![u] = [pc |-> "creates", conn |-> n]]
  /\ UNCHANGED <<creds, conns, torn>>

(* "ready": the entry is pooled whatever is in its place, the creator takes  *)
(* the first reference and every waiter one more.  The creator's finally     *)
(* drops the lane's pending entry without asking whose it is.                *)
CreatorOnly(n) == 1                \* mutant: the waiters take no reference
FirstRefs(n) == 1 + Cardinality(OnClient("waits", n))

Opened(c, refs) == [c EXCEPT !.st = "open", !.refs = refs]

Connected(n) ==
  /\ conn[n].st = "connecting"
  /\ conn' = [conn EXCEPT ![n] = Opened(@, FirstRefs(n))]
  /\ conns' = [conns EXCEPT ![LaneOf(n)] = n]
  /\ pending' = [pending EXCEPT ![LaneOf(n)] = None]
  /\ user' = [u \in User |-> IF user[u].conn = n THEN [user[u] EXCEPT !.pc = "holds"] ELSE user[u]]
  /\ UNCHANGED <<creds, torn>>

(* Refused, unreachable, timed out: the creator and the waiters all fail.    *)
ConnectFails(n) ==
  /\ conn[n].st = "connecting"
  /\ conn' = [conn EXCEPT ![n] = Free]
  /\ pending' = [pending EXCEPT ![LaneOf(n)] = None]
  /\ user' = [u \in User |-> IF user[u].conn = n THEN Idle ELSE user[u]]
  /\ UNCHANGED <<creds, conns, torn>>

-----------------------------------------------------------------------------
(* The record c without the reference of a holder that lets go.              *)
ReleasedIfOpen(c) ==               \* mutant: the release of a dead client is lost
  IF c.st = "open" THEN [c EXCEPT !.refs = @ - 1, !.idle = @ \/ c.refs <= 1] ELSE c
ReleasedLate(c) ==                 \* mutant: the idle clock starts below zero
  [c EXCEPT !.refs = @ - 1, !.idle = @ \/ c.refs < 1]
Released(c) == [c EXCEPT !.refs = @ - 1, !.idle = @ \/ c.refs <= 1]

Release(u) ==
  /\ user[u].pc = "holds"
  /\ conn' = [conn EXCEPT ![user[u].conn] = Released(@)]
  /\ user' = [user EXCEPT ![u] = Idle]
  /\ UNCHANGED <<creds, conns, pending, torn>>

Ended(c) == IF c.st = "open" THEN [c EXCEPT !.st = "ending"] ELSE c

(* A command whose exec was never answered: the whole client is ended, and   *)
(* stays pooled until its "close" event; then the command lets go.           *)
TearDown(u) ==
  /\ user[u].pc = "holds" /\ LaneOf(user[u].conn) \in ExecLane
  /\ conn' = [conn EXCEPT ![user[u].conn] = Released(Ended(@))]
  /\ user' = [user EXCEPT ![u] = Idle]
  /\ UNCHANGED <<creds, conns, pending, torn>>

(* "error" or "close" of an established client: evicted if it is the pooled  *)
(* one; who holds it finds out and lets go later.                            *)
WhoeverIsPooled(n) == conns[LaneOf(n)] # None   \* mutant: evict does not compare the client
IsPooled(n) == conns[LaneOf(n)] = n

Dies(n) ==
  /\ conn[n].st \in {"open", "ending"}
  /\ conn' = [conn EXCEPT ![n].st = "closed"]
  /\ conns' = IF IsPooled(n) THEN [conns EXCEPT ![LaneOf(n)] = None] ELSE conns
  /\ UNCHANGED <<creds, pending, user, torn>>

(* One entry of reapIdle's loop: nothing relates the ages of two entries.    *)
MayReap(c) == c.refs <= 0 /\ c.idle

ReapIdle(l) ==
  /\ conns[l] # None /\ MayReap(conn[conns[l]])
  /\ conn' = [conn EXCEPT ![conns[l]] = Ended(@)]
  /\ conns' = [conns EXCEPT ![l] = None]
  /\ UNCHANGED <<creds, pending, user, torn>>

(* evictServer, called by the routes in the same step as their write.  A     *)
(* handshake under way is forgotten, not stopped.                            *)
EvictPending ==                    \* mutant: only the handshakes are evicted
  /\ pending' = [l \in Lane |-> None]
  /\ torn' = torn \union {LaneOf(n) : n \in {n \in Conn : conn[n].st = "connecting"}}
  /\ UNCHANGED <<conns, conn, user>>

EvictServer ==
  /\ conn' = [n \in Conn |-> IF IsPooled(n) THEN Ended(conn[n]) ELSE conn[n]]
  /\ conns' = [l \in Lane |-> None]
  /\ pending' = [l \in Lane |-> None]
  /\ torn' = torn \union {LaneOf(n) : n \in {n \in Conn : conn[n].st = "connecting"}}
  /\ UNCHANGED user

UpdateServer == creds \in 1..(MaxCred - 1) /\ creds' = creds + 1 /\ EvictServer
DeleteServer == creds # 0 /\ creds' = 0 /\ EvictServer

-----------------------------------------------------------------------------
Next ==
  \/ \E u \in User, l \in Lane :
       AcquirePooled(u, l) \/ AcquireInFlight(u, l) \/ AcquireNew(u, l)
  \/ \E u \in User : Release(u) \/ TearDown(u)
  \/ \E n \in Conn : Connected(n) \/ ConnectFails(n) \/ Dies(n)
  \/ \E l \in Lane : ReapIdle(l)
  \/ UpdateServer \/ DeleteServer

Spec == Init /\ [][Next]_vars

(* The sweep runs every minute (index.mjs:2720), a handshake has 15 s        *)
(* (readyTimeout), and a client that was ended closes.                       *)
FairSpec ==
  /\ Spec
  /\ \A l \in Lane : WF_vars(ReapIdle(l))
  /\ \A n \in Conn : /\ WF_vars(Connected(n) \/ ConnectFails(n))
                     /\ WF_vars(conn[n].st = "ending" /\ Dies(n))

-----------------------------------------------------------------------------
TypeOK ==
  /\ creds \in 0..MaxCred
  /\ conns \in [Lane -> Conn \union {None}]
  /\ pending \in [Lane -> Conn \union {None}]
  /\ \A l \in Lane : /\ conns[l] # None => LaneOf(conns[l]) = l /\ conn[conns[l]].st \in {"open", "ending"}
                     /\ pending[l] # None => LaneOf(pending[l]) = l /\ conn[pending[l]].st = "connecting"
  /\ conn \in [Conn -> [st : States, cred : 0..MaxCred, refs : Nat, idle : BOOLEAN]]
  /\ user \in [User -> [pc : {"idle", "creates", "waits", "holds"}, conn : Conn \union {None}]]
  /\ torn \subseteq Lane

(* The count that decides whether a shared connection may be ended is the    *)
(* number of those who hold it: through joint first connections, deaths,     *)
(* evictions and time-outs, also for an entry that left the pool.            *)
RefsCountHolders == \A n \in Conn : conn[n].refs = Cardinality(Holders(n))

(* A lane has one connection that lives or is being made, the one acquire    *)
(* finds (pool.mjs:150: a second one would orphan the first), unless an      *)
(* eviction overtook a handshake on it.                                      *)
NoOrphan ==
  \A n \in Conn : conn[n].st \in Live /\ LaneOf(n) \notin torn =>
    n \in {conns[LaneOf(n)], pending[LaneOf(n)]} /\ None \in {conns[LaneOf(n)], pending[LaneOf(n)]}

(* After a rotation no caller is given a connection that was made with the   *)
(* old credentials (routes.mjs:295), unless an eviction overtook a handshake.*)
CurrentUnlessTorn ==
  \A l \in Lane \ torn : \A n \in {conns[l], pending[l]} \ {None} : conn[n].cred = creds

(* A connection in use is ended only by a change of the server's row or by   *)
(* one of its holders, never by the idle sweep (pool.test.mjs:192).          *)
HeldIsKept ==
  [][\A n \in Conn :
       conn[n].st = "open" /\ conn'[n].st = "ending" /\ creds' = creds =>
         Holders(n) = {} \/ Holders(n)' # Holders(n)]_vars

(* A lane nobody uses any more gives up its connection: no path leaves a     *)
(* pooled connection without holders that the sweep does not see as idle.    *)
Unused(l) == \A u \in User : user[u].conn = None \/ LaneOf(user[u].conn) # l
UnusedIsClosed ==
  \A l \in Lane : [](<>[]Unused(l) => <>(conns[l] = None))
=============================================================================
