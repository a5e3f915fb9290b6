---------------------------- MODULE SshPoolProofs ----------------------------
(* Proofs about SshPool.                                                     *)
EXTENDS SshPool, FiniteSetTheorems, TLAPS

(* Who waits for a client and who holds it agrees with what the client does. *)
UsersInv ==
  /\ \A u \in User : user[u].conn = None <=> user[u].pc = "idle"
  /\ \A u \in User : user[u].conn # None =>
       (conn[user[u].conn].st = "connecting" <=> user[u].pc # "holds")

(* A client that connects was asked for by one user.                         *)
CreatorInv ==
  \A n \in Conn : conn[n].st = "connecting" => \E u \in User : OnClient("creates", n) = {u}

IInv == TypeOK /\ UsersInv /\ CreatorInv /\ RefsCountHolders

-----------------------------------------------------------------------------
LEMMA LaneOfOK ==
  /\ \A n \in Conn : LaneOf(n) \in Lane
  /\ \A l \in Lane : \A n \in {l} \X Slot : n \in Conn /\ LaneOf(n) = l
BY DEF Conn, LaneOf

LEMMA NoneOK == None \notin Conn
BY PoolAssumption

LEMMA OnClientFinite ==
  \A pc, n : IsFiniteSet(OnClient(pc, n)) /\ Cardinality(OnClient(pc, n)) \in Nat
<1> SUFFICES ASSUME NEW pc, NEW n
             PROVE  IsFiniteSet(OnClient(pc, n)) /\ Cardinality(OnClient(pc, n)) \in Nat
  OBVIOUS
<1>1. OnClient(pc, n) \in SUBSET User
  BY DEF OnClient
<1> QED BY <1>1, PoolAssumption, FS_Subset, FS_CardinalityType

(* The holders of n after a step that changes one user at most, counted.     *)
LEMMA HolderComes ==
  ASSUME NEW n \in Conn, NEW u \in User, user[u].pc # "holds", TypeOK,
         user' = [user EXCEPT ![u] = [pc |-> "holds", conn |-> n]]
  PROVE  /\ Cardinality(Holders(n)') = Cardinality(Holders(n)) + 1
         /\ \A m \in Conn \ {n} : Holders(m)' = Holders(m)
<1>1. Holders(n)' = Holders(n) \cup {u} /\ u \notin Holders(n)
  BY DEF Holders, OnClient, TypeOK
<1>2. Cardinality(Holders(n)') = Cardinality(Holders(n)) + 1
  BY <1>1, OnClientFinite, FS_AddElement DEF Holders
<1>3. \A m \in Conn \ {n} : Holders(m)' = Holders(m)
  BY DEF Holders, OnClient, TypeOK
<1> QED BY <1>2, <1>3

LEMMA HolderGoes ==
  ASSUME NEW u \in User, user[u].pc = "holds", TypeOK,
         user[u].conn \in Conn, user' = [user EXCEPT ![u] = Idle]
  PROVE  /\ Cardinality(Holders(user[u].conn)) \in Nat \ {0}
         /\ \A n \in Conn : n = user[u].conn =>
              /\ Cardinality(Holders(n)') = Cardinality(Holders(n)) - 1
              /\ Holders(n)' # Holders(n)
         /\ \A m \in Conn : m # user[u].conn => Holders(m)' = Holders(m)
<1> DEFINE c == user[u].conn
<1>1. PICK n \in Conn : n = c
  OBVIOUS
<1>2. Holders(n)' = Holders(n) \ {u} /\ u \in Holders(n)
  BY <1>1, NoneOK DEF Holders, OnClient, Idle, TypeOK
<1>3. IsFiniteSet(Holders(n)) /\ Cardinality(Holders(n)) \in Nat
  BY OnClientFinite DEF Holders
<1>4. Cardinality(Holders(n)') = Cardinality(Holders(n)) - 1
  BY <1>2, <1>3, FS_RemoveElement
<1>5. Cardinality(Holders(n)) # 0
  BY <1>2, <1>3, FS_EmptySet
<1>6. \A m \in Conn : m # n => Holders(m)' = Holders(m)
  BY <1>1, NoneOK DEF Holders, OnClient, Idle, TypeOK
<1> QED BY <1>1, <1>2, <1>3, <1>4, <1>5, <1>6

-----------------------------------------------------------------------------
LEMMA InitOK == Init => IInv
<1> SUFFICES ASSUME Init PROVE IInv
  OBVIOUS
<1>1. TypeOK
  BY PoolAssumption DEF Init, TypeOK, Free, Idle, States
<1>2. UsersInv /\ CreatorInv
  BY DEF Init, UsersInv, CreatorInv, Idle, Free
<1>3. \A n \in Conn : Holders(n) = {}
  BY NoneOK DEF Init, Idle, Holders, OnClient
<1>4. RefsCountHolders
  BY <1>3, FS_EmptySet DEF RefsCountHolders, Init, Free
<1> QED BY <1>1, <1>2, <1>4 DEF IInv

-----------------------------------------------------------------------------
Record == [st : States, cred : 0..MaxCred, refs : Nat, idle : BOOLEAN]

(* What the helpers make of an entry.                                        *)
LEMMA AcquiredOK ==
  ASSUME NEW c \in Record
  PROVE  /\ Acquired(c) \in Record /\ Acquired(c).st = c.st /\ Acquired(c).refs = c.refs + 1
         /\ Acquired(c).cred = c.cred
<1> DEFINE d == [c EXCEPT !.refs = @ + 1]
<1>1. d \in Record /\ d.st = c.st /\ d.refs = c.refs + 1 /\ d.cred = c.cred
  BY DEF Record
<1>2. Acquired(c) = [d EXCEPT !.idle = FALSE]
  BY DEF Acquired
<1> HIDE DEF d
<1> QED BY <1>1, <1>2 DEF Record

LEMMA OpenedOK ==
  ASSUME NEW c \in Record, NEW k \in Nat
  PROVE  /\ Opened(c, k) \in Record /\ Opened(c, k).st = "open" /\ Opened(c, k).refs = k
         /\ Opened(c, k).cred = c.cred
<1> DEFINE d == [c EXCEPT !.st = "open"]
<1>1. d \in Record /\ d.st = "open" /\ d.cred = c.cred
  BY DEF Record, States
<1>2. Opened(c, k) = [d EXCEPT !.refs = k]
  BY DEF Opened
<1> HIDE DEF d
<1> QED BY <1>1, <1>2 DEF Record

LEMMA ConnectingOK ==
  ASSUME creds \in 0..MaxCred
  PROVE  /\ Connecting \in Record /\ Connecting.st = "connecting" /\ Connecting.refs = 0
         /\ Connecting.cred = creds
BY DEF Connecting, Record, States, Free

LEMMA FreeOK == Free \in Record /\ Free.st = "closed" /\ Free.refs = 0
BY PoolAssumption DEF Free, Record, States

LEMMA ReleasedOK ==
  ASSUME NEW c \in Record, c.refs # 0
  PROVE  /\ Released(c) \in Record /\ Released(c).st = c.st /\ Released(c).refs = c.refs - 1
         /\ Released(c).cred = c.cred
<1> DEFINE d == [c EXCEPT !.refs = @ - 1]
<1>1. d \in Record /\ d.st = c.st /\ d.refs = c.refs - 1 /\ d.cred = c.cred /\ d.idle \in BOOLEAN
  BY DEF Record
<1>2. PICK b \in BOOLEAN : b = (d.idle \/ c.refs <= 1)
  OBVIOUS
<1>3. Released(c) = [d EXCEPT !.idle = b]
  BY <1>2 DEF Released
<1> HIDE DEF d
<1> QED BY <1>1, <1>3 DEF Record

LEMMA EndedOK ==
  ASSUME NEW c \in Record
  PROVE  /\ Ended(c) \in Record /\ Ended(c).refs = c.refs /\ Ended(c).cred = c.cred
         /\ Ended(c).st = IF c.st = "open" THEN "ending" ELSE c.st
BY DEF Ended, Record, States

LEMMA ClosedOK ==
  ASSUME NEW c \in Record, NEW d, d = [c EXCEPT !.st = "closed"]
  PROVE  d \in Record /\ d.st = "closed" /\ d.refs = c.refs /\ d.cred = c.cred
BY DEF Record, States

-----------------------------------------------------------------------------
LEMMA ConnType == TypeOK => /\ \A n \in Conn : conn[n] \in Record
                           /\ conn \in [Conn -> Record]
BY DEF TypeOK, Record

LEMMA AcquirePooledOK ==
  ASSUME IInv, NEW u \in User, NEW l \in Lane, AcquirePooled(u, l)
  PROVE  IInv'
<1> USE DEF IInv
<1>1. PICK n \in Conn : /\ n = conns[l] /\ LaneOf(n) = l
                        /\ conn[n].st \in {"open", "ending"} /\ conn[n].refs \in Nat
  BY DEF TypeOK, AcquirePooled
<1>2. /\ user[u].pc = "idle" /\ user[u].conn = None
      /\ conn' = [conn EXCEPT ![n] = Acquired(conn[n])]
      /\ user' = [user EXCEPT ![u] = [pc |-> "holds", conn |-> n]]
      /\ UNCHANGED <<creds, conns, pending, torn>>
  BY <1>1 DEF AcquirePooled, UsersInv
<1>2a. /\ conn' \in [Conn -> Record] /\ conn'[n].refs = conn[n].refs + 1
       /\ \A m \in Conn : conn'[m].st = conn[m].st
       /\ \A m \in Conn \ {n} : conn'[m] = conn[m]
  BY <1>2, ConnType, AcquiredOK
<1>3. TypeOK'
  BY <1>1, <1>2, <1>2a, NoneOK DEF TypeOK, Record
<1>4. UsersInv'
  BY <1>1, <1>2, <1>2a, NoneOK DEF UsersInv, TypeOK
<1>5. \A m \in Conn : OnClient("creates", m)' = OnClient("creates", m)
  <2>1. \A v \in User : /\ user[v].pc = "creates" <=> user'[v].pc = "creates"
                        /\ user[v].pc = "creates" => user'[v] = user[v]
    BY <1>2 DEF TypeOK
  <2> QED BY <2>1 DEF OnClient
<1>6. CreatorInv'
  <2>1. \A m \in Conn : conn'[m].st = conn[m].st
    BY <1>2a
  <2> QED BY <2>1, <1>5 DEF CreatorInv
<1>7. /\ Cardinality(Holders(n)') = Cardinality(Holders(n)) + 1
      /\ \A m \in Conn \ {n} : Holders(m)' = Holders(m)
  BY <1>2, HolderComes
<1>8. RefsCountHolders'
  <2>1. conn'[n].refs = Cardinality(Holders(n)')
    BY <1>2a, <1>7 DEF RefsCountHolders
  <2>2. \A m \in Conn \ {n} : conn'[m].refs = Cardinality(Holders(m)')
    BY <1>2a, <1>7 DEF RefsCountHolders
  <2> QED BY <2>1, <2>2 DEF RefsCountHolders
<1> QED BY <1>3, <1>4, <1>6, <1>8

LEMMA AcquireInFlightOK ==
  ASSUME IInv, NEW u \in User, NEW l \in Lane, AcquireInFlight(u, l)
  PROVE  IInv'
<1> USE DEF IInv
<1>1. PICK n \in Conn : n = pending[l] /\ conn[n].st = "connecting"
  BY DEF TypeOK, AcquireInFlight, InFlight
<1>2. /\ user[u].pc = "idle" /\ user[u].conn = None
      /\ user' = [user EXCEPT ![u] = [pc |-> "waits", conn |-> n]]
      /\ UNCHANGED <<creds, conns, pending, conn, torn>>
  BY <1>1 DEF AcquireInFlight, InFlight, UsersInv
<1>3. TypeOK'
  BY <1>1, <1>2 DEF TypeOK
<1>4. UsersInv'
  BY <1>1, <1>2, NoneOK DEF UsersInv, TypeOK
<1>5. \A m \in Conn : /\ OnClient("creates", m)' = OnClient("creates", m)
                      /\ Holders(m)' = Holders(m)
  BY <1>2, NoneOK DEF OnClient, Holders, TypeOK
<1>6. CreatorInv' /\ RefsCountHolders'
  BY <1>2, <1>5 DEF CreatorInv, RefsCountHolders
<1> QED BY <1>3, <1>4, <1>6

LEMMA AcquireNewOK ==
  ASSUME IInv, NEW u \in User, NEW l \in Lane, AcquireNew(u, l)
  PROVE  IInv'
<1> USE DEF IInv
<1>1. PICK n \in {l} \X Slot :
        /\ conn[n].st = "closed" /\ \A v \in User : user[v].conn # n
        /\ conn' = [conn EXCEPT ![n] = Connecting]
        /\ pending' = [pending EXCEPT ![l] = n]
        /\ user' = [user EXCEPT ![u] = [pc |-> "creates", conn |-> n]]
  BY DEF AcquireNew
<1>2. /\ user[u].pc = "idle" /\ user[u].conn = None /\ conns[l] = None /\ pending[l] = None
      /\ UNCHANGED <<creds, conns, torn>>
  BY DEF AcquireNew, InFlight, UsersInv
<1>3. n \in Conn /\ LaneOf(n) = l
  BY LaneOfOK
<1>4. /\ conn' \in [Conn -> Record] /\ conn'[n].refs = 0 /\ conn'[n].st = "connecting"
      /\ \A m \in Conn \ {n} : conn'[m] = conn[m]
  <2>1. creds \in 0..MaxCred
    BY DEF TypeOK
  <2> QED BY <1>1, <1>3, <2>1, ConnType, ConnectingOK
<1>5. TypeOK'
  <2>1. conn' \in [Conn -> [st : States, cred : 0..MaxCred, refs : Nat, idle : BOOLEAN]]
    BY <1>4 DEF Record
  <2>2. \A k \in Lane : conns'[k] # None => LaneOf(conns'[k]) = k /\ conn'[conns'[k]].st \in {"open", "ending"}
    BY <1>1, <1>2, <1>3, <1>4 DEF TypeOK
  <2>3. \A k \in Lane : pending'[k] # None => LaneOf(pending'[k]) = k /\ conn'[pending'[k]].st = "connecting"
    BY <1>1, <1>2, <1>3, <1>4 DEF TypeOK
  <2>4. user' \in [User -> [pc : {"idle", "creates", "waits", "holds"}, conn : Conn \union {None}]]
    BY <1>1, <1>3 DEF TypeOK
  <2> QED BY <1>1, <1>2, <1>3, <2>1, <2>2, <2>3, <2>4 DEF TypeOK
<1>6. UsersInv'
  BY <1>1, <1>2, <1>3, <1>4, NoneOK DEF UsersInv, TypeOK
<1>7. OnClient("creates", n)' = {u}
  BY <1>1 DEF OnClient, TypeOK
<1>8. \A m \in Conn \ {n} : OnClient("creates", m)' = OnClient("creates", m)
  BY <1>1, <1>2, <1>3, NoneOK DEF OnClient, TypeOK
<1>9. CreatorInv'
  BY <1>3, <1>4, <1>7, <1>8 DEF CreatorInv, TypeOK
<1>10. \A m \in Conn : Holders(m)' = Holders(m)
  BY <1>1, <1>2, <1>3, NoneOK DEF OnClient, Holders, TypeOK
<1>11. Holders(n) = {}
  BY <1>1 DEF OnClient, Holders
<1>12. RefsCountHolders'
  <2>1. Cardinality(Holders(n)') = 0
    BY <1>3, <1>10, <1>11, FS_EmptySet
  <2> QED BY <1>3, <1>4, <1>10, <2>1 DEF RefsCountHolders
<1> QED BY <1>5, <1>6, <1>9, <1>12

LEMMA ConnectedOK ==
  ASSUME IInv, NEW n \in Conn, Connected(n)
  PROVE  IInv'
<1> USE DEF IInv
<1> DEFINE l == LaneOf(n)
<1>1. /\ conn[n].st = "connecting" /\ l \in Lane
      /\ conn' = [conn EXCEPT ![n] = Opened(conn[n], FirstRefs(n))]
      /\ conns' = [conns EXCEPT ![l] = n] /\ pending' = [pending EXCEPT ![l] = None]
      /\ user' = [v \in User |-> IF user[v].conn = n THEN [user[v] EXCEPT !.pc = "holds"] ELSE user[v]]
      /\ UNCHANGED <<creds, torn>>
  BY LaneOfOK DEF Connected
<1>2. PICK c \in User : OnClient("creates", n) = {c}
  BY <1>1 DEF CreatorInv
<1>3. Holders(n)' = OnClient("waits", n) \cup {c} /\ c \notin OnClient("waits", n)
  <2>1. \A v \in User : user[v].conn = n => user[v].pc \in {"creates", "waits"}
    BY <1>1, NoneOK DEF UsersInv, TypeOK
  <2>2. \A v \in User : v \in Holders(n)' <=> user[v].conn = n
    BY <1>1, <2>1 DEF Holders, OnClient, TypeOK
  <2>3. \A v \in User : user[v].conn = n <=> v \in OnClient("waits", n) \/ v \in OnClient("creates", n)
    BY <2>1 DEF OnClient
  <2>4. c \in User /\ user[c].pc = "creates"
    BY <1>2 DEF OnClient
  <2>5. Holders(n)' \subseteq User /\ OnClient("waits", n) \subseteq User
    BY DEF Holders, OnClient
  <2> QED BY <1>2, <2>2, <2>3, <2>4, <2>5 DEF OnClient
<1>4. FirstRefs(n) \in Nat /\ Cardinality(Holders(n)') = FirstRefs(n)
  BY <1>3, OnClientFinite, FS_AddElement DEF FirstRefs
<1>4a. /\ conn' \in [Conn -> Record] /\ conn'[n].refs = FirstRefs(n) /\ conn'[n].st = "open"
       /\ \A m \in Conn \ {n} : conn'[m] = conn[m]
  BY <1>1, <1>4, ConnType, OpenedOK
<1>5. \A m \in Conn \ {n} : /\ Holders(m)' = Holders(m)
                            /\ OnClient("creates", m)' = OnClient("creates", m)
  BY <1>1 DEF Holders, OnClient, TypeOK
<1>6. RefsCountHolders'
  BY <1>4, <1>4a, <1>5 DEF RefsCountHolders, TypeOK
<1>7. CreatorInv'
  BY <1>4a, <1>5 DEF CreatorInv, TypeOK
<1>8. UsersInv'
  <2>1. \A v \in User : user'[v].conn = user[v].conn
    BY <1>1 DEF TypeOK
  <2>2. \A v \in User : user[v].conn = n => user'[v].pc = "holds"
    BY <1>1 DEF TypeOK
  <2>3. \A v \in User : user[v].conn # n => user'[v] = user[v]
    BY <1>1 DEF TypeOK
  <2>4. \A v \in User : user[v].conn \in Conn \union {None}
    BY DEF TypeOK
  <2> QED BY <2>1, <2>2, <2>3, <2>4, <1>4a, NoneOK DEF UsersInv
<1>9. TypeOK'
  <2>1. conn' \in [Conn -> [st : States, cred : 0..MaxCred, refs : Nat, idle : BOOLEAN]]
    BY <1>4a DEF Record
  <2>2. \A k \in Lane : conns'[k] # None => LaneOf(conns'[k]) = k /\ conn'[conns'[k]].st \in {"open", "ending"}
    BY <1>1, <1>4a DEF TypeOK
  <2>3. \A k \in Lane : pending'[k] # None => LaneOf(pending'[k]) = k /\ conn'[pending'[k]].st = "connecting"
    BY <1>1, <1>4a DEF TypeOK
  <2>4. user' \in [User -> [pc : {"idle", "creates", "waits", "holds"}, conn : Conn \union {None}]]
    BY <1>1 DEF TypeOK
  <2> QED BY <1>1, <2>1, <2>2, <2>3, <2>4 DEF TypeOK
<1> QED BY <1>6, <1>7, <1>8, <1>9

LEMMA ConnectFailsOK ==
  ASSUME IInv, NEW n \in Conn, ConnectFails(n)
  PROVE  IInv'
<1> USE DEF IInv
<1> DEFINE l == LaneOf(n)
<1>1. /\ conn[n].st = "connecting" /\ l \in Lane
      /\ conn' = [conn EXCEPT ![n] = Free] /\ pending' = [pending EXCEPT ![l] = None]
      /\ user' = [v \in User |-> IF user[v].conn = n THEN Idle ELSE user[v]]
      /\ UNCHANGED <<creds, conns, torn>>
  BY LaneOfOK DEF ConnectFails
<1>1a. /\ conn' \in [Conn -> Record] /\ conn'[n].st = "closed" /\ conn'[n].refs = 0
       /\ \A m \in Conn \ {n} : conn'[m] = conn[m]
  BY <1>1, ConnType, FreeOK
<1>2. \A v \in User : user[v].conn = n => user[v].pc # "holds"
  BY <1>1, NoneOK DEF UsersInv
<1>3. Holders(n)' = {} /\ Holders(n) = {}
  BY <1>1, <1>2, NoneOK DEF Holders, OnClient, Idle
<1>4. \A m \in Conn \ {n} : /\ Holders(m)' = Holders(m)
                            /\ OnClient("creates", m)' = OnClient("creates", m)
  BY <1>1, NoneOK DEF Holders, OnClient, Idle, TypeOK
<1>5. RefsCountHolders'
  BY <1>1a, <1>3, <1>4, FS_EmptySet DEF RefsCountHolders
<1>6. CreatorInv'
  BY <1>1a, <1>4 DEF CreatorInv
<1>7. UsersInv'
  BY <1>1, <1>1a, NoneOK DEF UsersInv, TypeOK, Idle
<1>8. TypeOK'
  <2>1. conn' \in [Conn -> [st : States, cred : 0..MaxCred, refs : Nat, idle : BOOLEAN]]
    BY <1>1a DEF Record
  <2>2. \A k \in Lane : conns'[k] # None => LaneOf(conns'[k]) = k /\ conn'[conns'[k]].st \in {"open", "ending"}
    BY <1>1, <1>1a DEF TypeOK
  <2>3. \A k \in Lane : pending'[k] # None => LaneOf(pending'[k]) = k /\ conn'[pending'[k]].st = "connecting"
    BY <1>1, <1>1a DEF TypeOK
  <2>4. user' \in [User -> [pc : {"idle", "creates", "waits", "holds"}, conn : Conn \union {None}]]
    BY <1>1 DEF TypeOK, Idle
  <2> QED BY <1>1, <2>1, <2>2, <2>3, <2>4 DEF TypeOK
<1> QED BY <1>5, <1>6, <1>7, <1>8

(* The invariant after a step that touches no user, keeps who is connecting  *)
(* and every count, and leaves nothing pooled but what was.                  *)
LEMMA SameUsersOK ==
  ASSUME IInv, user' = user, creds' \in 0..MaxCred, torn' \subseteq Lane, conn' \in [Conn -> Record],
         \A n \in Conn : /\ conn'[n].refs = conn[n].refs
                         /\ conn'[n].st = "connecting" <=> conn[n].st = "connecting",
         conns' \in [Lane -> Conn \union {None}], pending' \in [Lane -> Conn \union {None}],
         \A l \in Lane : /\ conns'[l] # None => conns'[l] = conns[l] /\ conn'[conns[l]].st \in {"open", "ending"}
                         /\ pending'[l] # None => pending'[l] = pending[l]
  PROVE  IInv'
<1> USE DEF IInv
<1>1. TypeOK'
  BY DEF TypeOK, Record
<1>2. UsersInv'
  BY DEF UsersInv, TypeOK
<1>3. \A m \in Conn : /\ Holders(m)' = Holders(m)
                      /\ OnClient("creates", m)' = OnClient("creates", m)
  BY DEF Holders, OnClient
<1>4. CreatorInv' /\ RefsCountHolders'
  BY <1>3 DEF CreatorInv, RefsCountHolders
<1> QED BY <1>1, <1>2, <1>4

LEMMA DiesOK ==
  ASSUME IInv, NEW n \in Conn, Dies(n)
  PROVE  IInv'
<1> USE DEF IInv
<1>1. /\ conn[n].st \in {"open", "ending"}
      /\ conn' = [conn EXCEPT ![n] = [conn[n] EXCEPT !.st = "closed"]]
      /\ conns' = IF IsPooled(n) THEN [conns EXCEPT ![LaneOf(n)] = None] ELSE conns
      /\ UNCHANGED <<creds, pending, user, torn>>
  BY DEF Dies
<1>2. /\ conn' \in [Conn -> Record] /\ conn'[n].st = "closed" /\ conn'[n].refs = conn[n].refs
      /\ \A m \in Conn \ {n} : conn'[m] = conn[m]
  BY <1>1, ConnType, ClosedOK
<1>3. \A l \in Lane : conns'[l] # None => conns'[l] = conns[l] /\ conns[l] # n /\ conns[l] \in Conn
  BY <1>1, LaneOfOK DEF IsPooled, TypeOK
<1>4. conns' \in [Lane -> Conn \union {None}]
  BY <1>1 DEF TypeOK
<1> QED BY <1>1, <1>2, <1>3, <1>4, SameUsersOK DEF TypeOK

LEMMA ReapIdleOK ==
  ASSUME IInv, NEW l \in Lane, ReapIdle(l)
  PROVE  IInv'
<1> USE DEF IInv
<1>1. PICK n \in Conn : n = conns[l] /\ LaneOf(n) = l
  BY DEF TypeOK, ReapIdle
<1>2. /\ conn' = [conn EXCEPT ![n] = Ended(conn[n])]
      /\ conns' = [conns EXCEPT ![l] = None]
      /\ UNCHANGED <<creds, pending, user, torn>>
  BY <1>1 DEF ReapIdle
<1>3. /\ conn' \in [Conn -> Record] /\ \A m \in Conn : conn'[m].refs = conn[m].refs
      /\ \A m \in Conn : conn'[m].st = "connecting" <=> conn[m].st = "connecting"
      /\ \A m \in Conn \ {n} : conn'[m] = conn[m]
  BY <1>2, ConnType, EndedOK
<1>4. \A k \in Lane : conns'[k] # None => conns'[k] = conns[k] /\ conns[k] # n /\ conns[k] \in Conn
  BY <1>1, <1>2 DEF TypeOK
<1>5. conns' \in [Lane -> Conn \union {None}]
  BY <1>2 DEF TypeOK
<1> QED BY <1>2, <1>3, <1>4, <1>5, SameUsersOK DEF TypeOK

LEMMA EvictServerOK ==
  ASSUME IInv, EvictServer, creds' \in 0..MaxCred
  PROVE  IInv'
<1> USE DEF IInv
<1>1. /\ conn' = [n \in Conn |-> IF IsPooled(n) THEN Ended(conn[n]) ELSE conn[n]]
      /\ conns' = [l \in Lane |-> None] /\ pending' = [l \in Lane |-> None]
      /\ user' = user
  BY DEF EvictServer
<1>2. torn' \subseteq Lane
  BY LaneOfOK DEF EvictServer, TypeOK
<1>3. /\ conn' \in [Conn -> Record] /\ \A m \in Conn : conn'[m].refs = conn[m].refs
      /\ \A m \in Conn : conn'[m].st = "connecting" <=> conn[m].st = "connecting"
  BY <1>1, ConnType, EndedOK
<1> QED BY <1>1, <1>2, <1>3, SameUsersOK

(* A holder lets go, of a client that it may have ended.                     *)
LEMMA LetGoOK ==
  ASSUME IInv, NEW u \in User, user[u].pc = "holds", NEW n \in Conn, n = user[u].conn,
         NEW c \in Record, c \in {conn[n], Ended(conn[n])},
         conn' = [conn EXCEPT ![n] = Released(c)],
         user' = [user EXCEPT ![u] = Idle], UNCHANGED <<creds, conns, pending, torn>>
  PROVE  IInv' /\ Holders(n)' # Holders(n) /\ \A m \in Conn \ {n} : conn'[m] = conn[m]
<1> USE DEF IInv
<1>1. /\ Cardinality(Holders(n)) \in Nat \ {0}
      /\ Cardinality(Holders(n)') = Cardinality(Holders(n)) - 1 /\ Holders(n)' # Holders(n)
      /\ \A m \in Conn \ {n} : Holders(m)' = Holders(m)
  BY HolderGoes
<1>2. /\ c.refs = conn[n].refs /\ c.refs # 0
      /\ c.st \in {conn[n].st, "ending"} /\ (c.st # conn[n].st => conn[n].st = "open")
  BY <1>1, ConnType, EndedOK DEF RefsCountHolders
<1>3. /\ conn' \in [Conn -> Record] /\ conn'[n].refs = conn[n].refs - 1 /\ conn'[n].st = c.st
      /\ \A m \in Conn \ {n} : conn'[m] = conn[m]
  BY <1>2, ConnType, ReleasedOK
<1>4. \A m \in Conn : conn'[m].st = "connecting" <=> conn[m].st = "connecting"
  BY <1>2, <1>3
<1>5. \A m \in Conn : conn[m].st \in {"open", "ending"} => conn'[m].st \in {"open", "ending"}
  BY <1>2, <1>3
<1>6. TypeOK'
  <2>1. user' \in [User -> [pc : {"idle", "creates", "waits", "holds"}, conn : Conn \union {None}]]
    BY DEF TypeOK, Idle
  <2> QED BY <1>3, <1>4, <1>5, <2>1 DEF TypeOK, Record
<1>7. UsersInv'
  <2>1. \A v \in User \ {u} : user'[v] = user[v]
    BY DEF TypeOK
  <2>2. user'[u].pc = "idle" /\ user'[u].conn = None
    BY DEF TypeOK, Idle
  <2>3. \A v \in User : user[v].conn \in Conn \union {None}
    BY DEF TypeOK
  <2> QED BY <1>4, <2>1, <2>2, <2>3 DEF UsersInv
<1>8. \A m \in Conn : OnClient("creates", m)' = OnClient("creates", m)
  <2>1. \A v \in User : /\ user[v].pc = "creates" <=> user'[v].pc = "creates"
                        /\ user[v].pc = "creates" => user'[v] = user[v]
    BY DEF TypeOK, Idle
  <2> QED BY <2>1 DEF OnClient
<1>9. CreatorInv'
  BY <1>4, <1>8 DEF CreatorInv
<1>10. RefsCountHolders'
  BY <1>1, <1>3 DEF RefsCountHolders
<1> QED BY <1>1, <1>3, <1>6, <1>7, <1>9, <1>10

LEMMA ReleaseOK ==
  ASSUME IInv, NEW u \in User, Release(u) \/ TearDown(u)
  PROVE  /\ IInv'
         /\ \A n \in Conn : conn'[n] = conn[n] \/ Holders(n)' # Holders(n)
<1>1. PICK n \in Conn : n = user[u].conn
  BY DEF IInv, TypeOK, UsersInv, Release, TearDown
<1>2. conn[n] \in Record /\ Ended(conn[n]) \in Record
  BY ConnType, EndedOK DEF IInv
<1>3. CASE Release(u)
  BY <1>1, <1>2, <1>3, LetGoOK DEF Release
<1>4. CASE TearDown(u)
  BY <1>1, <1>2, <1>4, LetGoOK DEF TearDown
<1> QED BY <1>3, <1>4

LEMMA StepOK == IInv /\ [Next]_vars => IInv'
<1> SUFFICES ASSUME IInv, [Next]_vars PROVE IInv'
  OBVIOUS
<1>1. ASSUME NEW u \in User, NEW l \in Lane,
             AcquirePooled(u, l) \/ AcquireInFlight(u, l) \/ AcquireNew(u, l)
      PROVE  IInv'
  BY <1>1, AcquirePooledOK, AcquireInFlightOK, AcquireNewOK
<1>2. ASSUME NEW u \in User, Release(u) \/ TearDown(u) PROVE IInv'
  BY <1>2, ReleaseOK
<1>3. ASSUME NEW n \in Conn, Connected(n) \/ ConnectFails(n) \/ Dies(n) PROVE IInv'
  BY <1>3, ConnectedOK, ConnectFailsOK, DiesOK
<1>4. ASSUME NEW l \in Lane, ReapIdle(l) PROVE IInv'
  BY <1>4, ReapIdleOK
<1>5. CASE UpdateServer \/ DeleteServer
  BY <1>5, PoolAssumption, EvictServerOK DEF UpdateServer, DeleteServer
<1>6. CASE UNCHANGED vars
  BY <1>6 DEF vars, IInv, TypeOK, UsersInv, CreatorInv, RefsCountHolders, OnClient, Holders, IsPooled
<1> QED BY <1>1, <1>2, <1>3, <1>4, <1>5, <1>6 DEF Next

(* The inductive invariant.                                                  *)
LEMMA Invariance == Spec => []IInv
BY InitOK, StepOK, PTL DEF Spec

(* Types, and: what is pooled is connected, what acquire waits for connects. *)
THEOREM TypeCorrect == Spec => []TypeOK
BY Invariance, PTL DEF IInv

(* The reference count of every connection is the number of its holders.     *)
THEOREM CountIsHolders == Spec => []RefsCountHolders
BY Invariance, PTL DEF IInv

-----------------------------------------------------------------------------
(* One step of HeldIsKept.                                                   *)
HeldStep ==
  \A n \in Conn :
    conn[n].st = "open" /\ conn'[n].st = "ending" /\ creds' = creds =>
      Holders(n) = {} \/ Holders(n)' # Holders(n)

LEMMA HeldStepOK == IInv /\ [Next]_vars => HeldStep
<1> SUFFICES ASSUME IInv, [Next]_vars, NEW n \in Conn,
                    conn[n].st = "open", conn'[n].st = "ending", creds' = creds
             PROVE  Holders(n) = {} \/ Holders(n)' # Holders(n)
  BY DEF HeldStep
<1> USE DEF IInv
<1>1. ASSUME NEW u \in User, NEW l \in Lane, AcquirePooled(u, l) PROVE FALSE
  <2>1. PICK m \in Conn : m = conns[l]
    BY <1>1 DEF AcquirePooled, TypeOK
  <2>2. conn' = [conn EXCEPT ![m] = Acquired(conn[m])]
    BY <1>1, <2>1 DEF AcquirePooled
  <2> QED BY <2>2, ConnType, AcquiredOK
<1>2. ASSUME NEW u \in User, NEW l \in Lane, AcquireInFlight(u, l) PROVE FALSE
  BY <1>2 DEF AcquireInFlight
<1>3. ASSUME NEW u \in User, NEW l \in Lane, AcquireNew(u, l) PROVE FALSE
  <2>1. PICK m \in {l} \X Slot : conn' = [conn EXCEPT ![m] = Connecting]
    BY <1>3 DEF AcquireNew
  <2>2. m \in Conn /\ creds \in 0..MaxCred
    BY LaneOfOK DEF TypeOK
  <2> QED BY <2>1, <2>2, ConnType, ConnectingOK
<1>4. ASSUME NEW u \in User, Release(u) \/ TearDown(u)
      PROVE  Holders(n)' # Holders(n)
  BY <1>4, ReleaseOK
<1>5. ASSUME NEW m \in Conn, Connected(m) PROVE FALSE
  <2>1. n # m /\ conn' = [conn EXCEPT ![m] = Opened(conn[m], FirstRefs(m))]
    BY <1>5 DEF Connected
  <2> QED BY <2>1, ConnType
<1>6. ASSUME NEW m \in Conn, ConnectFails(m) PROVE FALSE
  <2>1. n # m /\ conn' = [conn EXCEPT ![m] = Free]
    BY <1>6 DEF ConnectFails
  <2> QED BY <2>1, ConnType
<1>7. ASSUME NEW m \in Conn, Dies(m) PROVE FALSE
  <2>1. conn' = [conn EXCEPT ![m] = [conn[m] EXCEPT !.st = "closed"]]
    BY <1>7 DEF Dies
  <2> QED BY <2>1, ConnType, ClosedOK
<1>8. ASSUME NEW l \in Lane, ReapIdle(l) PROVE Holders(n) = {}
  <2>1. PICK m \in Conn : m = conns[l]
    BY <1>8 DEF ReapIdle, TypeOK
  <2>2. conn' = [conn EXCEPT ![m] = Ended(conn[m])] /\ conn[m].refs <= 0
    BY <1>8, <2>1 DEF ReapIdle, MayReap
  <2>3. n = m
    BY <2>2, ConnType
  <2>4. IsFiniteSet(Holders(n)) /\ Cardinality(Holders(n)) \in Nat
    BY OnClientFinite DEF Holders
  <2>5. Cardinality(Holders(n)) = 0
    BY <2>2, <2>3, <2>4 DEF RefsCountHolders
  <2> QED BY <2>4, <2>5, FS_EmptySet
<1>9. ~(UpdateServer \/ DeleteServer)
  BY DEF UpdateServer, DeleteServer, TypeOK
<1>10. ~UNCHANGED vars
  BY DEF vars
<1> QED BY <1>1, <1>2, <1>3, <1>4, <1>5, <1>6, <1>7, <1>8, <1>9, <1>10 DEF Next

(* A connection in use is ended only when the server's row changes or when   *)
(* one of its holders gives it up.                                           *)
THEOREM HeldConnectionsStay == Spec => HeldIsKept
<1>1. IInv /\ [Next]_vars => [HeldStep]_vars
  BY HeldStepOK
<1> QED BY <1>1, Invariance, PTL DEF Spec, HeldIsKept, HeldStep

-----------------------------------------------------------------------------
(* NoOrphan together with the types is inductive, lane by lane.              *)
LEMMA OrphanStepOK == IInv /\ NoOrphan /\ [Next]_vars => NoOrphan'
<1> SUFFICES ASSUME IInv, NoOrphan, [Next]_vars,
                    NEW n \in Conn, conn'[n].st \in Live, LaneOf(n) \notin torn'
             PROVE  n \in {conns'[LaneOf(n)], pending'[LaneOf(n)]}
                    /\ None \in {conns'[LaneOf(n)], pending'[LaneOf(n)]}
  BY DEF NoOrphan
<1> USE DEF IInv
<1> DEFINE l == LaneOf(n)
           Found == n \in {conns'[l], pending'[l]} /\ None \in {conns'[l], pending'[l]}
<1>0. l \in Lane /\ torn \subseteq torn'
  BY LaneOfOK DEF Next, vars, AcquirePooled, AcquireInFlight, AcquireNew, Release, TearDown, Connected,
     ConnectFails, Dies, ReapIdle, UpdateServer, DeleteServer, EvictServer
<1>a. conn[n].st \in Live => n \in {conns[l], pending[l]} /\ None \in {conns[l], pending[l]}
  BY <1>0 DEF NoOrphan
<1>1. ASSUME NEW u \in User, NEW k \in Lane, AcquirePooled(u, k) PROVE Found
  <2>1. PICK m \in Conn : m = conns[k]
    BY <1>1 DEF AcquirePooled, TypeOK
  <2>2. conn' = [conn EXCEPT ![m] = Acquired(conn[m])] /\ UNCHANGED <<conns, pending>>
    BY <1>1, <2>1 DEF AcquirePooled
  <2>3. conn'[n].st = conn[n].st
    BY <2>2, ConnType, AcquiredOK
  <2> QED BY <2>2, <2>3, <1>a
<1>2. ASSUME NEW u \in User, NEW k \in Lane, AcquireInFlight(u, k) PROVE Found
  BY <1>2, <1>a DEF AcquireInFlight
<1>3. ASSUME NEW u \in User, NEW k \in Lane, AcquireNew(u, k) PROVE Found
  <2>1. PICK m \in {k} \X Slot : conn' = [conn EXCEPT ![m] = Connecting]
                                 /\ pending' = [pending EXCEPT ![k] = m]
    BY <1>3 DEF AcquireNew
  <2>2. m \in Conn /\ LaneOf(m) = k /\ conns[k] = None /\ pending[k] = None /\ conns' = conns
    BY <1>3, LaneOfOK DEF AcquireNew, InFlight
  <2>3. CASE n = m
    BY <2>1, <2>2, <2>3 DEF TypeOK
  <2>4. CASE n # m
    <3>1. conn'[n] = conn[n]
      BY <2>1, <2>4, ConnType
    <3>2. l # k
      BY <3>1, <1>a, <2>2, NoneOK
    <3> QED BY <3>1, <3>2, <1>a, <2>1, <2>2 DEF TypeOK
  <2> QED BY <2>3, <2>4
<1>4. ASSUME NEW u \in User, Release(u) \/ TearDown(u) PROVE Found
  <2>1. conn[n].st \in Live
    <3>1. PICK m \in Conn : m = user[u].conn
      BY <1>4 DEF TypeOK, UsersInv, Release, TearDown
    <3>2. Cardinality(Holders(m)) \in Nat \ {0}
      BY <1>4, <3>1, HolderGoes DEF Release, TearDown
    <3>3. conn[m].refs # 0
      BY <3>2 DEF RefsCountHolders
    <3>4. conn' \in {[conn EXCEPT ![m] = Released(conn[m])], [conn EXCEPT ![m] = Released(Ended(conn[m]))]}
      BY <1>4, <3>1 DEF Release, TearDown
    <3>5. \A c \in {conn[m], Ended(conn[m])} : c \in Record /\ c.refs # 0 /\ c.st \in {conn[m].st, "ending"}
      BY <3>3, ConnType, EndedOK
    <3>6. \A c \in {conn[m], Ended(conn[m])} : Released(c).st \in {conn[m].st, "ending"}
      BY <3>5, ReleasedOK
    <3> QED BY <3>4, <3>6, ConnType DEF Live
  <2>2. UNCHANGED <<conns, pending>>
    BY <1>4 DEF Release, TearDown
  <2> QED BY <2>1, <2>2, <1>a
<1>5. ASSUME NEW m \in Conn, Connected(m) PROVE Found
  <2>1. /\ conn[m].st = "connecting" /\ conn' = [conn EXCEPT ![m] = Opened(conn[m], FirstRefs(m))]
        /\ conns' = [conns EXCEPT ![LaneOf(m)] = m] /\ pending' = [pending EXCEPT ![LaneOf(m)] = None]
        /\ torn' = torn
    BY <1>5 DEF Connected
  <2>2. CASE l # LaneOf(m)
    BY <2>1, <2>2, <1>a, <1>0, ConnType, LaneOfOK DEF TypeOK
  <2>3. CASE l = LaneOf(m)
    <3>1. m \in {conns[l], pending[l]} /\ None \in {conns[l], pending[l]}
      BY <2>1, <2>3, <1>0 DEF NoOrphan, Live
    <3>2. m = pending[l] /\ conns[l] = None
      BY <2>1, <3>1, <1>0, NoneOK DEF TypeOK
    <3>3. n = m
      BY <2>1, <3>2, <1>a, ConnType, NoneOK
    <3> QED BY <2>1, <3>3, <1>0 DEF TypeOK
  <2> QED BY <2>2, <2>3
<1>6. ASSUME NEW m \in Conn, ConnectFails(m) PROVE Found
  <2>1. /\ conn[m].st = "connecting" /\ conn' = [conn EXCEPT ![m] = Free] /\ conns' = conns
        /\ pending' = [pending EXCEPT ![LaneOf(m)] = None] /\ torn' = torn
    BY <1>6 DEF ConnectFails
  <2>2. n # m /\ conn[n].st \in Live
    BY <2>1, ConnType, FreeOK DEF Live
  <2>3. CASE l # LaneOf(m)
    BY <2>1, <2>2, <2>3, <1>a, <1>0, LaneOfOK DEF TypeOK
  <2>4. CASE l = LaneOf(m)
    <3>1. m = pending[l] /\ conns[l] = None
      BY <2>1, <2>4, <1>0, NoneOK DEF NoOrphan, Live, TypeOK
    <3> QED BY <2>2, <3>1, <1>a, NoneOK
  <2> QED BY <2>3, <2>4
<1>7. ASSUME NEW m \in Conn, Dies(m) PROVE Found
  <2>1. /\ conn' = [conn EXCEPT ![m] = [conn[m] EXCEPT !.st = "closed"]] /\ pending' = pending
        /\ conns' = IF IsPooled(m) THEN [conns EXCEPT ![LaneOf(m)] = None] ELSE conns
    BY <1>7 DEF Dies
  <2>2. n # m /\ conn'[n] = conn[n]
    BY <2>1, ConnType, ClosedOK DEF Live
  <2>3. conns'[l] = conns[l] \/ (conns[l] = m /\ conns'[l] = None)
    BY <2>1, <1>0, LaneOfOK DEF TypeOK, IsPooled
  <2> QED BY <2>1, <2>2, <2>3, <1>a
<1>8. ASSUME NEW k \in Lane, ReapIdle(k) PROVE Found
  <2>1. PICK m \in Conn : m = conns[k]
    BY <1>8 DEF ReapIdle, TypeOK
  <2>2. /\ conn' = [conn EXCEPT ![m] = Ended(conn[m])] /\ pending' = pending
        /\ conns' = [conns EXCEPT ![k] = None] /\ conn[m].st \in {"open", "ending"}
    BY <1>8, <2>1 DEF ReapIdle, TypeOK
  <2>3. n # m /\ conn'[n] = conn[n]
    BY <2>2, ConnType, EndedOK DEF Live
  <2>4. conns'[l] = conns[l] \/ (conns[l] = m /\ conns'[l] = None)
    BY <2>1, <2>2, <1>0 DEF TypeOK
  <2> QED BY <2>2, <2>3, <2>4, <1>a
<1>9. ASSUME EvictServer PROVE FALSE
  <2>1. conn' = [m \in Conn |-> IF IsPooled(m) THEN Ended(conn[m]) ELSE conn[m]]
    BY <1>9 DEF EvictServer
  <2>2. conn[n].st \in Live /\ ~(IsPooled(n) /\ conn[n].st = "open")
    BY <2>1, ConnType, EndedOK DEF Live
  <2>3. conn[n].st # "connecting"
    BY <1>9 DEF EvictServer
  <2> QED BY <2>2, <2>3, <1>a, <1>0, NoneOK DEF IsPooled, Live, TypeOK
<1>10. ASSUME UNCHANGED vars PROVE Found
  BY <1>10, <1>a DEF vars
<1> QED BY <1>1, <1>2, <1>3, <1>4, <1>5, <1>6, <1>7, <1>8, <1>9, <1>10
      DEF Next, UpdateServer, DeleteServer

(* A lane has one connection, the one acquire finds, where no eviction has   *)
(* overtaken a handshake.                                                    *)
THEOREM OneConnectionPerLane == Spec => []NoOrphan
<1>1. Init => NoOrphan
  BY DEF Init, NoOrphan, Free, Live
<1> QED BY <1>1, OrphanStepOK, Invariance, PTL DEF Spec

-----------------------------------------------------------------------------
(* With the row's generation in step, the same holds of the credentials.     *)
LEMMA CurrentStepOK == IInv /\ NoOrphan /\ CurrentUnlessTorn /\ [Next]_vars => CurrentUnlessTorn'
<1> SUFFICES ASSUME IInv, NoOrphan, CurrentUnlessTorn, [Next]_vars,
                    NEW l \in Lane, l \notin torn', NEW n \in Conn, n \in {conns'[l], pending'[l]}
             PROVE  conn'[n].cred = creds'
  <2> SUFFICES ASSUME IInv, NoOrphan, CurrentUnlessTorn, [Next]_vars PROVE CurrentUnlessTorn'
    OBVIOUS
  <2>1. ASSUME NEW l \in Lane, l \notin torn', NEW n, n \in {conns'[l], pending'[l]}, n # None
        PROVE  conn'[n].cred = creds'
    <3>1. n \in Conn
      BY <2>1, StepOK DEF IInv, TypeOK
    <3> QED BY <2>1, <3>1
  <2> QED BY <2>1 DEF CurrentUnlessTorn
<1> USE DEF IInv
<1>0. torn \subseteq torn'
  BY DEF Next, vars, AcquirePooled, AcquireInFlight, AcquireNew, Release, TearDown, Connected,
     ConnectFails, Dies, ReapIdle, UpdateServer, DeleteServer, EvictServer
<1>a. n \in {conns[l], pending[l]} => conn[n].cred = creds
  BY <1>0, NoneOK DEF CurrentUnlessTorn
<1>1. ASSUME NEW u \in User, NEW k \in Lane, AcquirePooled(u, k) PROVE conn'[n].cred = creds'
  <2>1. PICK m \in Conn : m = conns[k]
    BY <1>1 DEF AcquirePooled, TypeOK
  <2>2. conn' = [conn EXCEPT ![m] = Acquired(conn[m])] /\ UNCHANGED <<creds, conns, pending>>
    BY <1>1, <2>1 DEF AcquirePooled
  <2> QED BY <2>2, ConnType, AcquiredOK, <1>a
<1>2. ASSUME NEW u \in User, NEW k \in Lane, AcquireInFlight(u, k) PROVE conn'[n].cred = creds'
  BY <1>2, <1>a DEF AcquireInFlight
<1>3. ASSUME NEW u \in User, NEW k \in Lane, AcquireNew(u, k) PROVE conn'[n].cred = creds'
  <2>1. PICK m \in {k} \X Slot : /\ conn' = [conn EXCEPT ![m] = Connecting] /\ conn[m].st = "closed"
                                 /\ pending' = [pending EXCEPT ![k] = m]
    BY <1>3 DEF AcquireNew
  <2>2. m \in Conn /\ creds \in 0..MaxCred /\ UNCHANGED <<creds, conns>>
    BY <1>3, LaneOfOK DEF AcquireNew, TypeOK
  <2>3. CASE n = m
    BY <2>1, <2>2, <2>3, ConnType, ConnectingOK
  <2>4. CASE n # m
    BY <2>1, <2>2, <2>4, ConnType, <1>a DEF TypeOK
  <2> QED BY <2>3, <2>4
<1>4. ASSUME NEW u \in User, Release(u) \/ TearDown(u) PROVE conn'[n].cred = creds'
  <2>1. PICK m \in Conn : m = user[u].conn
    BY <1>4 DEF TypeOK, UsersInv, Release, TearDown
  <2>2. Cardinality(Holders(m)) \in Nat \ {0}
    BY <1>4, <2>1, HolderGoes DEF Release, TearDown
  <2>3. conn[m].refs # 0
    BY <2>2 DEF RefsCountHolders
  <2>4. conn' \in {[conn EXCEPT ![m] = Released(conn[m])], [conn EXCEPT ![m] = Released(Ended(conn[m]))]}
    BY <1>4, <2>1 DEF Release, TearDown
  <2>5. \A c \in {conn[m], Ended(conn[m])} : c \in Record /\ c.refs # 0 /\ c.cred = conn[m].cred
    BY <2>3, ConnType, EndedOK
  <2>6. \A c \in {conn[m], Ended(conn[m])} : Released(c).cred = conn[m].cred
    BY <2>5, ReleasedOK
  <2>7. conn'[n].cred = conn[n].cred
    BY <2>4, <2>6, ConnType
  <2> QED BY <1>4, <2>7, <1>a DEF Release, TearDown
<1>5. ASSUME NEW m \in Conn, Connected(m) PROVE conn'[n].cred = creds'
  <2>1. /\ conn[m].st = "connecting" /\ conn' = [conn EXCEPT ![m] = Opened(conn[m], FirstRefs(m))]
        /\ conns' = [conns EXCEPT ![LaneOf(m)] = m] /\ pending' = [pending EXCEPT ![LaneOf(m)] = None]
        /\ UNCHANGED <<creds, torn>>
    BY <1>5 DEF Connected
  <2>2. FirstRefs(m) \in Nat
    BY OnClientFinite DEF FirstRefs
  <2>3. conn'[n].cred = conn[n].cred
    BY <2>1, <2>2, ConnType, OpenedOK
  <2>4. n \in {conns[l], pending[l]}
    <3>1. CASE l = LaneOf(m)
      <4>1. n = m
        BY <2>1, <3>1, NoneOK DEF TypeOK
      <4> QED BY <2>1, <3>1, <4>1 DEF NoOrphan, Live
    <3>2. CASE l # LaneOf(m)
      BY <2>1, <3>2, LaneOfOK DEF TypeOK
    <3> QED BY <3>1, <3>2
  <2> QED BY <2>1, <2>3, <2>4, <1>a
<1>6. ASSUME NEW m \in Conn, ConnectFails(m) PROVE conn'[n].cred = creds'
  <2>1. /\ conn[m].st = "connecting" /\ conn' = [conn EXCEPT ![m] = Free] /\ UNCHANGED <<conns, creds>>
        /\ pending' = [pending EXCEPT ![LaneOf(m)] = None] /\ UNCHANGED torn
    BY <1>6 DEF ConnectFails
  <2>2. n \in {conns[l], pending[l]}
    BY <2>1, LaneOfOK, NoneOK DEF TypeOK
  <2>3. n # m
    <3>1. m # conns[l]
      BY <2>1, NoneOK DEF TypeOK
    <3>2. m # pending'[l]
      BY <2>1, LaneOfOK, NoneOK DEF TypeOK
    <3> QED BY <2>1, <3>1, <3>2
  <2> QED BY <2>1, <2>2, <2>3, ConnType, <1>a
<1>7. ASSUME NEW m \in Conn, Dies(m) PROVE conn'[n].cred = creds'
  <2>1. /\ conn' = [conn EXCEPT ![m] = [conn[m] EXCEPT !.st = "closed"]] /\ UNCHANGED <<pending, creds>>
        /\ conns' = IF IsPooled(m) THEN [conns EXCEPT ![LaneOf(m)] = None] ELSE conns
    BY <1>7 DEF Dies
  <2>2. n \in {conns[l], pending[l]}
    BY <2>1, LaneOfOK, NoneOK DEF TypeOK
  <2>3. conn'[n].cred = conn[n].cred
    BY <2>1, ConnType, ClosedOK
  <2> QED BY <2>1, <2>2, <2>3, <1>a
<1>8. ASSUME NEW k \in Lane, ReapIdle(k) PROVE conn'[n].cred = creds'
  <2>1. PICK m \in Conn : m = conns[k]
    BY <1>8 DEF ReapIdle, TypeOK
  <2>2. /\ conn' = [conn EXCEPT ![m] = Ended(conn[m])] /\ UNCHANGED <<pending, creds>>
        /\ conns' = [conns EXCEPT ![k] = None]
    BY <1>8, <2>1 DEF ReapIdle
  <2>3. n \in {conns[l], pending[l]}
    BY <2>2, NoneOK DEF TypeOK
  <2>4. conn'[n].cred = conn[n].cred
    BY <2>2, ConnType, EndedOK
  <2> QED BY <2>2, <2>3, <2>4, <1>a
<1>9. ~EvictServer
  BY NoneOK DEF EvictServer
<1>10. ASSUME UNCHANGED vars PROVE conn'[n].cred = creds'
  BY <1>10, <1>a DEF vars
<1> QED BY <1>1, <1>2, <1>3, <1>4, <1>5, <1>6, <1>7, <1>8, <1>9, <1>10
      DEF Next, UpdateServer, DeleteServer

(* What acquire finds was made with the row's credentials, where no eviction *)
(* has overtaken a handshake.                                                *)
THEOREM RotationReachesThePool == Spec => []CurrentUnlessTorn
<1>1. Init => CurrentUnlessTorn
  BY DEF Init, CurrentUnlessTorn
<1>2. Spec => []NoOrphan
  BY OneConnectionPerLane
<1> QED BY <1>1, <1>2, CurrentStepOK, Invariance, PTL DEF Spec
=============================================================================
