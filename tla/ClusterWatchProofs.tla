------------------------- MODULE ClusterWatchProofs -------------------------
(* Nothing is skipped between the lists and the watch: proof of              *)
(* NothingSkipped for every value of the constants.                          *)
EXTENDS ClusterWatch, SequenceTheorems, TLAPS

-----------------------------------------------------------------------------
(* The invariant says of one resource: what its versions promise is shown.   *)
(* h is the history of the cluster, d what the views show, v the version in  *)
(* the registry, ch the channel.                                             *)
Touching(h, r, o, k) == {i \in 1 .. k : h[i].r = r /\ h[i].o = o}
LastOf(is) == CHOOSE i \in is : \A j \in is : j <= i
AsIn(h, r, o, k) ==
  LET is == Touching(h, r, o, k) IN
  IF \E i \in is : ~h[i].gone /\ \A j \in is : j <= i THEN LastOf(is) ELSE 0
SeenIn(d, o) == IF d = None THEN 0 ELSE d[o]
Fresh(h, d, r, o, k) == \E j \in k .. Len(h) : AsIn(h, r, o, SeenIn(d, o)) = AsIn(h, r, o, j)

Syncs(r, ch) == ch # None /\ ch.init[r] # {}
Promises(r, ch) == ch # None /\ ch.up[r] # "ended" /\ ch.pos[r] # None

(* Objects of a first sync are shown only when their lines have arrived; and *)
(* a resource without data has no version, so that a channel that ends       *)
(* before its first line leaves no promise behind.                           *)
Good(r, h, d, v, ch) ==
  /\ ~Syncs(r, ch) /\ v # None => \A o \in Obj : Fresh(h, d, r, o, v)
  /\ Promises(r, ch) => \A o \in Obj \ ch.init[r] : Fresh(h, d, r, o, ch.pos[r])
  /\ d = None => v = None

ChannelOK(ch, c, latest) ==
  ch # None =>
    /\ ch \in Channels /\ ch.c = c
    /\ \A r \in Resource : /\ ch.init[r] # {} => ch.up[r] = "open"
                           /\ ch.up[r] = "open" => ch.pos[r] \in 0 .. latest
DataOK(d, latest) == d # None => d \in [Obj -> 0 .. latest]

Shape ==
  /\ hist \in [Cluster -> Seq(Change)] /\ cl \in Cluster
  /\ data \in [Resource -> [Obj -> Nat] \union {None}]
  /\ cur \in [Queries -> Nat \union {None}]
  /\ reg \in [Resource -> Nat \union {None}]
  /\ stray \subseteq Cluster \X Queries \X Nat
Inv ==
  /\ Shape
  /\ ChannelOK(chan, cl, Now)
  /\ \A r \in Resource : DataOK(data[r], Now)
  /\ \A r \in Resource \ (torn \union Forbidden) : Good(r, hist[cl], data[r], reg[r], chan)

-----------------------------------------------------------------------------
(* The history of a cluster.                                                 *)
LEMMA AsOfIsAsIn == \A c, r, o, k : AsOf(c, r, o, k) = AsIn(hist[c], r, o, k)
BY DEF AsOf, AsIn, Touching, LastOf

LEMMA AsInRange ==
  ASSUME NEW h, NEW r, NEW o, NEW k \in Nat
  PROVE  AsIn(h, r, o, k) \in 0 .. k
<1> DEFINE is == Touching(h, r, o, k)
<1>1. is \subseteq 1 .. k
  BY DEF Touching
<1>2. AsIn(h, r, o, k) = IF \E i \in is : ~h[i].gone /\ \A j \in is : j <= i THEN LastOf(is) ELSE 0
  BY DEF AsIn
<1> HIDE DEF is
<1>3. CASE \E i \in is : ~h[i].gone /\ \A j \in is : j <= i
  <2>1. LastOf(is) \in is
    BY <1>3 DEF LastOf
  <2>2. AsIn(h, r, o, k) = LastOf(is)
    BY <1>2, <1>3
  <2>3. LastOf(is) \in 1 .. k
    BY <1>1, <2>1
  <2> QED BY <2>2, <2>3
<1>4. CASE ~\E i \in is : ~h[i].gone /\ \A j \in is : j <= i
  BY <1>2, <1>4
<1> QED BY <1>3, <1>4

(* Versions between which the object does not change.                        *)
LEMMA AsInSkips ==
  ASSUME NEW h, NEW r, NEW o, NEW j \in Nat, NEW k \in Nat, j <= k,
         \A i \in j + 1 .. k : ~(h[i].r = r /\ h[i].o = o)
  PROVE  AsIn(h, r, o, j) = AsIn(h, r, o, k)
<1>1. Touching(h, r, o, j) = Touching(h, r, o, k)
  BY DEF Touching
<1> QED BY <1>1 DEF AsIn

LEMMA AsInGrows ==
  ASSUME NEW h \in Seq(Change), NEW x \in Change, NEW r, NEW o, NEW k \in 0 .. Len(h)
  PROVE  AsIn(Append(h, x), r, o, k) = AsIn(h, r, o, k)
<1> DEFINE g == Append(h, x)
           is == Touching(h, r, o, k)
<1>1. \A i \in 1 .. k : g[i] = h[i]
  OBVIOUS
<1>2. Touching(g, r, o, k) = is
  BY <1>1 DEF Touching
<1>3. \A i \in is : g[i] = h[i]
  BY <1>1 DEF Touching
<1> HIDE DEF g, is
<1>4. (\E i \in is : ~g[i].gone /\ \A j \in is : j <= i)
        <=> (\E i \in is : ~h[i].gone /\ \A j \in is : j <= i)
  BY <1>3
<1>5. AsIn(g, r, o, k) = AsIn(h, r, o, k)
  BY <1>2, <1>4 DEF AsIn, is
<1> QED BY <1>5 DEF g

LEMMA FreshEarlier ==
  ASSUME NEW h \in Seq(Change), NEW d, NEW r, NEW o, NEW k \in Nat, NEW m \in Nat, m <= k,
         Fresh(h, d, r, o, k)
  PROVE  Fresh(h, d, r, o, m)
BY DEF Fresh

LEMMA FreshGrows ==
  ASSUME NEW h \in Seq(Change), NEW x \in Change, NEW d, NEW r, NEW o \in Obj, NEW k \in Nat,
         DataOK(d, Len(h)), Fresh(h, d, r, o, k)
  PROVE  Fresh(Append(h, x), d, r, o, k)
<1>1. SeenIn(d, o) \in 0 .. Len(h)
  BY DEF SeenIn, DataOK
<1>2. PICK j \in k .. Len(h) : AsIn(h, r, o, SeenIn(d, o)) = AsIn(h, r, o, j)
  BY DEF Fresh
<1>3. j \in 0 .. Len(h) /\ Len(Append(h, x)) = Len(h) + 1 /\ j \in k .. Len(Append(h, x))
  BY <1>2
<1> QED BY <1>1, <1>2, <1>3, AsInGrows DEF Fresh

-----------------------------------------------------------------------------
(* One resource.                                                             *)
Interrupted(r, d, ch) == Syncs(r, ch) /\ d # None

(* A channel that ends or is replaced.                                       *)
LEMMA GoodClosed ==
  ASSUME NEW r \in Resource, NEW h, NEW d, NEW v, NEW ch, Good(r, h, d, v, ch),
         ~Interrupted(r, d, ch)
  PROVE  Good(r, h, d, v, None)
BY DEF Good, Interrupted, Syncs, Promises

LEMMA GoodReopened ==
  ASSUME NEW r \in Resource, NEW h, NEW d, NEW v, NEW ch, Good(r, h, d, v, ch),
         ~Interrupted(r, d, ch), NEW c, NEW versions, NEW refused, versions[r] = v
  PROVE  Good(r, h, d, v, Channel(c, versions, refused))
<1> DEFINE new == Channel(c, versions, refused)
<1>1. new.pos[r] = v /\ new.init[r] = {}
  BY DEF Channel
<1> HIDE DEF new
<1>2. v # None => \A o \in Obj : Fresh(h, d, r, o, v)
  BY DEF Good, Interrupted
<1>3. Good(r, h, d, v, new)
  BY <1>1, <1>2 DEF Good, Syncs, Promises
<1> QED BY <1>3 DEF new

(* What is shown does not change, nor what the channel says of r.            *)
LEMMA GoodSeen ==
  ASSUME NEW r \in Resource, NEW h, NEW d, NEW e, NEW v, NEW ch, NEW new, Good(r, h, d, v, ch),
         \A o \in Obj : SeenIn(e, o) = SeenIn(d, o), e = None => d = None,
         ch # None, new # None, new.pos[r] = ch.pos[r], new.up[r] = ch.up[r],
         new.init[r] = ch.init[r]
  PROVE  Good(r, h, e, v, new)
BY DEF Good, Syncs, Promises, Fresh

(* A list read at version n is shown, on a channel that is not ahead of it.  *)
LEMMA GoodListed ==
  ASSUME NEW r \in Resource, NEW h \in Seq(Change), NEW n \in 0 .. Len(h), NEW ch,
         Promises(r, ch) => ch.pos[r] \in Nat /\ ch.pos[r] <= n
  PROVE  Good(r, h, [o \in Obj |-> n], n, ch)
<1> DEFINE d == [o \in Obj |-> n]
<1>1. n # None /\ d # None
  <2>1. n \in Nat /\ d \in [Obj -> Nat]
    OBVIOUS
  <2> QED BY <2>1, WatchAssumption
<1>2. \A o \in Obj : SeenIn(d, o) = n
  BY <1>1 DEF SeenIn
<1>3. \A o \in Obj : Fresh(h, d, r, o, n)
  BY <1>2 DEF Fresh
<1> HIDE DEF d
<1>4. Promises(r, ch) => \A o \in Obj : Fresh(h, d, r, o, ch.pos[r])
  BY <1>3, FreshEarlier
<1>5. Good(r, h, d, n, ch)
  BY <1>1, <1>3, <1>4 DEF Good
<1> QED BY <1>5 DEF d

-----------------------------------------------------------------------------
(* The steps.                                                                *)
LEMMA NewChannel ==
  ASSUME NEW c \in Cluster, NEW versions \in [Resource -> Nat \union {None}], NEW refused, NEW n
  PROVE  ChannelOK(Channel(c, versions, refused), c, n)
BY DEF ChannelOK, Channels, Channel

LEMMA InitInv == Init => Inv
<1> SUFFICES ASSUME Init PROVE Inv
  OBVIOUS
<1>1. Shape
  BY WatchAssumption DEF Init, Shape
<1>2. reg \in [Resource -> Nat \union {None}] /\ cl \in Cluster /\ chan = Channel(cl, reg, {})
  BY WatchAssumption DEF Init
<1>3. ChannelOK(chan, cl, Now)
  BY <1>2, NewChannel
<1>4. \A r \in Resource : data[r] = None /\ reg[r] = None
  BY DEF Init
<1>5. \A r \in Resource : chan.pos[r] = None /\ chan.init[r] = {}
  BY <1>2, <1>4 DEF Channel
<1>6. \A r \in Resource : Good(r, hist[cl], data[r], reg[r], chan)
  BY <1>4, <1>5 DEF Good, Promises
<1> QED BY <1>1, <1>3, <1>4, <1>6 DEF Inv, DataOK

(* Nothing new is shown: the channel goes on, or ends and may be replaced,   *)
(* and the versions recorded are of resources that are counted as torn.      *)
LEMMA Reconnects ==
  ASSUME Inv, Shape', hist' = hist, cl' = cl, data' = data, torn \subseteq torn',
         \A r \in Resource \ torn' : reg'[r] = reg[r],
         \/ chan' = chan
         \/ Unsynced \subseteq torn' /\ (chan' = None \/ \E d : chan' = Channel(cl, reg', d))
  PROVE  Inv'
<1>1. ChannelOK(chan', cl', Now')
  <2>1. CASE chan' = chan
    BY <2>1 DEF Inv, Now, Latest
  <2>2. CASE chan' = None
    BY <2>2 DEF ChannelOK
  <2>3. CASE \E d : chan' = Channel(cl, reg', d)
    <3>1. PICK d : chan' = Channel(cl, reg', d)
      BY <2>3
    <3>2. cl \in Cluster /\ reg' \in [Resource -> Nat \union {None}]
      BY DEF Inv, Shape
    <3>3. ChannelOK(Channel(cl, reg', d), cl, Now')
      BY <3>2, NewChannel
    <3> QED BY <3>1, <3>3
  <2> QED BY <2>1, <2>2, <2>3
<1>2. \A r \in Resource : DataOK(data'[r], Now')
  BY DEF Inv, Now, Latest
<1>3. ASSUME NEW r \in Resource \ (torn' \union Forbidden)
      PROVE  Good(r, hist'[cl'], data'[r], reg'[r], chan')
  <2>1. Good(r, hist[cl], data[r], reg[r], chan)
    BY DEF Inv
  <2>2. reg'[r] = reg[r]
    OBVIOUS
  <2>3. CASE chan' = chan
    BY <2>1, <2>2, <2>3
  <2>4. CASE Unsynced \subseteq torn' /\ (chan' = None \/ \E d : chan' = Channel(cl, reg', d))
    <3>1. ~Interrupted(r, data[r], chan)
      BY <2>4 DEF Unsynced, Interrupted, Syncs
    <3>2. CASE chan' = None
      BY <2>1, <2>2, <3>1, <3>2, GoodClosed
    <3>3. CASE \E d : chan' = Channel(cl, reg', d)
      <4>1. PICK d : chan' = Channel(cl, reg', d)
        BY <3>3
      <4>2. Good(r, hist[cl], data[r], reg[r], Channel(cl, reg', d))
        BY <2>1, <2>2, <3>1, GoodReopened
      <4> QED BY <2>2, <4>1, <4>2
    <3> QED BY <2>4, <3>2, <3>3
  <2> QED BY <2>3, <2>4
<1> QED BY <1>1, <1>2, <1>3 DEF Inv, Now, Latest

(* The requests that Fetch, Relist and a failing upstream send.              *)
LEMMA Requests ==
  ASSUME Shape, NEW qs \in SUBSET Queries
  PROVE  /\ Refetch(qs) => cur' \in [Queries -> Nat \union {None}]
         /\ Strays(qs) \subseteq Cluster \X Queries \X Nat
         /\ Now \in Nat
<1>1. cl \in Cluster /\ hist[cl] \in Seq(Change)
  BY DEF Shape
<1>2. Now \in Nat
  BY <1>1 DEF Now, Latest
<1>3. Refetch(qs) => cur' \in [Queries -> Nat \union {None}]
  BY <1>2 DEF Refetch, Shape
<1>4. \A q \in Cancelled(qs) : q \in Queries /\ cur[q] \in Nat
  BY DEF Cancelled, Shape
<1>5. Strays(qs) \subseteq Cluster \X Queries \X Nat
  BY <1>1, <1>4 DEF Strays
<1> QED BY <1>2, <1>3, <1>5

LEMMA RecordedType ==
  ASSUME Shape, NEW c \in Cluster, NEW q \in SUBSET Resource, NEW sent \in Nat,
         NEW n \in Responses(c, q, sent)
  PROVE  Recorded(n) \in [Resource -> Nat \union {None}]
<1>1. hist[c] \in Seq(Change)
  BY DEF Shape
<1>2. Latest(c) \in Nat
  BY <1>1 DEF Latest
<1>3. DOMAIN n = q \ Forbidden /\ \A r \in DOMAIN n : n[r] \in Nat
  BY <1>2 DEF Responses
<1> QED BY <1>3 DEF Recorded, Shape

(* What opens, when the last fetch of a relist has ended.                    *)
LEMMA Opens ==
  ASSUME NEW qs, NEW c, AfterFetches(qs, c), {} \notin Ended(qs) => UNCHANGED chan
  PROVE  chan' = chan \/ ({} \in Ended(qs) /\ chan' = Channel(cl, reg', dropped'))
BY DEF AfterFetches

LEMMA FetchInv == ASSUME Inv, NEW q \in Queries, Fetch(q) PROVE Inv'
<1>1. Shape'
  <2>1. {q} \in SUBSET Queries
    OBVIOUS
  <2>2. Shape
    BY DEF Inv
  <2>3. cur' \in [Queries -> Nat \union {None}] /\ Strays({q}) \subseteq Cluster \X Queries \X Nat
    BY <2>1, <2>2, Requests DEF Fetch
  <2> QED BY <2>2, <2>3 DEF Fetch, Shape
<1>2. /\ hist' = hist /\ cl' = cl /\ data' = data /\ reg' = reg
      /\ torn' = IF {} \in Ended(Cancelled({q})) THEN torn \union Unsynced ELSE torn
  BY DEF Fetch
<1>3. chan' = chan \/ ({} \in Ended(Cancelled({q})) /\ chan' = Channel(cl, reg', dropped'))
  BY Opens DEF Fetch
<1>4. torn \subseteq torn'
  BY <1>2
<1>5. \/ chan' = chan
      \/ Unsynced \subseteq torn' /\ (chan' = None \/ \E d : chan' = Channel(cl, reg', d))
  BY <1>2, <1>3
<1> QED BY <1>1, <1>2, <1>4, <1>5, Reconnects

LEMMA ListFailsInv == ASSUME Inv, NEW q \in Queries, ListFails(q) PROVE Inv'
<1> DEFINE cut == IF {} \in Ended({q}) THEN Unsynced ELSE {}
<1>1. /\ hist' = hist /\ cl' = cl /\ data' = data /\ stray' = stray
      /\ cur' = [cur EXCEPT ![q] = None] /\ cur[q] # None
  BY DEF ListFails
<1>2. /\ torn \union cut \subseteq torn' /\ reg' \in [Resource -> Nat \union {None}]
      /\ \A r \in Resource \ torn' : reg'[r] = reg[r]
  <2>1. CASE torn' = torn \union cut /\ reg' = reg
    BY <2>1 DEF Inv, Shape
  <2>2. CASE \E rs \in SUBSET (q \ Forbidden) \ {q \ Forbidden} : \E n \in Responses(cl, rs, cur[q]) :
               reg' = Recorded(n) /\ torn' = torn \union rs \union cut
    <3>0. PICK rs \in SUBSET (q \ Forbidden) : \E n \in Responses(cl, rs, cur[q]) :
                 reg' = Recorded(n) /\ torn' = torn \union rs \union cut
      BY <2>2
    <3>1. PICK n \in Responses(cl, rs, cur[q]) :
                 reg' = Recorded(n) /\ torn' = torn \union rs \union cut
      BY <3>0
    <3>2. Shape /\ cl \in Cluster /\ cur[q] \in Nat /\ rs \in SUBSET Resource
      BY <1>1, <3>1, WatchAssumption DEF Inv, Shape
    <3>3. reg' \in [Resource -> Nat \union {None}]
      BY <3>1, <3>2, RecordedType
    <3>4. DOMAIN n \subseteq rs
      BY DEF Responses
    <3> QED BY <3>1, <3>3, <3>4 DEF Recorded
  <2>3. \/ torn' = torn \union cut /\ reg' = reg
        \/ \E rs \in SUBSET (q \ Forbidden) \ {q \ Forbidden} : \E n \in Responses(cl, rs, cur[q]) :
              reg' = Recorded(n) /\ torn' = torn \union rs \union cut
    BY DEF ListFails
  <2> QED BY <2>1, <2>2, <2>3
<1>3. chan' = chan \/ ({} \in Ended({q}) /\ chan' = Channel(cl, reg', dropped'))
  BY Opens DEF ListFails
<1>4. \/ chan' = chan
      \/ Unsynced \subseteq torn' /\ (chan' = None \/ \E d : chan' = Channel(cl, reg', d))
  BY <1>2, <1>3
<1>5. Shape'
  BY <1>1, <1>2 DEF Inv, Shape
<1>6. torn \subseteq torn'
  BY <1>2
<1> HIDE DEF cut
<1> QED BY <1>1, <1>2, <1>4, <1>5, <1>6, Reconnects

LEMMA StrayLandsInv == ASSUME Inv, StrayLands PROVE Inv'
<1>1. PICK s \in stray :
        /\ stray' = stray \ {s}
        /\ \/ \E n \in Responses(s[1], s[2], s[3]) :
                 reg' = Recorded(n) /\ torn' = torn \union DOMAIN n
           \/ UNCHANGED <<reg, torn>>
  BY DEF StrayLands
<1>2. UNCHANGED <<hist, cl, data, cur, chan>>
  BY DEF StrayLands
<1>3. /\ torn \subseteq torn' /\ reg' \in [Resource -> Nat \union {None}]
      /\ \A r \in Resource \ torn' : reg'[r] = reg[r]
  <2>1. CASE UNCHANGED <<reg, torn>>
    BY <2>1 DEF Inv, Shape
  <2>2. CASE \E n \in Responses(s[1], s[2], s[3]) : reg' = Recorded(n) /\ torn' = torn \union DOMAIN n
    <3>1. PICK n \in Responses(s[1], s[2], s[3]) : reg' = Recorded(n) /\ torn' = torn \union DOMAIN n
      BY <2>2
    <3>2. Shape /\ s[1] \in Cluster /\ s[2] \in SUBSET Resource /\ s[3] \in Nat
      BY WatchAssumption DEF Inv, Shape
    <3>3. reg' \in [Resource -> Nat \union {None}]
      BY <3>1, <3>2, RecordedType
    <3> QED BY <3>1, <3>3 DEF Recorded
  <2> QED BY <1>1, <2>1, <2>2
<1>4. Shape'
  BY <1>1, <1>2, <1>3 DEF Inv, Shape
<1> QED BY <1>2, <1>3, <1>4, Reconnects

(* Timer, Breaks, Compaction, and the errors that abort the channel.         *)
LEMMA TimerInv == ASSUME Inv, Timer \/ Breaks PROVE Inv'
<1>1. UNCHANGED <<hist, cl, data, cur, stray, reg>> /\ torn' = torn \union Unsynced
  BY DEF Timer, Breaks, ConnectionLost
<1>2. chan' = None \/ \E d : chan' = Channel(cl, reg', d)
  BY DEF Timer, Breaks, ConnectionLost
<1>3. Shape'
  BY <1>1 DEF Inv, Shape
<1> QED BY <1>1, <1>2, <1>3, Reconnects

LEMMA CompactionInv == ASSUME Inv, NEW c \in Cluster, Compaction(c) PROVE Inv'
<1>1. UNCHANGED <<hist, cl, data, cur, stray, reg, torn, chan>>
  BY DEF Compaction
<1>2. Shape'
  BY <1>1 DEF Inv, Shape
<1> QED BY <1>1, <1>2, Reconnects

LEMMA RelistInv ==
  ASSUME Inv, NEW r \in Resource, Relist(r), UNCHANGED <<hist, compacted, cl, data, reg, upsets>>
  PROVE  Inv'
<1> DEFINE rest == Refetchable({q \in Queries : q \ dropped' # {}})
           again == rest \cap KeyOf(r)
           qs == rest \union Refetchable(KeyOf(r))
           ended == Ended(Cancelled(qs)) \union {rest}
           restarted == {<<cl, q, Now>> : q \in {p \in again : HasData(p)}}
<1>1. /\ Refetch(qs) /\ stray' = stray \union Strays(qs) \union restarted
      /\ chan' = (IF {} \in ended THEN Channel(cl, reg, dropped') ELSE None)
      /\ torn' = torn \union Unsynced
  BY DEF Relist
<1>2. qs \in SUBSET Queries /\ again \subseteq Queries /\ Shape /\ cl \in Cluster
  BY DEF KeyOf, Refetchable, Inv, Shape
<1> HIDE DEF ended
<1> HIDE DEF qs, again
<1>3. /\ cur' \in [Queries -> Nat \union {None}]
      /\ Strays(qs) \subseteq Cluster \X Queries \X Nat /\ Now \in Nat
  BY <1>1, <1>2, Requests
<1>4. restarted \subseteq Cluster \X Queries \X Nat
  BY <1>2, <1>3
<1> HIDE DEF restarted
<1>5. Shape'
  BY <1>1, <1>2, <1>3, <1>4 DEF Shape
<1>6. chan' = None \/ \E d : chan' = Channel(cl, reg', d)
  BY <1>1
<1> QED BY <1>1, <1>5, <1>6, Reconnects

LEMMA UpstreamFailsInv == ASSUME Inv, NEW r \in Resource, UpstreamFails(r) PROVE Inv'
<1> DEFINE qs == Refetchable(KeyOf(r))
<1>1. /\ Refetch(qs) /\ stray' = stray \union Strays(qs) /\ torn' = torn \union Unsynced
      /\ UNCHANGED <<hist, cl, data, reg>>
      /\ AfterFetches(Cancelled(qs), Failed(2))
      /\ {} \notin Ended(Cancelled(qs)) => chan' = None
  BY DEF UpstreamFails
<1>2. qs \in SUBSET Queries /\ Shape
  BY DEF KeyOf, Refetchable, Inv
<1> HIDE DEF qs
<1>3. cur' \in [Queries -> Nat \union {None}] /\ Strays(qs) \subseteq Cluster \X Queries \X Nat
  BY <1>1, <1>2, Requests
<1>4. Shape'
  BY <1>1, <1>2, <1>3 DEF Shape
<1>5. chan' = None \/ \E d : chan' = Channel(cl, reg', d)
  BY <1>1 DEF AfterFetches
<1> QED BY <1>1, <1>4, <1>5, Reconnects

LEMMA ListLandsInv == ASSUME Inv, NEW q \in Queries, ListLands(q) PROVE Inv'
<1> DEFINE opens == {} \in Ended({q})
<1>1. /\ hist' = hist /\ cl' = cl /\ stray' = stray /\ cur[q] # None
      /\ cur' = [cur EXCEPT ![q] = None]
  BY DEF ListLands
<1>2. PICK n \in Responses(cl, q, cur[q]) :
        /\ reg' = Recorded(n)
        /\ data' = [r \in Resource |-> IF r \in DOMAIN n THEN [o \in Obj |-> n[r]]
                                       ELSE IF r \in q THEN [o \in Obj |-> 0] ELSE data[r]]
        /\ torn' = ((torn \ q) \union {r \in DOMAIN n : IsOvertaken(r, n[r]) /\ ~opens})
                   \union (IF opens THEN Unsynced \ q ELSE {})
  BY DEF ListLands
<1>3. /\ Shape /\ cl \in Cluster /\ cur[q] \in Nat /\ q \in SUBSET Resource
      /\ hist[cl] \in Seq(Change) /\ Now = Len(hist[cl])
  BY <1>1, WatchAssumption DEF Inv, Shape, Now, Latest
<1>4. DOMAIN n = q \ Forbidden /\ \A r \in q \ Forbidden : n[r] \in 0 .. Now
  BY <1>3 DEF Responses, Now, Latest
<1>5. reg' \in [Resource -> Nat \union {None}]
  BY <1>2, <1>3, RecordedType
<1>6. Shape'
  <2>1. data' \in [Resource -> [Obj -> Nat] \union {None}]
    <3> SUFFICES ASSUME NEW r \in Resource
                 PROVE  (IF r \in DOMAIN n THEN [o \in Obj |-> n[r]]
                         ELSE IF r \in q THEN [o \in Obj |-> 0] ELSE data[r]) \in [Obj -> Nat] \union {None}
      BY <1>2
    <3>1. data[r] \in [Obj -> Nat] \union {None}
      BY <1>3 DEF Shape
    <3>2. r \in DOMAIN n => n[r] \in Nat
      BY <1>3, <1>4
    <3> QED BY <3>1, <3>2
  <2> QED BY <1>1, <1>3, <1>5, <2>1 DEF Shape
<1>7. chan' = chan \/ (opens /\ chan' = Channel(cl, reg', dropped'))
  BY Opens DEF ListLands
<1>8. ~opens => chan' = chan
  BY <1>7
<1>9. opens => chan' = Channel(cl, reg', dropped')
  BY DEF ListLands, AfterFetches
<1>10. ChannelOK(chan', cl', Now')
  <2>1. ChannelOK(chan, cl, Now) /\ Now' = Now
    BY <1>1 DEF Inv, Now, Latest
  <2>2. ChannelOK(Channel(cl, reg', dropped'), cl, Now)
    BY <1>3, <1>5, NewChannel
  <2> QED BY <1>1, <1>7, <2>1, <2>2
<1>11. ASSUME NEW r \in Resource
       PROVE  DataOK(data'[r], Now')
  <2>1. DataOK(data[r], Now) /\ Now' = Now
    BY <1>1 DEF Inv, Now, Latest
  <2>2. data'[r] = IF r \in DOMAIN n THEN [o \in Obj |-> n[r]]
                   ELSE IF r \in q THEN [o \in Obj |-> 0] ELSE data[r]
    BY <1>2
  <2>3. Now \in Nat
    BY <1>3
  <2>4. CASE r \in DOMAIN n
    BY <1>4, <2>1, <2>2, <2>4 DEF DataOK
  <2>5. CASE r \notin DOMAIN n /\ r \in q
    BY <2>1, <2>2, <2>3, <2>5 DEF DataOK
  <2>6. CASE r \notin DOMAIN n /\ r \notin q
    BY <2>1, <2>2, <2>6
  <2> QED BY <2>4, <2>5, <2>6
<1>12. ASSUME NEW r \in Resource \ (torn' \union Forbidden)
       PROVE  Good(r, hist'[cl'], data'[r], reg'[r], chan')
  <2>1. CASE r \in q
    <3>1. r \in DOMAIN n /\ n[r] \in 0 .. Len(hist[cl])
      BY <1>3, <1>4, <2>1
    <3>2. data'[r] = [o \in Obj |-> n[r]] /\ reg'[r] = n[r]
      BY <1>2, <3>1 DEF Recorded
    <3>3. Promises(r, chan') => chan'.pos[r] \in Nat /\ chan'.pos[r] <= n[r]
      <4>1. CASE opens
        <5>1. chan'.pos = reg'
          BY <1>9, <4>1 DEF Channel
        <5> QED BY <3>1, <3>2, <5>1
      <4>2. CASE ~opens
        <5>1. ~IsOvertaken(r, n[r])
          BY <1>2, <3>1, <4>2
        <5>2. chan # None => chan.pos[r] \in Nat \union {None}
          BY DEF Inv, ChannelOK, Channels
        <5> QED BY <1>8, <3>1, <4>2, <5>1, <5>2 DEF IsOvertaken, Promises
      <4> QED BY <4>1, <4>2
    <3>4. Good(r, hist[cl], [o \in Obj |-> n[r]], n[r], chan')
      BY <1>3, <3>1, <3>3, GoodListed
    <3> QED BY <1>1, <3>2, <3>4
  <2>2. CASE r \notin q
    <3>1. r \notin torn /\ data'[r] = data[r] /\ reg'[r] = reg[r]
      BY <1>2, <1>4, <2>2 DEF Recorded
    <3>2. Good(r, hist[cl], data[r], reg[r], chan)
      BY <3>1 DEF Inv
    <3>3. CASE opens
      <4>1. r \notin Unsynced
        BY <1>2, <2>2, <3>3
      <4>2. ~Interrupted(r, data[r], chan)
        BY <4>1 DEF Unsynced, Interrupted, Syncs
      <4>3. Good(r, hist[cl], data[r], reg[r], Channel(cl, reg', dropped'))
        BY <3>1, <3>2, <4>2, GoodReopened
      <4> QED BY <1>1, <1>9, <3>1, <3>3, <4>3
    <3>4. CASE ~opens
      BY <1>1, <1>8, <3>1, <3>2, <3>4
    <3> QED BY <3>3, <3>4
  <2> QED BY <2>1, <2>2
<1> QED BY <1>6, <1>10, <1>11, <1>12 DEF Inv

(* The other resources of a channel that says something of one of them.      *)
LEMMA OthersStay ==
  ASSUME Inv, NEW r \in Resource, chan # None, chan' # None,
         hist' = hist, cl' = cl, torn \subseteq torn',
         \A x \in Resource \ {r} :
           /\ chan'.pos[x] = chan.pos[x] /\ chan'.up[x] = chan.up[x] /\ chan'.init[x] = chan.init[x]
           /\ reg'[x] = reg[x]
           /\ data'[x] = None => data[x] = None
           /\ \A o \in Obj : SeenIn(data'[x], o) = SeenIn(data[x], o)
  PROVE  \A x \in Resource \ (torn' \union Forbidden \union {r}) :
           Good(x, hist'[cl'], data'[x], reg'[x], chan')
<1> SUFFICES ASSUME NEW x \in Resource \ (torn' \union Forbidden \union {r})
             PROVE  Good(x, hist'[cl'], data'[x], reg'[x], chan')
  OBVIOUS
<1>1. Good(x, hist[cl], data[x], reg[x], chan)
  BY DEF Inv
<1>2. Good(x, hist[cl], data'[x], reg[x], chan')
  BY <1>1, GoodSeen
<1> QED BY <1>2

LEMMA OpenedInv == ASSUME Inv, Opened PROVE Inv'
<1>1. /\ chan # None /\ chan' = [chan EXCEPT !.open = TRUE]
      /\ UNCHANGED <<hist, cl, data, cur, stray, reg, torn>>
  BY DEF Opened
<1>2. chan \in Channels /\ ChannelOK(chan, cl, Now) /\ Shape /\ Now' = Now
  BY <1>1 DEF Inv, ChannelOK, Now, Latest
<1>3. /\ chan' \in Channels /\ chan'.c = chan.c /\ chan'.pos = chan.pos
      /\ chan'.up = chan.up /\ chan'.init = chan.init
  BY <1>1, <1>2 DEF Channels
<1>4. chan' # None
  BY <1>3, WatchAssumption
<1>5. ChannelOK(chan', cl', Now')
  BY <1>1, <1>2, <1>3 DEF ChannelOK
<1>6. ASSUME NEW r \in Resource \ (torn' \union Forbidden)
      PROVE  Good(r, hist'[cl'], data'[r], reg'[r], chan')
  <2>1. Good(r, hist[cl], data[r], reg[r], chan)
    BY <1>1 DEF Inv
  <2>2. Good(r, hist[cl], data[r], reg[r], chan')
    BY <1>1, <1>3, <1>4, <2>1, GoodSeen
  <2> QED BY <1>1, <2>2
<1>7. Shape'
  BY <1>1, <1>2 DEF Shape
<1> QED BY <1>1, <1>2, <1>5, <1>6, <1>7 DEF Inv

LEMMA UpstreamEndsInv == ASSUME Inv, NEW r \in Resource, UpstreamEnds(r) PROVE Inv'
<1>1. /\ chan # None /\ UNCHANGED <<hist, cl, data, cur, stray, reg>>
      /\ \/ chan' = None /\ torn' = torn \union Unsynced
         \/ /\ chan' = [chan EXCEPT !.up[r] = "ended", !.init[r] = {}]
            /\ torn' = torn \union (Unsynced \cap {r})
  BY DEF UpstreamEnds, ConnectionLost
<1>2. chan \in Channels /\ ChannelOK(chan, cl, Now) /\ Shape /\ Now' = Now
  BY <1>1 DEF Inv, ChannelOK, Now, Latest
<1>3. Shape'
  BY <1>1, <1>2 DEF Shape
<1>4. CASE chan' = None /\ torn' = torn \union Unsynced
  BY <1>1, <1>3, <1>4, Reconnects
<1>5. CASE /\ chan' = [chan EXCEPT !.up[r] = "ended", !.init[r] = {}]
           /\ torn' = torn \union (Unsynced \cap {r})
  <2>1. /\ chan' \in Channels /\ chan'.c = chan.c /\ chan'.pos = chan.pos
        /\ chan'.up = [chan.up EXCEPT ![r] = "ended"] /\ chan'.init = [chan.init EXCEPT ![r] = {}]
    BY <1>2, <1>5 DEF Channels
  <2>2. chan.up \in [Resource -> {"asked", "open", "ended"}] /\ chan.init \in [Resource -> SUBSET Obj]
    BY <1>2 DEF Channels
  <2>3. chan' # None
    BY <2>1, WatchAssumption
  <2>4. ChannelOK(chan', cl', Now')
    BY <1>1, <1>2, <2>1, <2>2 DEF ChannelOK
  <2>5. \A x \in Resource \ (torn' \union Forbidden \union {r}) :
          Good(x, hist'[cl'], data'[x], reg'[x], chan')
    BY <1>1, <1>5, <2>1, <2>2, <2>3, OthersStay
  <2>6. r \notin torn' \union Forbidden => Good(r, hist'[cl'], data'[r], reg'[r], chan')
    <3> SUFFICES ASSUME r \notin torn' \union Forbidden
                 PROVE  Good(r, hist[cl], data[r], reg[r], chan')
      BY <1>1
    <3>1. Good(r, hist[cl], data[r], reg[r], chan) /\ ~Interrupted(r, data[r], chan)
      BY <1>5 DEF Inv, Unsynced, Interrupted, Syncs
    <3> QED BY <2>1, <2>2, <3>1 DEF Good, Interrupted, Promises
  <2>7. \A x \in Resource : DataOK(data'[x], Now')
    BY <1>1, <1>2 DEF Inv
  <2> QED BY <1>3, <2>4, <2>5, <2>6, <2>7 DEF Inv
<1> QED BY <1>1, <1>4, <1>5

LEMMA SwitchClusterInv == ASSUME Inv, SwitchCluster PROVE Inv'
<1>1. /\ hist' = hist /\ cl' \in Cluster /\ chan' = Channel(cl', ForgetVersions, {})
      /\ reg' = ForgetVersions /\ data' = [r \in Resource |-> None]
      /\ cur' = [q \in Queries |-> None] /\ torn' = {}
      /\ stray' = stray \union {<<cl, q, cur[q]>> : q \in {p \in Queries : cur[p] # None}}
  BY DEF SwitchCluster
<1>2. Shape
  BY DEF Inv
<1>3. {<<cl, q, cur[q]>> : q \in {p \in Queries : cur[p] # None}} \subseteq Cluster \X Queries \X Nat
  <2>1. cl \in Cluster /\ \A q \in {p \in Queries : cur[p] # None} : q \in Queries /\ cur[q] \in Nat
    BY <1>2 DEF Shape
  <2> QED BY <2>1
<1>4. ForgetVersions \in [Resource -> Nat \union {None}]
  BY DEF ForgetVersions
<1>5. Shape'
  BY <1>1, <1>2, <1>3, <1>4 DEF Shape
<1>6. ChannelOK(chan', cl', Now')
  BY <1>1, <1>4, NewChannel
<1>7. \A r \in Resource : data'[r] = None /\ reg'[r] = None
  BY <1>1 DEF ForgetVersions
<1>8. \A r \in Resource : chan'.pos[r] = None /\ chan'.init[r] = {}
  BY <1>1 DEF Channel, ForgetVersions
<1>9. \A r \in Resource : Good(r, hist'[cl'], data'[r], reg'[r], chan')
  BY <1>7, <1>8 DEF Good, Promises
<1> QED BY <1>5, <1>6, <1>7, <1>9 DEF Inv, DataOK

(* An upstream watch that is granted goes on from its version, or sends what *)
(* exists: then nothing that is gone may still be shown.                     *)
LEMMA GrantedInv == ASSUME Inv, NEW r \in Resource, Granted(r) PROVE Inv'
<1>1. /\ chan # None /\ chan.up[r] = "asked" /\ ~IsFuture(r) /\ chan' = Started(r)
      /\ UNCHANGED <<hist, cl, data, cur, stray, reg>>
      /\ torn' = IF chan.pos[r] = None /\ ShowsGone(r) THEN torn \union {r} ELSE torn
  BY DEF Granted
<1>2. chan \in Channels /\ ChannelOK(chan, cl, Now) /\ chan.c = cl /\ Shape /\ Now' = Now
  BY <1>1 DEF Inv, ChannelOK, Now, Latest
<1>3. hist[cl] \in Seq(Change) /\ Now = Len(hist[cl]) /\ Now \in Nat /\ Latest(chan.c) = Now
  BY <1>2 DEF Shape, Now, Latest
<1>4. Exists(chan.c, r) \in SUBSET Obj
  BY DEF Exists
<1> DEFINE first == chan.pos[r] = None
<1>5. /\ chan' \in Channels /\ chan'.c = chan.c /\ chan'.up = [chan.up EXCEPT ![r] = "open"]
      /\ chan'.pos = (IF first THEN [chan.pos EXCEPT ![r] = Now] ELSE chan.pos)
      /\ chan'.init = (IF first THEN [chan.init EXCEPT ![r] = Exists(chan.c, r)] ELSE chan.init)
  <2>1. CASE first
    BY <1>1, <1>2, <1>3, <1>4, <2>1 DEF Started, StartedNow, Channels
  <2>2. CASE ~first
    BY <1>1, <1>2, <2>2 DEF Started, Channels
  <2> QED BY <2>1, <2>2
<1>6. /\ chan.up \in [Resource -> {"asked", "open", "ended"}]
      /\ chan.init \in [Resource -> SUBSET Obj] /\ chan.pos \in [Resource -> Nat \union {None}]
  BY <1>2 DEF Channels
<1>7. chan' # None
  BY <1>5, WatchAssumption
<1>8. chan.init[r] = {}
  BY <1>1, <1>2 DEF ChannelOK
<1>9. chan'.pos[r] \in 0 .. Now
  <2>1. CASE first
    BY <1>3, <1>5, <1>6, <2>1
  <2>2. CASE ~first
    BY <1>1, <1>3, <1>5, <1>6, <2>2 DEF IsFuture
  <2> QED BY <2>1, <2>2
<1>10. ChannelOK(chan', cl', Now')
  <2> SUFFICES ASSUME NEW x \in Resource
               PROVE  /\ chan'.init[x] # {} => chan'.up[x] = "open"
                      /\ chan'.up[x] = "open" => chan'.pos[x] \in 0 .. Now
    BY <1>1, <1>2, <1>5 DEF ChannelOK
  <2>1. CASE x = r
    BY <1>5, <1>6, <1>9, <2>1
  <2>2. CASE x # r
    BY <1>1, <1>2, <1>5, <1>6, <2>2 DEF ChannelOK
  <2> QED BY <2>1, <2>2
<1>11. \A x \in Resource \ (torn' \union Forbidden \union {r}) :
         Good(x, hist'[cl'], data'[x], reg'[x], chan')
  <2>1. torn \subseteq torn'
    BY <1>1
  <2>2. \A x \in Resource \ {r} :
          /\ chan'.pos[x] = chan.pos[x] /\ chan'.up[x] = chan.up[x] /\ chan'.init[x] = chan.init[x]
    BY <1>5, <1>6
  <2> QED BY <1>1, <1>7, <2>1, <2>2, OthersStay
<1>12. ASSUME r \notin torn' \union Forbidden
       PROVE  Good(r, hist[cl], data[r], reg[r], chan')
  <2>1. Good(r, hist[cl], data[r], reg[r], chan)
    BY <1>1, <1>12 DEF Inv
  <2>2. /\ reg[r] # None => \A o \in Obj : Fresh(hist[cl], data[r], r, o, reg[r])
        /\ data[r] = None => reg[r] = None
    BY <1>8, <2>1 DEF Good, Syncs
  <2>3. \A o \in Obj \ chan'.init[r] : Fresh(hist[cl], data[r], r, o, chan'.pos[r])
    <3>1. CASE first
      <4>1. ~ShowsGone(r)
        BY <1>1, <1>12, <3>1
      <4>2. chan'.pos[r] = Now /\ chan'.init[r] = Exists(chan.c, r)
        BY <1>5, <1>6, <3>1
      <4> SUFFICES ASSUME NEW o \in Obj \ Exists(chan.c, r)
                   PROVE  Fresh(hist[cl], data[r], r, o, Now)
        BY <4>2
      <4>3. AsIn(hist[cl], r, o, Now) = 0
        BY <1>2, <1>3, AsOfIsAsIn DEF Exists
      <4>4. AsIn(hist[cl], r, o, SeenIn(data[r], o)) = 0
        <5>1. CASE data[r] = None
          <6>1. SeenIn(data[r], o) = 0
            BY <5>1 DEF SeenIn
          <6>2. AsIn(hist[cl], r, o, 0) \in 0 .. 0
            BY AsInRange
          <6> QED BY <6>1, <6>2
        <5>2. CASE data[r] # None
          BY <4>1, <5>2, AsOfIsAsIn DEF ShowsGone, SeenIn
        <5> QED BY <5>1, <5>2
      <4> QED BY <1>3, <4>3, <4>4 DEF Fresh
    <3>2. CASE ~first
      BY <1>1, <1>5, <2>1, <3>2 DEF Good, Promises
    <3> QED BY <3>1, <3>2
  <2> QED BY <2>2, <2>3 DEF Good
<1>13. Shape' /\ \A x \in Resource : DataOK(data'[x], Now')
  BY <1>1, <1>2 DEF Shape, Inv
<1> QED BY <1>1, <1>10, <1>11, <1>12, <1>13 DEF Inv

(* What a line of the channel makes the views show.                          *)
LEMMA Applied ==
  ASSUME Shape, \A x \in Resource : DataOK(data[x], Now),
         NEW r \in Resource, NEW o \in Obj, NEW v \in 0 .. Now, Apply(r, o, v)
  PROVE  /\ data' \in [Resource -> [Obj -> Nat] \union {None}]
         /\ data'[r] # None
         /\ \A y \in Obj : SeenIn(data'[r], y) = IF y = o THEN v ELSE SeenIn(data[r], y)
         /\ \A x \in Resource : DataOK(data'[x], Now)
         /\ \A x \in Resource \ {r} :
              /\ data'[x] = None => data[x] = None
              /\ \A y \in Obj : SeenIn(data'[x], y) = SeenIn(data[x], y)
<1>1. Now \in Nat
  <2>1. hist[cl] \in Seq(Change)
    BY DEF Shape
  <2> QED BY <2>1 DEF Now, Latest
<1> DEFINE shown == [y \in Obj |-> IF y = o THEN v ELSE IF data[r] = None THEN 0 ELSE data[r][y]]
           zeros == [y \in Obj |-> 0]
<1>2. /\ data'[r] = shown
      /\ \A x \in Resource \ {r} : data'[x] = data[x] \/ (data[x] = None /\ data'[x] = zeros)
  BY DEF Apply
<1>3. DOMAIN data' = Resource /\ data' = [x \in Resource |-> data'[x]]
  BY DEF Apply
<1>4. shown \in [Obj -> 0 .. Now]
  BY <1>1 DEF DataOK
<1>5. zeros \in [Obj -> 0 .. Now]
  BY <1>1
<1>6. \A y \in Obj : shown[y] = IF y = o THEN v ELSE SeenIn(data[r], y)
  BY DEF SeenIn
<1>7. \A y \in Obj : zeros[y] = 0
  OBVIOUS
<1> HIDE DEF shown, zeros
<1>8. \A f \in [Obj -> 0 .. Now] : f \in [Obj -> Nat] /\ f # None
  <2> SUFFICES ASSUME NEW f \in [Obj -> 0 .. Now] PROVE f \in [Obj -> Nat] /\ f # None
    OBVIOUS
  <2>1. f \in [Obj -> Nat]
    BY <1>1
  <2> QED BY <2>1, WatchAssumption
<1>9. \A x \in Resource : data'[x] \in [Obj -> Nat] \union {None} /\ DataOK(data'[x], Now)
  <2> TAKE x \in Resource
  <2>1. CASE x = r
    BY <1>2, <1>4, <1>8, <2>1 DEF DataOK
  <2>2. CASE x # r /\ data'[x] = data[x]
    BY <2>2 DEF Shape
  <2>3. CASE x # r /\ data'[x] = zeros
    BY <1>5, <1>8, <2>3 DEF DataOK
  <2> QED BY <1>2, <2>1, <2>2, <2>3
<1>10. data' \in [Resource -> [Obj -> Nat] \union {None}]
  BY <1>3, <1>9
<1>11. \A x \in Resource \ {r} :
         /\ data'[x] = None => data[x] = None
         /\ \A y \in Obj : SeenIn(data'[x], y) = SeenIn(data[x], y)
  <2> TAKE x \in Resource \ {r}
  <2>1. CASE data'[x] = data[x]
    BY <2>1
  <2>2. CASE data[x] = None /\ data'[x] = zeros
    BY <1>5, <1>7, <1>8, <2>2 DEF SeenIn
  <2> QED BY <1>2, <2>1, <2>2
<1>12. data'[r] # None
  BY <1>2, <1>4, <1>8
<1>13. \A y \in Obj : SeenIn(data'[r], y) = IF y = o THEN v ELSE SeenIn(data[r], y)
  BY <1>2, <1>6, <1>12 DEF SeenIn
<1> QED BY <1>9, <1>10, <1>11, <1>12, <1>13

(* An object of the first sync, or the next change of the resource: between  *)
(* the position of the watch and that change none of its objects changed.    *)
LEMMA DeliverInv == ASSUME Inv, NEW r \in Resource, Deliver(r) PROVE Inv'
<1> DEFINE h == hist[cl]
           p == chan.pos[r]
<1>1. chan # None /\ chan.up[r] = "open" /\ UNCHANGED <<hist, cl, cur, stray, torn>>
  BY DEF Deliver
<1>2. /\ chan \in Channels /\ ChannelOK(chan, cl, Now) /\ chan.c = cl /\ Shape /\ Now' = Now
      /\ \A x \in Resource : DataOK(data[x], Now)
  BY <1>1 DEF Inv, ChannelOK, Now, Latest
<1>3. h \in Seq(Change) /\ Now = Len(h) /\ Now \in Nat /\ Latest(chan.c) = Now
  BY <1>2 DEF Shape, Now, Latest
<1>4. /\ chan.up \in [Resource -> {"asked", "open", "ended"}]
      /\ chan.init \in [Resource -> SUBSET Obj] /\ chan.pos \in [Resource -> Nat \union {None}]
  BY <1>2 DEF Channels
<1>5. p \in 0 .. Now /\ p \in Nat /\ p # None
  <2>1. p \in 0 .. Now
    BY <1>1, <1>2 DEF ChannelOK
  <2>2. p \in Nat
    BY <1>3, <2>1
  <2> QED BY <2>1, <2>2, WatchAssumption
(* Both kinds of line: object o is shown in version v, the watch reaches pos. *)
<1>6. ASSUME NEW o \in Obj, NEW v \in 0 .. Now, NEW rv \in 0 .. v, NEW init \in SUBSET Obj,
             chan' = [chan EXCEPT !.pos[r] = v, !.init[r] = init],
             Apply(r, o, v), reg' = [reg EXCEPT ![r] = rv],
             chan.init[r] \ {o} = init,
             \A y \in Obj \ ({o} \union init) :
               Fresh(h, data[r], r, y, p) => Fresh(h, data[r], r, y, v)
      PROVE  Inv'
  <2>1. /\ chan' \in Channels /\ chan'.c = chan.c /\ chan'.up = chan.up
        /\ chan'.pos = [chan.pos EXCEPT ![r] = v] /\ chan'.init = [chan.init EXCEPT ![r] = init]
    <3>1. v \in Nat
      BY <1>3
    <3> QED BY <1>2, <1>6, <3>1 DEF Channels
  <2>2. chan' # None
    BY <2>1, WatchAssumption
  <2>3. /\ data' \in [Resource -> [Obj -> Nat] \union {None}]
        /\ data'[r] # None
        /\ \A y \in Obj : SeenIn(data'[r], y) = IF y = o THEN v ELSE SeenIn(data[r], y)
        /\ \A x \in Resource : DataOK(data'[x], Now)
        /\ \A x \in Resource \ {r} :
             /\ data'[x] = None => data[x] = None
             /\ \A y \in Obj : SeenIn(data'[x], y) = SeenIn(data[x], y)
    BY <1>2, <1>6, Applied
  <2>4. v \in Nat /\ rv \in Nat /\ rv <= v
    BY <1>3
  <2>5. Shape'
    <3>1. reg' \in [Resource -> Nat \union {None}]
      BY <1>2, <1>6, <2>4 DEF Shape
    <3> QED BY <1>1, <1>2, <2>3, <3>1 DEF Shape
  <2>6. ChannelOK(chan', cl', Now')
    BY <1>1, <1>2, <1>4, <2>1 DEF ChannelOK
  <2>7. \A x \in Resource \ (torn' \union Forbidden \union {r}) :
          Good(x, hist'[cl'], data'[x], reg'[x], chan')
    <3>1. reg \in [Resource -> Nat \union {None}]
      BY <1>2 DEF Shape
    <3>2. \A x \in Resource \ {r} :
            /\ chan'.pos[x] = chan.pos[x] /\ chan'.up[x] = chan.up[x] /\ chan'.init[x] = chan.init[x]
            /\ reg'[x] = reg[x]
      BY <1>4, <1>6, <2>1, <3>1
    <3> QED BY <1>1, <2>2, <2>3, <3>2, OthersStay
  <2>8. ASSUME r \notin torn' \union Forbidden
        PROVE  Good(r, h, data'[r], reg'[r], chan')
    <3>1. Good(r, h, data[r], reg[r], chan)
      BY <1>1, <2>8 DEF Inv
    <3>2. \A y \in Obj \ chan.init[r] : Fresh(h, data[r], r, y, p)
      BY <1>1, <1>5, <3>1 DEF Good, Promises
    <3>3. \A y \in Obj \ init : Fresh(h, data'[r], r, y, v)
      <4> TAKE y \in Obj \ init
      <4>1. CASE y = o
        <5>1. SeenIn(data'[r], y) = v
          BY <2>3, <4>1
        <5>2. v \in v .. Len(h)
          BY <1>3
        <5> QED BY <5>1, <5>2 DEF Fresh
      <4>2. CASE y # o
        <5>1. SeenIn(data'[r], y) = SeenIn(data[r], y)
          BY <2>3, <4>2
        <5>2. Fresh(h, data[r], r, y, v)
          BY <1>6, <3>2, <4>2
        <5> QED BY <5>1, <5>2 DEF Fresh
      <4> QED BY <4>1, <4>2
    <3>4. chan'.pos[r] = v /\ chan'.init[r] = init /\ reg'[r] = rv
      BY <1>2, <1>4, <1>6, <2>1 DEF Shape
    <3>5. init = {} => \A y \in Obj : Fresh(h, data'[r], r, y, rv)
      BY <1>3, <2>4, <3>3, FreshEarlier
    <3> QED BY <2>2, <2>3, <3>3, <3>4, <3>5 DEF Good, Syncs
  <2> QED BY <1>1, <1>2, <2>3, <2>5, <2>6, <2>7, <2>8 DEF Inv
<1>7. CASE \E o \in chan.init[r] :
             /\ chan' = [chan EXCEPT !.init[r] = @ \ {o}]
             /\ Apply(r, o, chan.pos[r])
             /\ reg' = [reg EXCEPT ![r] = AsOf(chan.c, r, o, chan.pos[r])]
  <2>1. PICK o \in chan.init[r] :
             /\ chan' = [chan EXCEPT !.init[r] = @ \ {o}]
             /\ Apply(r, o, p)
             /\ reg' = [reg EXCEPT ![r] = AsOf(chan.c, r, o, p)]
    BY <1>7
  <2> DEFINE init == chan.init[r] \ {o}
             rv == AsOf(chan.c, r, o, p)
  <2>2. o \in Obj /\ init \in SUBSET Obj
    BY <1>4
  <2>3. rv \in 0 .. p
    BY <1>5, AsInRange, AsOfIsAsIn
  <2>4. chan' = [chan EXCEPT !.pos[r] = p, !.init[r] = init]
    BY <1>2, <1>4, <2>1 DEF Channels
  <2>5. reg' = [reg EXCEPT ![r] = rv]
    BY <2>1
  <2> HIDE DEF rv, h, p
  <2> QED BY <1>5, <1>6, <2>1, <2>2, <2>3, <2>4, <2>5
<1>8. CASE /\ chan.init[r] = {}
           /\ \E i \in chan.pos[r] + 1 .. Latest(chan.c) :
                /\ hist[chan.c][i].r = r
                /\ \A j \in chan.pos[r] + 1 .. i - 1 : hist[chan.c][j].r # r
                /\ chan' = [chan EXCEPT !.pos[r] = i]
                /\ Apply(r, hist[chan.c][i].o, i)
                /\ reg' = [reg EXCEPT ![r] = i]
  <2>1. PICK i \in p + 1 .. Now :
                /\ h[i].r = r
                /\ \A j \in p + 1 .. i - 1 : h[j].r # r
                /\ chan' = [chan EXCEPT !.pos[r] = i]
                /\ Apply(r, h[i].o, i)
                /\ reg' = [reg EXCEPT ![r] = i]
    BY <1>2, <1>3, <1>8
  <2> DEFINE o == h[i].o
  <2>2. i \in 0 .. Now /\ i \in Nat /\ i \in 0 .. i /\ p <= i /\ i \in 1 .. Len(h)
    BY <1>3, <1>5
  <2>3. o \in Obj
    <3>1. h[i] \in Change
      BY <1>3, <2>2
    <3> QED BY <3>1 DEF Change
  <2>4. chan' = [chan EXCEPT !.pos[r] = i, !.init[r] = {}]
    <3>1. chan.init = [chan.init EXCEPT ![r] = {}]
      BY <1>4, <1>8
    <3>2. chan = [chan EXCEPT !.init = [chan.init EXCEPT ![r] = {}]]
      BY <1>2, <3>1 DEF Channels
    <3> QED BY <1>2, <2>1, <3>2 DEF Channels
  <2>5. ASSUME NEW y \in Obj \ {o}, Fresh(h, data[r], r, y, p)
        PROVE  Fresh(h, data[r], r, y, i)
    <3>1. PICK j \in p .. Len(h) : AsIn(h, r, y, SeenIn(data[r], y)) = AsIn(h, r, y, j)
      BY <2>5 DEF Fresh
    <3>2. CASE j >= i
      <4>1. j \in i .. Len(h)
        BY <1>5, <2>2, <3>2
      <4> QED BY <3>1, <4>1 DEF Fresh
    <3>3. CASE j < i
      <4>1. j \in Nat /\ j <= i
        BY <1>5, <2>2, <3>3
      <4>2. \A k \in j + 1 .. i : ~(h[k].r = r /\ h[k].o = y)
        <5> TAKE k \in j + 1 .. i
        <5>1. k = i \/ k \in p + 1 .. i - 1
          BY <1>5, <2>2, <4>1
        <5> QED BY <2>1, <5>1
      <4> HIDE DEF h
      <4>3. AsIn(h, r, y, j) = AsIn(h, r, y, i)
        BY <2>2, <4>1, <4>2, AsInSkips
      <4>4. i \in i .. Len(h)
        BY <2>2
      <4> QED BY <3>1, <4>3, <4>4 DEF Fresh
    <3> QED BY <1>5, <2>2, <3>2, <3>3
  <2> HIDE DEF o, h, p
  <2>6. Apply(r, o, i)
    BY <2>1 DEF o, h
  <2>7. reg' = [reg EXCEPT ![r] = i]
    BY <2>1
  <2>8. chan.init[r] \ {o} = {} /\ {} \in SUBSET Obj
    BY <1>8
  <2>9. \A y \in Obj \ ({o} \union {}) : Fresh(h, data[r], r, y, p) => Fresh(h, data[r], r, y, i)
    BY <2>5
  <2> QED BY <1>6, <2>2, <2>3, <2>4, <2>6, <2>7, <2>8, <2>9
<1> QED BY <1>7, <1>8 DEF Deliver

LEMMA ClusterChangesInv == ASSUME Inv, NEW c \in Cluster, ClusterChanges(c) PROVE Inv'
<1>1. PICK x \in Change : hist' = [hist EXCEPT ![c] = Append(@, x)]
  <2>1. PICK r \in Resource, o \in Obj : \E gone \in BOOLEAN :
          hist' = [hist EXCEPT ![c] = Append(@, [r |-> r, o |-> o, gone |-> gone])]
    BY DEF ClusterChanges
  <2>2. PICK gone \in BOOLEAN :
          hist' = [hist EXCEPT ![c] = Append(@, [r |-> r, o |-> o, gone |-> gone])]
    BY <2>1
  <2>3. [r |-> r, o |-> o, gone |-> gone] \in Change
    BY DEF Change
  <2> QED BY <2>2, <2>3
<1>2. UNCHANGED <<cl, data, cur, stray, reg, chan, torn>> /\ Shape
  BY DEF ClusterChanges, Inv
<1> DEFINE h == hist[cl]
<1>3. h \in Seq(Change) /\ hist[c] \in Seq(Change) /\ cl \in Cluster
  BY <1>2 DEF Shape
<1>4. hist' \in [Cluster -> Seq(Change)] /\ hist'[cl] = IF c = cl THEN Append(h, x) ELSE h
  BY <1>1, <1>2, <1>3, AppendProperties DEF Shape
<1>5. Now' = IF c = cl THEN Now + 1 ELSE Now
  BY <1>2, <1>3, <1>4 DEF Now, Latest
<1>6. Now \in Nat /\ Now = Len(h)
  BY <1>3 DEF Now, Latest
<1>7. Shape'
  BY <1>2, <1>4 DEF Shape
<1>8. ChannelOK(chan', cl', Now')
  BY <1>2, <1>5, <1>6 DEF Inv, ChannelOK
<1>9. \A r \in Resource : DataOK(data'[r], Now')
  <2> TAKE r \in Resource
  <2>1. DataOK(data[r], Now)
    BY DEF Inv
  <2>2. 0 .. Now \subseteq 0 .. Now'
    BY <1>5, <1>6
  <2> QED BY <1>2, <2>1, <2>2 DEF DataOK
<1>10. ASSUME NEW r \in Resource \ (torn \union Forbidden)
       PROVE  Good(r, hist'[cl'], data[r], reg[r], chan)
  <2>1. Good(r, h, data[r], reg[r], chan)
    BY DEF Inv
  <2>2. CASE c # cl
    BY <1>2, <1>4, <2>1, <2>2
  <2>3. CASE c = cl
    <3>1. hist'[cl'] = Append(h, x) /\ DataOK(data[r], Len(h))
      BY <1>2, <1>4, <1>6, <2>3 DEF Inv
    <3>2. \A o \in Obj, k \in Nat : Fresh(h, data[r], r, o, k) => Fresh(Append(h, x), data[r], r, o, k)
      BY <1>3, <3>1, FreshGrows
    <3>3. reg[r] \in Nat \union {None} /\ (chan # None => chan.pos[r] \in Nat \union {None})
      BY <1>2 DEF Shape, Inv, ChannelOK, Channels
    <3> HIDE DEF h
    <3>4. Good(r, Append(h, x), data[r], reg[r], chan)
      BY <2>1, <3>2, <3>3 DEF Good, Promises
    <3> QED BY <3>1, <3>4
  <2> QED BY <2>2, <2>3
<1> QED BY <1>2, <1>7, <1>8, <1>9, <1>10 DEF Inv

-----------------------------------------------------------------------------
LEMMA InvStep == ASSUME Inv, [Next]_vars PROVE Inv'
<1>0. ASSUME NEW q \in Queries, ViewsChange(q) PROVE Inv'
  <2>1. Shape' /\ UNCHANGED <<hist, cl, data, reg, chan, torn>>
    BY <1>0 DEF ViewsChange, Inv, Shape
  <2> QED BY <2>1, Reconnects
<1>1. CASE \E q \in Queries : Fetch(q) \/ ListLands(q) \/ ListFails(q)
  BY <1>1, FetchInv, ListLandsInv, ListFailsInv
<1>2. CASE \E r \in Resource : Granted(r) \/ Deliver(r) \/ UpstreamFails(r) \/ UpstreamEnds(r)
  BY <1>2, GrantedInv, DeliverInv, UpstreamFailsInv, UpstreamEndsInv
<1>3. CASE \E r \in Resource : Expired(r) \/ Refused(r)
  BY <1>3, RelistInv DEF Expired, Refused
<1>4. CASE \E c \in Cluster : ClusterChanges(c) \/ Compaction(c)
  BY <1>4, ClusterChangesInv, CompactionInv
<1>5. CASE StrayLands \/ Timer \/ Opened \/ Breaks \/ SwitchCluster
  BY <1>5, StrayLandsInv, TimerInv, OpenedInv, SwitchClusterInv
<1>6. CASE UNCHANGED vars
  <2>1. Shape'
    BY <1>6 DEF vars, Inv, Shape
  <2> QED BY <1>6, <2>1, Reconnects DEF vars
<1> QED BY <1>0, <1>1, <1>2, <1>3, <1>4, <1>5, <1>6 DEF Next

LEMMA InvSuffices == Inv => NothingSkipped
<1> SUFFICES ASSUME Inv, NEW r \in Resource \ (torn \union Forbidden), ~IsSyncing(r)
             PROVE  /\ reg[r] # None => ShownTo(r, reg[r])
                    /\ chan # None /\ chan.up[r] = "open" => ShownTo(r, chan.pos[r])
  BY DEF NothingSkipped
<1>1. Good(r, hist[cl], data[r], reg[r], chan) /\ ~Syncs(r, chan)
  BY DEF Inv, IsSyncing, Syncs
<1>2. ASSUME NEW k, \A o \in Obj : Fresh(hist[cl], data[r], r, o, k)
      PROVE  ShownTo(r, k)
  <2>1. \A o : Seen(r, o) = SeenIn(data[r], o)
    BY DEF Seen, SeenIn
  <2>2. Now = Len(hist[cl])
    BY DEF Now, Latest
  <2> QED BY <1>2, <2>1, <2>2, AsOfIsAsIn DEF ShownTo, Fresh
<1>3. chan # None /\ chan.up[r] = "open" => Promises(r, chan) /\ chan.init[r] = {}
  <2>1. Now \in Nat
    <3>1. hist[cl] \in Seq(Change)
      BY DEF Inv, Shape
    <3> QED BY <3>1 DEF Now, Latest
  <2>2. chan # None /\ chan.up[r] = "open" => chan.pos[r] \in Nat
    BY <2>1 DEF Inv, ChannelOK
  <2> QED BY <1>1, <2>2, WatchAssumption DEF Promises, Syncs
<1> QED BY <1>1, <1>2, <1>3 DEF Good

(* Whatever order lists, changes, reconnects, refusals and failures come in, *)
(* what the views show of a resource is no older than the version from which *)
(* the browser would watch on (recordListRv, recordEvent) and the one its    *)
(* upstream watch has reached, unless a list and the watch have crossed.     *)
THEOREM WatchSkipsNothing == Spec => []NothingSkipped
<1>1. Inv /\ [Next]_vars => Inv'
  BY InvStep
<1> QED BY InitInv, <1>1, InvSuffices, PTL DEF Spec
=============================================================================
