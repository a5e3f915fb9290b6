----------------------------- MODULE ClusterWatch -----------------------------
(* The browser's copy of a cluster: lists fetched by Vue Query, kept up to   *)
(* date by one watch channel that the gateway feeds from one upstream watch  *)
(* per resource (server/k8s-watch-mux.mjs), reconnected by a controller      *)
(* (composables/useClusterWatch.js) from the versions in a registry          *)
(* (composables/watchRegistry.js), and thrown away when the user changes     *)
(* cluster (stores/cluster/clusters.js).                                     *)
EXTENDS Integers, Sequences, FiniteSets, Functions

CONSTANTS
  Cluster, Resource, Obj,
  First,        \* the cluster the user connects to first
  Queries,      \* the lists views show: disjoint sets of the resources
  Forbidden,    \* resources the cluster refuses to the user
  WATCH_MAX_FAILURES,
  MaxRv,        \* bound: changes of all the clusters
  MaxUpsets,    \* bound: failures of network, gateway and upstream, changes of cluster,
                \* and lists that views show no more
  MaxStray,     \* bound: fetches a view leaves behind
  None

Channels == [open : BOOLEAN, c : Cluster, pos : [Resource -> Nat \union {None}],
             up : [Resource -> {"asked", "open", "ended"}], init : [Resource -> SUBSET Obj]]

ASSUME WatchAssumption ==
  /\ First \in Cluster /\ Forbidden \subseteq Resource
  /\ Queries \subseteq SUBSET Resource
  /\ \A r \in Resource : \E q \in Queries : r \in q
  /\ \A p, q \in Queries : p = q \/ p \cap q = {}
  /\ WATCH_MAX_FAILURES \in Nat \ {0} /\ MaxRv \in Nat /\ MaxUpsets \in Nat /\ MaxStray \in Nat
  /\ None \notin Nat \union [Obj -> Nat] \union Channels

VARIABLES
  \* the clusters
  hist,         \* per cluster its changes; the n-th has resourceVersion n
  compacted,    \* per cluster the oldest version a watch can start from
  \* the browser
  cl,           \* currentCluster
  data,         \* per resource None, or per object the version it is shown in
  listed,       \* the queries with an enabled observer: some view shows the list
  cur,          \* per query None, or the version at which its fetch was sent
  stray,        \* fetches still under way of which the query takes no result
  reg,          \* watchRegistry: per resource the version to go on from
  dropped,      \* droppedWatchKeys
  ctl,          \* the controller
  waits,        \* relists that will open the channel: the queries they wait for
  chan,         \* the channel with the gateway's upstream watches, or None
  \* history
  torn,         \* resources whose lists and watch have crossed
  upsets

vars == <<hist, compacted, cl, listed, data, cur, stray, reg, dropped, ctl, waits, chan, torn, upsets>>

Change == [r : Resource, o : Obj, gone : BOOLEAN]
Latest(c) == Len(hist[c])
Now == Latest(cl)

(* The version in which an object is at version k of its cluster; 0: absent. *)
AsOf(c, r, o, k) ==
  LET is == {i \in 1 .. k : hist[c][i].r = r /\ hist[c][i].o = o} IN
  IF \E i \in is : ~hist[c][i].gone /\ \A j \in is : j <= i
  THEN CHOOSE i \in is : \A j \in is : j <= i ELSE 0
Exists(c, r) == {o \in Obj : AsOf(c, r, o, Latest(c)) # 0}

Channel(c, versions, refused) == [
  open |-> FALSE, c |-> c, pos |-> versions,
  up |-> [r \in Resource |-> IF r \in refused THEN "ended" ELSE "asked"],
  init |-> [r \in Resource |-> {}]]

Init ==
  /\ hist = [c \in Cluster |-> <<>>] /\ compacted = [c \in Cluster |-> 0]
  /\ cl = First /\ listed \in SUBSET Queries
  /\ data = [r \in Resource |-> None] /\ cur = [q \in Queries |-> None] /\ stray = {}
  /\ reg = [r \in Resource |-> None] /\ dropped = {}
  /\ ctl = [st |-> "reconnecting", fail |-> 0, timer |-> FALSE] /\ waits = {}
  /\ chan = Channel(cl, reg, {})
  /\ torn = {} /\ upsets = 0

Upset == upsets < MaxUpsets /\ upsets' = upsets + 1

-----------------------------------------------------------------------------
(* The controller.                                                           *)

(* A first sync that the end of the channel interrupts.                      *)
Unsynced ==
  IF chan = None THEN {} ELSE {r \in Resource : chan.init[r] # {} /\ data[r] # None}

(* onFailure counted n times.                                                *)
Failed(n) ==
  LET f == IF ctl.fail + n < WATCH_MAX_FAILURES THEN ctl.fail + n ELSE WATCH_MAX_FAILURES IN
  [st |-> IF f = WATCH_MAX_FAILURES THEN "degraded" ELSE "reconnecting", fail |-> f, timer |-> TRUE]

ConnectionLost ==
  /\ ctl' = Failed(1)
  /\ chan' = None
  /\ torn' = torn \union Unsynced

(* The relists of which the last fetch has ended open the channel.           *)
Ended(qs) == {w \ qs : w \in waits}

AfterFetches(qs, c) ==
  /\ waits' = Ended(qs) \ {{}}
  /\ IF {} \in Ended(qs)
     THEN ctl' = [c EXCEPT !.timer = FALSE] /\ chan' = Channel(cl, reg', dropped')
     ELSE ctl' = c

-----------------------------------------------------------------------------
(* Queries.  A refetch of a query that has data cancels the fetch under way, *)
(* whose response still reaches recordListRv; one without data joins it.     *)
HasData(q) == \E r \in q : data[r] # None
Cancelled(qs) == {q \in qs : cur[q] # None /\ HasData(q)}
Refetch(qs) ==
  cur' = [q \in Queries |-> IF q \in qs /\ (cur[q] = None \/ HasData(q)) THEN Now ELSE cur[q]]
Strays(qs) == {<<cl, q, cur[q]>> : q \in Cancelled(qs)}

(* The first view that shows a query mounts, the last one goes.  What it has *)
(* asked for goes on: the search bar keeps a disabled observer of each query.*)
ViewsChange(q) ==
  /\ \/ q \notin listed /\ listed' = listed \union {q} /\ UNCHANGED upsets
     \/ q \in listed /\ listed' = listed \ {q} /\ Upset
  /\ UNCHANGED <<hist, compacted, cl, data, cur, stray, reg, dropped, ctl, waits, chan, torn>>

(* A view mounts, polls, gets the focus, or invalidates after a mutation.    *)
Fetch(q) ==
  /\ q \in listed
  /\ Cardinality(stray \union Strays({q})) <= MaxStray
  /\ Refetch({q})
  /\ stray' = stray \union Strays({q})
  /\ UNCHANGED <<reg, dropped>>
  /\ AfterFetches(Cancelled({q}), ctl)
  /\ {} \notin Ended(Cancelled({q})) => UNCHANGED chan
  /\ torn' = IF {} \in Ended(Cancelled({q})) THEN torn \union Unsynced ELSE torn
  /\ UNCHANGED <<hist, compacted, cl, listed, data, upsets>>

(* The responses of a query's lists, each read at a version of its own.  The *)
(* list of a resource may be older than what its watch has shown.            *)
Responses(c, q, sent) == [q \ Forbidden -> sent .. Latest(c)]
Recorded(n) == [r \in Resource |-> IF r \in DOMAIN n THEN n[r] ELSE reg[r]]
IsOvertaken(r, n) == chan # None /\ chan.up[r] # "ended" /\ chan.pos[r] # None /\ chan.pos[r] > n

ListLands(q) ==
  /\ cur[q] # None /\ q \ Forbidden # {}
  /\ cur' = [cur EXCEPT ![q] = None]
  /\ UNCHANGED dropped
  /\ \E n \in Responses(cl, q, cur[q]) :
       LET opens == {} \in Ended({q})
           crossed == {r \in DOMAIN n : IsOvertaken(r, n[r]) /\ ~opens} IN
       /\ reg' = Recorded(n)
       /\ data' = [r \in Resource |-> IF r \in DOMAIN n THEN [o \in Obj |-> n[r]]
                                      ELSE IF r \in q THEN [o \in Obj |-> 0] ELSE data[r]]
       /\ torn' = ((torn \ q) \union crossed) \union (IF opens THEN Unsynced \ q ELSE {})
  /\ AfterFetches({q}, ctl)
  /\ {} \notin Ended({q}) => UNCHANGED chan
  /\ UNCHANGED <<hist, compacted, cl, listed, stray, upsets>>

(* One list of the query fails; the others are recorded all the same.        *)
ListFails(q) ==
  /\ cur[q] # None
  /\ cur' = [cur EXCEPT ![q] = None]
  /\ UNCHANGED dropped
  /\ LET cut == IF {} \in Ended({q}) THEN Unsynced ELSE {} IN
     \/ /\ q \subseteq Forbidden
        /\ torn' = torn \union cut /\ UNCHANGED <<reg, upsets>>
     \/ /\ Upset
        /\ \E rs \in SUBSET (q \ Forbidden) \ {q \ Forbidden} : \E n \in Responses(cl, rs, cur[q]) :
             /\ reg' = Recorded(n)
             /\ torn' = torn \union rs \union cut
  /\ AfterFetches({q}, ctl)
  /\ {} \notin Ended({q}) => UNCHANGED chan
  /\ UNCHANGED <<hist, compacted, cl, listed, data, stray>>

StrayLands ==
  /\ \E s \in stray :
       /\ stray' = stray \ {s}
       /\ \/ \E n \in Responses(s[1], s[2], s[3]) :
               reg' = Recorded(n) /\ torn' = torn \union DOMAIN n
          \/ UNCHANGED <<reg, torn>>
  /\ UNCHANGED <<hist, compacted, cl, listed, data, cur, dropped, ctl, waits, chan, upsets>>

-----------------------------------------------------------------------------
(* The channel.                                                              *)
Timer ==
  /\ ctl.timer
  /\ ctl' = [ctl EXCEPT !.timer = FALSE]
  /\ chan' = Channel(cl, reg, dropped)
  /\ torn' = torn \union Unsynced
  /\ UNCHANGED <<hist, compacted, cl, listed, data, cur, stray, reg, dropped, waits, upsets>>

(* The gateway answers 200 before any upstream does.                         *)
Opened ==
  /\ chan # None /\ ~chan.open
  /\ chan' = [chan EXCEPT !.open = TRUE]
  /\ ctl' = [ctl EXCEPT !.st = "live", !.fail = 0]
  /\ UNCHANGED <<hist, compacted, cl, listed, data, cur, stray, reg, dropped, waits, torn, upsets>>

(* The gateway cannot be reached, or the connection to it breaks.            *)
Breaks ==
  /\ chan # None /\ Upset
  /\ ConnectionLost
  /\ UNCHANGED <<hist, compacted, cl, listed, data, cur, stray, reg, dropped, waits>>

IsStale(r) == chan.pos[r] # None /\ chan.pos[r] < compacted[chan.c]
IsFuture(r) == chan.pos[r] # None /\ chan.pos[r] > Latest(chan.c)

(* An upstream watch begins where it was asked to, or without a version with *)
(* what exists: what a list has shown and is gone by then, it says nothing of.*)
ShowsGone(r) ==
  \E o \in Obj \ Exists(chan.c, r) : data[r] # None /\ AsOf(cl, r, o, data[r][o]) # 0

StartedNow(r) == [chan EXCEPT !.up[r] = "open", !.pos[r] = Latest(chan.c)]
Started(r) ==
  IF chan.pos[r] = None
  THEN [StartedNow(r) EXCEPT !.init[r] = Exists(chan.c, r)]
  ELSE [chan EXCEPT !.up[r] = "open"]

Granted(r) ==
  /\ chan # None /\ chan.open /\ chan.up[r] = "asked"
  /\ r \notin Forbidden /\ ~IsStale(r) /\ ~IsFuture(r)
  /\ chan' = Started(r)
  /\ torn' = IF chan.pos[r] = None /\ ShowsGone(r) THEN torn \union {r} ELSE torn
  /\ UNCHANGED <<hist, compacted, cl, listed, data, cur, stray, reg, dropped, ctl, waits, upsets>>

(* A line of the channel: an object of the first sync, or the next change.   *)
Apply(r, o, v) ==
  data' = [x \in Resource |->
    IF x = r THEN [y \in Obj |-> IF y = o THEN v ELSE IF data[r] = None THEN 0 ELSE data[r][y]]
    ELSE IF data[x] = None /\ \E q \in Queries : {r, x} \subseteq q THEN [y \in Obj |-> 0]
    ELSE data[x]]

Deliver(r) ==
  /\ chan # None /\ chan.up[r] = "open"
  /\ \/ \E o \in chan.init[r] :
          /\ chan' = [chan EXCEPT !.init[r] = @ \ {o}]
          /\ Apply(r, o, chan.pos[r])
          /\ reg' = [reg EXCEPT ![r] = AsOf(chan.c, r, o, chan.pos[r])]
     \/ /\ chan.init[r] = {}
        /\ \E i \in chan.pos[r] + 1 .. Latest(chan.c) :
             /\ hist[chan.c][i].r = r
             /\ \A j \in chan.pos[r] + 1 .. i - 1 : hist[chan.c][j].r # r
             /\ chan' = [chan EXCEPT !.pos[r] = i]
             /\ Apply(r, hist[chan.c][i].o, i)
             /\ reg' = [reg EXCEPT ![r] = i]
  /\ UNCHANGED <<hist, compacted, cl, listed, cur, stray, dropped, ctl, waits, torn, upsets>>

(* A line { r, err }: the browser relists r and aborts the channel, whose    *)
(* onClose is called all the same when the line has been dealt with.  A      *)
(* version that is too old, and a refusal, which drops the resource, relist  *)
(* what is left and connect again.  refetchQueries passes over a query that  *)
(* no view shows: if that leaves nothing to wait for, the channel is opened  *)
(* again at once, from the versions there are.                               *)
KeyOf(r) == {q \in Queries : r \in q}
Refetchable(qs) == qs \cap listed

Relist(r) ==
  LET rest == Refetchable({q \in Queries : q \ dropped' # {}})
      qs == rest \union Refetchable(KeyOf(r))
      ended == Ended(Cancelled(qs)) \union {rest} IN
  /\ Refetch(qs)
  /\ stray' = stray \union Strays(qs)
              \union {<<cl, q, Now>> : q \in {p \in rest \cap KeyOf(r) : HasData(p)}}
  /\ waits' = ended \ {{}}
  /\ ctl' = [Failed(1) EXCEPT !.timer = {} \notin ended]
  /\ chan' = IF {} \in ended THEN Channel(cl, reg, dropped') ELSE None
  /\ torn' = torn \union Unsynced

Expired(r) ==
  /\ chan # None /\ chan.open /\ chan.up[r] = "asked"
  /\ r \notin Forbidden /\ IsStale(r)
  /\ UNCHANGED dropped
  /\ Relist(r)
  /\ UNCHANGED <<hist, compacted, cl, listed, data, reg, upsets>>

KeepAsking(r) == dropped
Without(r) == dropped \union {r}
Refused(r) ==
  /\ chan # None /\ chan.open /\ chan.up[r] = "asked"
  /\ r \in Forbidden
  /\ dropped' = Without(r)
  /\ Relist(r)
  /\ UNCHANGED <<hist, compacted, cl, listed, data, reg, upsets>>

UpstreamFails(r) ==
  LET qs == Refetchable(KeyOf(r)) IN
  /\ chan # None /\ chan.open /\ chan.up[r] # "ended"
  /\ IF chan.up[r] = "asked" /\ IsFuture(r) THEN UNCHANGED upsets ELSE Upset
  /\ Refetch(qs)
  /\ stray' = stray \union Strays(qs)
  /\ UNCHANGED <<reg, dropped>>
  /\ AfterFetches(Cancelled(qs), Failed(2))
  /\ {} \notin Ended(Cancelled(qs)) => chan' = None
  /\ torn' = torn \union Unsynced
  /\ UNCHANGED <<hist, compacted, cl, listed, data>>

(* An upstream watch ends by itself, as the API server's do: the others go   *)
(* on, and the channel ends with the last.                                   *)
UpstreamEnds(r) ==
  /\ chan # None /\ chan.open /\ chan.up[r] = "open"
  /\ Upset
  /\ IF \A x \in Resource \ {r} : chan.up[x] = "ended"
     THEN ConnectionLost
     ELSE chan' = [chan EXCEPT !.up[r] = "ended", !.init[r] = {}]
          /\ torn' = torn \union (Unsynced \cap {r}) /\ UNCHANGED ctl
  /\ UNCHANGED <<hist, compacted, cl, listed, data, cur, stray, reg, dropped, waits>>

-----------------------------------------------------------------------------
(* setConnectedCluster: stops the watch, clears the registry and the         *)
(* queries, and starts the watch.  What is under way lands later.            *)
KeepVersions == reg
ForgetVersions == [r \in Resource |-> None]

SwitchCluster ==
  /\ Upset
  /\ \E c \in Cluster \ {cl} :
       /\ cl' = c
       /\ chan' = Channel(c, ForgetVersions, {})
  /\ reg' = ForgetVersions
  /\ data' = [r \in Resource |-> None] /\ cur' = [q \in Queries |-> None]
  /\ stray' = stray \union {<<cl, q, cur[q]>> : q \in {p \in Queries : cur[p] # None}}
  /\ dropped' = {} /\ waits' = {} /\ torn' = {}
  /\ ctl' = [st |-> "reconnecting", fail |-> 0, timer |-> FALSE]
  /\ UNCHANGED <<hist, compacted, listed>>

(* The cluster: somebody changes an object; old versions are forgotten.      *)
ClusterChanges(c) ==
  /\ FoldFunction(LAMBDA h, n : Len(h) + n, 0, hist) < MaxRv
  /\ \E r \in Resource, o \in Obj : \E gone \in {g \in BOOLEAN : g => o \in Exists(c, r)} :
       hist' = [hist EXCEPT ![c] = Append(@, [r |-> r, o |-> o, gone |-> gone])]
  /\ UNCHANGED <<compacted, cl, listed, data, cur, stray, reg, dropped, ctl, waits, chan, torn, upsets>>

Compaction(c) ==
  /\ compacted[c] < Latest(c)
  /\ compacted' = [compacted EXCEPT ![c] = Latest(c)]
  /\ UNCHANGED <<hist, cl, listed, data, cur, stray, reg, dropped, ctl, waits, chan, torn, upsets>>

-----------------------------------------------------------------------------
Next ==
  \/ \E q \in Queries : ViewsChange(q) \/ Fetch(q) \/ ListLands(q) \/ ListFails(q)
  \/ \E r \in Resource : \/ Granted(r) \/ Deliver(r) \/ Expired(r) \/ Refused(r)
                         \/ UpstreamFails(r) \/ UpstreamEnds(r)
  \/ \E c \in Cluster : ClusterChanges(c) \/ Compaction(c)
  \/ StrayLands \/ Timer \/ Opened \/ Breaks \/ SwitchCluster

Spec == Init /\ [][Next]_vars

(* An upstream watch that was asked for is answered, one way or another.     *)
Answered(r) ==
  /\ chan # None /\ chan.up[r] = "asked"
  /\ Granted(r) \/ Expired(r) \/ Refused(r) \/ UpstreamFails(r)

(* Requests are answered, timers fire, and what an upstream sends arrives.   *)
FairSpec ==
  /\ Spec
  /\ WF_vars(Timer \/ Opened)
  /\ \A q \in Queries : WF_vars(ListLands(q) \/ ListFails(q))
  /\ \A r \in Resource : WF_vars(Answered(r) \/ Deliver(r))

-----------------------------------------------------------------------------
Version == 0 .. MaxRv
TypeOK ==
  /\ hist \in [Cluster -> Seq(Change)]
  /\ compacted \in [Cluster -> Version]
  /\ cl \in Cluster /\ listed \subseteq Queries
  /\ data \in [Resource -> [Obj -> Version] \union {None}]
  /\ cur \in [Queries -> Version \union {None}]
  /\ stray \subseteq Cluster \X Queries \X Version
  /\ reg \in [Resource -> Version \union {None}]
  /\ dropped \subseteq Forbidden /\ torn \subseteq Resource
  /\ ctl \in [st : {"reconnecting", "live", "degraded"}, fail : 0 .. WATCH_MAX_FAILURES, timer : BOOLEAN]
  /\ waits \subseteq SUBSET Queries
  /\ chan # None => chan \in Channels /\ \A r \in Resource : chan.pos[r] \in Version \union {None}
  /\ upsets \in 0 .. MaxUpsets

(* The views show every object of r as it was at version k or later.         *)
Seen(r, o) == IF data[r] = None THEN 0 ELSE data[r][o]
ShownTo(r, k) ==
  \A o \in Obj : \E j \in k .. Now : AsOf(cl, r, o, Seen(r, o)) = AsOf(cl, r, o, j)

(* Nothing is skipped: what the registry would reconnect from, and what the  *)
(* watch has reached, is shown, except where a list and the watch crossed.   *)
IsSyncing(r) == chan # None /\ chan.init[r] # {}
NothingSkipped ==
  \A r \in Resource \ (torn \union Forbidden) : ~IsSyncing(r) =>
    /\ reg[r] # None => ShownTo(r, reg[r])
    /\ chan # None /\ chan.up[r] = "open" => ShownTo(r, chan.pos[r])

(* The channel asks with a version the cluster does not serve, an expired    *)
(* one or one of another cluster, for a resource that no view shows: the     *)
(* relist that answers passes over it.                                       *)
AsksInVain ==
  \E r \in Resource \ Forbidden :
    /\ chan # None /\ chan.up[r] = "asked" /\ (IsStale(r) \/ IsFuture(r))
    /\ Refetchable(KeyOf(r)) = {}

(* Once the user stays on a cluster, the failures have ceased and no version *)
(* is asked for in vain, the channel settles: refused resources, relists and *)
(* timers make no reconnect loop, whatever views come and go.                *)
Settles == \A c \in Cluster : <>[](cl = c /\ ~AsksInVain) => <>[](ctl.st = "live")

(* A live watch brings every change to the views.                            *)
IsFollowed(r) == ctl.st = "live" /\ chan # None /\ chan.up[r] = "open" /\ r \notin torn
Converges == \A r \in Resource \ Forbidden : <>[]IsFollowed(r) => <>[]ShownTo(r, Now)
=============================================================================
