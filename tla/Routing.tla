------------------------------ MODULE Routing ------------------------------
(***************************************************************************)
(* shortest_path_routing: how the nodes of the network find their way to a *)
(* producer.  Every node keeps the routes its neighbours advertised, the   *)
(* one it uses, and for every router that announced the producer the best  *)
(* distance it ever advertised itself (the feasibility distance of babel). *)
(*                                                                         *)
(* Producers are independent of each other, so there is one producer here, *)
(* the one that the node Origin runs.  A connection is a peer_id on each   *)
(* of its two ends; it is used once, and each end finds out for itself     *)
(* that it is gone.  Messages of a connection arrive in order.             *)
(***************************************************************************)
EXTENDS Integers, Sequences, SequencesExt, FiniteSets

CONSTANTS
  Node,         \* all nodes
  Origin,       \* the node that runs the producer
  Scenarios,    \* what can happen in the network, see IsScenario
  FirstSeqno,   \* how often the Origin's seqno was increased before
  Ttl           \* RouteSeqnoRequest::ttl of a new request

\* The numbers a router id is drawn from.
RouterId == UNION {sc.routers : sc \in Scenarios}

\* A connection can be made as often as there are numbers id for its ends.
Connection == UNION {sc.standing \cup sc.made : sc \in Scenarios}

(***************************************************************************)
(* The bounds.  The connections in standing are there from the start and   *)
(* do not fail, those in made are made at some time, those in failing may  *)
(* fail then.  The nodes in restarting restart, each at most once, the     *)
(* Origin with a new router id out of routers.  schedule says whether the  *)
(* Origin is in the successive producer sets, which every node comes to    *)
(* know in its own time.                                                   *)
(***************************************************************************)
IsScenario(sc) ==
  /\ \A c \in sc.standing \cup sc.made : c.ends \subseteq Node /\ Cardinality(c.ends) = 2
  /\ IsFiniteSet(sc.standing)
  /\ \A c \in sc.standing : Origin \notin c.ends
  /\ sc.failing \subseteq sc.made
  /\ sc.restarting \subseteq Node /\ sc.routers \subseteq Nat
  /\ sc.schedule \in Seq(BOOLEAN) /\ sc.schedule # <<>>

ASSUME NodeAssumption ==
  /\ IsFiniteSet(Node) /\ Origin \in Node
  /\ \A sc \in Scenarios : IsScenario(sc)

VARIABLES
  scenario,  \* the one of Scenarios that is played
  links,     \* links[n]: neighborTable, the open connections in the order of their peer_id
  routes,    \* routes[n]: routeTable, as a function of the router and the connection
  source,    \* source[n]: sourceTable, as a function of the router
  selected,  \* selected[n]: selectedRoutes, the key of the route in use, if any, as a set
  recent,    \* recent[n]: the seqno of recentSeqnoRequests, or NoSeqno
  router,    \* routerId of the Origin
  seqno,     \* seqno of the Origin
  timer,     \* seqnoTimer of the Origin is running
  view,      \* view[n]: how many producer sets of the schedule node n has seen
  opened,    \* opened[c]: the ends that have opened the connection
  restarted, \* the nodes that have restarted
  channel    \* channel[c][n]: the messages on their way to n

vars == <<scenario, links, routes, source, selected, recent, router, seqno, timer, view, opened, restarted, channel>>

tables == <<routes, source, selected>>

origin == <<router, seqno, timer>>

-----------------------------------------------------------------------------
(* Sequence numbers are 16 bits wide and compare in a circle.              *)

SeqnoModulus == 65536

ASSUME SeqnoAssumption == FirstSeqno \in 0..(SeqnoModulus - 1) /\ Ttl \in Nat

\* Mutation: plain numbers, which do not wrap.
SeqnoLessWithoutWrap(a, b) == a < b

SeqnoLess(a, b) == a # b /\ (b - a) % SeqnoModulus < SeqnoModulus \div 2

\* SequenceNumber::operator+ with 1.
NextSeqno(s) == (s + 1) % SeqnoModulus

\* RouteMetric::infinite, and the addition that stops there.
Infinite == 65535

AddMetric(a, b) == IF a + b > Infinite THEN Infinite ELSE a + b

\* Feasibility::operator<: a later seqno first, then a smaller metric.
Better(a, b) ==
  \/ SeqnoLess(b.seqno, a.seqno)
  \/ a.seqno = b.seqno /\ a.metric < b.metric

NoSeqno == -1

UpdateMessage(s, metric, r) == [type |-> "update", seqno |-> s, metric |-> metric, router |-> r]

SeqnoRequest(s, ttl) == [type |-> "seqno request", seqno |-> s, ttl |-> ttl]

RequestRoutes == [type |-> "request routes"]

-----------------------------------------------------------------------------
(* Operators on the tables of one node: its links, routes and source.      *)

Other(c, n) == CHOOSE m \in c.ends : m # n

IsProducer(n) == scenario.schedule[view[n]]

\* The route in use.
Route(n) == CHOOSE k \in selected[n] : TRUE

\* NeighborData::transmissionCost.
TransmissionCost == 1

\* getMetric.
Metric(l, rt, k) ==
  IF Contains(l, k.peer) THEN AddMetric(rt[k].metric, TransmissionCost) ELSE Infinite

\* Mutation: a route at the same distance will do.
IsFeasibleIfEqual(rt, src, k) ==
  \/ rt[k].metric = Infinite
  \/ k.router \notin DOMAIN src
  \/ ~Better(src[k.router], rt[k])

IsFeasible(rt, src, k) ==
  \/ rt[k].metric = Infinite
  \/ k.router \notin DOMAIN src
  \/ Better(rt[k], src[k.router])

\* The place of a connection among those of the node.
PeerId(l, c) == CHOOSE i \in 1..Len(l) : l[i] = c

\* The order of routeTable: by router and then by peer_id.
Before(l, j, k) ==
  \/ j.router < k.router
  \/ j.router = k.router /\ PeerId(l, j.peer) < PeerId(l, k.peer)

\* The first of the routes in K with the least metric.
FirstBest(l, rt, K) ==
  CHOOSE k \in K : \A j \in K \ {k} :
    \/ Metric(l, rt, k) < Metric(l, rt, j)
    \/ Metric(l, rt, k) = Metric(l, rt, j) /\ Before(l, k, j)

Usable(l, rt, src) ==
  {k \in DOMAIN rt : IsFeasible(rt, src, k) /\ Metric(l, rt, k) < Infinite}

\* What this node advertises for the route k.
Advertised(l, rt, k) == UpdateMessage(rt[k].seqno, Metric(l, rt, k), k.router)

\* Mutation: the first distance counts, not the best one.
FirstAdvertised(l, rt, src, k) ==
  IF k.router \in DOMAIN src THEN src
  ELSE [r \in DOMAIN src \cup {k.router} |->
          IF r = k.router THEN [seqno |-> rt[k].seqno, metric |-> Metric(l, rt, k)] ELSE src[r]]

\* sourceTable when the route k is advertised: the best distance counts.
Lowered(l, rt, src, k) ==
  LET new == [seqno |-> rt[k].seqno, metric |-> Metric(l, rt, k)]
  IN  IF k.router \notin DOMAIN src \/ Better(new, src[k.router])
        THEN [r \in DOMAIN src \cup {k.router} |-> IF r = k.router THEN new ELSE src[r]]
        ELSE src

-----------------------------------------------------------------------------
(* What a node sends and what it does with its tables.                     *)

\* The far end of the connection has not closed it (it may not have opened it).
CanReceive(c, m) == m \notin opened[c] \/ Contains(links[m], c)

\* async_send; a message to an end that is gone is lost.
Send(ch, n, c, messages) ==
  IF CanReceive(c, Other(c, n))
    THEN [ch EXCEPT ![c][Other(c, n)] = @ \o messages]
    ELSE ch

\* multicast to the connections in l.
Multicast(ch, n, l, messages) ==
  [c \in Connection |-> IF Contains(l, c) THEN Send(ch, n, c, messages)[c] ELSE ch[c]]

\* selectRoute(route, updatedRoute).
UseRoute(n, l, rt, k, updated, ch) ==
  /\ selected' = [selected EXCEPT ![n] = {k}]
  /\ IF k \notin selected[n] \/ k.peer = updated
       THEN /\ source' = [source EXCEPT ![n] = Lowered(l, rt, @, k)]
            /\ channel' = Multicast(ch, n, l, <<Advertised(l, rt, k)>>)
       ELSE source' = source /\ channel' = ch

\* sendSeqnoRequest.
RequestSeqno(n, r) ==
  IF r \in DOMAIN source[n] THEN <<SeqnoRequest(NextSeqno(source[n][r].seqno), Ttl)>> ELSE <<>>

\* The end of selectRoute when there is no route left.
GiveUpRoute(n, l, ch) ==
  /\ selected' = [selected EXCEPT ![n] = {}]
  /\ source' = source
  /\ channel' =
       IF selected[n] = {}
         THEN ch
         ELSE Multicast(ch, n, l, <<UpdateMessage(0, Infinite, Route(n).router)>>
                                    \o RequestSeqno(n, Route(n).router))

\* selectRoute(producer, updated) of the node n, whose links are l, after its
\* routeTable has become rt; ch is what it has sent so far.
SelectRoute(n, l, rt, updated, ch) ==
  /\ routes' = [routes EXCEPT ![n] = rt]
  /\ \/ /\ Usable(l, rt, source[n]) # {}
        /\ UseRoute(n, l, rt, FirstBest(l, rt, Usable(l, rt, source[n])), updated, ch)
     \/ /\ Usable(l, rt, source[n]) = {}
        /\ GiveUpRoute(n, l, ch)

\* send_routes.
RoutesOf(n) ==
  IF n = Origin
    THEN IF IsProducer(n) THEN <<UpdateMessage(seqno, 0, router)>> ELSE <<>>
  ELSE IF selected[n] = {}
    THEN <<>>
  ELSE <<Advertised(links[n], routes[n], Route(n))>>

-----------------------------------------------------------------------------
(* Connections.                                                            *)

\* connect, when one end adds the connection.
Connect(n, c) ==
  /\ c \in scenario.made
  /\ n \notin opened[c]
  /\ opened' = [opened EXCEPT ![c] = @ \cup {n}]
  /\ links' = [links EXCEPT ![n] = Append(@, c)]
  /\ channel' = Send(channel, n, c, RoutesOf(n))
  /\ UNCHANGED <<scenario, tables, recent, origin, view, restarted>>

\* The other end has gone, or the connection failed by itself.
IsBroken(n, c) == c \notin scenario.failing => ~CanReceive(c, Other(c, n))

\* Mutation: only the connection goes, not its routes.
AllRoutes(n, c) == routes[n]

\* routeTable without the routes of the connection.
RemainingRoutes(n, c) == [k \in {k \in DOMAIN routes[n] : k.peer # c} |-> routes[n][k]]

\* neighborTable without the connection.
RemainingLinks(n, c) == RemoveAt(links[n], PeerId(links[n], c))

\* disconnect: the routes of the connection go, and if the one in use is among
\* them another one is selected.
Disconnect(n, c) ==
  LET left == RemainingRoutes(n, c)
      ch == [channel EXCEPT ![c][n] = <<>>]
  IN  /\ Contains(links[n], c)
      /\ IsBroken(n, c)
      /\ links' = [links EXCEPT ![n] = RemainingLinks(n, c)]
      /\ IF \E k \in selected[n] : k.peer = c
           THEN SelectRoute(n, RemainingLinks(n, c), left, c, ch)
           ELSE /\ routes' = [routes EXCEPT ![n] = left]
                /\ channel' = ch
                /\ UNCHANGED <<source, selected>>
      /\ UNCHANGED <<scenario, recent, origin, view, opened, restarted>>

\* A node starts anew: it has a new router id, and its peers have yet to notice.
Restart(n) ==
  /\ n \in scenario.restarting \ restarted
  /\ restarted' = restarted \cup {n}
  /\ links' = [links EXCEPT ![n] = <<>>]
  /\ routes' = [routes EXCEPT ![n] = <<>>]
  /\ source' = [source EXCEPT ![n] = <<>>]
  /\ selected' = [selected EXCEPT ![n] = {}]
  /\ recent' = [recent EXCEPT ![n] = NoSeqno]
  /\ IF n = Origin
       THEN router' \in scenario.routers \ {router} /\ seqno' = 0 /\ timer' = FALSE
       ELSE UNCHANGED origin
  /\ channel' = [c \in Connection |->
                   IF n \in opened[c] THEN [channel[c] EXCEPT ![n] = <<>>] ELSE channel[c]]
  /\ UNCHANGED <<scenario, view, opened>>

\* The Origin is in the next producer set that n sees.
Listed(n) == scenario.schedule[view[n] + 1]

\* Mutation: the neighbours' routes are not asked for.
OnProducerChangePurges(n) ==
  /\ view[n] < Len(scenario.schedule)
  /\ view' = [view EXCEPT ![n] = @ + 1]
  /\ IF Listed(n)
       THEN UNCHANGED tables
       ELSE /\ routes' = [routes EXCEPT ![n] = <<>>]
            /\ source' = [source EXCEPT ![n] = <<>>]
            /\ selected' = [selected EXCEPT ![n] = {}]
  /\ channel' = Multicast(channel, n, links[n],
                  IF n = Origin /\ Listed(n) THEN <<UpdateMessage(seqno, 0, router)>> ELSE <<>>)
  /\ UNCHANGED <<scenario, links, recent, origin, opened, restarted>>

\* on_producer_change: the routes of a producer that is one no longer are
\* purged, without a word to the neighbours, and then theirs are asked for.
OnProducerChange(n) ==
  /\ view[n] < Len(scenario.schedule)
  /\ view' = [view EXCEPT ![n] = @ + 1]
  /\ IF Listed(n)
       THEN UNCHANGED tables
       ELSE /\ routes' = [routes EXCEPT ![n] = <<>>]
            /\ source' = [source EXCEPT ![n] = <<>>]
            /\ selected' = [selected EXCEPT ![n] = {}]
  /\ channel' = Multicast(channel, n, links[n],
                  (IF n = Origin /\ Listed(n) THEN <<UpdateMessage(seqno, 0, router)>> ELSE <<>>)
                    \o <<RequestRoutes>>)
  /\ UNCHANGED <<scenario, links, recent, origin, opened, restarted>>

-----------------------------------------------------------------------------
(* Messages.                                                               *)

Received(n, c) == [channel EXCEPT ![c][n] = Tail(@)]

HasMessage(n, c, type) ==
  /\ Contains(links[n], c)
  /\ channel[c][n] # <<>>
  /\ Head(channel[c][n]).type = type

\* recv(RouteUpdateMessage), and updateRoute.
RecvUpdate(n, c) ==
  LET m == Head(channel[c][n])
      key == [router |-> m.router, peer |-> c]
      data == [seqno |-> m.seqno, metric |-> m.metric]
      known == key \in DOMAIN routes[n]
      isNews == IF known THEN routes[n][key] # data ELSE m.metric # Infinite
  IN  /\ HasMessage(n, c, "update")
      /\ IF n # Origin /\ IsProducer(n) /\ isNews
           THEN SelectRoute(n, links[n],
                  [k \in DOMAIN routes[n] \cup {key} |-> IF k = key THEN data ELSE routes[n][k]],
                  c, Received(n, c))
           ELSE UNCHANGED tables /\ channel' = Received(n, c)
      /\ UNCHANGED <<scenario, links, recent, origin, view, opened, restarted>>

\* Mutation: whoever is asked for its routes asks back.
RecvRequestRoutesBothWays(n, c) ==
  /\ HasMessage(n, c, "request routes")
  /\ channel' = Send(Received(n, c), n, c, RoutesOf(n) \o <<RequestRoutes>>)
  /\ UNCHANGED <<scenario, links, tables, recent, origin, view, opened, restarted>>

\* recv(RequestRoutesMessage).
RecvRequestRoutes(n, c) ==
  /\ HasMessage(n, c, "request routes")
  /\ channel' = Send(Received(n, c), n, c, RoutesOf(n))
  /\ UNCHANGED <<scenario, links, tables, recent, origin, view, opened, restarted>>

\* incrementSeqno: at once, or when the timer fires if the last time was less
\* than minSeqnoUpdateInterval ago.
IncrementSeqno(ch) ==
  \/ /\ seqno' = NextSeqno(seqno)
     /\ channel' = Multicast(ch, Origin, links[Origin], <<UpdateMessage(NextSeqno(seqno), 0, router)>>)
     /\ UNCHANGED <<router, timer>>
  \/ /\ seqno # FirstSeqno
     /\ timer' = TRUE
     /\ channel' = ch
     /\ UNCHANGED <<router, seqno>>

SeqnoTimer ==
  /\ timer
  /\ timer' = FALSE
  /\ seqno' = NextSeqno(seqno)
  /\ channel' = Multicast(channel, Origin, links[Origin], <<UpdateMessage(NextSeqno(seqno), 0, router)>>)
  /\ UNCHANGED <<scenario, links, tables, recent, router, view, opened, restarted>>

\* makeUpdate has an answer: this node's route is as recent as requested.
CanAnswer(n, m) ==
  /\ selected[n] # {}
  /\ Metric(links[n], routes[n], Route(n)) # Infinite
  /\ ~SeqnoLess(routes[n][Route(n)].seqno, m.seqno)

\* Where forwardSeqnoRequest sends the request: along the route in use, or the
\* best one in routeTable, feasible or not.
ForwardTo(n) ==
  LET known == {k \in DOMAIN routes[n] : Metric(links[n], routes[n], k) < Infinite}
  IN  IF selected[n] # {} THEN {Route(n).peer}
      ELSE IF known = {} THEN {}
      ELSE {FirstBest(links[n], routes[n], known).peer}

\* forwardSeqnoRequest and cacheSeqnoRequest.  A request that was forwarded
\* before is dropped, or forwarded again if seqnoCacheMaxAge has passed.
Forward(n, c, m) ==
  \/ /\ recent[n] = m.seqno
     /\ channel' = Received(n, c)
     /\ UNCHANGED recent
  \/ /\ recent' = [recent EXCEPT ![n] = m.seqno]
     /\ channel' = IF ForwardTo(n) = {} THEN Received(n, c)
                   ELSE Send(Received(n, c), n, CHOOSE d \in ForwardTo(n) : TRUE,
                             <<SeqnoRequest(m.seqno, m.ttl - 1)>>)

\* recv(RouteSeqnoRequest).
RecvSeqnoRequest(n, c) ==
  LET m == Head(channel[c][n])
  IN  /\ HasMessage(n, c, "seqno request")
      /\ \/ /\ CanAnswer(n, m)
            /\ channel' = Send(Received(n, c), n, c, RoutesOf(n))
            /\ UNCHANGED <<recent, origin>>
         \/ /\ n = Origin
            /\ IncrementSeqno(Received(n, c))
            /\ UNCHANGED recent
         \/ /\ n # Origin /\ ~CanAnswer(n, m) /\ m.ttl >= 2
            /\ Forward(n, c, m)
            /\ UNCHANGED origin
         \/ /\ n # Origin /\ ~CanAnswer(n, m) /\ m.ttl < 2
            /\ channel' = Received(n, c)
            /\ UNCHANGED <<recent, origin>>
      /\ UNCHANGED <<scenario, links, tables, view, opened, restarted>>

-----------------------------------------------------------------------------

Init ==
  /\ scenario \in Scenarios
  /\ links = [n \in Node |-> SetToSeq({c \in scenario.standing : n \in c.ends})]
  /\ routes = [n \in Node |-> <<>>]
  /\ source = [n \in Node |-> <<>>]
  /\ selected = [n \in Node |-> {}]
  /\ recent = [n \in Node |-> NoSeqno]
  /\ router \in scenario.routers
  /\ seqno = FirstSeqno
  /\ timer = FALSE
  /\ view = [n \in Node |-> 1]
  /\ opened = [c \in Connection |-> IF c \in scenario.standing THEN c.ends ELSE {}]
  /\ restarted = {}
  /\ channel = [c \in Connection |-> [n \in c.ends |-> <<>>]]

Recv(n, c) == RecvUpdate(n, c) \/ RecvRequestRoutes(n, c) \/ RecvSeqnoRequest(n, c)

Next ==
  \/ \E c \in Connection : \E n \in c.ends : Connect(n, c) \/ Disconnect(n, c) \/ Recv(n, c)
  \/ \E n \in Node : Restart(n) \/ OnProducerChange(n)
  \/ SeqnoTimer

Spec == Init /\ [][Next]_vars

-----------------------------------------------------------------------------
(* Fairness: a node that has something to read, or whose timer has         *)
(* expired, is served in the end.                                          *)

Handle == SeqnoTimer \/ \E c \in Connection : \E n \in c.ends : Recv(n, c)

\* Handle is enabled.
CanHandle == timer \/ \E n \in Node : \E c \in ToSet(links[n]) : channel[c][n] # <<>>

FairSpec == Spec /\ ([]<>~CanHandle \/ []<><<Handle>>_vars)

-----------------------------------------------------------------------------
(* Properties.                                                             *)

RouteKey == [router : RouterId, peer : Connection]

Distance == [seqno : 0..(SeqnoModulus - 1), metric : 0..Infinite]

\* The tables of a node belong together, whatever was disconnected, purged or
\* restarted: a route leads over an open connection (getMetric finds it in
\* neighborTable), the route in use is in routeTable (send_routes and makeUpdate
\* find it there) and its router is in sourceTable (sendSeqnoRequest finds it).
TypeOK ==
  /\ router \in RouterId
  /\ seqno \in 0..(SeqnoModulus - 1)
  /\ \A n \in Node :
       /\ \A k \in DOMAIN routes[n] :
            k \in RouteKey /\ Contains(links[n], k.peer) /\ routes[n][k] \in Distance
       /\ \A r \in DOMAIN source[n] : r \in RouterId /\ source[n][r] \in Distance
       /\ selected[n] \subseteq DOMAIN routes[n]
       /\ Cardinality(selected[n]) <= 1
       /\ \A k \in selected[n] : k.router \in DOMAIN source[n]

\* The next node on the way from n to the router r, if n uses a route to it and
\* the connection is still open at the other end.
NextHops(n, r) ==
  UNION {{m \in k.peer.ends \ {n} : Contains(links[m], k.peer)} :
           k \in {k \in selected[n] : k.router = r}}

\* The routes in use that lead to the same router never form a loop, however the
\* updates, the requests for a newer seqno and the failures are interleaved: no
\* set of nodes passes a message around among themselves.  This is what the
\* feasibility condition of isFeasible is there for.
LoopFree ==
  \A r \in RouterId : \A S \in SUBSET (Node \ {Origin}) :
    S # {} => \E n \in S : ~ (NextHops(n, r) # {} /\ NextHops(n, r) \subseteq S)

\* Why there is no loop: along a route, each node has a better distance in its
\* sourceTable than the one before it.
DistanceDecreases ==
  \A n \in Node, r \in RouterId : \A m \in NextHops(n, r) :
    (\E k \in selected[m] : k.router = r) => Better(source[m][r], source[n][r])

\* Every connection is open at both ends or closed at both, all messages have
\* been handled and all nodes know the last producer set.
AtRest ==
  /\ ~CanHandle
  /\ \A c \in Connection : \A n \in opened[c] :
       Contains(links[n], c) => Contains(links[Other(c, n)], c)
  /\ \A n \in Node : view[n] = Len(scenario.schedule)

\* The distances that the node m advertises to its neighbours for the router r.
OfferedBy(m, r) ==
  {[seqno |-> u.seqno, metric |-> u.metric] : u \in {u \in ToSet(RoutesOf(m)) : u.router = r}}

\* The distance that the node n has stored for the router r of the peer c.
KnownTo(n, c, r) ==
  {d \in {routes[n][k] : k \in {k \in DOMAIN routes[n] : k.router = r /\ k.peer = c}} :
     d.metric # Infinite}

\* No update is missed: when the network is at rest every node knows exactly what
\* each neighbour would advertise, although updates are only sent on a change,
\* are dropped by a node that does not know the producer yet, and are purged when
\* the producers change.  After a restart of the producer this is only so for the
\* router that the neighbour uses: nobody retracts the routes to the old one.
TablesAgreeAtRest ==
  AtRest =>
    \A n \in Node \ {Origin} : \A c \in ToSet(links[n]) : \A r \in RouterId :
      IsProducer(n) =>
        \/ KnownTo(n, c, r) = OfferedBy(Other(c, n), r)
        \/ OfferedBy(Other(c, n), r) = {} /\ Origin \in restarted

\* How often the seqno has been increased since the start of the model.
Increments(s) == (s - FirstSeqno) % SeqnoModulus

\* A newer seqno ends starvation, also if the number wraps: a node that knows a way to
\* the producer with a later seqno than it ever advertised is not left without a route,
\* whatever was retracted, purged or disconnected meanwhile (isFeasible with operator<
\* of SequenceNumber).
NewerSeqnoEndsStarvation ==
  \A n \in Node \ {Origin} : \A k \in DOMAIN routes[n] :
    (/\ Metric(links[n], routes[n], k) < Infinite
     /\ k.router \in DOMAIN source[n]
     /\ Increments(routes[n][k].seqno) > Increments(source[n][k.router].seqno))
    => selected[n] # {}

\* The nodes stop talking: an update does not chase another one around the
\* network, and neither do the requests for a newer seqno.
Settles == <>[]~CanHandle

\* The aim stated at the top of shortest_path_routing.hpp, for the routes a
\* network at rest keeps: they form no loop, whichever router they lead to.
NoLoopAtRest ==
  AtRest =>
    \A S \in SUBSET (Node \ {Origin}) :
      S # {} => \E n \in S : \A r \in RouterId : ~ (NextHops(n, r) # {} /\ NextHops(n, r) \subseteq S)

\* A node at rest has a route if one of its neighbours has.  sendSeqnoRequest asks once,
\* when the route is lost, so that this is not so if the request comes to an end at a node
\* that has no route either, or has forwarded the same request before.
NobodyStarvesAtRest ==
  AtRest =>
    \A n \in Node \ {Origin} : \A c \in ToSet(links[n]) :
      IsProducer(n) /\ OfferedBy(Other(c, n), router) # {} => selected[n] # {}
=============================================================================
