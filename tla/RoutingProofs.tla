--------------------------- MODULE RoutingProofs ---------------------------
(***************************************************************************)
(* Routes to the same router never form a loop, in any network.            *)
(*                                                                         *)
(* What a node has advertised is never better than the distance in its     *)
(* sourceTable, as long as the connection is open.  A route is selected    *)
(* only if it is better than the node's own distance; from then on that is *)
(* one more than the route's.  Along routes the distances decrease.        *)
(***************************************************************************)
EXTENDS Routing, FiniteSetTheorems, WellFoundedInduction, TLAPS

-----------------------------------------------------------------------------
(***************************************************************************)
(* Messages.                                                               *)
(***************************************************************************)
Update ==
  [type : {"update"}, seqno : 0..(SeqnoModulus - 1), metric : 0..Infinite, router : RouterId]

Message == Update \cup [type : {"seqno request"}, seqno : Nat, ttl : Int] \cup {RequestRoutes}

ChannelType(ch) ==
  /\ DOMAIN ch = Connection
  /\ \A c \in Connection : DOMAIN ch[c] = c.ends /\ \A x \in c.ends : ch[c][x] \in Seq(Message)

\* The messages on their way to the end x of a connection.
InTransit(ch, c, x) == {ch[c][x][i] : i \in 1..Len(ch[c][x])}

\* The distance in an update that is not a retraction.
IsOffer(u) == u.type = "update" /\ u.metric # Infinite

DistanceIn(u) == [seqno |-> u.seqno, metric |-> u.metric]

\* From ch to ch2 the node n, whose connections are l, sends messages out of M.
Sends(ch, ch2, n, l, M) ==
  /\ ChannelType(ch2)
  /\ \A c \in Connection : \A x \in c.ends : \A u \in InTransit(ch2, c, x) :
       u \in InTransit(ch, c, x) \/ (x # n /\ Contains(l, c) /\ u \in M)

-----------------------------------------------------------------------------
(***************************************************************************)
(* The tables of one node, and the invariant.                              *)
(***************************************************************************)
RoutesOK(l, rt) ==
  \A k \in DOMAIN rt : k \in RouteKey /\ Contains(l, k.peer) /\ rt[k] \in Distance

SourceOK(src) == \A r \in DOMAIN src : r \in RouterId /\ src[r] \in Distance

\* The route in use has been advertised, and nothing better for the same router.
SelectedOK(rt, src, sel) ==
  sel # {} => \E k \in DOMAIN rt :
    /\ sel = {k} /\ k.router \in DOMAIN src
    /\ src[k.router] = [seqno |-> rt[k].seqno, metric |-> rt[k].metric + 1]
    /\ rt[k].metric + 1 < Infinite

TablesOK(l, rt, src, sel) == RoutesOK(l, rt) /\ SourceOK(src) /\ SelectedOK(rt, src, sel)

LinksOK(op, n, l) ==
  /\ l \in Seq(Connection)
  /\ \A i, j \in 1..Len(l) : l[i] = l[j] => i = j
  /\ \A c \in Connection : Contains(l, c) => n \in c.ends /\ n \in op[c]

\* No producer set with the Origin has been seen.
NeverListed(n) == \A i \in 1..view[n] : ~scenario.schedule[i]

NodeInv(n) ==
  /\ LinksOK(opened, n, links[n])
  /\ TablesOK(links[n], routes[n], source[n], selected[n])
  /\ view[n] \in 1..Len(scenario.schedule)
  /\ n = Origin \/ ~IsProducer(n) => selected[n] = {}
  /\ NeverListed(n) => DOMAIN source[n] = {}

\* Nothing has come over a connection from an end that has not opened it.
Unopened ==
  \A c \in Connection : \A m, x \in c.ends :
    m # x /\ m \notin opened[c] =>
      InTransit(channel, c, x) = {} /\ \A k \in DOMAIN routes[x] : k.peer # c

TypeInv ==
  /\ scenario \in Scenarios
  /\ DOMAIN links = Node /\ DOMAIN routes = Node /\ DOMAIN source = Node
  /\ DOMAIN selected = Node /\ DOMAIN view = Node /\ DOMAIN opened = Connection
  /\ router \in RouterId /\ seqno \in 0..(SeqnoModulus - 1)
  /\ ChannelType(channel)
  /\ \A n \in Node : NodeInv(n)
  /\ Unopened

-----------------------------------------------------------------------------
(***************************************************************************)
(* What the nodes tell each other.                                         *)
(***************************************************************************)
\* The distance d to the router r is not better than the one in src.
Told(src, r, d) == r \in DOMAIN src /\ (src[r] = d \/ Better(src[r], d))

\* No producer set with the Origin will be seen any more.
Purged(n) == \A i \in view[n]..Len(scenario.schedule) : ~scenario.schedule[i]

Honest ==
  \A c \in Connection : \A m, x \in c.ends :
    m # x /\ m # Origin /\ Contains(links[m], c) /\ ~Purged(m) =>
      /\ \A u \in InTransit(channel, c, x) : IsOffer(u) => Told(source[m], u.router, DistanceIn(u))
      /\ \A k \in DOMAIN routes[x] :
           k.peer = c /\ routes[x][k].metric # Infinite => Told(source[m], k.router, routes[x][k])

\* All distances to the router r that a node knows or is being told.
IsKnown(r, d) ==
  \/ \E n \in Node : r \in DOMAIN source[n] /\ source[n][r] = d
  \/ \E n \in Node : \E k \in DOMAIN routes[n] :
       k.router = r /\ routes[n][k] = d /\ d.metric # Infinite
  \/ \E c \in Connection : \E x \in c.ends : \E u \in InTransit(channel, c, x) :
       IsOffer(u) /\ u.router = r /\ DistanceIn(u) = d

Known(r) == {d \in Distance : IsKnown(r, d)}

Recent(top, s) == (top - s) % SeqnoModulus < SeqnoModulus \div 2

\* A seqno has 16 bits: what is known must not be older than half of the circle.
SeqnosAreRecent ==
  \A r \in RouterId : \E top \in 0..(SeqnoModulus - 1) : \A d \in Known(r) : Recent(top, d.seqno)

\* A producer that has left does not come back.
NeverRejoins ==
  \A sc \in Scenarios : \A i, j, k \in 1..Len(sc.schedule) :
    i < j /\ j < k /\ sc.schedule[i] /\ ~sc.schedule[j] => ~sc.schedule[k]


-----------------------------------------------------------------------------
(***************************************************************************)
(* Connections, sequences and the order of distances.                      *)
(***************************************************************************)
\* A non-empty set of natural numbers has a least element.
LEMMA LeastNat ==
  ASSUME NEW S \in SUBSET Nat, S # {}
  PROVE  \E x \in S : \A y \in S : x <= y
<1>1. PICK x \in S : \A y \in S : ~ (<<y, x>> \in OpToRel(<, Nat))
  BY WFMin, NatLessThanWellFounded
<1>2. ASSUME NEW y \in S PROVE x <= y
  <2>1. <<y, x>> \in Nat \X Nat
    OBVIOUS
  <2>2. ~ (y < x)
    BY <1>1, <2>1 DEF OpToRel
  <2> QED
    BY <2>2
<1> QED
  BY <1>2

\* A connection has two ends.
LEMMA TwoEnds ==
  ASSUME NEW c \in Connection
  PROVE  /\ c.ends \subseteq Node
         /\ \A n \in c.ends : /\ Other(c, n) \in c.ends /\ Other(c, n) # n
                              /\ \A m \in c.ends : m # n => m = Other(c, n)
<1>1. PICK sc \in Scenarios : c \in sc.standing \cup sc.made
  BY DEF Connection
<1>2. c.ends \subseteq Node /\ Cardinality(c.ends) = 2
  BY <1>1, NodeAssumption DEF IsScenario
<1>3. IsFiniteSet(c.ends)
  BY <1>2, NodeAssumption, FS_Subset
<1>4. ASSUME NEW n \in c.ends
      PROVE  /\ Other(c, n) \in c.ends /\ Other(c, n) # n
             /\ \A m \in c.ends : m # n => m = Other(c, n)
  <2>1. IsFiniteSet(c.ends \ {n}) /\ Cardinality(c.ends \ {n}) = 1
    <3> DEFINE S == c.ends
    <3>1. IsFiniteSet(S) /\ Cardinality(S) = 2 /\ n \in S
      BY <1>2, <1>3, <1>4
    <3> HIDE DEF S
    <3>2. IsFiniteSet(S \ {n}) /\ Cardinality(S \ {n}) = Cardinality(S) - 1
      BY <3>1, FS_RemoveElement
    <3> QED
      BY <3>1, <3>2 DEF S
  <2>2. PICK m : c.ends \ {n} = {m}
    BY <2>1, FS_Singleton
  <2>3. m \in c.ends /\ m # n /\ \A x \in c.ends : x # n => x = m
    BY <2>2
  <2>4. Other(c, n) \in c.ends /\ Other(c, n) # n
    BY <2>3 DEF Other
  <2> QED
    BY <2>3, <2>4
<1> QED
  BY <1>2, <1>4

\* The elements of a concatenation.
LEMMA ConcatElements ==
  ASSUME NEW S, NEW s \in Seq(S), NEW t \in Seq(S)
  PROVE  /\ s \o t \in Seq(S)
         /\ \A i \in 1..Len(s \o t) :
              (\E j \in 1..Len(s) : (s \o t)[i] = s[j]) \/ (\E j \in 1..Len(t) : (s \o t)[i] = t[j])
<1>1. s \o t \in Seq(S) /\ Len(s \o t) = Len(s) + Len(t)
  OBVIOUS
<1>2. ASSUME NEW i \in 1..Len(s \o t)
      PROVE  (\E j \in 1..Len(s) : (s \o t)[i] = s[j]) \/ (\E j \in 1..Len(t) : (s \o t)[i] = t[j])
  <2>1. CASE i <= Len(s)
    <3>1. i \in 1..Len(s) /\ (s \o t)[i] = s[i]
      BY <1>1, <2>1
    <3> QED
      BY <3>1
  <2>2. CASE i > Len(s)
    <3>1. i - Len(s) \in 1..Len(t) /\ (s \o t)[i] = t[i - Len(s)]
      BY <1>1, <2>2
    <3> QED
      BY <3>1
  <2> QED
    BY <1>1, <2>1, <2>2
<1> QED
  BY <1>1, <1>2

\* All that matters of the width of seqnos and metrics.
Half == SeqnoModulus \div 2

LEMMA Widths ==
  /\ SeqnoModulus \in Nat /\ Half \in Nat /\ Half > 0 /\ SeqnoModulus = Half + Half
  /\ Infinite \in Nat /\ Infinite > 0
BY DEF SeqnoModulus, Half, Infinite

LEMMA SmallModulo ==
  ASSUME NEW x \in Int, -SeqnoModulus < x, x < SeqnoModulus
  PROVE  x % SeqnoModulus = IF x < 0 THEN x + SeqnoModulus ELSE x
<1>1. CASE x < 0
  BY <1>1 DEF SeqnoModulus
<1>2. CASE x >= 0
  BY <1>2 DEF SeqnoModulus
<1> QED
  BY <1>1, <1>2, Widths

\* Within half of the circle seqnos compare like their ages.
Age(top, s) == (top - s) % SeqnoModulus

LEMMA AgeOrder ==
  ASSUME NEW top \in 0..(SeqnoModulus - 1),
         NEW a \in 0..(SeqnoModulus - 1), Recent(top, a),
         NEW b \in 0..(SeqnoModulus - 1), Recent(top, b)
  PROVE  /\ Age(top, a) \in Nat
         /\ SeqnoLess(b, a) <=> Age(top, a) < Age(top, b)
         /\ a = b <=> Age(top, a) = Age(top, b)
<1>1. top - a \in Int /\ -SeqnoModulus < top - a /\ top - a < SeqnoModulus
  BY Widths
<1>2. top - b \in Int /\ -SeqnoModulus < top - b /\ top - b < SeqnoModulus
  BY Widths
<1>3. a - b \in Int /\ -SeqnoModulus < a - b /\ a - b < SeqnoModulus
  BY Widths
<1> DEFINE x == (top - a) % SeqnoModulus
           y == (top - b) % SeqnoModulus
           z == (a - b) % SeqnoModulus
<1>4. x = IF top - a < 0 THEN top - a + SeqnoModulus ELSE top - a
  BY <1>1, SmallModulo
<1>5. y = IF top - b < 0 THEN top - b + SeqnoModulus ELSE top - b
  BY <1>2, SmallModulo
<1>6. z = IF a - b < 0 THEN a - b + SeqnoModulus ELSE a - b
  BY <1>3, SmallModulo
<1>7. x < Half /\ y < Half
  BY DEF Recent, Half
<1>8. /\ Age(top, a) = x /\ Age(top, b) = y
      /\ SeqnoLess(b, a) <=> b # a /\ z < Half
  BY DEF Age, SeqnoLess, Half
<1> HIDE DEF x, y, z
<1>9. x \in Nat /\ (b # a /\ z < Half <=> x < y) /\ (a = b <=> x = y)
  BY <1>1, <1>2, <1>3, <1>4, <1>5, <1>6, <1>7, Widths
<1> QED
  BY <1>8, <1>9

LEMMA BetterTrans ==
  ASSUME NEW top \in 0..(SeqnoModulus - 1),
         NEW a \in Distance, NEW b \in Distance, NEW d \in Distance,
         Recent(top, a.seqno), Recent(top, b.seqno), Recent(top, d.seqno),
         Better(a, b), b = d \/ Better(b, d)
  PROVE  Better(a, d)
<1>1. /\ a.seqno \in 0..(SeqnoModulus - 1) /\ b.seqno \in 0..(SeqnoModulus - 1)
      /\ d.seqno \in 0..(SeqnoModulus - 1) /\ a.metric \in Nat /\ b.metric \in Nat /\ d.metric \in Nat
  BY Widths DEF Distance
<1> DEFINE x == Age(top, a.seqno)
           y == Age(top, b.seqno)
           z == Age(top, d.seqno)
<1>2. x \in Nat /\ (SeqnoLess(b.seqno, a.seqno) <=> x < y) /\ (a.seqno = b.seqno <=> x = y)
  BY <1>1, AgeOrder
<1>3. y \in Nat /\ (SeqnoLess(d.seqno, b.seqno) <=> y < z) /\ (b.seqno = d.seqno <=> y = z)
  BY <1>1, AgeOrder
<1>4. z \in Nat /\ (SeqnoLess(d.seqno, a.seqno) <=> x < z) /\ (a.seqno = d.seqno <=> x = z)
  BY <1>1, AgeOrder
<1> HIDE DEF x, y, z
<1>5. CASE b = d
  BY <1>5
<1>6. CASE Better(b, d)
  BY <1>1, <1>2, <1>3, <1>4, <1>6 DEF Better
<1> QED
  BY <1>5, <1>6

-----------------------------------------------------------------------------
(***************************************************************************)
(* Sending.                                                                *)
(***************************************************************************)
\* The elements of a sequence of messages.
Elements(s) == {s[i] : i \in 1..Len(s)}

LEMMA SendsTrans ==
  ASSUME NEW ch, NEW ch1, NEW ch2, NEW n, NEW l, NEW M,
         Sends(ch, ch1, n, l, M), Sends(ch1, ch2, n, l, M)
  PROVE  Sends(ch, ch2, n, l, M)
BY DEF Sends

LEMMA SendsMore ==
  ASSUME NEW ch, NEW ch1, NEW n, NEW l, NEW M, NEW L, M \subseteq L, Sends(ch, ch1, n, l, M)
  PROVE  Sends(ch, ch1, n, l, L)
BY DEF Sends

LEMMA SendsNothing ==
  ASSUME NEW ch, ChannelType(ch), NEW n, NEW l
  PROVE  Sends(ch, ch, n, l, {})
BY DEF Sends

\* Messages of one channel are taken away.
LEMMA FewerMessages ==
  ASSUME NEW ch, ChannelType(ch), NEW c \in Connection, NEW n \in c.ends,
         NEW s \in Seq(Message), Elements(s) \subseteq InTransit(ch, c, n), NEW l
  PROVE  Sends(ch, [ch EXCEPT ![c][n] = s], n, l, {})
<1> DEFINE ch2 == [ch EXCEPT ![c][n] = s]
<1>1. ChannelType(ch2)
  BY DEF ChannelType
<1>2. ASSUME NEW d \in Connection, NEW x \in d.ends, NEW u \in InTransit(ch2, d, x)
      PROVE  u \in InTransit(ch, d, x)
  <2>1. CASE d = c /\ x = n
    <3>1. ch2[d][x] = s
      BY <2>1 DEF ChannelType
    <3> QED
      BY <1>2, <2>1, <3>1 DEF InTransit, Elements
  <2>2. CASE ~(d = c /\ x = n)
    <3>1. ch2[d][x] = ch[d][x]
      BY <2>2 DEF ChannelType
    <3> QED
      BY <1>2, <3>1 DEF InTransit
  <2> QED
    BY <2>1, <2>2
<1> HIDE DEF ch2
<1>3. Sends(ch, ch2, n, l, {})
  BY <1>1, <1>2 DEF Sends
<1> QED
  BY <1>3 DEF ch2

\* async_send.
LEMMA SendSends ==
  ASSUME NEW ch, ChannelType(ch), NEW c \in Connection, NEW n \in c.ends,
         NEW s \in Seq(Message), NEW l, Contains(l, c)
  PROVE  Sends(ch, Send(ch, n, c, s), n, l, Elements(s))
<1> DEFINE o == Other(c, n)
           old == ch[c][o]
           ch2 == [ch EXCEPT ![c][o] = @ \o s]
<1>1. o \in c.ends /\ o # n
  BY TwoEnds
<1>2. old \in Seq(Message) /\ ch2[c][o] = old \o s
  BY <1>1 DEF ChannelType
<1>3. /\ old \o s \in Seq(Message)
      /\ \A i \in 1..Len(old \o s) :
           (\E j \in 1..Len(old) : (old \o s)[i] = old[j]) \/ (\E j \in 1..Len(s) : (old \o s)[i] = s[j])
  <2> HIDE DEF old
  <2> QED
    BY <1>2, ConcatElements
<1>4. ChannelType(ch2)
  <2>1. DOMAIN ch2 = Connection /\ \A d \in Connection : DOMAIN ch2[d] = DOMAIN ch[d]
    BY DEF ChannelType
  <2>2. ASSUME NEW d \in Connection, NEW x \in d.ends PROVE ch2[d][x] \in Seq(Message)
    <3>1. CASE d = c /\ x = o
      BY <1>2, <1>3, <3>1
    <3>2. CASE ~(d = c /\ x = o)
      BY <3>2 DEF ChannelType
    <3> QED
      BY <3>1, <3>2
  <2> HIDE DEF ch2
  <2> QED
    BY <2>1, <2>2 DEF ChannelType
<1>5. ASSUME NEW d \in Connection, NEW x \in d.ends, NEW u \in InTransit(ch2, d, x)
      PROVE  u \in InTransit(ch, d, x) \/ (x # n /\ Contains(l, d) /\ u \in Elements(s))
  <2>1. CASE d = c /\ x = o
    <3>1. PICK i \in 1..Len(ch2[c][o]) : u = ch2[c][o][i]
      BY <1>5, <2>1 DEF InTransit
    <3>2. u \in InTransit(ch, c, o) \/ u \in Elements(s)
      BY <1>2, <1>3, <3>1 DEF InTransit, Elements
    <3> QED
      BY <1>1, <2>1, <3>2
  <2>2. CASE ~(d = c /\ x = o)
    <3>1. ch2[d][x] = ch[d][x]
      BY <2>2 DEF ChannelType
    <3> QED
      BY <1>5, <3>1 DEF InTransit
  <2> QED
    BY <2>1, <2>2
<1> HIDE DEF ch2
<1>6. Sends(ch, ch2, n, l, Elements(s))
  BY <1>4, <1>5 DEF Sends
<1>7. Sends(ch, ch, n, l, Elements(s))
  BY DEF Sends
<1> QED
  BY <1>6, <1>7 DEF Send, ch2, o

\* multicast.
LEMMA MulticastSends ==
  ASSUME NEW ch, ChannelType(ch), NEW n, NEW l,
         \A c \in Connection : Contains(l, c) => n \in c.ends,
         NEW s \in Seq(Message)
  PROVE  Sends(ch, Multicast(ch, n, l, s), n, l, Elements(s))
<1> DEFINE ch2 == Multicast(ch, n, l, s)
<1>1. DOMAIN ch2 = Connection
  BY DEF Multicast
<1>2. ASSUME NEW c \in Connection
      PROVE  /\ DOMAIN ch2[c] = c.ends /\ \A x \in c.ends : ch2[c][x] \in Seq(Message)
             /\ \A x \in c.ends : \A u \in InTransit(ch2, c, x) :
                  u \in InTransit(ch, c, x) \/ (x # n /\ Contains(l, c) /\ u \in Elements(s))
  <2>1. CASE Contains(l, c)
    <3> DEFINE ch1 == Send(ch, n, c, s)
    <3>1. Sends(ch, ch1, n, l, Elements(s))
      BY <2>1, SendSends
    <3>2. ch2[c] = ch1[c]
      BY <2>1 DEF Multicast
    <3> HIDE DEF ch1, ch2
    <3>3. \A x \in c.ends : InTransit(ch2, c, x) = InTransit(ch1, c, x)
      BY <3>2 DEF InTransit
    <3>4. DOMAIN ch1[c] = c.ends /\ \A x \in c.ends : ch1[c][x] \in Seq(Message)
      BY <3>1 DEF Sends, ChannelType
    <3>5. \A x \in c.ends : \A u \in InTransit(ch1, c, x) :
            u \in InTransit(ch, c, x) \/ (x # n /\ Contains(l, c) /\ u \in Elements(s))
      BY <3>1 DEF Sends
    <3> QED
      BY <3>2, <3>3, <3>4, <3>5
  <2>2. CASE ~Contains(l, c)
    <3>1. ch2[c] = ch[c]
      BY <2>2 DEF Multicast
    <3> HIDE DEF ch2
    <3> QED
      BY <3>1 DEF ChannelType, InTransit
  <2> QED
    BY <2>1, <2>2
<1> HIDE DEF ch2
<1>3. Sends(ch, ch2, n, l, Elements(s))
  BY <1>1, <1>2 DEF Sends, ChannelType
<1> QED
  BY <1>3 DEF ch2

\* recv.
LEMMA ReceivedSends ==
  ASSUME ChannelType(channel), NEW c \in Connection, NEW n \in c.ends, channel[c][n] # <<>>, NEW l
  PROVE  /\ Sends(channel, Received(n, c), n, l, {})
         /\ Head(channel[c][n]) \in Message
         /\ Head(channel[c][n]) \in InTransit(channel, c, n)
<1> DEFINE s == channel[c][n]
<1>1. s \in Seq(Message) /\ s # <<>>
  BY DEF ChannelType
<1>2. Len(s) \in Nat /\ Len(s) >= 1 /\ Head(s) = s[1] /\ s[1] \in Message
  BY <1>1
<1>3. Tail(s) \in Seq(Message) /\ \A i \in 1..Len(Tail(s)) : i + 1 \in 1..Len(s) /\ Tail(s)[i] = s[i + 1]
  BY <1>1
<1>4. Elements(Tail(s)) \subseteq InTransit(channel, c, n)
  BY <1>3 DEF Elements, InTransit
<1>5. Sends(channel, [channel EXCEPT ![c][n] = Tail(s)], n, l, {})
  BY <1>3, <1>4, FewerMessages
<1>6. Received(n, c) = [channel EXCEPT ![c][n] = Tail(s)]
  BY DEF Received
<1>7. 1 \in 1..Len(s)
  BY <1>2
<1> QED
  BY <1>2, <1>5, <1>6, <1>7 DEF InTransit

-----------------------------------------------------------------------------
(***************************************************************************)
(* Selecting a route.                                                      *)
(***************************************************************************)
LEMMA PeerIdFacts ==
  ASSUME NEW l, NEW c, Contains(l, c)
  PROVE  PeerId(l, c) \in 1..Len(l) /\ l[PeerId(l, c)] = c
<1>1. \E i \in 1..Len(l) : l[i] = c
  BY DEF Contains
<1> QED
  BY <1>1 DEF PeerId

\* neighborTable without a connection.
LEMMA RemainingLinksFacts ==
  ASSUME NEW n, NEW c, LinksOK(opened, n, links[n]), Contains(links[n], c)
  PROVE  LET t == RemainingLinks(n, c)
         IN  LinksOK(opened, n, t) /\ \A d : Contains(t, d) <=> Contains(links[n], d) /\ d # c
<1> DEFINE l == links[n]
           p == PeerId(l, c)
           t == RemainingLinks(n, c)
<1>1. l \in Seq(Connection) /\ Len(l) \in Nat /\ \A i, j \in 1..Len(l) : l[i] = l[j] => i = j
  BY DEF LinksOK
<1>2. p \in 1..Len(l) /\ l[p] = c
  BY PeerIdFacts
<1>3. t = SubSeq(l, 1, p - 1) \o SubSeq(l, p + 1, Len(l))
  BY DEF RemainingLinks, RemoveAt
<1> HIDE DEF l, p, t
<1>4. SubSeq(l, 1, p - 1) \in Seq(Connection) /\ Len(SubSeq(l, 1, p - 1)) = p - 1
      /\ \A i \in 1..(p - 1) : SubSeq(l, 1, p - 1)[i] = l[i]
  BY <1>1, <1>2
<1>5. SubSeq(l, p + 1, Len(l)) \in Seq(Connection) /\ Len(SubSeq(l, p + 1, Len(l))) = Len(l) - p
      /\ \A i \in 1..(Len(l) - p) : SubSeq(l, p + 1, Len(l))[i] = l[p + i]
  BY <1>1, <1>2
<1> DEFINE s1 == SubSeq(l, 1, p - 1)
           s2 == SubSeq(l, p + 1, Len(l))
<1> HIDE DEF s1, s2
<1>6. /\ t \in Seq(Connection) /\ Len(t) = Len(l) - 1
      /\ \A i \in 1..Len(t) : t[i] = IF i < p THEN l[i] ELSE l[i + 1]
  <2>1. s1 \in Seq(Connection) /\ Len(s1) = p - 1 /\ \A i \in 1..(p - 1) : s1[i] = l[i]
    BY <1>4 DEF s1
  <2>2. s2 \in Seq(Connection) /\ Len(s2) = Len(l) - p /\ \A i \in 1..(Len(l) - p) : s2[i] = l[p + i]
    BY <1>5 DEF s2
  <2>3. t = s1 \o s2
    BY <1>3 DEF s1, s2
  <2>4. t \in Seq(Connection) /\ Len(t) = Len(l) - 1
    <3>1. s1 \in Seq(Connection) /\ s2 \in Seq(Connection)
      BY <2>1, <2>2
    <3>2. s1 \o s2 \in Seq(Connection) /\ Len(s1 \o s2) = Len(s1) + Len(s2)
      BY <3>1
    <3>3. t \in Seq(Connection) /\ Len(t) = Len(s1) + Len(s2)
      BY <2>3, <3>2
    <3>4. Len(s1) + Len(s2) = Len(l) - 1
      BY <1>1, <1>2, <2>1, <2>2
    <3> QED
      BY <3>3, <3>4
  <2>5. ASSUME NEW i \in 1..Len(t) PROVE t[i] = IF i < p THEN l[i] ELSE l[i + 1]
    <3>1. CASE i < p
      <4>1. i \in 1..(p - 1) /\ t[i] = s1[i]
        BY <1>1, <1>2, <2>1, <2>2, <2>3, <2>4, <3>1
      <4> QED
        BY <2>1, <3>1, <4>1
    <3>2. CASE i >= p
      <4>1. i - (p - 1) \in 1..(Len(l) - p) /\ t[i] = s2[i - (p - 1)]
        BY <1>1, <1>2, <2>1, <2>2, <2>3, <2>4, <3>2
      <4>2. p + (i - (p - 1)) = i + 1
        BY <1>1, <1>2, <2>4
      <4> QED
        BY <1>1, <1>2, <2>2, <2>4, <3>2, <4>1, <4>2
    <3> QED
      BY <1>1, <1>2, <2>4, <3>1, <3>2
  <2> QED
    BY <2>4, <2>5
<1>7. \A i, j \in 1..Len(t) : t[i] = t[j] => i = j
  BY <1>1, <1>2, <1>6
<1>8. ASSUME NEW d PROVE Contains(t, d) <=> Contains(l, d) /\ d # c
  <2>1. ASSUME Contains(t, d) PROVE Contains(l, d) /\ d # c
    <3>1. PICK i \in 1..Len(t) : t[i] = d
      BY <2>1 DEF Contains
    <3>2. PICK j \in 1..Len(l) : l[j] = d /\ j # p
      BY <1>1, <1>2, <1>6, <3>1
    <3> QED
      BY <1>1, <1>2, <3>2 DEF Contains
  <2>2. ASSUME Contains(l, d), d # c PROVE Contains(t, d)
    <3>1. PICK j \in 1..Len(l) : l[j] = d
      BY <2>2 DEF Contains
    <3>2. j # p
      BY <1>2, <2>2, <3>1
    <3>3. CASE j < p
      <4>1. j \in 1..Len(t) /\ t[j] = d
        BY <1>1, <1>2, <1>6, <3>1, <3>3
      <4> QED
        BY <4>1 DEF Contains
    <3>4. CASE j > p
      <4>1. j - 1 \in 1..Len(t) /\ t[j - 1] = d
        BY <1>1, <1>2, <1>6, <3>1, <3>4
      <4> QED
        BY <4>1 DEF Contains
    <3> QED
      BY <1>1, <1>2, <3>2, <3>3, <3>4
  <2> QED
    BY <2>1, <2>2
<1>9. \A d \in Connection : Contains(l, d) => n \in d.ends /\ n \in opened[d]
  BY DEF LinksOK, l
<1>10. LinksOK(opened, n, t)
  BY <1>6, <1>7, <1>8, <1>9 DEF LinksOK
<1> QED
  BY <1>8, <1>10 DEF l, t

\* getMetric.
LEMMA MetricFacts ==
  ASSUME NEW l, NEW rt, RoutesOK(l, rt), NEW k \in DOMAIN rt
  PROVE  /\ Metric(l, rt, k) \in 0..Infinite
         /\ rt[k].seqno \in 0..(SeqnoModulus - 1) /\ rt[k].metric \in 0..Infinite
         /\ Metric(l, rt, k) < Infinite =>
              Metric(l, rt, k) = rt[k].metric + 1 /\ rt[k].metric + 1 < Infinite
         /\ rt[k].metric + 1 < Infinite => Metric(l, rt, k) = rt[k].metric + 1
<1>1. Contains(l, k.peer) /\ rt[k] \in Distance
  BY DEF RoutesOK
<1>2. rt[k].seqno \in 0..(SeqnoModulus - 1) /\ rt[k].metric \in 0..Infinite
  BY <1>1 DEF Distance
<1>3. Metric(l, rt, k) = AddMetric(rt[k].metric, 1)
  BY <1>1 DEF Metric, TransmissionCost
<1> QED
  BY <1>2, <1>3, Widths DEF AddMetric

\* There is a first one among the best routes.
LEMMA FirstBestIn ==
  ASSUME NEW l, Len(l) \in Nat, NEW rt, RoutesOK(l, rt), NEW K, K \subseteq DOMAIN rt, K # {}
  PROVE  FirstBest(l, rt, K) \in K
<1>1. ASSUME NEW k \in K
      PROVE  /\ Metric(l, rt, k) \in Nat /\ k.router \in Nat
             /\ PeerId(l, k.peer) \in Nat /\ l[PeerId(l, k.peer)] = k.peer
  <2>1. k \in RouteKey /\ Contains(l, k.peer)
    BY DEF RoutesOK
  <2>2. k.router \in Nat
    BY <2>1, NodeAssumption DEF RouteKey, RouterId, IsScenario
  <2>3. Metric(l, rt, k) \in Nat
    BY MetricFacts, Widths
  <2>4. PeerId(l, k.peer) \in 1..Len(l) /\ l[PeerId(l, k.peer)] = k.peer
    BY <2>1, PeerIdFacts
  <2> QED
    BY <2>2, <2>3, <2>4
<1> DEFINE m(k) == Metric(l, rt, k)
           p(k) == PeerId(l, k.peer)
<1> HIDE DEF m, p
<1>2. \A k \in K : m(k) \in Nat /\ k.router \in Nat /\ p(k) \in Nat /\ l[p(k)] = k.peer
  BY <1>1 DEF m, p
<1>3. PICK x \in K : \A j \in K : m(x) <= m(j)
  <2> DEFINE S == {m(k) : k \in K}
  <2>1. S \in SUBSET Nat /\ S # {}
    BY <1>2
  <2>2. PICK v \in S : \A w \in S : v <= w
    BY <2>1, LeastNat
  <2> QED
    BY <2>2
<1> DEFINE K1 == {k \in K : m(k) = m(x)}
<1>4. PICK y \in K1 : \A j \in K1 : y.router <= j.router
  <2> DEFINE S == {k.router : k \in K1}
  <2>1. S \in SUBSET Nat /\ S # {}
    BY <1>2
  <2>2. PICK v \in S : \A w \in S : v <= w
    BY <2>1, LeastNat
  <2> QED
    BY <2>2
<1> DEFINE K2 == {k \in K1 : k.router = y.router}
<1>5. PICK z \in K2 : \A j \in K2 : p(z) <= p(j)
  <2> DEFINE S == {p(k) : k \in K2}
  <2>1. S \in SUBSET Nat /\ S # {}
    BY <1>2
  <2>2. PICK v \in S : \A w \in S : v <= w
    BY <2>1, LeastNat
  <2> QED
    BY <2>2
<1>6. z \in K /\ m(z) = m(x) /\ z.router = y.router
  BY <1>5
<1>7. ASSUME NEW j \in K \ {z}
      PROVE  m(z) < m(j) \/ (m(z) = m(j) /\ Before(l, z, j))
  <2>1. SUFFICES ASSUME m(j) = m(x) PROVE Before(l, z, j)
    <3>1. m(x) <= m(j) /\ m(x) \in Nat /\ m(j) \in Nat
      BY <1>2, <1>3
    <3> QED
      BY <1>6, <2>1, <3>1
  <2>2. j \in K1 /\ y.router <= j.router /\ j.router \in Nat /\ y.router \in Nat
    BY <1>2, <1>4, <2>1
  <2>3. SUFFICES ASSUME j.router = y.router PROVE p(z) < p(j)
    BY <1>6, <2>2 DEF Before, p
  <2>4. p(z) <= p(j) /\ p(z) \in Nat /\ p(j) \in Nat
    BY <1>2, <1>5, <1>6, <2>2, <2>3
  <2>5. SUFFICES ASSUME p(z) = p(j) PROVE FALSE
    BY <2>4
  <2>6. z.peer = j.peer /\ z.router = j.router
    BY <1>2, <1>6, <2>3, <2>5
  <2>7. z \in RouteKey /\ j \in RouteKey
    BY <1>6 DEF RoutesOK
  <2> QED
    BY <2>6, <2>7 DEF RouteKey
<1>8. \E k \in K : \A j \in K \ {k} :
        Metric(l, rt, k) < Metric(l, rt, j) \/ (Metric(l, rt, k) = Metric(l, rt, j) /\ Before(l, k, j))
  BY <1>6, <1>7 DEF m
<1> QED
  BY <1>8 DEF FirstBest

\* What selectRoute may do to sourceTable when routeTable is rt.
SourceGrows(rt, src, src2) ==
  \/ src2 = src
  \/ \E k \in DOMAIN rt :
       /\ rt[k].metric # Infinite
       /\ DOMAIN src2 = DOMAIN src \cup {k.router}
       /\ src2[k.router] = [seqno |-> rt[k].seqno, metric |-> rt[k].metric + 1]
       /\ k.router \in DOMAIN src => Better(src2[k.router], src[k.router])
       /\ \A r \in DOMAIN src : r # k.router => src2[r] = src[r]

\* What a node may send when its sourceTable is src.
Tells(n, src, M) ==
  /\ M \subseteq Message
  /\ \A u \in M : n # Origin /\ IsOffer(u) =>
       u.router \in DOMAIN src /\ src[u.router] = DistanceIn(u)

LEMMA MessageTypes ==
  ASSUME NEW u \in Message, u.type = "update"
  PROVE  u \in Update
<1>1. RequestRoutes.type # "update"
  BY DEF RequestRoutes
<1>2. \A v \in [type : {"seqno request"}, seqno : Nat, ttl : Int] : v.type # "update"
  OBVIOUS
<1> QED
  BY <1>1, <1>2 DEF Message

LEMMA SingletonElements ==
  ASSUME NEW u \in Message
  PROVE  <<u>> \in Seq(Message) /\ Elements(<<u>>) = {u}
<1>1. <<u>> \in Seq(Message) /\ Len(<<u>>) = 1 /\ <<u>>[1] = u
  OBVIOUS
<1>2. 1 \in 1..Len(<<u>>) /\ \A i \in 1..Len(<<u>>) : i = 1
  BY <1>1
<1> QED
  BY <1>1, <1>2 DEF Elements

LEMMA NoElements ==
  <<>> \in Seq(Message) /\ Elements(<<>>) = {}
BY DEF Elements

LEMMA UpdateFacts ==
  ASSUME NEW s \in 0..(SeqnoModulus - 1), NEW metric \in 0..Infinite, NEW r \in RouterId
  PROVE  LET u == UpdateMessage(s, metric, r)
         IN  /\ u \in Message /\ <<u>> \in Seq(Message) /\ Elements(<<u>>) = {u}
             /\ u.type = "update" /\ u.router = r /\ u.metric = metric
             /\ DistanceIn(u) = [seqno |-> s, metric |-> metric]
<1> DEFINE u == UpdateMessage(s, metric, r)
<1>1. u \in Update /\ u.type = "update" /\ u.router = r /\ u.metric = metric /\ u.seqno = s
  BY DEF UpdateMessage, Update
<1> HIDE DEF u
<1>2. u \in Message
  BY <1>1 DEF Message
<1>3. <<u>> \in Seq(Message) /\ Elements(<<u>>) = {u}
  BY <1>2, SingletonElements
<1>4. DistanceIn(u) = [seqno |-> s, metric |-> metric]
  BY <1>1 DEF DistanceIn
<1> QED
  BY <1>1, <1>2, <1>3, <1>4 DEF u

\* The distance of a feasible route, and one more, are the node's own from now on.
LEMMA LoweredFacts ==
  ASSUME NEW l, NEW rt, RoutesOK(l, rt), NEW src, SourceOK(src), NEW k \in Usable(l, rt, src)
  PROVE  LET src2 == Lowered(l, rt, src, k)
         IN  /\ SourceOK(src2) /\ SourceGrows(rt, src, src2) /\ k.router \in DOMAIN src2
             /\ src2[k.router] = [seqno |-> rt[k].seqno, metric |-> rt[k].metric + 1]
             /\ Metric(l, rt, k) = rt[k].metric + 1 /\ rt[k].metric + 1 < Infinite
             /\ k \in DOMAIN rt /\ k.router \in RouterId /\ rt[k].seqno \in 0..(SeqnoModulus - 1)
<1>1. k \in DOMAIN rt /\ IsFeasible(rt, src, k) /\ Metric(l, rt, k) < Infinite
  BY DEF Usable
<1> DEFINE s == rt[k].seqno
           m == rt[k].metric
           r == k.router
           new == [seqno |-> s, metric |-> m + 1]
           src2 == Lowered(l, rt, src, k)
<1>2. /\ Metric(l, rt, k) = m + 1 /\ m + 1 < Infinite /\ m \in Nat /\ m # Infinite
      /\ s \in 0..(SeqnoModulus - 1)
  BY <1>1, MetricFacts, Widths
<1>3. r \in RouterId
  BY <1>1 DEF RoutesOK, RouteKey
<1>4. src2 = IF r \notin DOMAIN src \/ Better(new, src[r])
               THEN [q \in DOMAIN src \cup {r} |-> IF q = r THEN new ELSE src[q]] ELSE src
  BY <1>2 DEF Lowered
<1>5. new \in Distance
  BY <1>2, Widths DEF Distance
<1> HIDE DEF src2
<1>6. CASE r \notin DOMAIN src \/ Better(new, src[r])
  <2>1. src2 = [q \in DOMAIN src \cup {r} |-> IF q = r THEN new ELSE src[q]]
    BY <1>4, <1>6
  <2>2. /\ DOMAIN src2 = DOMAIN src \cup {r} /\ src2[r] = new
        /\ \A q \in DOMAIN src : q # r => src2[q] = src[q]
    BY <2>1
  <2>3. SourceOK(src2)
    BY <1>3, <1>5, <2>2 DEF SourceOK
  <2>4. SourceGrows(rt, src, src2)
    BY <1>1, <1>2, <1>6, <2>2 DEF SourceGrows
  <2> QED
    BY <1>1, <1>2, <1>3, <2>2, <2>3, <2>4 DEF src2
<1>7. CASE r \in DOMAIN src /\ ~Better(new, src[r])
  <2>1. src2 = src
    BY <1>4, <1>7
  <2>2. Better(rt[k], src[r])
    BY <1>1, <1>2, <1>7 DEF IsFeasible
  <2>3. src[r] \in Distance
    BY <1>7 DEF SourceOK
  <2>4. src[r].metric \in Nat /\ src[r] = [seqno |-> src[r].seqno, metric |-> src[r].metric]
    BY <2>3, Widths DEF Distance
  <2>5. src[r].seqno = s /\ src[r].metric = m + 1
    BY <1>2, <1>7, <2>2, <2>4 DEF Better
  <2>6. src[r] = new
    BY <2>4, <2>5
  <2> QED
    BY <1>1, <1>2, <1>3, <1>7, <2>1, <2>6 DEF SourceGrows, src2
<1> QED
  BY <1>6, <1>7

\* sendSeqnoRequest.
LEMMA RequestSeqnoFacts ==
  ASSUME NEW n \in Node, SourceOK(source[n]), NEW r
  PROVE  RequestSeqno(n, r) \in Seq(Message) /\ \A e \in Elements(RequestSeqno(n, r)) : ~IsOffer(e)
<1>1. CASE r \in DOMAIN source[n]
  <2> DEFINE q == NextSeqno(source[n][r].seqno)
             e == SeqnoRequest(q, Ttl)
  <2>1. source[n][r].seqno \in Nat
    BY <1>1, Widths DEF SourceOK, Distance
  <2>2. q \in Nat
    BY <2>1, Widths DEF NextSeqno
  <2> HIDE DEF q
  <2>3. Ttl \in Int
    BY SeqnoAssumption
  <2>4. e \in [type : {"seqno request"}, seqno : Nat, ttl : Int] /\ e.type = "seqno request"
    BY <2>2, <2>3 DEF SeqnoRequest
  <2>5. RequestSeqno(n, r) = <<e>>
    BY <1>1 DEF RequestSeqno, q
  <2> HIDE DEF e
  <2>6. e \in Message
    BY <2>4 DEF Message
  <2>7. <<e>> \in Seq(Message) /\ Elements(<<e>>) = {e}
    BY <2>6, SingletonElements
  <2> QED
    BY <2>4, <2>5, <2>7 DEF IsOffer
<1>2. CASE r \notin DOMAIN source[n]
  BY <1>2 DEF RequestSeqno, Elements
<1> QED
  BY <1>1, <1>2

\* Of the tables of the nodes, the one of n is now v.
Becomes(f, f2, n, v) ==
  DOMAIN f2 = Node /\ f2[n] = v /\ \A x \in Node : x # n => f2[x] = f[x]

LEMMA ConcatSets ==
  ASSUME NEW s \in Seq(Message), NEW t \in Seq(Message)
  PROVE  s \o t \in Seq(Message) /\ Elements(s \o t) \subseteq Elements(s) \cup Elements(t)
<1>1. /\ s \o t \in Seq(Message)
      /\ \A i \in 1..Len(s \o t) :
           (\E j \in 1..Len(s) : (s \o t)[i] = s[j]) \/ (\E j \in 1..Len(t) : (s \o t)[i] = t[j])
  BY ConcatElements
<1> DEFINE w == s \o t
<1> HIDE DEF w
<1>2. \A i \in 1..Len(w) : (\E j \in 1..Len(s) : w[i] = s[j]) \/ (\E j \in 1..Len(t) : w[i] = t[j])
  BY <1>1 DEF w
<1>3. Elements(w) \subseteq Elements(s) \cup Elements(t)
  BY <1>2 DEF Elements
<1> QED
  BY <1>1, <1>3 DEF w

\* The result of selectRoute of the node n, whose routeTable is rt.
Selects(n, l, rt, ch) ==
  \E src2, sel2, M :
    /\ Becomes(routes, routes', n, rt) /\ Becomes(source, source', n, src2)
    /\ Becomes(selected, selected', n, sel2)
    /\ SourceOK(src2) /\ SelectedOK(rt, src2, sel2) /\ SourceGrows(rt, source[n], src2)
    /\ Tells(n, src2, M) /\ Sends(ch, channel', n, l, M)

LEMMA SelectRouteFacts ==
  ASSUME NEW n \in Node, DOMAIN routes = Node, DOMAIN source = Node, DOMAIN selected = Node,
         NEW l, LinksOK(opened, n, l), NEW rt, RoutesOK(l, rt), SourceOK(source[n]),
         SelectedOK(routes[n], source[n], selected[n]),
         NEW updated, \A k \in selected[n] : k.peer # updated => k \in DOMAIN rt /\ rt[k] = routes[n][k],
         NEW ch, ChannelType(ch), SelectRoute(n, l, rt, updated, ch)
  PROVE  Selects(n, l, rt, ch)
<1> DEFINE src == source[n]
           U == Usable(l, rt, src)
           k == FirstBest(l, rt, U)
           u == Advertised(l, rt, k)
<1>1. Becomes(routes, routes', n, rt)
  BY DEF SelectRoute, Becomes
<1>2. Len(l) \in Nat /\ \A c \in Connection : Contains(l, c) => n \in c.ends
  BY DEF LinksOK
<1>3. ASSUME U # {}, selected' = [selected EXCEPT ![n] = {k}],
             source' = [source EXCEPT ![n] = Lowered(l, rt, @, k)],
             channel' = Multicast(ch, n, l, <<u>>)
      PROVE  Selects(n, l, rt, ch)
  <2>1. U \subseteq DOMAIN rt
    BY DEF Usable
  <2>2. k \in U
    BY <1>2, <1>3, <2>1, FirstBestIn
  <2> DEFINE src2 == Lowered(l, rt, src, k)
  <2> HIDE DEF U, k, src
  <2>3. /\ SourceOK(src2) /\ SourceGrows(rt, src, src2) /\ k.router \in DOMAIN src2
        /\ src2[k.router] = [seqno |-> rt[k].seqno, metric |-> rt[k].metric + 1]
        /\ Metric(l, rt, k) = rt[k].metric + 1 /\ rt[k].metric + 1 < Infinite
        /\ k \in DOMAIN rt /\ k.router \in RouterId /\ rt[k].seqno \in 0..(SeqnoModulus - 1)
    BY <2>2, LoweredFacts DEF U, src
  <2>4. Becomes(source, source', n, src2) /\ Becomes(selected, selected', n, {k})
    BY <1>3 DEF src, Becomes
  <2> HIDE DEF src2
  <2>5. SelectedOK(rt, src2, {k})
    BY <2>3 DEF SelectedOK
  <2>6. Metric(l, rt, k) \in 0..Infinite
    BY <2>3, MetricFacts
  <2>7. /\ u \in Message /\ <<u>> \in Seq(Message) /\ Elements(<<u>>) = {u} /\ u.router = k.router
        /\ DistanceIn(u) = [seqno |-> rt[k].seqno, metric |-> rt[k].metric + 1]
    BY <2>3, <2>6, UpdateFacts DEF Advertised
  <2> HIDE DEF u
  <2>8. Tells(n, src2, {u})
    BY <2>3, <2>7 DEF Tells
  <2>9. Sends(ch, channel', n, l, {u})
    BY <1>2, <1>3, <2>7, MulticastSends
  <2> QED
    BY <1>1, <1>3, <2>3, <2>4, <2>5, <2>8, <2>9 DEF src, Selects
<1>4. ASSUME k \in selected[n], k.peer # updated, selected' = [selected EXCEPT ![n] = {k}],
             source' = source, channel' = ch
      PROVE  Selects(n, l, rt, ch)
  <2>1. k \in DOMAIN rt /\ rt[k] = routes[n][k]
    BY <1>4
  <2> HIDE DEF k
  <2>2. selected[n] = {k} /\ k.router \in DOMAIN src
        /\ src[k.router] = [seqno |-> rt[k].seqno, metric |-> rt[k].metric + 1]
        /\ rt[k].metric + 1 < Infinite
    BY <1>4, <2>1 DEF SelectedOK
  <2>3. SelectedOK(rt, src, {k})
    BY <2>1, <2>2 DEF SelectedOK
  <2>4. Becomes(source, source', n, src) /\ Becomes(selected, selected', n, {k})
    BY <1>4 DEF Becomes
  <2>5. SourceGrows(rt, src, src) /\ Tells(n, src, {}) /\ Sends(ch, channel', n, l, {})
    BY <1>4, SendsNothing DEF SourceGrows, Tells
  <2> QED
    BY <1>1, <1>4, <2>3, <2>4, <2>5 DEF Selects
<1>5. ASSUME GiveUpRoute(n, l, ch) PROVE Selects(n, l, rt, ch)
  <2>1. Becomes(selected, selected', n, {}) /\ Becomes(source, source', n, src)
    BY <1>5 DEF GiveUpRoute, Becomes
  <2>2. SelectedOK(rt, src, {}) /\ SourceGrows(rt, src, src)
    BY DEF SelectedOK, SourceGrows
  <2>3. CASE selected[n] = {}
    <3>1. channel' = ch
      BY <1>5, <2>3 DEF GiveUpRoute
    <3>2. Tells(n, src, {}) /\ Sends(ch, channel', n, l, {})
      BY <3>1, SendsNothing DEF Tells
    <3> QED
      BY <1>1, <2>1, <2>2, <3>2 DEF Selects
  <2>4. CASE selected[n] # {}
    <3> DEFINE r == Route(n).router
               w == UpdateMessage(0, Infinite, r)
               s == RequestSeqno(n, r)
    <3>1. channel' = Multicast(ch, n, l, <<w>> \o s)
      BY <1>5, <2>4 DEF GiveUpRoute
    <3>2. r \in RouterId
      <4>1. PICK j : selected[n] = {j} /\ j.router \in DOMAIN src
        BY <2>4 DEF SelectedOK
      <4>2. Route(n) = j
        BY <4>1 DEF Route
      <4> QED
        BY <4>1, <4>2 DEF SourceOK
    <3>3. s \in Seq(Message) /\ \A e \in Elements(s) : ~IsOffer(e)
      BY RequestSeqnoFacts
    <3>4. 0 \in 0..(SeqnoModulus - 1) /\ Infinite \in 0..Infinite
      BY Widths
    <3>5. w \in Message /\ <<w>> \in Seq(Message) /\ Elements(<<w>>) = {w} /\ w.metric = Infinite
      BY <3>2, <3>4, UpdateFacts
    <3> DEFINE t == <<w>> \o s
               M == Elements(t)
    <3> HIDE DEF s, w
    <3>6. t \in Seq(Message) /\ Elements(t) \subseteq Elements(<<w>>) \cup Elements(s)
      BY <3>3, <3>5, ConcatSets
    <3> HIDE DEF t
    <3>7. \A e \in M : e \in Message /\ ~IsOffer(e)
      <4>1. \A e \in M : ~IsOffer(e)
        BY <3>3, <3>5, <3>6 DEF IsOffer
      <4>2. \A e \in M : e \in Message
        BY <3>6 DEF Elements
      <4> QED
        BY <4>1, <4>2
    <3>8. Tells(n, src, M)
      BY <3>7 DEF Tells
    <3>9. Sends(ch, channel', n, l, M)
      BY <1>2, <3>1, <3>6, MulticastSends DEF t
    <3> HIDE DEF M
    <3> QED
      BY <1>1, <2>1, <2>2, <3>8, <3>9 DEF Selects
  <2> QED
    BY <2>3, <2>4
<1>6. CASE U # {}
  <2>1. UseRoute(n, l, rt, k, updated, ch)
    BY <1>6 DEF SelectRoute
  <2>2. CASE k \notin selected[n] \/ k.peer = updated
    BY <1>3, <1>6, <2>1, <2>2 DEF UseRoute
  <2>3. CASE k \in selected[n] /\ k.peer # updated
    BY <1>4, <2>1, <2>3 DEF UseRoute
  <2> QED
    BY <2>2, <2>3
<1>7. CASE U = {}
  BY <1>5, <1>7 DEF SelectRoute
<1> QED
  BY <1>6, <1>7

-----------------------------------------------------------------------------
(***************************************************************************)
(* A step of one node.                                                     *)
(***************************************************************************)
\* The node n knows the distance d of the route k, or is being told.
Learns(n, k, d) ==
  \/ k \in DOMAIN routes[n] /\ routes[n][k] = d
  \/ \E u \in InTransit(channel, k.peer, n) :
       u.type = "update" /\ u.router = k.router /\ DistanceIn(u) = d

\* The node n has the given tables then and has sent messages out of M.
Step(n, l, rt, src, sel, M) ==
  /\ scenario' = scenario
  /\ Becomes(links, links', n, l) /\ Becomes(routes, routes', n, rt)
  /\ Becomes(source, source', n, src) /\ Becomes(selected, selected', n, sel)
  /\ Becomes(view, view', n, view'[n])
  /\ DOMAIN opened' = Connection
  /\ \A c \in Connection : opened[c] \subseteq opened'[c] /\ opened'[c] \subseteq opened[c] \cup {n}
  /\ router' \in RouterId /\ seqno' \in 0..(SeqnoModulus - 1)
  /\ LinksOK(opened', n, l)
  /\ TablesOK(l, rt, src, sel)
  /\ \A k \in DOMAIN rt : Learns(n, k, rt[k])
  /\ Tells(n, src, M) /\ Sends(channel, channel', n, l, M)

\* What has become of the messages and routes of a connection.
LEMMA StepMessages ==
  ASSUME TypeInv, NEW n \in Node, NEW l, NEW rt, NEW src, NEW sel, NEW M,
         Step(n, l, rt, src, sel, M),
         NEW c \in Connection, NEW m \in c.ends, NEW x \in c.ends, m # x
  PROVE  /\ \A u \in InTransit(channel', c, x) :
              u \in InTransit(channel, c, x) \/ (m = n /\ Contains(l, c) /\ u \in M)
         /\ \A k \in DOMAIN routes'[x] : k.peer = c => Learns(x, k, routes'[x][k])
<1>1. m \in Node /\ x \in Node
  BY TwoEnds
<1>2. ASSUME NEW u \in InTransit(channel', c, x), u \notin InTransit(channel, c, x)
      PROVE  m = n /\ Contains(l, c) /\ u \in M
  <2>1. x # n /\ Contains(l, c) /\ u \in M
    BY <1>2 DEF Step, Sends
  <2>2. n \in c.ends
    BY <2>1 DEF Step, LinksOK
  <2> QED
    BY <2>1, <2>2, TwoEnds
<1>3. ASSUME NEW k \in DOMAIN routes'[x], k.peer = c PROVE Learns(x, k, routes'[x][k])
  <2>1. CASE x = n
    BY <1>3, <2>1 DEF Step, Becomes
  <2>2. CASE x # n
    BY <1>1, <1>3, <2>2 DEF Step, Becomes, Learns
  <2> QED
    BY <2>1, <2>2
<1> QED
  BY <1>2, <1>3

\* The other nodes.
LEMMA OthersKeep ==
  ASSUME TypeInv, NEW n \in Node, NEW l, NEW rt, NEW src, NEW sel, NEW M,
         Step(n, l, rt, src, sel, M), NEW x \in Node, x # n
  PROVE  NodeInv(x)'
<1>1. /\ links'[x] = links[x] /\ routes'[x] = routes[x] /\ source'[x] = source[x]
      /\ selected'[x] = selected[x] /\ view'[x] = view[x] /\ scenario' = scenario
  BY DEF Step, Becomes
<1>2. NodeInv(x)
  BY DEF TypeInv
<1>3. LinksOK(opened', x, links'[x])
  <2>1. \A c \in Connection : opened[c] \subseteq opened'[c]
    BY DEF Step
  <2> QED
    BY <1>1, <1>2, <2>1 DEF NodeInv, LinksOK
<1>4. TablesOK(links'[x], routes'[x], source'[x], selected'[x])
  BY <1>1, <1>2 DEF NodeInv
<1>5. /\ view'[x] \in 1..Len(scenario'.schedule)
      /\ (x = Origin \/ ~IsProducer(x)') => selected'[x] = {}
      /\ NeverListed(x)' => DOMAIN source'[x] = {}
  BY <1>1, <1>2 DEF NodeInv, IsProducer, NeverListed
<1> QED
  BY <1>3, <1>4, <1>5 DEF NodeInv

LEMMA StepInv ==
  ASSUME TypeInv, NEW n \in Node, NEW l, NEW rt, NEW src, NEW sel, NEW M,
         Step(n, l, rt, src, sel, M),
         view'[n] \in 1..Len(scenario.schedule),
         (n = Origin \/ ~scenario.schedule[view'[n]]) => sel = {},
         (\A i \in 1..view'[n] : ~scenario.schedule[i]) => DOMAIN src = {}
  PROVE  TypeInv'
<1>1. NodeInv(n)'
  <2>1. /\ links'[n] = l /\ routes'[n] = rt /\ source'[n] = src /\ selected'[n] = sel
        /\ scenario' = scenario /\ LinksOK(opened', n, l) /\ TablesOK(l, rt, src, sel)
    BY DEF Step, Becomes
  <2> QED
    BY <2>1 DEF NodeInv, IsProducer, NeverListed
<1>2. \A x \in Node : NodeInv(x)'
  BY <1>1, OthersKeep
<1>3. Unopened'
  <2>1. SUFFICES ASSUME NEW c \in Connection, NEW m \in c.ends, NEW x \in c.ends,
                        m # x, m \notin opened'[c]
                 PROVE  /\ InTransit(channel', c, x) = {}
                        /\ \A k \in DOMAIN routes'[x] : k.peer # c
    BY DEF Unopened, InTransit
  <2>2. m \notin opened[c] /\ ~ (m = n /\ Contains(l, c))
    BY <2>1 DEF Step, LinksOK
  <2>3. InTransit(channel, c, x) = {} /\ \A k \in DOMAIN routes[x] : k.peer # c
    BY <2>1, <2>2 DEF TypeInv, Unopened
  <2>4. InTransit(channel', c, x) = {}
    BY <2>1, <2>2, <2>3, StepMessages
  <2>5. ASSUME NEW k \in DOMAIN routes'[x], k.peer = c PROVE FALSE
    <3>1. Learns(x, k, routes'[x][k])
      BY <2>1, <2>5, StepMessages
    <3> QED
      BY <2>3, <2>5, <3>1 DEF Learns
  <2> QED
    BY <2>4, <2>5
<1>4. /\ scenario' \in Scenarios
      /\ DOMAIN links' = Node /\ DOMAIN routes' = Node /\ DOMAIN source' = Node
      /\ DOMAIN selected' = Node /\ DOMAIN view' = Node /\ DOMAIN opened' = Connection
      /\ router' \in RouterId /\ seqno' \in 0..(SeqnoModulus - 1)
      /\ ChannelType(channel')
  BY DEF TypeInv, Step, Becomes, Sends
<1> QED
  BY <1>2, <1>3, <1>4 DEF TypeInv, ChannelType

\* What is known.
LEMMA KnownFacts ==
  ASSUME TypeInv, NEW r
  PROVE  /\ \A n \in Node : r \in DOMAIN source[n] => source[n][r] \in Known(r)
         /\ \A n \in Node : \A k \in DOMAIN routes[n] :
              k.router = r /\ routes[n][k].metric # Infinite => routes[n][k] \in Known(r)
         /\ \A c \in Connection : \A x \in c.ends : \A u \in InTransit(channel, c, x) :
              IsOffer(u) /\ u.router = r => DistanceIn(u) \in Known(r)
<1>1. ASSUME NEW n \in Node, r \in DOMAIN source[n] PROVE source[n][r] \in Known(r)
  <2>1. source[n][r] \in Distance
    BY <1>1 DEF TypeInv, NodeInv, TablesOK, SourceOK
  <2> QED
    BY <1>1, <2>1 DEF Known, IsKnown
<1>2. ASSUME NEW n \in Node, NEW k \in DOMAIN routes[n], k.router = r, routes[n][k].metric # Infinite
      PROVE  routes[n][k] \in Known(r)
  <2>1. routes[n][k] \in Distance
    BY <1>2 DEF TypeInv, NodeInv, TablesOK, RoutesOK
  <2> QED
    BY <1>2, <2>1 DEF Known, IsKnown
<1>3. ASSUME NEW c \in Connection, NEW x \in c.ends, NEW u \in InTransit(channel, c, x),
             IsOffer(u), u.router = r
      PROVE  DistanceIn(u) \in Known(r)
  <2>1. channel[c][x] \in Seq(Message)
    BY DEF TypeInv, ChannelType
  <2>2. u \in Message /\ u.type = "update"
    BY <1>3, <2>1 DEF InTransit, IsOffer
  <2>3. u \in Update
    BY <2>2, MessageTypes
  <2>4. DistanceIn(u) \in Distance
    BY <2>3 DEF Update, DistanceIn, Distance
  <2> QED
    BY <1>3, <2>4 DEF Known, IsKnown
<1> QED
  BY <1>1, <1>2, <1>3

\* A node stands by what it has told its neighbours when its sourceTable becomes src.
StandsBy(n, src) ==
  \A r : \A d \in Known(r) : Told(source[n], r, d) => Told(src, r, d)

LEMMA StepHonest ==
  ASSUME TypeInv, Honest, NEW n \in Node, NEW l, NEW rt, NEW src, NEW sel, NEW M,
         Step(n, l, rt, src, sel, M),
         \A c \in Connection : Contains(l, c) => Contains(links[n], c) \/ n \notin opened[c],
         (\E c \in Connection : Contains(l, c)) /\ n # Origin /\ ~Purged(n)' =>
            ~Purged(n) /\ StandsBy(n, src)
  PROVE  Honest'
<1>1. SUFFICES ASSUME NEW c \in Connection, NEW m \in c.ends, NEW x \in c.ends,
                      m # x, m # Origin, Contains(links'[m], c), ~Purged(m)'
               PROVE  /\ \A u \in InTransit(channel', c, x) :
                           IsOffer(u) => Told(source'[m], u.router, DistanceIn(u))
                      /\ \A k \in DOMAIN routes'[x] :
                           k.peer = c /\ routes'[x][k].metric # Infinite =>
                             Told(source'[m], k.router, routes'[x][k])
  <2>1. \A m : Purged(m)' <=> \A i \in view'[m]..Len(scenario'.schedule) : ~scenario'.schedule[i]
    BY DEF Purged
  <2>2. \A c, x : InTransit(channel, c, x)' = InTransit(channel', c, x)
    BY DEF InTransit
  <2> QED
    BY <2>1, <2>2 DEF Honest, Purged
<1>2. m \in Node /\ x \in Node
  BY TwoEnds
<1>3. ASSUME NEW k \in DOMAIN routes'[x], k.peer = c, routes'[x][k].metric # Infinite
      PROVE  \/ k \in DOMAIN routes[x] /\ routes[x][k] = routes'[x][k]
             \/ \E u \in InTransit(channel, c, x) :
                  IsOffer(u) /\ u.router = k.router /\ DistanceIn(u) = routes'[x][k]
  <2>1. Learns(x, k, routes'[x][k])
    BY <1>1, <1>3, StepMessages
  <2>2. \A u : DistanceIn(u).metric = u.metric
    BY DEF DistanceIn
  <2> QED
    BY <1>3, <2>1, <2>2 DEF Learns, IsOffer
<1>4. CASE m # n
  <2>1. source'[m] = source[m] /\ links'[m] = links[m] /\ (Purged(m)' <=> Purged(m))
    BY <1>2, <1>4 DEF Step, Becomes, Purged
  <2>2. /\ \A u \in InTransit(channel, c, x) : IsOffer(u) => Told(source[m], u.router, DistanceIn(u))
        /\ \A k \in DOMAIN routes[x] :
             k.peer = c /\ routes[x][k].metric # Infinite => Told(source[m], k.router, routes[x][k])
    BY <1>1, <2>1 DEF Honest
  <2>3. \A u \in InTransit(channel', c, x) : u \in InTransit(channel, c, x)
    BY <1>1, <1>4, StepMessages
  <2> QED
    BY <1>3, <2>1, <2>2, <2>3
<1>5. CASE m = n
  <2>1. source'[m] = src /\ links'[m] = l /\ Tells(m, src, M)
    BY <1>2, <1>5 DEF Step, Becomes
  <2>2. ~Purged(m) /\ StandsBy(m, src)
    BY <1>1, <1>5, <2>1
  <2>3. \A u \in InTransit(channel, c, x) : IsOffer(u) => Told(src, u.router, DistanceIn(u))
    <3>1. SUFFICES ASSUME NEW u \in InTransit(channel, c, x), IsOffer(u)
                   PROVE  Told(src, u.router, DistanceIn(u))
      OBVIOUS
    <3>2. Contains(links[m], c)
      BY <1>1, <1>5, <2>1, <3>1 DEF TypeInv, Unopened
    <3>3. Told(source[m], u.router, DistanceIn(u))
      BY <1>1, <2>2, <3>1, <3>2 DEF Honest
    <3>4. DistanceIn(u) \in Known(u.router)
      BY <3>1, KnownFacts
    <3> QED
      BY <2>2, <3>3, <3>4 DEF StandsBy
  <2>4. ASSUME NEW k \in DOMAIN routes[x], k.peer = c, routes[x][k].metric # Infinite
        PROVE  Told(src, k.router, routes[x][k])
    <3>1. Contains(links[m], c)
      BY <1>1, <1>5, <2>1, <2>4 DEF TypeInv, Unopened
    <3>2. Told(source[m], k.router, routes[x][k])
      BY <1>1, <2>2, <2>4, <3>1 DEF Honest
    <3>3. routes[x][k] \in Known(k.router)
      BY <1>2, <2>4, KnownFacts
    <3> QED
      BY <2>2, <3>2, <3>3 DEF StandsBy
  <2>5. \A u \in InTransit(channel', c, x) : IsOffer(u) => Told(src, u.router, DistanceIn(u))
    <3>1. SUFFICES ASSUME NEW u \in InTransit(channel', c, x), IsOffer(u), u \in M
                   PROVE  Told(src, u.router, DistanceIn(u))
      BY <1>1, <2>3, StepMessages
    <3> QED
      BY <1>1, <2>1, <3>1 DEF Tells, Told
  <2>6. \A k \in DOMAIN routes'[x] :
          k.peer = c /\ routes'[x][k].metric # Infinite => Told(src, k.router, routes'[x][k])
    BY <1>3, <2>3, <2>4
  <2> QED
    BY <2>1, <2>5, <2>6
<1> QED
  BY <1>4, <1>5

\* A sourceTable that grows.
LEMMA GrowingStandsBy ==
  ASSUME TypeInv, SeqnosAreRecent, NEW n \in Node, NEW l, NEW rt, RoutesOK(l, rt), NEW src,
         SourceOK(src),
         \A k \in DOMAIN rt : Learns(n, k, rt[k]) /\ n \in k.peer.ends,
         SourceGrows(rt, source[n], src)
  PROVE  StandsBy(n, src)
<1>1. SUFFICES ASSUME NEW r, NEW d \in Known(r), Told(source[n], r, d) PROVE Told(src, r, d)
  BY DEF StandsBy
<1>2. SUFFICES ASSUME NEW k \in DOMAIN rt, rt[k].metric # Infinite,
                      DOMAIN src = DOMAIN source[n] \cup {k.router},
                      src[k.router] = [seqno |-> rt[k].seqno, metric |-> rt[k].metric + 1],
                      k.router \in DOMAIN source[n] => Better(src[k.router], source[n][k.router]),
                      \A q \in DOMAIN source[n] : q # k.router => src[q] = source[n][q]
               PROVE  Told(src, r, d)
  BY <1>1 DEF SourceGrows
<1>3. r \in DOMAIN source[n] /\ r \in DOMAIN src
  BY <1>1, <1>2 DEF Told
<1>4. CASE r # k.router
  BY <1>1, <1>2, <1>3, <1>4 DEF Told
<1>5. CASE r = k.router
  <2>1. r \in RouterId /\ source[n][r] \in Distance /\ source[n][r] \in Known(r)
    BY <1>3, KnownFacts DEF TypeInv, NodeInv, TablesOK, SourceOK
  <2>2. rt[k] \in Known(r) /\ k.peer \in Connection
    <3>1. k.peer \in Connection /\ n \in k.peer.ends /\ Learns(n, k, rt[k])
      BY DEF RoutesOK, RouteKey
    <3>2. CASE k \in DOMAIN routes[n] /\ routes[n][k] = rt[k]
      BY <1>2, <1>5, <3>1, <3>2, KnownFacts
    <3>3. ASSUME NEW u \in InTransit(channel, k.peer, n),
                 u.type = "update", u.router = k.router, DistanceIn(u) = rt[k]
          PROVE  rt[k] \in Known(r)
      <4>1. IsOffer(u)
        BY <1>2, <3>3 DEF IsOffer, DistanceIn
      <4> QED
        BY <1>5, <3>1, <3>3, <4>1, KnownFacts
    <3> QED
      BY <3>1, <3>2, <3>3 DEF Learns
  <2>3. PICK top \in 0..(SeqnoModulus - 1) : \A e \in Known(r) : Recent(top, e.seqno)
    BY <2>1 DEF SeqnosAreRecent
  <2>4. d \in Distance /\ src[r] \in Distance
    BY <1>3 DEF SourceOK, Known
  <2>5. src[r].seqno = rt[k].seqno
    BY <1>2, <1>5
  <2>6. Recent(top, src[r].seqno) /\ Recent(top, source[n][r].seqno) /\ Recent(top, d.seqno)
    BY <2>1, <2>2, <2>3, <2>5
  <2>7. Better(src[r], source[n][r]) /\ (source[n][r] = d \/ Better(source[n][r], d))
    BY <1>1, <1>2, <1>3, <1>5 DEF Told
  <2>8. Better(src[r], d)
    BY <2>1, <2>4, <2>3, <2>6, <2>7, BetterTrans
  <2> QED
    BY <1>3, <2>8 DEF Told
<1> QED
  BY <1>4, <1>5

-----------------------------------------------------------------------------
(***************************************************************************)
(* The actions, one after the other.                                       *)
(***************************************************************************)
\* All that has to be shown of an action of the node n.
Moves(n) ==
  \E l, rt, src, sel, M :
    /\ Step(n, l, rt, src, sel, M)
    /\ view'[n] \in 1..Len(scenario.schedule)
    /\ (n = Origin \/ ~scenario.schedule[view'[n]]) => sel = {}
    /\ (\A i \in 1..view'[n] : ~scenario.schedule[i]) => DOMAIN src = {}
    /\ \A c \in Connection : Contains(l, c) => Contains(links[n], c) \/ n \notin opened[c]
    /\ NeverRejoins /\ SeqnosAreRecent /\ (\E c \in Connection : Contains(l, c)) /\ n # Origin
         /\ ~Purged(n)' => ~Purged(n) /\ StandsBy(n, src)

LEMMA MovesInv ==
  ASSUME TypeInv, NEW n \in Node, Moves(n)
  PROVE  TypeInv' /\ (NeverRejoins /\ SeqnosAreRecent /\ Honest => Honest')
<1>1. PICK l, rt, src, sel, M :
        /\ Step(n, l, rt, src, sel, M)
        /\ view'[n] \in 1..Len(scenario.schedule)
        /\ (n = Origin \/ ~scenario.schedule[view'[n]]) => sel = {}
        /\ (\A i \in 1..view'[n] : ~scenario.schedule[i]) => DOMAIN src = {}
        /\ \A c \in Connection : Contains(l, c) => Contains(links[n], c) \/ n \notin opened[c]
        /\ NeverRejoins /\ SeqnosAreRecent /\ (\E c \in Connection : Contains(l, c)) /\ n # Origin
             /\ ~Purged(n)' => ~Purged(n) /\ StandsBy(n, src)
  BY DEF Moves
<1>2. TypeInv'
  BY <1>1, StepInv
<1>3. ASSUME NeverRejoins, SeqnosAreRecent, Honest PROVE Honest'
  BY <1>1, <1>3, StepHonest
<1> QED
  BY <1>2, <1>3

\* What is so of a node before the step.
LEMMA NodeFacts ==
  ASSUME TypeInv, NEW n \in Node
  PROVE  /\ LinksOK(opened, n, links[n]) /\ Len(links[n]) \in Nat
         /\ \A c \in Connection : Contains(links[n], c) => n \in c.ends /\ n \in opened[c]
         /\ RoutesOK(links[n], routes[n]) /\ SourceOK(source[n])
         /\ SelectedOK(routes[n], source[n], selected[n])
         /\ TablesOK(links[n], routes[n], source[n], selected[n])
         /\ ChannelType(channel)
         /\ view[n] \in 1..Len(scenario.schedule)
         /\ (n = Origin \/ ~IsProducer(n)) => selected[n] = {}
         /\ NeverListed(n) => DOMAIN source[n] = {}
         /\ \A k \in DOMAIN routes[n] : Learns(n, k, routes[n][k])
         /\ DOMAIN links = Node /\ DOMAIN routes = Node /\ DOMAIN source = Node
         /\ DOMAIN selected = Node /\ DOMAIN view = Node /\ DOMAIN opened = Connection
         /\ router \in RouterId /\ seqno \in 0..(SeqnoModulus - 1)
<1>1. NodeInv(n)
  BY DEF TypeInv
<1> QED
  BY <1>1 DEF TypeInv, NodeInv, LinksOK, TablesOK, Learns

\* A step that leaves the tables alone.
LEMMA QuietMoves ==
  ASSUME TypeInv, NEW n \in Node, UNCHANGED <<scenario, links, tables, view, opened>>,
         router' \in RouterId, seqno' \in 0..(SeqnoModulus - 1),
         NEW M, Tells(n, source[n], M), Sends(channel, channel', n, links[n], M)
  PROVE  Moves(n)
<1>1. Step(n, links[n], routes[n], source[n], selected[n], M)
  <2>1. /\ scenario' = scenario /\ links' = links /\ routes' = routes /\ source' = source
        /\ selected' = selected /\ view' = view /\ opened' = opened
    BY DEF tables
  <2> QED
    BY <2>1, NodeFacts DEF Step, Becomes
<1>2. StandsBy(n, source[n])
  BY DEF StandsBy
<1>3. view'[n] = view[n] /\ scenario' = scenario
  OBVIOUS
<1>4. Purged(n)' <=> Purged(n)
  BY <1>3 DEF Purged
<1>5. /\ view'[n] \in 1..Len(scenario.schedule)
      /\ (n = Origin \/ ~scenario.schedule[view'[n]]) => selected[n] = {}
      /\ (\A i \in 1..view'[n] : ~scenario.schedule[i]) => DOMAIN source[n] = {}
  BY <1>3, NodeFacts DEF IsProducer, NeverListed
<1> QED
  BY <1>1, <1>2, <1>4, <1>5 DEF Moves

\* send_routes tells of the route in use.
LEMMA RoutesOfFacts ==
  ASSUME TypeInv, NEW n \in Node
  PROVE  RoutesOf(n) \in Seq(Message) /\ Tells(n, source[n], Elements(RoutesOf(n)))
<1>1. CASE n = Origin
  <2> DEFINE u == UpdateMessage(seqno, 0, router)
  <2>1. seqno \in 0..(SeqnoModulus - 1) /\ router \in RouterId
    BY NodeFacts
  <2>2. 0 \in 0..Infinite
    BY Widths
  <2>3. u \in Message /\ <<u>> \in Seq(Message) /\ Elements(<<u>>) = {u}
    BY <2>1, <2>2, UpdateFacts
  <2>4. RoutesOf(n) = <<>> \/ RoutesOf(n) = <<u>>
    BY <1>1 DEF RoutesOf
  <2> HIDE DEF u
  <2>5. CASE RoutesOf(n) = <<>>
    BY <2>5, NoElements DEF Tells
  <2>6. CASE RoutesOf(n) = <<u>>
    BY <1>1, <2>3, <2>6 DEF Tells
  <2> QED
    BY <2>4, <2>5, <2>6
<1>2. CASE n # Origin /\ selected[n] = {}
  <2>1. RoutesOf(n) = <<>>
    BY <1>2 DEF RoutesOf
  <2> QED
    BY <2>1, NoElements DEF Tells
<1>3. CASE n # Origin /\ selected[n] # {}
  <2> DEFINE l == links[n]
             rt == routes[n]
  <2>1. PICK k \in DOMAIN rt :
          /\ selected[n] = {k} /\ k.router \in DOMAIN source[n]
          /\ source[n][k.router] = [seqno |-> rt[k].seqno, metric |-> rt[k].metric + 1]
          /\ rt[k].metric + 1 < Infinite
    BY <1>3, NodeFacts DEF SelectedOK
  <2>2. Route(n) = k
    BY <2>1 DEF Route
  <2> DEFINE u == Advertised(l, rt, k)
  <2>3. RoutesOf(n) = <<u>>
    BY <1>3, <2>2 DEF RoutesOf
  <2>4. RoutesOK(l, rt)
    BY NodeFacts
  <2> HIDE DEF l, rt
  <2>5. /\ Metric(l, rt, k) = rt[k].metric + 1 /\ Metric(l, rt, k) \in 0..Infinite
        /\ rt[k].seqno \in 0..(SeqnoModulus - 1) /\ k.router \in RouterId
    <3>1. k.router \in RouterId
      BY <2>4 DEF RoutesOK, RouteKey
    <3> QED
      BY <2>1, <2>4, <3>1, MetricFacts
  <2>6. /\ u \in Message /\ <<u>> \in Seq(Message) /\ Elements(<<u>>) = {u} /\ u.router = k.router
        /\ DistanceIn(u) = [seqno |-> rt[k].seqno, metric |-> rt[k].metric + 1]
    BY <2>5, UpdateFacts DEF Advertised
  <2> HIDE DEF u
  <2>7. Tells(n, source[n], {u})
    BY <2>1, <2>6 DEF Tells
  <2> QED
    BY <2>3, <2>6, <2>7
<1> QED
  BY <1>1, <1>2, <1>3

\* A message was received and an answer is sent.
LEMMA AnswerSends ==
  ASSUME TypeInv, NEW c \in Connection, NEW n \in c.ends, Contains(links[n], c), channel[c][n] # <<>>,
         NEW d \in Connection, Contains(links[n], d), NEW s \in Seq(Message)
  PROVE  Sends(channel, Send(Received(n, c), n, d, s), n, links[n], Elements(s))
<1>1. n \in Node /\ n \in d.ends /\ ChannelType(channel)
  BY TwoEnds, NodeFacts
<1>2. Sends(channel, Received(n, c), n, links[n], {})
  BY <1>1, ReceivedSends
<1>3. Sends(channel, Received(n, c), n, links[n], Elements(s))
  BY <1>2, SendsMore
<1>4. ChannelType(Received(n, c))
  BY <1>2 DEF Sends
<1>5. Sends(Received(n, c), Send(Received(n, c), n, d, s), n, links[n], Elements(s))
  BY <1>1, <1>4, SendSends
<1> QED
  BY <1>3, <1>5, SendsTrans

LEMMA RecvRequestRoutesMoves ==
  ASSUME TypeInv, NEW c \in Connection, NEW n \in c.ends, RecvRequestRoutes(n, c)
  PROVE  Moves(n)
<1>1. n \in Node
  BY TwoEnds
<1>2. /\ Contains(links[n], c) /\ channel[c][n] # <<>>
      /\ channel' = Send(Received(n, c), n, c, RoutesOf(n))
  BY DEF RecvRequestRoutes, HasMessage
<1>3. RoutesOf(n) \in Seq(Message) /\ Tells(n, source[n], Elements(RoutesOf(n)))
  BY <1>1, RoutesOfFacts
<1>4. Sends(channel, channel', n, links[n], Elements(RoutesOf(n)))
  BY <1>2, <1>3, AnswerSends
<1>5. UNCHANGED <<scenario, links, tables, view, opened>> /\ router' = router /\ seqno' = seqno
  BY DEF RecvRequestRoutes, origin
<1>6. router' \in RouterId /\ seqno' \in 0..(SeqnoModulus - 1)
  BY <1>1, <1>5, NodeFacts
<1> QED
  BY <1>1, <1>3, <1>4, <1>5, <1>6, QuietMoves

\* incrementSeqno, at once.
LEMMA MulticastSeqno ==
  ASSUME TypeInv, NEW n \in Node, n = Origin, NEW ch, Sends(channel, ch, n, links[n], {}),
         seqno' = NextSeqno(seqno), router' = router,
         channel' = Multicast(ch, n, links[n], <<UpdateMessage(NextSeqno(seqno), 0, router)>>),
         UNCHANGED <<scenario, links, tables, view, opened>>
  PROVE  Moves(n)
<1> DEFINE q == NextSeqno(seqno)
           u == UpdateMessage(q, 0, router)
<1>1. seqno \in 0..(SeqnoModulus - 1) /\ router \in RouterId
  BY NodeFacts
<1>2. q \in 0..(SeqnoModulus - 1)
  BY <1>1, Widths DEF NextSeqno
<1>3. 0 \in 0..Infinite
  BY Widths
<1> HIDE DEF q
<1>4. u \in Message /\ <<u>> \in Seq(Message) /\ Elements(<<u>>) = {u}
  BY <1>1, <1>2, <1>3, UpdateFacts
<1>5. channel' = Multicast(ch, n, links[n], <<u>>)
  BY DEF q
<1> HIDE DEF u
<1>6. ChannelType(ch)
  BY DEF Sends
<1>7. \A c \in Connection : Contains(links[n], c) => n \in c.ends
  BY NodeFacts
<1>8. Sends(ch, channel', n, links[n], {u})
  BY <1>4, <1>5, <1>6, <1>7, MulticastSends
<1>9. Sends(channel, ch, n, links[n], {u})
  BY SendsMore
<1>10. Sends(channel, channel', n, links[n], {u})
  BY <1>8, <1>9, SendsTrans
<1>11. Tells(n, source[n], {u})
  BY <1>4 DEF Tells
<1>12. router' \in RouterId /\ seqno' \in 0..(SeqnoModulus - 1)
  BY <1>1, <1>2 DEF q
<1> QED
  BY <1>10, <1>11, <1>12, QuietMoves

LEMMA SeqnoTimerMoves ==
  ASSUME TypeInv, SeqnoTimer
  PROVE  Moves(Origin)
<1>1. Origin \in Node
  BY NodeAssumption
<1>2. ChannelType(channel)
  BY DEF TypeInv
<1>3. Sends(channel, channel, Origin, links[Origin], {})
  BY <1>2, SendsNothing
<1>4. /\ seqno' = NextSeqno(seqno) /\ router' = router
      /\ channel' = Multicast(channel, Origin, links[Origin], <<UpdateMessage(NextSeqno(seqno), 0, router)>>)
      /\ UNCHANGED <<scenario, links, tables, view, opened>>
  BY DEF SeqnoTimer
<1> QED
  BY <1>1, <1>3, <1>4, MulticastSeqno

\* A message that is not answered.
LEMMA DropMoves ==
  ASSUME TypeInv, NEW c \in Connection, NEW n \in c.ends, channel[c][n] # <<>>,
         channel' = Received(n, c), router' = router, seqno' = seqno,
         UNCHANGED <<scenario, links, tables, view, opened>>
  PROVE  Moves(n)
<1>1. n \in Node
  BY TwoEnds
<1>2. ChannelType(channel) /\ router' \in RouterId /\ seqno' \in 0..(SeqnoModulus - 1)
  BY DEF TypeInv
<1>3. Sends(channel, channel', n, links[n], {})
  BY <1>2, ReceivedSends
<1>4. Tells(n, source[n], {})
  BY DEF Tells
<1> QED
  BY <1>1, <1>2, <1>3, <1>4, QuietMoves

\* forwardSeqnoRequest sends over an open connection.
LEMMA ForwardToFacts ==
  ASSUME TypeInv, NEW n \in Node, ForwardTo(n) # {}, NEW d, d = CHOOSE e \in ForwardTo(n) : TRUE
  PROVE  d \in Connection /\ Contains(links[n], d)
<1>1. d \in ForwardTo(n)
  OBVIOUS
<1>2. RoutesOK(links[n], routes[n]) /\ Len(links[n]) \in Nat
  BY NodeFacts
<1>3. PICK k \in DOMAIN routes[n] : d = k.peer
  <2>1. CASE selected[n] # {}
    <3>1. PICK k \in DOMAIN routes[n] : selected[n] = {k}
      BY <2>1, NodeFacts DEF SelectedOK
    <3>2. Route(n) = k
      BY <3>1 DEF Route
    <3> QED
      BY <1>1, <2>1, <3>1, <3>2 DEF ForwardTo
  <2>2. CASE selected[n] = {}
    <3> DEFINE K == {k \in DOMAIN routes[n] : Metric(links[n], routes[n], k) < Infinite}
    <3>1. K # {} /\ d = FirstBest(links[n], routes[n], K).peer
      BY <1>1, <2>2 DEF ForwardTo
    <3>2. K \subseteq DOMAIN routes[n]
      OBVIOUS
    <3> HIDE DEF K
    <3>3. FirstBest(links[n], routes[n], K) \in K
      BY <1>2, <3>1, <3>2, FirstBestIn
    <3> QED
      BY <3>1, <3>2, <3>3
  <2> QED
    BY <2>1, <2>2
<1> QED
  BY <1>2, <1>3 DEF RoutesOK, RouteKey

LEMMA OneLess == \A t \in Int : t - 1 \in Int
OBVIOUS

LEMMA ForwardedRequest ==
  ASSUME NEW m \in Message, m.type = "seqno request"
  PROVE  LET u == SeqnoRequest(m.seqno, m.ttl - 1)
         IN  u \in Message /\ u.type = "seqno request"
<1>1. RequestRoutes.type # "seqno request" /\ \A v \in Update : v.type # "seqno request"
  BY DEF RequestRoutes, Update
<1>2. m \in [type : {"seqno request"}, seqno : Nat, ttl : Int]
  BY <1>1 DEF Message
<1>3. m.seqno \in Nat /\ m.ttl \in Int
  BY <1>2
<1>4. m.ttl - 1 \in Int
  BY <1>3, OneLess
<1> DEFINE u == SeqnoRequest(m.seqno, m.ttl - 1)
<1>5. u \in [type : {"seqno request"}, seqno : Nat, ttl : Int] /\ u.type = "seqno request"
  BY <1>3, <1>4 DEF SeqnoRequest
<1> HIDE DEF u
<1>6. u \in Message
  BY <1>5 DEF Message
<1> QED
  BY <1>5, <1>6 DEF u

LEMMA ForwardMoves ==
  ASSUME TypeInv, NEW c \in Connection, NEW n \in c.ends, HasMessage(n, c, "seqno request"),
         Forward(n, c, Head(channel[c][n])), router' = router, seqno' = seqno,
         UNCHANGED <<scenario, links, tables, view, opened>>
  PROVE  Moves(n)
<1> DEFINE m == Head(channel[c][n])
           d == CHOOSE e \in ForwardTo(n) : TRUE
           u == SeqnoRequest(m.seqno, m.ttl - 1)
<1>1. Contains(links[n], c) /\ channel[c][n] # <<>> /\ m.type = "seqno request"
  BY DEF HasMessage
<1>2. SUFFICES ASSUME ForwardTo(n) # {}, channel' = Send(Received(n, c), n, d, <<u>>)
               PROVE  Moves(n)
  BY <1>1, DropMoves DEF Forward
<1>3. n \in Node
  BY TwoEnds
<1>4. ChannelType(channel) /\ router' \in RouterId /\ seqno' \in 0..(SeqnoModulus - 1)
  BY DEF TypeInv
<1>5. u \in Message /\ u.type = "seqno request"
  <2>1. m \in Message
    BY <1>1, <1>4, ReceivedSends
  <2> QED
    BY <1>1, <2>1, ForwardedRequest
<1> HIDE DEF u
<1>6. <<u>> \in Seq(Message) /\ Elements(<<u>>) = {u}
  BY <1>5, SingletonElements
<1>7. d \in Connection /\ Contains(links[n], d)
  BY <1>2, <1>3, ForwardToFacts
<1> HIDE DEF d
<1>8. Sends(channel, channel', n, links[n], {u})
  <2>1. Sends(channel, Send(Received(n, c), n, d, <<u>>), n, links[n], Elements(<<u>>))
    BY <1>1, <1>6, <1>7, AnswerSends
  <2> QED
    BY <1>2, <1>6, <2>1
<1>9. Tells(n, source[n], {u})
  BY <1>5 DEF Tells, IsOffer
<1> QED
  BY <1>3, <1>4, <1>8, <1>9, QuietMoves

LEMMA RecvSeqnoRequestMoves ==
  ASSUME TypeInv, NEW c \in Connection, NEW n \in c.ends, RecvSeqnoRequest(n, c)
  PROVE  Moves(n)
<1> DEFINE m == Head(channel[c][n])
<1>1. n \in Node
  BY TwoEnds
<1>2. /\ HasMessage(n, c, "seqno request") /\ Contains(links[n], c) /\ channel[c][n] # <<>>
      /\ UNCHANGED <<scenario, links, tables, view, opened>>
  BY DEF RecvSeqnoRequest, HasMessage
<1>3. ChannelType(channel) /\ router \in RouterId /\ seqno \in 0..(SeqnoModulus - 1)
  BY DEF TypeInv
<1>4. CASE channel' = Send(Received(n, c), n, c, RoutesOf(n)) /\ UNCHANGED <<recent, origin>>
  <2>1. RoutesOf(n) \in Seq(Message) /\ Tells(n, source[n], Elements(RoutesOf(n)))
    BY <1>1, RoutesOfFacts
  <2>2. Sends(channel, channel', n, links[n], Elements(RoutesOf(n)))
    BY <1>2, <1>4, <2>1, AnswerSends
  <2>3. router' \in RouterId /\ seqno' \in 0..(SeqnoModulus - 1)
    BY <1>3, <1>4 DEF origin
  <2> QED
    BY <1>1, <1>2, <2>1, <2>2, <2>3, QuietMoves
<1>5. CASE n = Origin /\ IncrementSeqno(Received(n, c))
  <2>1. CASE /\ seqno' = NextSeqno(seqno) /\ router' = router
             /\ channel' = Multicast(Received(n, c), Origin, links[Origin],
                                     <<UpdateMessage(NextSeqno(seqno), 0, router)>>)
    <3>1. Sends(channel, Received(n, c), n, links[n], {})
      BY <1>2, <1>3, ReceivedSends
    <3> QED
      BY <1>1, <1>2, <1>5, <2>1, <3>1, MulticastSeqno
  <2>2. CASE channel' = Received(n, c) /\ UNCHANGED <<router, seqno>>
    BY <1>2, <2>2, DropMoves
  <2> QED
    BY <1>5, <2>1, <2>2 DEF IncrementSeqno
<1>6. CASE Forward(n, c, m) /\ UNCHANGED origin
  BY <1>2, <1>6, ForwardMoves DEF origin
<1>7. CASE channel' = Received(n, c) /\ UNCHANGED <<recent, origin>>
  BY <1>2, <1>7, DropMoves DEF origin
<1> QED
  BY <1>4, <1>5, <1>6, <1>7 DEF RecvSeqnoRequest

\* A step that only changes this node's tables: what has to be shown of it.
LEMMA TableMoves ==
  ASSUME TypeInv, NEW n \in Node, UNCHANGED <<scenario, origin, view, opened>>,
         NEW l, LinksOK(opened, n, l), \A c \in Connection : Contains(l, c) => Contains(links[n], c),
         Becomes(links, links', n, l),
         NEW rt, RoutesOK(l, rt), \A k \in DOMAIN rt : Learns(n, k, rt[k]),
         NEW ch, Sends(channel, ch, n, l, {}),
         Selects(n, l, rt, ch),
         (IsProducer(n) /\ n # Origin) \/ UNCHANGED <<source, selected>>
  PROVE  Moves(n)
<1>1. PICK src, sel, M :
        /\ Becomes(routes, routes', n, rt) /\ Becomes(source, source', n, src)
        /\ Becomes(selected, selected', n, sel)
        /\ SourceOK(src) /\ SelectedOK(rt, src, sel) /\ SourceGrows(rt, source[n], src)
        /\ Tells(n, src, M) /\ Sends(ch, channel', n, l, M)
  BY DEF Selects
<1>2. Sends(channel, channel', n, l, M)
  <2>1. Sends(channel, ch, n, l, M)
    BY SendsMore
  <2> QED
    BY <1>1, <2>1, SendsTrans
<1>3. /\ scenario' = scenario /\ view' = view /\ opened' = opened /\ router' = router /\ seqno' = seqno
  BY DEF origin
<1>4. Step(n, l, rt, src, sel, M)
  <2>1. Becomes(view, view', n, view'[n]) /\ DOMAIN opened' = Connection
    BY <1>3, NodeFacts DEF Becomes
  <2>2. router' \in RouterId /\ seqno' \in 0..(SeqnoModulus - 1)
    BY <1>3, NodeFacts
  <2>3. TablesOK(l, rt, src, sel)
    BY <1>1 DEF TablesOK
  <2> QED
    BY <1>1, <1>2, <1>3, <2>1, <2>2, <2>3 DEF Step
<1>5. view'[n] = view[n] /\ (Purged(n)' <=> Purged(n))
  BY <1>3 DEF Purged
<1>6. view'[n] \in 1..Len(scenario.schedule)
  BY <1>5, NodeFacts
<1>7. (n = Origin \/ ~scenario.schedule[view'[n]]) => sel = {}
  BY <1>1, <1>5, NodeFacts DEF IsProducer, Becomes
<1>8. (\A i \in 1..view'[n] : ~scenario.schedule[i]) => DOMAIN src = {}
  <2>1. SUFFICES ASSUME \A i \in 1..view[n] : ~scenario.schedule[i] PROVE DOMAIN src = {}
    BY <1>5
  <2>2. DOMAIN source[n] = {}
    BY <2>1, NodeFacts DEF NeverListed
  <2>3. view[n] \in 1..view[n]
    BY NodeFacts
  <2>4. source' = source
    BY <2>1, <2>3 DEF IsProducer
  <2> QED
    BY <1>1, <2>2, <2>4 DEF Becomes
<1>9. SeqnosAreRecent => StandsBy(n, src)
  <2>1. \A k \in DOMAIN rt : n \in k.peer.ends
    BY DEF RoutesOK, RouteKey, LinksOK
  <2> QED
    BY <1>1, <2>1, GrowingStandsBy
<1> QED
  BY <1>4, <1>5, <1>6, <1>7, <1>8, <1>9 DEF Moves

LEMMA RecvUpdateMoves ==
  ASSUME TypeInv, NEW c \in Connection, NEW n \in c.ends, RecvUpdate(n, c)
  PROVE  Moves(n)
<1> DEFINE m == Head(channel[c][n])
           key == [router |-> m.router, peer |-> c]
           data == [seqno |-> m.seqno, metric |-> m.metric]
           rt == [k \in DOMAIN routes[n] \cup {key} |-> IF k = key THEN data ELSE routes[n][k]]
<1>1. n \in Node
  BY TwoEnds
<1>2. Contains(links[n], c) /\ channel[c][n] # <<>> /\ m.type = "update"
  BY DEF RecvUpdate, HasMessage
<1>3. UNCHANGED <<scenario, links, origin, view, opened>>
  BY DEF RecvUpdate
<1>4. CASE UNCHANGED tables /\ channel' = Received(n, c)
  BY <1>2, <1>3, <1>4, DropMoves DEF origin
<1>5. CASE IsProducer(n) /\ n # Origin /\ SelectRoute(n, links[n], rt, c, Received(n, c))
  <2>1. ChannelType(channel)
    BY DEF TypeInv
  <2>2. Sends(channel, Received(n, c), n, links[n], {}) /\ m \in Message /\ m \in InTransit(channel, c, n)
    BY <1>2, <2>1, ReceivedSends
  <2>3. ChannelType(Received(n, c))
    BY <2>2 DEF Sends
  <2> HIDE DEF m
  <2>4. m \in Update
    BY <1>2, <2>2, MessageTypes
  <2>5. key \in RouteKey /\ data \in Distance /\ DistanceIn(m) = data
    BY <2>4 DEF Update, RouteKey, Distance, DistanceIn
  <2>6. key.router = m.router /\ key.peer = c
    OBVIOUS
  <2> HIDE DEF key, data
  <2>7. /\ DOMAIN rt = DOMAIN routes[n] \cup {key} /\ rt[key] = data
        /\ \A k \in DOMAIN routes[n] : k # key => rt[k] = routes[n][k]
    OBVIOUS
  <2> HIDE DEF rt
  <2>8. RoutesOK(links[n], rt)
    <3>1. RoutesOK(links[n], routes[n])
      BY <1>1, NodeFacts
    <3> QED
      BY <1>2, <2>5, <2>6, <2>7, <3>1 DEF RoutesOK
  <2>9. \A k \in DOMAIN rt : Learns(n, k, rt[k])
    <3>1. Learns(n, key, data)
      BY <1>2, <2>2, <2>5, <2>6 DEF Learns
    <3> QED
      BY <2>7, <3>1 DEF Learns
  <2>10. \A k \in selected[n] : k.peer # c => k \in DOMAIN rt /\ rt[k] = routes[n][k]
    <3>1. SelectedOK(routes[n], source[n], selected[n])
      BY <1>1, NodeFacts
    <3>2. selected[n] \subseteq DOMAIN routes[n]
      BY <3>1 DEF SelectedOK
    <3> QED
      BY <2>6, <2>7, <3>2
  <2>11. /\ DOMAIN routes = Node /\ DOMAIN source = Node /\ DOMAIN selected = Node
         /\ LinksOK(opened, n, links[n]) /\ SourceOK(source[n])
         /\ SelectedOK(routes[n], source[n], selected[n])
    BY <1>1, NodeFacts
  <2>12. Selects(n, links[n], rt, Received(n, c))
    BY <1>1, <1>5, <2>3, <2>8, <2>10, <2>11, SelectRouteFacts
  <2>13. Becomes(links, links', n, links[n])
    BY <1>1, <1>3, NodeFacts DEF Becomes
  <2> QED
    BY <1>1, <1>3, <1>5, <2>2, <2>8, <2>9, <2>11, <2>12, <2>13, TableMoves
<1> QED
  BY <1>4, <1>5 DEF RecvUpdate

LEMMA DisconnectMoves ==
  ASSUME TypeInv, NEW c \in Connection, NEW n \in c.ends, Disconnect(n, c)
  PROVE  Moves(n)
<1> DEFINE l == RemainingLinks(n, c)
           rt == RemainingRoutes(n, c)
           ch == [channel EXCEPT ![c][n] = <<>>]
<1>1. n \in Node
  BY TwoEnds
<1>2. /\ Contains(links[n], c) /\ links' = [links EXCEPT ![n] = l]
      /\ UNCHANGED <<scenario, origin, view, opened>>
  BY DEF Disconnect
<1>3. /\ DOMAIN links = Node /\ DOMAIN routes = Node /\ DOMAIN source = Node /\ DOMAIN selected = Node
      /\ LinksOK(opened, n, links[n]) /\ SourceOK(source[n]) /\ RoutesOK(links[n], routes[n])
      /\ SelectedOK(routes[n], source[n], selected[n]) /\ ChannelType(channel)
  BY <1>1, NodeFacts
<1>4. LinksOK(opened, n, l) /\ \A d : Contains(l, d) <=> Contains(links[n], d) /\ d # c
  BY <1>2, <1>3, RemainingLinksFacts
<1>5. Becomes(links, links', n, l)
  BY <1>1, <1>2, <1>3 DEF Becomes
<1>6. /\ DOMAIN rt = {k \in DOMAIN routes[n] : k.peer # c}
      /\ \A k \in DOMAIN rt : k \in DOMAIN routes[n] /\ k.peer # c /\ rt[k] = routes[n][k]
  BY DEF RemainingRoutes
<1> HIDE DEF l, rt
<1>7. RoutesOK(l, rt) /\ \A k \in DOMAIN rt : Learns(n, k, rt[k])
  BY <1>3, <1>4, <1>6 DEF RoutesOK, Learns
<1>8. Sends(channel, ch, n, l, {})
  <2>1. <<>> \in Seq(Message) /\ Elements(<<>>) \subseteq InTransit(channel, c, n)
    BY NoElements
  <2> QED
    BY <1>3, <2>1, FewerMessages
<1> HIDE DEF ch
<1>9. CASE \E k \in selected[n] : k.peer = c
  <2>1. SelectRoute(n, l, rt, c, ch)
    BY <1>9 DEF Disconnect, l, rt, ch
  <2>2. \A k \in selected[n] : k.peer # c => k \in DOMAIN rt /\ rt[k] = routes[n][k]
    <3>1. selected[n] \subseteq DOMAIN routes[n]
      BY <1>3 DEF SelectedOK
    <3> QED
      BY <1>6, <3>1
  <2>3. ChannelType(ch)
    BY <1>8 DEF Sends
  <2>4. Selects(n, l, rt, ch)
    BY <1>1, <1>3, <1>4, <1>7, <2>1, <2>2, <2>3, SelectRouteFacts
  <2>5. IsProducer(n) /\ n # Origin
    BY <1>1, <1>9, NodeFacts
  <2> QED
    BY <1>1, <1>2, <1>4, <1>5, <1>7, <1>8, <2>4, <2>5, TableMoves
<1>10. CASE ~ \E k \in selected[n] : k.peer = c
  <2>1. routes' = [routes EXCEPT ![n] = rt] /\ channel' = ch /\ UNCHANGED <<source, selected>>
    BY <1>10 DEF Disconnect, l, rt, ch
  <2>2. /\ Becomes(routes, routes', n, rt) /\ Becomes(source, source', n, source[n])
        /\ Becomes(selected, selected', n, selected[n])
    BY <1>1, <1>3, <2>1 DEF Becomes
  <2>3. SelectedOK(rt, source[n], selected[n])
    BY <1>3, <1>6, <1>10 DEF SelectedOK
  <2>4. SourceGrows(rt, source[n], source[n]) /\ Tells(n, source[n], {})
    BY DEF SourceGrows, Tells
  <2>5. Sends(ch, channel', n, l, {})
    BY <1>8, <2>1, SendsNothing DEF Sends
  <2>6. Selects(n, l, rt, ch)
    BY <1>3, <2>2, <2>3, <2>4, <2>5 DEF Selects
  <2> QED
    BY <1>1, <1>2, <1>4, <1>5, <1>7, <1>8, <2>1, <2>6, TableMoves
<1> QED
  BY <1>9, <1>10

\* A connection is opened once, at the end of the neighborTable.
LEMMA AppendLinks ==
  ASSUME NEW n, NEW l, LinksOK(opened, n, l), NEW c \in Connection, n \in c.ends, n \notin opened[c],
         NEW op, n \in op[c], \A d \in Connection : opened[d] \subseteq op[d]
  PROVE  /\ LinksOK(op, n, Append(l, c))
         /\ \A d : Contains(Append(l, c), d) <=> Contains(l, d) \/ d = c
<1> DEFINE t == Append(l, c)
<1>1. /\ l \in Seq(Connection) /\ Len(l) \in Nat /\ \A i, j \in 1..Len(l) : l[i] = l[j] => i = j
      /\ \A d \in Connection : Contains(l, d) => n \in d.ends /\ n \in opened[d]
  BY DEF LinksOK
<1>2. \A i \in 1..Len(l) : l[i] # c
  BY <1>1 DEF Contains
<1>3. /\ t \in Seq(Connection) /\ Len(t) = Len(l) + 1 /\ t[Len(l) + 1] = c
      /\ \A i \in 1..Len(l) : t[i] = l[i]
  BY <1>1
<1> HIDE DEF t
<1>4. \A i \in 1..Len(t) : i \in 1..Len(l) \/ i = Len(l) + 1
  BY <1>1, <1>3
<1>5. Len(l) + 1 \in 1..Len(t) /\ \A i \in 1..Len(l) : i \in 1..Len(t)
  BY <1>1, <1>3
<1>6. \A d : Contains(t, d) <=> Contains(l, d) \/ d = c
  BY <1>3, <1>4, <1>5 DEF Contains
<1>7. ASSUME NEW i \in 1..Len(t), NEW j \in 1..Len(t), t[i] = t[j] PROVE i = j
  BY <1>1, <1>2, <1>3, <1>4, <1>7
<1>8. \A d \in Connection : Contains(t, d) => n \in d.ends /\ n \in op[d]
  BY <1>1, <1>6
<1>9. LinksOK(op, n, t)
  BY <1>3, <1>7, <1>8 DEF LinksOK
<1> QED
  BY <1>6, <1>9 DEF t

LEMMA ConnectMoves ==
  ASSUME TypeInv, NEW c \in Connection, NEW n \in c.ends, Connect(n, c)
  PROVE  Moves(n)
<1> DEFINE l == Append(links[n], c)
           M == Elements(RoutesOf(n))
<1>1. n \in Node
  BY TwoEnds
<1>2. /\ n \notin opened[c] /\ opened' = [opened EXCEPT ![c] = @ \cup {n}]
      /\ links' = [links EXCEPT ![n] = l] /\ channel' = Send(channel, n, c, RoutesOf(n))
      /\ routes' = routes /\ source' = source /\ selected' = selected
      /\ scenario' = scenario /\ view' = view /\ router' = router /\ seqno' = seqno
  BY DEF Connect, tables, origin
<1>3. /\ DOMAIN links = Node /\ DOMAIN routes = Node /\ DOMAIN source = Node /\ DOMAIN selected = Node
      /\ DOMAIN view = Node /\ DOMAIN opened = Connection /\ LinksOK(opened, n, links[n])
      /\ SourceOK(source[n]) /\ RoutesOK(links[n], routes[n])
      /\ SelectedOK(routes[n], source[n], selected[n]) /\ ChannelType(channel)
      /\ router \in RouterId /\ seqno \in 0..(SeqnoModulus - 1)
      /\ \A k \in DOMAIN routes[n] : Learns(n, k, routes[n][k])
  BY <1>1, NodeFacts
<1>4. /\ DOMAIN opened' = Connection /\ n \in opened'[c]
      /\ \A d \in Connection : opened[d] \subseteq opened'[d] /\ opened'[d] \subseteq opened[d] \cup {n}
  BY <1>2, <1>3
<1>5. LinksOK(opened', n, l) /\ \A d : Contains(l, d) <=> Contains(links[n], d) \/ d = c
  <2> DEFINE op == opened'
  <2>1. n \in op[c] /\ \A d \in Connection : opened[d] \subseteq op[d]
    BY <1>4
  <2> HIDE DEF op
  <2>2. /\ LinksOK(op, n, Append(links[n], c))
        /\ \A d : Contains(Append(links[n], c), d) <=> Contains(links[n], d) \/ d = c
    BY <1>2, <1>3, <2>1, AppendLinks
  <2> QED
    BY <2>2 DEF op
<1>6. Becomes(links, links', n, l)
  BY <1>1, <1>2, <1>3 DEF Becomes
<1> HIDE DEF l
<1>7. RoutesOf(n) \in Seq(Message) /\ Tells(n, source[n], M)
  BY <1>1, RoutesOfFacts
<1>8. Sends(channel, channel', n, l, M)
  BY <1>2, <1>3, <1>5, <1>7, SendSends
<1> HIDE DEF M
<1>9. TablesOK(l, routes[n], source[n], selected[n])
  BY <1>3, <1>5 DEF TablesOK, RoutesOK
<1>10. /\ Becomes(routes, routes', n, routes[n]) /\ Becomes(source, source', n, source[n])
       /\ Becomes(selected, selected', n, selected[n]) /\ Becomes(view, view', n, view'[n])
  BY <1>2, <1>3 DEF Becomes
<1>11. Step(n, l, routes[n], source[n], selected[n], M)
  BY <1>2, <1>3, <1>4, <1>5, <1>6, <1>7, <1>8, <1>9, <1>10 DEF Step
<1>12. view'[n] = view[n] /\ (Purged(n)' <=> Purged(n))
  BY <1>2 DEF Purged
<1>13. /\ view'[n] \in 1..Len(scenario.schedule)
       /\ (n = Origin \/ ~scenario.schedule[view'[n]]) => selected[n] = {}
       /\ (\A i \in 1..view'[n] : ~scenario.schedule[i]) => DOMAIN source[n] = {}
  BY <1>1, <1>12, NodeFacts DEF IsProducer, NeverListed
<1>14. StandsBy(n, source[n])
  BY DEF StandsBy
<1>15. \A d \in Connection : Contains(l, d) => Contains(links[n], d) \/ n \notin opened[d]
  BY <1>2, <1>5
<1> QED
  BY <1>11, <1>12, <1>13, <1>14, <1>15 DEF Moves

\* Empty tables are in order.
LEMMA EmptyTables ==
  ASSUME NEW l, NEW rt, DOMAIN rt = {}, NEW src, DOMAIN src = {}
  PROVE  TablesOK(l, rt, src, {})
BY DEF TablesOK, RoutesOK, SourceOK, SelectedOK

LEMMA RestartMoves ==
  ASSUME TypeInv, NEW n \in Node, Restart(n)
  PROVE  Moves(n)
<1> DEFINE e == <<>>
<1>1. /\ links' = [links EXCEPT ![n] = e] /\ routes' = [routes EXCEPT ![n] = e]
      /\ source' = [source EXCEPT ![n] = e] /\ selected' = [selected EXCEPT ![n] = {}]
      /\ scenario' = scenario /\ view' = view /\ opened' = opened
      /\ channel' = [c \in Connection |->
                       IF n \in opened[c] THEN [channel[c] EXCEPT ![n] = <<>>] ELSE channel[c]]
  BY DEF Restart
<1>2. DOMAIN e = {} /\ e \in Seq(Connection) /\ Len(e) = 0
  OBVIOUS
<1>3. \A d : ~Contains(e, d)
  BY <1>2 DEF Contains
<1> HIDE DEF e
<1>4. /\ DOMAIN links = Node /\ DOMAIN routes = Node /\ DOMAIN source = Node /\ DOMAIN selected = Node
      /\ DOMAIN view = Node /\ DOMAIN opened = Connection /\ ChannelType(channel)
      /\ router \in RouterId /\ seqno \in 0..(SeqnoModulus - 1) /\ view[n] \in 1..Len(scenario.schedule)
  BY NodeFacts
<1>5. router' \in RouterId /\ seqno' \in 0..(SeqnoModulus - 1)
  <2>1. CASE n = Origin
    <3>1. router' \in scenario.routers /\ seqno' = 0
      BY <2>1 DEF Restart
    <3>2. scenario \in Scenarios
      BY DEF TypeInv
    <3>3. router' \in RouterId
      BY <3>1, <3>2 DEF RouterId
    <3>4. 0 \in 0..(SeqnoModulus - 1)
      BY Widths
    <3> QED
      BY <3>1, <3>3, <3>4
  <2>2. CASE n # Origin
    BY <1>4, <2>2 DEF Restart, origin
  <2> QED
    BY <2>1, <2>2
<1>6. LinksOK(opened', n, e)
  BY <1>2, <1>3 DEF LinksOK
<1>7. TablesOK(e, e, e, {})
  BY <1>2, EmptyTables
<1>8. Sends(channel, channel', n, e, {})
  <2>1. ASSUME NEW c \in Connection, NEW x \in c.ends
        PROVE  channel'[c][x] = channel[c][x] \/ channel'[c][x] = <<>>
    BY <1>1, <1>4 DEF ChannelType
  <2>2. DOMAIN channel' = Connection /\ \A c \in Connection : DOMAIN channel'[c] = c.ends
    BY <1>1, <1>4 DEF ChannelType
  <2>3. ASSUME NEW c \in Connection, NEW x \in c.ends
        PROVE  /\ channel'[c][x] \in Seq(Message)
               /\ InTransit(channel', c, x) \subseteq InTransit(channel, c, x)
    <3>1. CASE channel'[c][x] = channel[c][x]
      BY <1>4, <3>1 DEF ChannelType, InTransit
    <3>2. CASE channel'[c][x] = <<>>
      BY <3>2 DEF InTransit
    <3> QED
      BY <2>1, <3>1, <3>2
  <2>4. ChannelType(channel')
    BY <2>2, <2>3 DEF ChannelType
  <2> QED
    BY <2>3, <2>4 DEF Sends
<1>9. /\ Becomes(links, links', n, e) /\ Becomes(routes, routes', n, e) /\ Becomes(source, source', n, e)
      /\ Becomes(selected, selected', n, {}) /\ Becomes(view, view', n, view'[n])
  BY <1>1, <1>4 DEF Becomes
<1>10. Tells(n, e, {})
  BY DEF Tells
<1>11. \A k \in DOMAIN e : Learns(n, k, e[k])
  BY <1>2
<1>12. DOMAIN opened' = Connection
       /\ \A c \in Connection : opened[c] \subseteq opened'[c] /\ opened'[c] \subseteq opened[c] \cup {n}
  BY <1>1, <1>4
<1>13. Step(n, e, e, e, {}, {})
  BY <1>1, <1>5, <1>6, <1>7, <1>8, <1>9, <1>10, <1>11, <1>12 DEF Step
<1> QED
  BY <1>1, <1>2, <1>3, <1>4, <1>13 DEF Moves

\* A producer set without the Origin: what was told is forgotten.  Either there
\* was nothing to tell, or nobody asks any more.
LEMMA PurgeStandsBy ==
  ASSUME TypeInv, NeverRejoins, NEW n \in Node, NEW v, v = view[n] + 1, v \in 1..Len(scenario.schedule),
         ~scenario.schedule[v],
         NEW i \in v..Len(scenario.schedule), scenario.schedule[i], NEW src
  PROVE  ~Purged(n) /\ StandsBy(n, src)
<1> DEFINE sch == scenario.schedule
<1>1. view[n] \in 1..Len(sch)
  BY NodeFacts
<1>2. scenario \in Scenarios
  BY DEF TypeInv
<1>3. Len(sch) \in Nat
  <2>1. sch \in Seq(BOOLEAN)
    BY <1>2, NodeAssumption DEF IsScenario
  <2> QED
    BY <2>1
<1>4. i \in view[n]..Len(sch) /\ i \in 1..Len(sch) /\ v < i
  <2>1. i # v
    OBVIOUS
  <2> QED
    BY <1>1, <1>3, <2>1
<1>5. ASSUME NEW j \in 1..view[n] PROVE ~sch[j]
  <2>1. j \in 1..Len(sch) /\ j < v
    BY <1>1, <1>3
  <2> QED
    BY <1>2, <1>4, <2>1 DEF NeverRejoins
<1>6. DOMAIN source[n] = {}
  BY <1>5, NodeFacts DEF NeverListed
<1>7. StandsBy(n, src)
  BY <1>6 DEF StandsBy, Told
<1>8. ~Purged(n)
  BY <1>4 DEF Purged
<1> QED
  BY <1>7, <1>8

LEMMA OnProducerChangeMoves ==
  ASSUME TypeInv, NEW n \in Node, OnProducerChange(n)
  PROVE  Moves(n)
<1> DEFINE v == view[n] + 1
           sch == scenario.schedule
           u == UpdateMessage(seqno, 0, router)
           first == IF n = Origin /\ Listed(n) THEN <<u>> ELSE <<>>
           s == first \o <<RequestRoutes>>
<1>1. /\ view[n] < Len(sch) /\ view' = [view EXCEPT ![n] = v]
      /\ channel' = Multicast(channel, n, links[n], s)
      /\ scenario' = scenario /\ links' = links /\ opened' = opened /\ router' = router /\ seqno' = seqno
  BY DEF OnProducerChange, origin
<1>2. /\ DOMAIN links = Node /\ DOMAIN routes = Node /\ DOMAIN source = Node /\ DOMAIN selected = Node
      /\ DOMAIN view = Node /\ DOMAIN opened = Connection /\ LinksOK(opened, n, links[n])
      /\ TablesOK(links[n], routes[n], source[n], selected[n]) /\ ChannelType(channel)
      /\ router \in RouterId /\ seqno \in 0..(SeqnoModulus - 1) /\ view[n] \in 1..Len(sch)
      /\ \A k \in DOMAIN routes[n] : Learns(n, k, routes[n][k])
  BY NodeFacts
<1>3. sch \in Seq(BOOLEAN) /\ Len(sch) \in Nat
  <2>1. scenario \in Scenarios
    BY DEF TypeInv
  <2> QED
    BY <2>1, NodeAssumption DEF IsScenario
<1>4. view'[n] = v /\ v \in 1..Len(sch) /\ Becomes(view, view', n, view'[n])
  BY <1>1, <1>2, <1>3 DEF Becomes
<1>5. s \in Seq(Message) /\ \A e \in Elements(s) : e \in Message /\ (n # Origin => ~IsOffer(e))
  <2>1. 0 \in 0..Infinite
    BY Widths
  <2>2. u \in Message /\ <<u>> \in Seq(Message) /\ Elements(<<u>>) = {u}
    BY <1>2, <2>1, UpdateFacts
  <2> HIDE DEF u
  <2>3. first \in Seq(Message) /\ Elements(first) \subseteq Message /\ (n # Origin => Elements(first) = {})
    <3>1. CASE first = <<u>> /\ n = Origin
      BY <2>2, <3>1
    <3>2. CASE first = <<>>
      BY <3>2, NoElements
    <3> QED
      BY <3>1, <3>2
  <2>4. RequestRoutes \in Message /\ ~IsOffer(RequestRoutes)
    BY DEF Message, IsOffer, RequestRoutes
  <2>5. <<RequestRoutes>> \in Seq(Message) /\ Elements(<<RequestRoutes>>) = {RequestRoutes}
    BY <2>4, SingletonElements
  <2> HIDE DEF first
  <2>6. s \in Seq(Message) /\ Elements(s) \subseteq Elements(first) \cup {RequestRoutes}
    BY <2>3, <2>5, ConcatSets
  <2> HIDE DEF s
  <2> QED
    BY <2>3, <2>4, <2>6
<1> DEFINE M == Elements(s)
<1> HIDE DEF s
<1>6. Sends(channel, channel', n, links[n], M)
  <2>1. \A c \in Connection : Contains(links[n], c) => n \in c.ends
    BY <1>2 DEF LinksOK
  <2> QED
    BY <1>1, <1>2, <1>5, <2>1, MulticastSends
<1>7. \A src : Tells(n, src, M)
  BY <1>5 DEF Tells
<1> HIDE DEF M
<1>8. Becomes(links, links', n, links[n]) /\ DOMAIN opened' = Connection
      /\ \A c \in Connection : opened[c] \subseteq opened'[c] /\ opened'[c] \subseteq opened[c] \cup {n}
  BY <1>1, <1>2 DEF Becomes
<1>9. router' \in RouterId /\ seqno' \in 0..(SeqnoModulus - 1) /\ LinksOK(opened', n, links[n])
  BY <1>1, <1>2
<1>10. CASE Listed(n)
  <2>1. routes' = routes /\ source' = source /\ selected' = selected
    BY <1>10 DEF OnProducerChange, tables
  <2>2. /\ Becomes(routes, routes', n, routes[n]) /\ Becomes(source, source', n, source[n])
        /\ Becomes(selected, selected', n, selected[n])
    BY <1>2, <2>1 DEF Becomes
  <2>3. Step(n, links[n], routes[n], source[n], selected[n], M)
    BY <1>1, <1>2, <1>4, <1>6, <1>7, <1>8, <1>9, <2>2 DEF Step
  <2>4. sch[v] /\ v \in 1..v /\ v \in view[n]..Len(sch)
    BY <1>2, <1>3, <1>4, <1>10 DEF Listed
  <2>5. ~Purged(n)
    BY <2>4 DEF Purged
  <2>6. StandsBy(n, source[n])
    BY DEF StandsBy
  <2>7. (n = Origin \/ ~sch[view'[n]]) => selected[n] = {}
    BY <1>4, <2>4, NodeFacts
  <2>8. ~ \A i \in 1..view'[n] : ~sch[i]
    BY <1>4, <2>4
  <2> QED
    BY <1>4, <2>3, <2>5, <2>6, <2>7, <2>8 DEF Moves
<1>11. CASE ~Listed(n)
  <2> DEFINE e == <<>>
  <2>1. /\ routes' = [routes EXCEPT ![n] = e] /\ source' = [source EXCEPT ![n] = e]
        /\ selected' = [selected EXCEPT ![n] = {}]
    BY <1>11 DEF OnProducerChange
  <2>2. DOMAIN e = {}
    OBVIOUS
  <2> HIDE DEF e
  <2>3. /\ Becomes(routes, routes', n, e) /\ Becomes(source, source', n, e)
        /\ Becomes(selected, selected', n, {})
    BY <1>2, <2>1 DEF Becomes
  <2>4. TablesOK(links[n], e, e, {})
    BY <2>2, EmptyTables
  <2>5. \A k \in DOMAIN e : Learns(n, k, e[k])
    BY <2>2
  <2>6. Step(n, links[n], e, e, {}, M)
    BY <1>1, <1>4, <1>6, <1>7, <1>8, <1>9, <2>3, <2>4, <2>5 DEF Step
  <2>7. ASSUME NeverRejoins, ~Purged(n)' PROVE ~Purged(n) /\ StandsBy(n, e)
    <3>1. PICK i \in v..Len(sch) : sch[i]
      BY <1>1, <1>4, <2>7 DEF Purged
    <3>2. ~sch[v]
      BY <1>11 DEF Listed
    <3> QED
      BY <1>4, <2>7, <3>1, <3>2, PurgeStandsBy
  <2> QED
    BY <1>4, <2>2, <2>6, <2>7 DEF Moves
<1> QED
  BY <1>10, <1>11

-----------------------------------------------------------------------------
(***************************************************************************)
(* The invariants.                                                         *)
(***************************************************************************)
\* The connections of a node in some order.
LEMMA SetToSeqFacts ==
  ASSUME NEW S, IsFiniteSet(S)
  PROVE  LET l == SetToSeq(S)
         IN  /\ l \in Seq(S)
             /\ \A i, j \in 1..Len(l) : l[i] = l[j] => i = j
             /\ \A c : Contains(l, c) => c \in S
<1> DEFINE N == Cardinality(S)
           l == SetToSeq(S)
<1>1. N \in Nat /\ ExistsBijection(1..N, S)
  BY FS_CardinalityType
<1>2. PICK f \in [1..N -> S] : IsInjective(f)
  BY <1>1 DEF ExistsBijection, Bijection, Injection
<1>3. l \in [1..N -> S] /\ IsInjective(l)
  BY <1>2 DEF SetToSeq
<1> HIDE DEF N, l
<1>4. l \in Seq(S) /\ Len(l) = N
  BY <1>1, <1>3
<1>5. \A i, j \in 1..Len(l) : l[i] = l[j] => i = j
  BY <1>3, <1>4 DEF IsInjective
<1>6. \A c : Contains(l, c) => c \in S
  BY <1>3, <1>4 DEF Contains
<1> QED
  BY <1>4, <1>5, <1>6 DEF l

LEMMA InitLinks ==
  ASSUME Init, NEW n \in Node
  PROVE  LinksOK(opened, n, links[n])
<1> DEFINE S == {c \in scenario.standing : n \in c.ends}
           l == SetToSeq(S)
<1>1. scenario \in Scenarios /\ links[n] = l
  BY DEF Init
<1>2. IsFiniteSet(scenario.standing) /\ scenario.standing \subseteq Connection
  BY <1>1, NodeAssumption DEF IsScenario, Connection
<1>3. IsFiniteSet(S)
  <2>1. S \subseteq scenario.standing
    OBVIOUS
  <2> HIDE DEF S
  <2> QED
    BY <1>2, <2>1, FS_Subset
<1>4. \A c \in S : c \in Connection /\ n \in c.ends /\ n \in opened[c]
  BY <1>2 DEF Init
<1> HIDE DEF S
<1>5. l \in Seq(S) /\ (\A i, j \in 1..Len(l) : l[i] = l[j] => i = j) /\ \A c : Contains(l, c) => c \in S
  BY <1>3, SetToSeqFacts
<1> HIDE DEF l
<1>6. l \in Seq(Connection)
  <2>1. l \in [1..Len(l) -> S] /\ Len(l) \in Nat
    BY <1>5
  <2>2. l \in [1..Len(l) -> Connection]
    BY <1>4, <2>1
  <2> QED
    BY <2>1, <2>2
<1>7. LinksOK(opened, n, l)
  BY <1>4, <1>5, <1>6 DEF LinksOK
<1> QED
  BY <1>1, <1>7

LEMMA InitInv ==
  ASSUME Init
  PROVE  TypeInv /\ Honest
<1>1. \A c \in Connection : \A x \in c.ends : channel[c][x] = <<>> /\ InTransit(channel, c, x) = {}
  BY DEF Init, InTransit
<1>2. /\ DOMAIN links = Node /\ DOMAIN routes = Node /\ DOMAIN source = Node
      /\ DOMAIN selected = Node /\ DOMAIN view = Node /\ DOMAIN opened = Connection
      /\ scenario \in Scenarios /\ router \in scenario.routers /\ seqno = FirstSeqno
      /\ DOMAIN channel = Connection /\ \A c \in Connection : DOMAIN channel[c] = c.ends
  BY DEF Init
<1>3. \A n \in Node : view[n] = 1 /\ selected[n] = {} /\ DOMAIN routes[n] = {} /\ DOMAIN source[n] = {}
  BY DEF Init
<1>4. router \in RouterId
  BY <1>2 DEF RouterId
<1>5. seqno \in 0..(SeqnoModulus - 1)
  BY <1>2, SeqnoAssumption
<1>6. ChannelType(channel)
  <2>1. <<>> \in Seq(Message)
    BY NoElements
  <2>2. \A c \in Connection : \A x \in c.ends : channel[c][x] \in Seq(Message)
    BY <1>1, <2>1
  <2> QED
    BY <1>2, <2>2 DEF ChannelType
<1>7. 1 \in 1..Len(scenario.schedule)
  <2>1. scenario.schedule \in Seq(BOOLEAN) /\ scenario.schedule # <<>>
    BY <1>2, NodeAssumption DEF IsScenario
  <2> QED
    BY <2>1
<1>8. ASSUME NEW n \in Node PROVE NodeInv(n)
  <2>1. LinksOK(opened, n, links[n])
    BY InitLinks
  <2>2. TablesOK(links[n], routes[n], source[n], selected[n])
    BY <1>3, EmptyTables
  <2> QED
    BY <1>3, <1>7, <2>1, <2>2 DEF NodeInv
<1>9. Unopened
  BY <1>1, <1>3, TwoEnds DEF Unopened
<1>10. Honest
  BY <1>1, <1>3, TwoEnds DEF Honest
<1> QED
  BY <1>2, <1>4, <1>5, <1>6, <1>8, <1>9, <1>10 DEF TypeInv

LEMMA NextInv ==
  ASSUME TypeInv, [Next]_vars
  PROVE  TypeInv' /\ (NeverRejoins /\ SeqnosAreRecent /\ Honest => Honest')
<1> DEFINE Goal == TypeInv' /\ (NeverRejoins /\ SeqnosAreRecent /\ Honest => Honest')
<1>1. ASSUME NEW n \in Node, Moves(n) PROVE Goal
  BY <1>1, MovesInv
<1>2. ASSUME UNCHANGED vars PROVE Goal
  <2>1. /\ scenario' = scenario /\ links' = links /\ routes' = routes /\ source' = source
        /\ selected' = selected /\ view' = view /\ opened' = opened /\ router' = router
        /\ seqno' = seqno /\ channel' = channel
    BY <1>2 DEF vars
  <2>2. Origin \in Node
    BY NodeAssumption
  <2>3. Sends(channel, channel', Origin, links[Origin], {})
    BY <2>1, SendsNothing DEF TypeInv
  <2>4. Tells(Origin, source[Origin], {})
    BY DEF Tells
  <2>5. router' \in RouterId /\ seqno' \in 0..(SeqnoModulus - 1)
    BY <2>1 DEF TypeInv
  <2>6. UNCHANGED <<scenario, links, tables, view, opened>>
    BY <2>1 DEF tables
  <2>7. Moves(Origin)
    BY <2>2, <2>3, <2>4, <2>5, <2>6, QuietMoves
  <2> QED
    BY <1>1, <2>2, <2>7
<1> HIDE DEF Goal
<1>3. ASSUME NEW c \in Connection, NEW n \in c.ends, Connect(n, c) \/ Disconnect(n, c) \/ Recv(n, c)
      PROVE  Goal
  <2>1. n \in Node
    BY TwoEnds
  <2>2. Moves(n)
    BY <1>3, ConnectMoves, DisconnectMoves, RecvUpdateMoves, RecvRequestRoutesMoves,
       RecvSeqnoRequestMoves DEF Recv
  <2> QED
    BY <1>1, <2>1, <2>2
<1>4. ASSUME NEW n \in Node, Restart(n) \/ OnProducerChange(n) PROVE Goal
  BY <1>1, <1>4, RestartMoves, OnProducerChangeMoves
<1>5. ASSUME SeqnoTimer PROVE Goal
  <2>1. Origin \in Node
    BY NodeAssumption
  <2>2. Moves(Origin)
    BY <1>5, SeqnoTimerMoves
  <2> QED
    BY <1>1, <2>1, <2>2
<1>6. Goal
  BY <1>2, <1>3, <1>4, <1>5 DEF Next
<1> QED
  BY <1>6 DEF Goal

LEMMA TypeInvAlways == Spec => []TypeInv
<1>1. Init => TypeInv
  BY InitInv
<1>2. TypeInv /\ [Next]_vars => TypeInv'
  BY NextInv
<1> QED
  BY <1>1, <1>2, PTL DEF Spec

LEMMA HonestAlways ==
  ASSUME NeverRejoins
  PROVE  Spec /\ []SeqnosAreRecent => [](TypeInv /\ Honest)
<1>1. Init => TypeInv /\ Honest
  BY InitInv
<1>2. TypeInv /\ Honest /\ SeqnosAreRecent /\ [Next]_vars => (TypeInv /\ Honest)'
  BY NextInv
<1> QED
  BY <1>1, <1>2, PTL DEF Spec

\* The tables of a node belong together in every network: the route in use is in
\* routeTable, leads over a connection of neighborTable, and its router is in
\* sourceTable, whatever selectRoute, disconnect and on_producer_change do.
THEOREM TablesBelongTogether == Spec => []TypeOK
<1>1. TypeInv => TypeOK
  <2>1. SUFFICES ASSUME TypeInv PROVE TypeOK
    OBVIOUS
  <2>2. ASSUME NEW n \in Node
        PROVE  /\ selected[n] \subseteq DOMAIN routes[n] /\ Cardinality(selected[n]) <= 1
               /\ \A k \in selected[n] : k.router \in DOMAIN source[n]
    <3>1. SelectedOK(routes[n], source[n], selected[n])
      BY <2>1, NodeFacts
    <3>2. CASE selected[n] = {}
      <4>1. Cardinality(selected[n]) = 0
        BY <3>2, FS_EmptySet
      <4> QED
        BY <3>2, <4>1
    <3>3. CASE selected[n] # {}
      <4>1. PICK k \in DOMAIN routes[n] : selected[n] = {k} /\ k.router \in DOMAIN source[n]
        BY <3>1, <3>3 DEF SelectedOK
      <4>2. Cardinality(selected[n]) = 1
        BY <4>1, FS_Singleton
      <4> QED
        BY <4>1, <4>2
    <3> QED
      BY <3>2, <3>3
  <2>3. \A n \in Node : RoutesOK(links[n], routes[n]) /\ SourceOK(source[n])
    BY <2>1, NodeFacts
  <2> QED
    BY <2>1, <2>2, <2>3 DEF TypeOK, TypeInv, RoutesOK, SourceOK
<1> QED
  BY <1>1, TypeInvAlways, PTL

LEMMA DistancesDecrease ==
  ASSUME TypeInv, Honest
  PROVE  DistanceDecreases
<1>1. SUFFICES ASSUME NEW n \in Node, NEW r \in RouterId, NEW m \in NextHops(n, r),
                      NEW k2 \in selected[m], k2.router = r
               PROVE  Better(source[m][r], source[n][r])
  BY DEF DistanceDecreases
<1>2. PICK k \in selected[n] : k.router = r /\ m \in k.peer.ends \ {n} /\ Contains(links[m], k.peer)
  BY DEF NextHops
<1>3. /\ k \in DOMAIN routes[n] /\ r \in DOMAIN source[n]
      /\ source[n][r] = [seqno |-> routes[n][k].seqno, metric |-> routes[n][k].metric + 1]
      /\ routes[n][k].metric + 1 < Infinite
  <2>1. SelectedOK(routes[n], source[n], selected[n])
    BY NodeFacts
  <2> QED
    BY <1>2, <2>1 DEF SelectedOK
<1>4. k.peer \in Connection /\ n \in k.peer.ends /\ routes[n][k] \in Distance
  <2>1. RoutesOK(links[n], routes[n]) /\ LinksOK(opened, n, links[n])
    BY NodeFacts
  <2> QED
    BY <1>3, <2>1 DEF RoutesOK, RouteKey, LinksOK
<1>5. m \in Node
  BY <1>2, <1>4, TwoEnds
<1>6. m # Origin /\ IsProducer(m) /\ view[m] \in 1..Len(scenario.schedule)
  BY <1>1, <1>5, NodeFacts
<1>7. ~Purged(m)
  <2>1. view[m] \in view[m]..Len(scenario.schedule)
    BY <1>6
  <2> QED
    BY <1>6, <2>1 DEF Purged, IsProducer
<1>8. routes[n][k].metric \in Nat /\ routes[n][k].metric # Infinite
  BY <1>3, <1>4, Widths DEF Distance
<1>9. Told(source[m], r, routes[n][k])
  BY <1>2, <1>3, <1>4, <1>6, <1>7, <1>8 DEF Honest
<1>10. source[m][r] \in Distance
  BY <1>5, <1>9, NodeFacts DEF Told, SourceOK
<1>11. source[m][r].metric \in Nat
  BY <1>10, Widths DEF Distance
<1>12. source[n][r].seqno = routes[n][k].seqno /\ source[n][r].metric = routes[n][k].metric + 1
  BY <1>3
<1> QED
  BY <1>8, <1>9, <1>11, <1>12 DEF Told, Better

\* Along a route each node has advertised a better distance than the one before it:
\* isFeasible compares with what this node said, and what the next hop has said is
\* still in its sourceTable.  A producer that has left must not come back, since
\* on_producer_change forgets the sourceTable, and the seqnos in use must be within
\* half of the circle in which they compare.
THEOREM DistanceAlwaysDecreases ==
  ASSUME NeverRejoins
  PROVE  Spec /\ []SeqnosAreRecent => []DistanceDecreases
<1>1. TypeInv /\ Honest => DistanceDecreases
  BY DistancesDecrease
<1> QED
  BY <1>1, HonestAlways, PTL

LEMMA NoLoop ==
  ASSUME TypeInv, SeqnosAreRecent, DistanceDecreases
  PROVE  LoopFree
<1>1. SUFFICES ASSUME NEW r \in RouterId, NEW S \in SUBSET (Node \ {Origin}), S # {},
                      \A n \in S : NextHops(n, r) # {} /\ NextHops(n, r) \subseteq S
               PROVE  FALSE
  BY DEF LoopFree
<1>2. \A n \in S : n \in Node /\ \E k \in selected[n] : k.router = r
  BY <1>1 DEF NextHops
<1>3. ASSUME NEW n \in S PROVE source[n][r] \in Known(r) /\ source[n][r] \in Distance
  <2>1. n \in Node
    BY <1>2
  <2>2. PICK k \in selected[n] : k.router = r
    BY <1>2
  <2>3. SelectedOK(routes[n], source[n], selected[n]) /\ SourceOK(source[n])
    BY <2>1, NodeFacts
  <2>4. r \in DOMAIN source[n]
    BY <2>2, <2>3 DEF SelectedOK
  <2> QED
    BY <2>1, <2>3, <2>4, KnownFacts DEF SourceOK
<1>4. PICK top \in 0..(SeqnoModulus - 1) : \A d \in Known(r) : Recent(top, d.seqno)
  BY DEF SeqnosAreRecent
<1> DEFINE age(n) == Age(top, source[n][r].seqno)
           far(n) == source[n][r].metric
<1>5. ASSUME NEW n \in S
      PROVE  /\ source[n][r].seqno \in 0..(SeqnoModulus - 1) /\ Recent(top, source[n][r].seqno)
             /\ age(n) \in Nat /\ far(n) \in Nat
  <2>1. source[n][r].seqno \in 0..(SeqnoModulus - 1) /\ far(n) \in Nat
    BY <1>3, Widths DEF Distance
  <2>2. Recent(top, source[n][r].seqno)
    BY <1>3, <1>4
  <2> QED
    BY <2>1, <2>2, AgeOrder
<1>6. ASSUME NEW n \in S, NEW m \in S, Better(source[m][r], source[n][r])
      PROVE  age(m) < age(n) \/ (age(m) = age(n) /\ far(m) < far(n))
  <2>1. SeqnoLess(source[n][r].seqno, source[m][r].seqno) <=> age(m) < age(n)
    BY <1>5, AgeOrder
  <2> QED
    BY <1>6, <2>1 DEF Better
<1> HIDE DEF age, far
<1>7. PICK x \in S : \A n \in S : age(x) <= age(n)
  <2> DEFINE A == {age(n) : n \in S}
  <2>1. A \in SUBSET Nat /\ A # {}
    BY <1>1, <1>5
  <2>2. PICK v \in A : \A w \in A : v <= w
    BY <2>1, LeastNat
  <2> QED
    BY <2>2
<1> DEFINE T == {n \in S : age(n) = age(x)}
<1>8. PICK y \in T : \A n \in T : far(y) <= far(n)
  <2> DEFINE A == {far(n) : n \in T}
  <2>1. A \in SUBSET Nat /\ A # {}
    BY <1>5
  <2>2. PICK v \in A : \A w \in A : v <= w
    BY <2>1, LeastNat
  <2> QED
    BY <2>2
<1>9. y \in S /\ age(y) = age(x)
  BY <1>8
<1>10. PICK m \in NextHops(y, r) : m \in S
  BY <1>1, <1>9
<1>11. Better(source[m][r], source[y][r])
  BY <1>2, <1>9, <1>10 DEF DistanceDecreases
<1>12. age(m) < age(y) \/ (age(m) = age(y) /\ far(m) < far(y))
  BY <1>6, <1>9, <1>10, <1>11
<1>13. age(m) \in Nat /\ age(y) \in Nat /\ far(m) \in Nat /\ far(y) \in Nat /\ age(y) <= age(m)
  BY <1>5, <1>7, <1>9, <1>10
<1>14. age(m) = age(y) /\ far(m) < far(y)
  BY <1>12, <1>13
<1>15. far(y) <= far(m)
  BY <1>8, <1>9, <1>10, <1>14
<1> QED
  BY <1>13, <1>14, <1>15

\* Routes to the same router never form a loop, in a network of any size and shape
\* and with any interleaving of updates, requests, failures and restarts.
THEOREM AlwaysLoopFree ==
  ASSUME NeverRejoins
  PROVE  Spec /\ []SeqnosAreRecent => []LoopFree
<1>1. TypeInv /\ Honest /\ SeqnosAreRecent => LoopFree
  BY DistancesDecrease, NoLoop
<1> QED
  BY <1>1, HonestAlways, PTL
=============================================================================
