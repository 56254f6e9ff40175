---------------------------- MODULE GatewayProofs ----------------------------
(***************************************************************************)
(* Proofs about Gateway, for every network of gateways and clients, every   *)
(* way they may be started, and whatever is lost, late or throttled.        *)
(***************************************************************************)
EXTENDS Gateway, LeastProofs, FiniteSetTheorems, TLAPS

\* A peer table: a key has one slot, and the endpoint in it is one of that key's, which
\* announced the address in it and may have it.
Table(P) ==
    /\ P \in [Slot -> PeerEntry]
    /\ \A i, j \in Slot : P[i].id # NoOne /\ P[i].id = P[j].id => i = j
    /\ \A i \in used(P) : P[i].ep # NoEp => P[i].ep[1] = P[i].id /\ Announces(P[i].ep, P[i].addr)

\* A route table: an address has one route of each link, to an endpoint that announced it.
RouteTable(s) ==
    /\ s \in Seq(Route) /\ Len(s) <= MaxRoutes
    /\ \A i, j \in DOMAIN s : s[i].addr = s[j].addr /\ s[i].li = s[j].li => i = j
    /\ \A i \in DOMAIN s : Announces(s[i].ep, s[i].addr)

\* The pending queries, k of them at most, where the clients have asked A: an address has
\* one, and a client among those to be answered has asked for it.
Queries(S, k, A) ==
    /\ S \subseteq Pending /\ IsFiniteSet(S) /\ Cardinality(S) <= k
    /\ \A p, r \in S : p.addr = r.addr => p = r
    /\ \A p \in S : p.asker \in Endpoint => \E a \in A : a.ep = p.asker /\ a.addr = p.addr

\* A datagram between gateways: where it says an address is, the address was announced from.
Sound(m) ==
    /\ m \in Message
    /\ m.body.type \in {"R", "ROUTE"} => Announces(m.body.ep, m.body.addr)
    /\ m.from = Segment => m.via = "l2" /\ m.body.type = "frame"

AskedType == [ep : Endpoint, addr : Addr, sure : BOOLEAN]

-----------------------------------------------------------------------------
(* The types the definitions are built from.                                 *)

LEMMA Sizes == MaxPeers \in Nat /\ MaxRoutes \in Nat /\ MaxMoves \in Nat /\ MaxFlying \in Nat /\ Slot \in SUBSET Nat /\ Ids \in SUBSET Nat
BY SizeAssumption DEF Slot, Ids

LEMMA ConfTypes ==
    ASSUME conf \in Confs
    PROVE  /\ conf.room \in Nat /\ conf.moves \in 0 .. MaxMoves /\ conf.flying \in Ids /\ conf.l2 \subseteq Gw
           /\ conf.at \in [Client -> Gw \cup {Segment, Away}] /\ conf.kinds \subseteq {"control", "stream", "dgram"}
           /\ conf.addr \in [Endpoint -> Addr]
<1>1. conf \in Conf
  BY ConfAssumption
<1> QED BY <1>1 DEF Conf

LEMMA EpTypes == NoEp \notin Endpoint /\ (\A e \in Endpoint : e[1] \in Client)
BY DEF NoEp, Endpoint

LEMMA EntryTypes ==
    /\ Unused \in PeerEntry
    /\ \A c \in Client, a \in Addr, e \in Endpoint \cup {NoEp} :
          Entry(c, a, e) \in PeerEntry /\ Entry(c, a, e).id = c /\ Entry(c, a, e).addr = a /\ Entry(c, a, e).ep = e
BY DEF PeerEntry, Unused, Entry

LEMMA MessageTypes ==
    ASSUME NEW m \in Message
    PROVE  /\ m.to \in Gw /\ m.from \in Gw \cup {Segment}
           /\ m.body.type = "frame" => m.body.id \in Ids
           /\ m.body.type \in {"Q", "R", "ROUTE"} => m.body.addr \in Addr
           /\ m.body.type \in {"R", "ROUTE"} => m.body.ep \in Endpoint
<1>1. m.to \in Gw /\ m.from \in Gw \cup {Segment} /\ m.body \in Body
  BY DEF Message
<1>2. \A b \in Body : /\ b.type = "frame" => b.id \in Ids
                      /\ b.type \in {"Q", "R", "ROUTE"} => b.addr \in Addr
                      /\ b.type \in {"R", "ROUTE"} => b.ep \in Endpoint
  BY DEF Body
<1> QED BY <1>1, <1>2

LEMMA BodyTypes ==
    /\ \A n \in Ids : [type |-> "frame", id |-> n] \in Body
    /\ [type |-> "ANN"] \in Body
    /\ \A a \in Addr : [type |-> "Q", addr |-> a] \in Body
    /\ \A a \in Addr, e \in Endpoint : [type |-> "R", addr |-> a, ep |-> e] \in Body
    /\ \A a \in Addr, e \in Endpoint : [type |-> "ROUTE", addr |-> a, ep |-> e] \in Body
BY DEF Body

-----------------------------------------------------------------------------
(* The tables.                                                               *)

\* Writing slot i of a table in which no other slot has the key.
LEMMA Written ==
    ASSUME NEW P, Table(P), NEW c \in Client, NEW a \in Addr, NEW e \in Endpoint \cup {NoEp},
           e = NoEp \/ (e[1] = c /\ Announces(e, a)), NEW i \in Slot, \A j \in Slot : P[j].id = c => j = i
    PROVE  Table([P EXCEPT ![i] = Entry(c, a, e)])
<1> DEFINE r == Entry(c, a, e)
           Q == [P EXCEPT ![i] = r]
<1>1. r \in PeerEntry /\ r.id = c /\ r.ep = e /\ r.addr = a
  BY EntryTypes
<1> HIDE DEF r
<1>2. Q \in [Slot -> PeerEntry] /\ Q[i] = r /\ \A j \in Slot : j # i => Q[j] = P[j]
  BY <1>1 DEF Table
<1> HIDE DEF Q
<1>3. Table(Q)
  BY <1>1, <1>2 DEF Table, used
<1> QED BY <1>3 DEF Q, r

\* peer_learn_auth keeps a table one.
LEMMA LearnTable ==
    ASSUME NEW P, Table(P), NEW c \in Client, NEW a \in Addr, NEW e \in Endpoint \cup {NoEp},
           e = NoEp \/ (e[1] = c /\ Announces(e, a))
    PROVE  Table(peer_learn_auth(P, c, a, e))
<1>1. CASE known(P, c)
  <2> DEFINE i == First(peer_find(P, c))
  <2>1. peer_find(P, c) \in SUBSET Nat /\ peer_find(P, c) # {}
    BY <1>1, Sizes DEF peer_find, known
  <2>2. i \in Slot /\ P[i].id = c
    BY <2>1, FirstIsIn DEF peer_find
  <2>3. \A j \in Slot : P[j].id = c => j = i
    BY <2>2, NameAssumption DEF Table
  <2> HIDE DEF i
  <2>4. Table([P EXCEPT ![i] = Entry(c, a, e)])
    BY <2>2, <2>3, Written
  <2> QED BY <1>1, <2>4 DEF peer_learn_auth, i
<1>2. CASE ~known(P, c) /\ reusable(P) # {}
  <2> DEFINE i == First(reusable(P))
  <2>1. reusable(P) \in SUBSET Nat
    BY Sizes DEF reusable
  <2>2. i \in Slot
    BY <1>2, <2>1, FirstIsIn DEF reusable
  <2>3. \A j \in Slot : P[j].id # c
    BY <1>2 DEF known, peer_find
  <2> HIDE DEF i
  <2>4. Table([P EXCEPT ![i] = Entry(c, a, e)])
    BY <2>2, <2>3, Written
  <2> QED BY <1>2, <2>4 DEF peer_learn_auth, i
<1>3. CASE ~known(P, c) /\ reusable(P) = {}
  BY <1>3 DEF peer_learn_auth
<1> QED BY <1>1, <1>2, <1>3

\* What is learned of a frame was announced from its endpoint with a key that may have it.
LEMMA LearnedTable ==
    ASSUME NEW g \in Gw, Table(peers[g]), NEW f \in Frame \cup {NoFrame}, NEW e \in Endpoint \cup {NoEp},
           e = NoEp \/ (e[1] = f.from /\ conf.addr[e] = f.src), NEW t
    PROVE  Table(Learned(g, f, e, t))
<1>1. f.nh # "dgram" => f.from \in Client /\ f.src \in Addr
  BY DEF Frame, NoFrame
<1>2. auth_allowed(f.from, f.src) => e = NoEp \/ (e[1] = f.from /\ Announces(e, f.src))
  BY DEF auth_allowed, Announces
<1> QED BY <1>1, <1>2, LearnTable DEF Learned

\* The endpoint that a lookup returns is of a slot that it looked for.
LEMMA EpInOwn ==
    ASSUME NEW P, NEW S \in SUBSET used(P), S # {}
    PROVE  First(S) \in S /\ First(S) \in Slot /\ EpIn(P, S) = P[First(S)].ep
<1>1. S \in SUBSET Nat
  BY Sizes DEF used
<1>2. First(S) \in S
  BY <1>1, FirstIsIn
<1> QED BY <1>2 DEF EpIn, used

LEMMA EntryOwn ==
    ASSUME NEW P, Table(P), NEW i \in used(P), P[i].ep # NoEp
    PROVE  P[i].ep \in Endpoint /\ P[i].ep[1] = P[i].id /\ P[i].id \in Client /\ Announces(P[i].ep, P[i].addr)
<1>1. P[i] \in PeerEntry /\ P[i].id # NoOne
  BY DEF Table, used
<1> QED BY <1>1 DEF Table, PeerEntry

\* Lookups find slots that are used.
LEMMA Finds ==
    ASSUME NEW P
    PROVE  /\ \A c : c # NoOne => peer_find(P, c) \in SUBSET used(P)
           /\ \A a : peer_find_addr(P, a) \in SUBSET used(P)
           /\ \A e : peer_find_endpoint(P, e) \in SUBSET used(P)
BY DEF peer_find, peer_find_addr, peer_find_endpoint, used

\* Where a gateway says an address is, the address was announced from.
LEMMA WhereAnnounced ==
    ASSUME NEW g \in Gw, Table(peers[g]), NEW q \in Addr, local(g, q)
    PROVE  WhereIs(g, q) \in Endpoint /\ Announces(WhereIs(g, q), q)
<1> DEFINE P == peers[g]
           S == peer_find_addr(P, q)
           i == First(S)
<1>1. S \in SUBSET used(P) /\ S # {} /\ EpIn(P, S) # NoEp /\ WhereIs(g, q) = EpIn(P, S)
  BY Finds DEF local, WhereIs
<1>2. i \in S /\ EpIn(P, S) = P[i].ep
  BY <1>1, EpInOwn
<1>3. i \in used(P) /\ P[i].addr = q
  BY <1>2 DEF peer_find_addr
<1> HIDE DEF P, S, i
<1>4. P[i].ep \in Endpoint /\ Announces(P[i].ep, P[i].addr)
  BY <1>1, <1>2, <1>3, EntryOwn DEF P
<1> QED BY <1>1, <1>2, <1>3, <1>4

\* The address of who asks was announced from where it asks.
LEMMA AskerAnnounced ==
    ASSUME NEW c \in Client, at[c] \in Gw, Table(peers[at[c]]), EpOf(c) \in Endpoint, Registered(c)
    PROVE  Announces(EpOf(c), Asker(c).addr)
<1> DEFINE P == peers[at[c]]
           S == peer_find_endpoint(P, EpOf(c))
           i == First(S)
<1>1. S \in SUBSET used(P) /\ S # {} /\ Asker(c) = P[i]
  BY Finds DEF Registered, Asker
<1>2. i \in S
  BY <1>1, EpInOwn
<1>3. i \in used(P) /\ P[i].ep = EpOf(c) /\ P[i].ep # NoEp
  BY <1>2, EpTypes DEF peer_find_endpoint
<1> HIDE DEF P, S, i
<1>4. Announces(P[i].ep, P[i].addr)
  BY <1>3, EntryOwn DEF P
<1> QED BY <1>1, <1>3, <1>4

LEMMA RouteOwn ==
    ASSUME NEW g \in Gw, RouteTable(routes[g]), NEW c, route_find(g, c) # {}
    PROVE  RouteTo(g, c) \in Route /\ RouteTo(g, c).addr = c /\ Announces(RouteTo(g, c).ep, c)
<1> DEFINE i == First(route_find(g, c))
<1>1. route_find(g, c) \in SUBSET Nat
  BY DEF route_find, RouteTable
<1>2. i \in DOMAIN routes[g] /\ routes[g][i].addr = c
  BY <1>1, FirstIsIn DEF route_find
<1>3. RouteTo(g, c) = routes[g][i]
  BY DEF RouteTo
<1> HIDE DEF i
<1> QED BY <1>2, <1>3 DEF RouteTable

LEMMA LearnRoute ==
    ASSUME NEW g \in Gw, RouteTable(routes[g]), NEW r \in Route, Announces(r.ep, r.addr)
    PROVE  RouteTable(route_learn(g, r))
<1>1. CASE (\E i \in DOMAIN routes[g] : routes[g][i].addr = r.addr /\ routes[g][i].li = r.li) \/ Len(routes[g]) >= MaxRoutes
  BY <1>1 DEF route_learn
<1>2. CASE ~((\E i \in DOMAIN routes[g] : routes[g][i].addr = r.addr /\ routes[g][i].li = r.li) \/ Len(routes[g]) >= MaxRoutes)
  <2> DEFINE s == routes[g]
             t == Append(s, r)
  <2>1. route_learn(g, r) = t
    BY <1>2 DEF route_learn
  <2>2. s \in Seq(Route) /\ Len(s) \in Nat /\ Len(s) < MaxRoutes
    BY <1>2, Sizes DEF RouteTable
  <2>3. t \in Seq(Route) /\ Len(t) = Len(s) + 1 /\ DOMAIN t = 1 .. Len(s) + 1 /\ DOMAIN s = 1 .. Len(s)
    BY <2>2
  <2>4. t[Len(s) + 1] = r /\ \A i \in DOMAIN s : t[i] = s[i]
    BY <2>2
  <2>5. \A i \in DOMAIN s : ~(s[i].addr = r.addr /\ s[i].li = r.li)
    BY <1>2
  <2>6. \A i, j \in DOMAIN s : s[i].addr = s[j].addr /\ s[i].li = s[j].li => i = j
    BY DEF RouteTable
  <2>7. \A i \in DOMAIN s : Announces(s[i].ep, s[i].addr)
    BY DEF RouteTable
  <2> HIDE DEF s, t
  <2>8. \A i \in DOMAIN t : i \in DOMAIN s \/ i = Len(s) + 1
    BY <2>2, <2>3
  <2>9. \A i, j \in DOMAIN t : t[i].addr = t[j].addr /\ t[i].li = t[j].li => i = j
    BY <2>4, <2>5, <2>6, <2>8
  <2>10. \A i \in DOMAIN t : Announces(t[i].ep, t[i].addr)
    BY <2>4, <2>7, <2>8
  <2> QED BY <2>1, <2>2, <2>3, <2>9, <2>10, Sizes DEF RouteTable
<1> QED BY <1>1, <1>2

LEMMA ASeq == ASSUME NEW S, NEW k \in Nat, NEW t \in [1 .. k -> S] PROVE t \in Seq(S) /\ Len(t) = k
OBVIOUS

\* routes[i] = routes[--n_routes] loses one route and keeps the others.
LEMMA Removed ==
    ASSUME NEW s, RouteTable(s), NEW i \in DOMAIN s
    PROVE  RouteTable(SwapRemove(s, i))
<1> DEFINE n == Len(s)
           t == SwapRemove(s, i)
           o == [j \in 1 .. n - 1 |-> IF j = i THEN n ELSE j]
<1>1. s \in Seq(Route) /\ n \in Nat /\ DOMAIN s = 1 .. n /\ n <= MaxRoutes /\ n > 0
  BY DEF RouteTable
<1>2. \A j \in 1 .. n - 1 : o[j] \in 1 .. n /\ t[j] = s[o[j]]
  BY <1>1 DEF SwapRemove
<1>3. \A j, k \in 1 .. n - 1 : o[j] = o[k] => j = k
  BY <1>1
<1>4. DOMAIN t = 1 .. n - 1 /\ \A j \in 1 .. n - 1 : t[j] \in Route
  <2>1. \A j \in 1 .. n : s[j] \in Route
    BY <1>1
  <2> QED BY <1>2, <2>1 DEF SwapRemove
<1>5. t = [j \in 1 .. n - 1 |-> t[j]]
  BY DEF SwapRemove
<1> HIDE DEF t, o
<1>6. t \in [1 .. n - 1 -> Route]
  BY <1>4, <1>5
<1>7. n - 1 \in Nat
  BY <1>1
<1>8. t \in Seq(Route) /\ Len(t) = n - 1
  BY <1>6, <1>7, ASeq
<1>9. \A j, k \in 1 .. n : s[j].addr = s[k].addr /\ s[j].li = s[k].li => j = k
  BY <1>1 DEF RouteTable
<1>10. \A j \in 1 .. n : Announces(s[j].ep, s[j].addr)
  BY <1>1 DEF RouteTable
<1>11. n - 1 <= MaxRoutes
  BY <1>1, Sizes
<1>12. \A j, k \in DOMAIN t : t[j].addr = t[k].addr /\ t[j].li = t[k].li => j = k
  <2>1. SUFFICES ASSUME NEW j \in 1 .. n - 1, NEW k \in 1 .. n - 1, t[j].addr = t[k].addr, t[j].li = t[k].li PROVE j = k
    BY <1>4
  <2>2. o[j] \in 1 .. n /\ o[k] \in 1 .. n /\ t[j] = s[o[j]] /\ t[k] = s[o[k]]
    BY <1>2
  <2>3. s[o[j]].addr = s[o[k]].addr /\ s[o[j]].li = s[o[k]].li
    BY <2>1, <2>2
  <2>4. o[j] = o[k]
    BY <2>2, <2>3, <1>9
  <2> QED BY <2>4, <1>3
<1>13. \A j \in DOMAIN t : Announces(t[j].ep, t[j].addr)
  BY <1>2, <1>4, <1>10
<1>14. RouteTable(t)
  BY <1>8, <1>11, <1>12, <1>13 DEF RouteTable
<1> QED BY <1>14 DEF t

-----------------------------------------------------------------------------
(* Pending queries.                                                          *)

LEMMA MoreAsked ==
    ASSUME NEW S, NEW k, NEW A, NEW B, A \subseteq B, Queries(S, k, A)
    PROVE  Queries(S, k, B)
BY DEF Queries

LEMMA Remember ==
    ASSUME NEW S, NEW k \in Nat, NEW A, Queries(S, k, A), Cardinality(S) < k, NEW p \in Pending,
           \A r \in S : r.addr # p.addr, p.asker \in Endpoint => \E a \in A : a.ep = p.asker /\ a.addr = p.addr
    PROVE  Queries(S \cup {p}, k, A)
<1>1. p \notin S
  OBVIOUS
<1>2. IsFiniteSet(S \cup {p}) /\ Cardinality(S \cup {p}) = Cardinality(S) + 1
  BY <1>1, FS_AddElement DEF Queries
<1>3. Cardinality(S) \in Nat
  BY FS_CardinalityType DEF Queries
<1>4. Cardinality(S \cup {p}) <= k
  BY <1>2, <1>3
<1> QED BY <1>2, <1>4 DEF Queries

LEMMA Forget ==
    ASSUME NEW S, NEW k \in Nat, NEW A, Queries(S, k, A), NEW p \in S
    PROVE  Queries(S \ {p}, k, A)
<1>1. IsFiniteSet(S \ {p}) /\ Cardinality(S \ {p}) = Cardinality(S) - 1
  BY FS_RemoveElement DEF Queries
<1>2. Cardinality(S) \in Nat /\ Cardinality(S) <= k
  BY FS_CardinalityType DEF Queries
<1>3. Cardinality(S \ {p}) <= k
  BY <1>1, <1>2
<1> QED BY <1>1, <1>3 DEF Queries

-----------------------------------------------------------------------------
(* Datagrams.                                                                *)

LEMMA LinksSound ==
    ASSUME NEW g \in Gw, NEW S \in SUBSET Gw, NEW b \in Body, b.type \in {"R", "ROUTE"} => Announces(b.ep, b.addr)
    PROVE  \A m \in OnLinks(g, S, b) : Sound(m)
<1>1. ASSUME NEW h \in S PROVE Sound([to |-> h, from |-> g, via |-> "link", body |-> b])
  BY NameAssumption DEF Sound, Message
<1> QED BY <1>1 DEF OnLinks

LEMMA SegmentSound ==
    ASSUME conf \in Confs, NEW g \in Gw \cup {Segment}, NEW b \in Body,
           b.type \in {"R", "ROUTE"} => Announces(b.ep, b.addr), g = Segment => b.type = "frame"
    PROVE  \A m \in OnSegment(g, b) : Sound(m)
<1>1. ASSUME NEW h \in Gw PROVE Sound([to |-> h, from |-> g, via |-> "l2", body |-> b])
  BY DEF Sound, Message
<1> QED BY <1>1, ConfTypes DEF OnSegment

LEMMA CopiesSound ==
    ASSUME conf \in Confs, NEW g \in Gw, NEW n \in Ids, NEW out, out.links \subseteq Gw
    PROVE  \A m \in Copies(g, n, out) : Sound(m)
<1> DEFINE b == [type |-> "frame", id |-> n]
<1>1. b \in Body /\ b.type = "frame"
  BY BodyTypes
<1> HIDE DEF b
<1>2. \A m \in OnLinks(g, out.links, b) : Sound(m)
  BY <1>1, LinksSound
<1>3. \A m \in OnSegment(g, b) : Sound(m)
  BY <1>1, SegmentSound, NameAssumption
<1> QED BY <1>2, <1>3 DEF Copies, b

LEMMA AnnouncedSound ==
    ASSUME conf \in Confs, NEW g \in Gw, NEW P, Table(P)
    PROVE  \A m \in Announced(g, P) : Sound(m)
<1>1. ASSUME NEW i \in used(P), P[i].ep # NoEp
      PROVE  \A m \in OnLinks(g, Links(g), [type |-> "ROUTE", addr |-> P[i].addr, ep |-> P[i].ep]) : Sound(m)
  <2> DEFINE b == [type |-> "ROUTE", addr |-> P[i].addr, ep |-> P[i].ep]
  <2>1. P[i].ep \in Endpoint /\ Announces(P[i].ep, P[i].addr)
    BY <1>1, EntryOwn
  <2>2. P[i].addr \in Addr
    BY <2>1, ConfTypes DEF Announces
  <2>3. b \in Body /\ Announces(b.ep, b.addr)
    BY <2>1, <2>2, BodyTypes
  <2>4. Links(g) \in SUBSET Gw
    BY DEF Links
  <2> HIDE DEF b
  <2>5. \A m \in OnLinks(g, Links(g), b) : Sound(m)
    BY <2>3, <2>4, LinksSound
  <2> QED BY <2>5 DEF b
<1> QED BY <1>1 DEF Announced

LEMMA RefreshedSound ==
    ASSUME conf \in Confs, NEW g \in Gw, NEW P, Table(P)
    PROVE  \A m \in Refreshed(g, P) : Sound(m)
BY AnnouncedSound DEF Refreshed

LEMMA DropLinks == Drop.links = {}
BY DEF Drop, Out

\* Where a frame goes on to: gateways.
LEMMA Outs ==
    ASSUME NEW g \in Gw, RouteTable(routes[g]), NEW f, NEW P, NEW x
    PROVE  /\ udp_route(g, P, f, x).links \subseteq Gw
           /\ gw_fed_data(g, x, f).links \subseteq Gw
           /\ l2_route(P, g, f).links \subseteq Gw
<1>1. route_find(g, f.dst) # {} => RouteTo(g, f.dst).li \in Gw
  BY RouteOwn DEF Route
<1>2. Links(g) \subseteq Gw
  BY DEF Links
<1>3. udp_route(g, P, f, x).links \subseteq Gw
  BY <1>1, <1>2 DEF udp_route, Out, Drop
<1>4. gw_fed_data(g, x, f).links \subseteq Gw
  BY <1>1, <1>2 DEF gw_fed_data, Out, Drop
<1>5. l2_route(P, g, f).links \subseteq Gw
  BY <1>2 DEF l2_route, Out, Drop
<1> QED BY <1>3, <1>4, <1>5

-----------------------------------------------------------------------------
(* The inductive invariant.                                                  *)

PeersOK == peers \in [Gw -> [Slot -> PeerEntry]] /\ \A g \in Gw : Table(peers[g])
NeighOK == neigh \in [Gw -> SUBSET Gw]
PendOK == pend \in [Gw -> SUBSET Pending] /\ \A g \in Gw : Queries(pend[g], conf.room, asked)
RoutesOK == routes \in [Gw -> Seq(Route)] /\ \A g \in Gw : RouteTable(routes[g])
ClientsOK ==
    /\ at \in [Client -> Gw \cup {Segment, Away}] /\ inc \in [Client -> 1 .. MaxMoves + 1]
    /\ moves \in Nat /\ \A c \in Client : inc[c] <= moves + 1
AskOK ==
    /\ asked \subseteq AskedType
    /\ answers \subseteq [to : Endpoint, addr : Addr \cup {NoOne}, ep : Endpoint \cup {NoEp}]
    /\ calls \subseteq [to : Endpoint, who : Addr, ep : Endpoint]
    /\ Introductions
FramesOK == frames \in [Ids -> Frame \cup {NoFrame}] /\ got \in [Ids -> [Client -> Nat]]
NetOK == \A m \in net : Sound(m)

Inv ==
    /\ conf \in Confs /\ PeersOK /\ NeighOK /\ PendOK /\ RoutesOK /\ ClientsOK /\ AskOK /\ FramesOK /\ NetOK
    /\ faults \in Nat

LEMMA InvHolds == Inv => TypeOK /\ Keyed /\ Introductions
<1> SUFFICES ASSUME Inv PROVE TypeOK /\ Keyed /\ Introductions
  OBVIOUS
<1>1. net \subseteq Message
  BY DEF Inv, NetOK, Sound
<1>2. \A g \in Gw : Cardinality(pend[g]) <= conf.room /\ Len(routes[g]) <= MaxRoutes
  BY DEF Inv, PendOK, RoutesOK, Queries, RouteTable
<1>3. TypeOK
  BY <1>1, <1>2 DEF Inv, PeersOK, NeighOK, PendOK, RoutesOK, ClientsOK, AskOK, FramesOK, AskedType, TypeOK
<1>4. Keyed
  <2>1. \A g \in Gw : \A i, j \in used(peers[g]) : peers[g][i].id = peers[g][j].id => i = j
    BY DEF Inv, PeersOK, Table, used
  <2>2. \A g \in Gw : \A p, r \in pend[g] : p.addr = r.addr => p = r
    BY DEF Inv, PendOK, Queries
  <2>3. \A g \in Gw : \A i, j \in DOMAIN routes[g] :
           routes[g][i].addr = routes[g][j].addr /\ routes[g][i].li = routes[g][j].li => i = j
    BY DEF Inv, RoutesOK, RouteTable
  <2> QED BY <2>1, <2>2, <2>3 DEF Keyed
<1> QED BY <1>3, <1>4 DEF Inv, AskOK

LEMMA InvInit == Init => Inv
<1> SUFFICES ASSUME Init PROVE Inv
  OBVIOUS
<1>1. conf \in Confs
  BY DEF Init
<1>2. PeersOK
  <2>1. ASSUME NEW P, P = [i \in Slot |-> Unused] PROVE Table(P)
    BY <2>1, EntryTypes DEF Table, Unused, used
  <2> QED BY <2>1, EntryTypes DEF Init, PeersOK
<1>3. PendOK
  <2>1. Queries({}, conf.room, asked)
    BY FS_EmptySet, <1>1, ConfTypes DEF Queries
  <2> QED BY <2>1 DEF Init, PendOK
<1>4. RoutesOK
  <2>1. RouteTable(<<>>)
    BY Sizes DEF RouteTable
  <2> QED BY <2>1 DEF Init, RoutesOK
<1>5. ClientsOK
  BY <1>1, ConfTypes, Sizes DEF Init, ClientsOK
<1>6. AskOK /\ NetOK /\ NeighOK /\ faults \in Nat
  BY DEF Init, AskOK, NetOK, NeighOK, Introductions
<1>7. FramesOK
  BY DEF Init, FramesOK
<1> QED BY <1>1, <1>2, <1>3, <1>4, <1>5, <1>6, <1>7 DEF Inv

-----------------------------------------------------------------------------
(* What a step leaves alone.                                                 *)

LEMMA KeptPeers == ASSUME PeersOK, UNCHANGED <<conf, peers>> PROVE PeersOK'
BY DEF PeersOK, Table, Announces
LEMMA KeptNeigh == ASSUME NeighOK, UNCHANGED neigh PROVE NeighOK'
BY DEF NeighOK
LEMMA KeptPend == ASSUME PendOK, UNCHANGED <<pend, conf>>, asked \subseteq asked' PROVE PendOK'
BY MoreAsked DEF PendOK
LEMMA KeptRoutes == ASSUME RoutesOK, UNCHANGED <<conf, routes>> PROVE RoutesOK'
BY DEF RoutesOK, RouteTable, Announces
LEMMA KeptClients == ASSUME ClientsOK, UNCHANGED <<at, inc, moves>> PROVE ClientsOK'
BY DEF ClientsOK
LEMMA KeptAsk == ASSUME AskOK, UNCHANGED <<conf, askVars>> PROVE AskOK'
BY DEF AskOK, askVars, Introductions, Announces
LEMMA KeptFrames == ASSUME FramesOK, UNCHANGED frameVars PROVE FramesOK'
BY DEF FramesOK, frameVars
LEMMA KeptNet == ASSUME NetOK, UNCHANGED conf, NEW S, \A m \in S : Sound(m), net' \subseteq net \cup S PROVE NetOK'
BY DEF NetOK, Sound, Announces
LEMMA FewerNet == ASSUME NetOK, UNCHANGED conf, net' \subseteq net PROVE NetOK'
BY DEF NetOK, Sound, Announces

\* A gateway's table is replaced by one.
LEMMA NewPeers == ASSUME PeersOK, UNCHANGED conf, NEW g \in Gw, NEW P, Table(P), peers' = [peers EXCEPT ![g] = P] PROVE PeersOK'
<1>1. \A h \in Gw : Table(peers'[h])
  BY DEF PeersOK, Table
<1>2. peers' \in [Gw -> [Slot -> PeerEntry]]
  BY DEF PeersOK, Table
<1> QED BY <1>1, <1>2 DEF PeersOK, Table, Announces
LEMMA NewRoutes == ASSUME RoutesOK, UNCHANGED conf, NEW g \in Gw, NEW s, RouteTable(s), routes' = [routes EXCEPT ![g] = s] PROVE RoutesOK'
<1>1. \A h \in Gw : RouteTable(routes'[h])
  BY DEF RoutesOK, RouteTable
<1>2. routes' \in [Gw -> Seq(Route)]
  BY DEF RoutesOK, RouteTable
<1> QED BY <1>1, <1>2 DEF RoutesOK, RouteTable, Announces
LEMMA NewPend ==
    ASSUME PendOK, UNCHANGED conf, asked \subseteq asked', NEW g \in Gw, NEW S, Queries(S, conf.room, asked'),
           pend' = [pend EXCEPT ![g] = S]
    PROVE  PendOK'
<1>1. S \in SUBSET Pending
  BY DEF Queries
<1>2. pend' \in [Gw -> SUBSET Pending] /\ pend'[g] = S /\ \A h \in Gw : h # g => pend'[h] = pend[h]
  BY <1>1 DEF PendOK
<1>3. \A h \in Gw : Queries(pend[h], conf.room, asked')
  BY MoreAsked DEF PendOK
<1> QED BY <1>2, <1>3 DEF PendOK

\* One more answer, to who asked.
LEMMA NewAnswer ==
    ASSUME AskOK, UNCHANGED <<conf, calls>>, asked \subseteq asked', asked' \subseteq AskedType, NEW x \in Endpoint, NEW q \in Addr,
           NEW e \in Endpoint \cup {NoEp}, e = NoEp \/ Announces(e, q), \E a \in asked' : a.ep = x /\ a.addr = q,
           answers' = answers \cup {Answer(x, q, e)}
    PROVE  AskOK'
<1> DEFINE z == Answer(x, q, e)
<1>1. /\ z \in [to : Endpoint, addr : Addr \cup {NoOne}, ep : Endpoint \cup {NoEp}]
      /\ z.addr \in {q, NoOne} /\ z.to = x /\ z.ep = e
  BY DEF Answer
<1>2. q # NoOne
  BY NameAssumption
<1> HIDE DEF z
<1>3. answers' = answers \cup {z}
  BY DEF z
<1>4. Introductions'
  BY <1>1, <1>2, <1>3 DEF AskOK, Introductions, Announces
<1> QED BY <1>1, <1>3, <1>4 DEF AskOK

-----------------------------------------------------------------------------
(* Clients send.                                                             *)

LEMMA FreeId == ASSUME conf \in Confs, FreeIds # {} PROVE First(FreeIds) \in Ids
<1>1. FreeIds \in SUBSET Nat /\ FreeIds \subseteq Ids
  BY ConfTypes, Sizes DEF FreeIds, Ids
<1> QED BY <1>1, FirstIsIn

LEMMA EpOfType == ASSUME ClientsOK, NEW c \in Client PROVE EpOf(c) \in Endpoint /\ EpOf(c)[1] = c
BY DEF ClientsOK, EpOf, Endpoint

LEMMA FrameType ==
    ASSUME conf \in Confs, ClientsOK, NEW c \in Client, NEW d \in Client \cup {All}, NEW nh \in {"control", "stream", "dgram"}
    PROVE  FrameOf(c, d, nh) \in Frame /\ FrameOf(c, d, nh).from = c /\ FrameOf(c, d, nh).src = AddrOf(c)
<1>1. Sure(c, d, nh) \in BOOLEAN
  BY DEF Sure
<1>2. \A x \in Client : AddrOf(x) \in Addr
  BY EpOfType, ConfTypes DEF AddrOf
<1> QED BY <1>1, <1>2 DEF FrameOf, Frame

LEMMA SendTunnelKeeps ==
    ASSUME Inv, NEW c \in Client, NEW d \in Client \cup {All}, NEW nh \in conf.kinds, NEW thr, SendTunnel(c, d, nh, thr)
    PROVE  Inv'
<1> DEFINE f == FrameOf(c, d, nh)
           n == First(FreeIds)
           g == at[c]
           P == Learned(g, f, EpOf(c), "learn" \in thr)
           out == IF "bcast" \in thr /\ d = All THEN Drop ELSE udp_route(g, P, f, EpOf(c))
           G == [x \in Client |-> IF x \in Receivers(f, out) THEN 1 ELSE 0]
<1>1. /\ g \in Gw /\ FreeIds # {} /\ peers' = [peers EXCEPT ![g] = P]
      /\ net' = net \cup Copies(g, n, out) \cup Refreshed(g, P) /\ frames' = [frames EXCEPT ![n] = f]
      /\ got' = [got EXCEPT ![n] = G] /\ (faults' = faults \/ faults' = faults + 1)
      /\ UNCHANGED <<conf, neigh, pend, routes, at, inc, askVars, moves>>
  BY DEF SendTunnel, Sendable, Throttle
<1>2. f \in Frame /\ f.from = c /\ f.src = AddrOf(c)
  BY ConfTypes, FrameType DEF Inv
<1>3. n \in Ids
  BY <1>1, FreeId DEF Inv
<1>4. EpOf(c) \in Endpoint /\ EpOf(c)[1] = c /\ conf.addr[EpOf(c)] = AddrOf(c)
  BY EpOfType DEF Inv, AddrOf
<1>5. G \in [Client -> Nat]
  OBVIOUS
<1> HIDE DEF f, n, g, G
<1>6. Table(P)
  BY <1>1, <1>2, <1>4, LearnedTable DEF Inv, PeersOK
<1> HIDE DEF P
<1>7. out.links \subseteq Gw
  BY <1>1, <1>2, Outs, DropLinks DEF Inv, RoutesOK
<1> HIDE DEF out
<1>8. PeersOK'
  BY <1>1, <1>6, NewPeers DEF Inv
<1>9. NetOK'
  <2>1. \A m \in Copies(g, n, out) \cup Refreshed(g, P) : Sound(m)
    BY <1>1, <1>3, <1>6, <1>7, CopiesSound, RefreshedSound DEF Inv
  <2> QED BY <1>1, <2>1, KeptNet DEF Inv
<1>10. FramesOK'
  BY <1>1, <1>2, <1>3, <1>5 DEF Inv, FramesOK
<1>11. asked' = asked
  BY <1>1 DEF askVars
<1>12. conf' \in Confs /\ faults' \in Nat /\ NeighOK' /\ PendOK' /\ RoutesOK' /\ ClientsOK' /\ AskOK'
  BY <1>1, <1>11, KeptNeigh, KeptPend, KeptRoutes, KeptClients, KeptAsk DEF Inv
<1> QED BY <1>8, <1>9, <1>10, <1>12 DEF Inv

LEMMA SendSegmentKeeps ==
    ASSUME Inv, NEW c \in Client, NEW d \in Client \cup {All}, NEW nh \in conf.kinds, SendSegment(c, d, nh)
    PROVE  Inv'
<1> DEFINE f == FrameOf(c, d, nh)
           n == First(FreeIds)
           b == [type |-> "frame", id |-> n]
           G == [x \in Client |-> IF x \in Natives(f) THEN 1 ELSE 0]
<1>1. /\ FreeIds # {} /\ net' = net \cup OnSegment(Segment, b) /\ frames' = [frames EXCEPT ![n] = f]
      /\ got' = [got EXCEPT ![n] = G]
      /\ UNCHANGED <<conf, peers, neigh, pend, routes, at, inc, askVars, moves, faults>>
  BY DEF SendSegment, Sendable, gwVars
<1>2. f \in Frame
  BY ConfTypes, FrameType DEF Inv
<1>3. n \in Ids
  BY <1>1, FreeId DEF Inv
<1>4. G \in [Client -> Nat]
  OBVIOUS
<1>5. b \in Body /\ b.type = "frame"
  BY <1>3, BodyTypes
<1> HIDE DEF f, n, G, b
<1>6. \A m \in OnSegment(Segment, b) : Sound(m)
  BY <1>5, SegmentSound DEF Inv
<1>7. NetOK'
  BY <1>1, <1>6, KeptNet DEF Inv
<1>8. FramesOK'
  BY <1>1, <1>2, <1>3, <1>4 DEF Inv, FramesOK
<1>9. asked' = asked
  BY <1>1 DEF askVars
<1>10. conf' \in Confs /\ faults' \in Nat /\ PeersOK' /\ NeighOK' /\ PendOK' /\ RoutesOK' /\ ClientsOK' /\ AskOK'
  BY <1>1, <1>9, KeptPeers, KeptNeigh, KeptPend, KeptRoutes, KeptClients, KeptAsk DEF Inv
<1> QED BY <1>7, <1>8, <1>10 DEF Inv

-----------------------------------------------------------------------------
(* QUERY.                                                                    *)

LEMMA AskingType ==
    ASSUME Inv, NEW c \in Client, NEW q \in Addr, Asking(c, q)
    PROVE  /\ at[c] \in Gw /\ asked \subseteq asked' /\ asked' \subseteq AskedType
           /\ \E a \in asked' : a.ep = EpOf(c) /\ a.addr = q
<1> DEFINE a == [ep |-> EpOf(c), addr |-> q, sure |-> SureAsk(c, q)]
<1>1. SureAsk(c, q) \in BOOLEAN
  BY DEF SureAsk
<1>2. a \in AskedType /\ a.ep = EpOf(c) /\ a.addr = q
  BY <1>1, EpOfType DEF Inv, AskedType
<1>3. at[c] \in Gw /\ asked' = asked \cup {a}
  BY DEF Asking
<1> HIDE DEF a
<1> QED BY <1>2, <1>3 DEF Inv, AskOK

LEMMA AskLocalKeeps == ASSUME Inv, NEW c \in Client, NEW q \in Addr, AskLocal(c, q) PROVE Inv'
<1> DEFINE g == at[c]
           e == WhereIs(g, q)
           w == Asker(c).addr
           l == [to |-> e, who |-> w, ep |-> EpOf(c)]
<1>1. /\ Asking(c, q) /\ Registered(c) /\ local(g, q) /\ answers' = answers \cup {Answer(EpOf(c), q, e)} /\ calls' = calls \cup {l}
      /\ UNCHANGED <<conf, peers, neigh, pend, routes, at, inc, frameVars, net, moves, faults>>
  BY DEF AskLocal, gwVars
<1>2. g \in Gw /\ asked \subseteq asked' /\ asked' \subseteq AskedType
  BY <1>1, AskingType
<1>3. PICK a \in asked' : a.ep = EpOf(c) /\ a.addr = q
  BY <1>1, AskingType
<1>4. e \in Endpoint /\ Announces(e, q)
  BY <1>1, <1>2, WhereAnnounced DEF Inv, PeersOK
<1>5. EpOf(c) \in Endpoint /\ Announces(EpOf(c), w)
  BY <1>1, <1>2, EpOfType, AskerAnnounced DEF Inv, PeersOK
<1>6. w \in Addr
  BY <1>5, ConfTypes DEF Inv, Announces
<1> DEFINE z == Answer(EpOf(c), q, e)
<1>7. /\ z \in [to : Endpoint, addr : Addr \cup {NoOne}, ep : Endpoint \cup {NoEp}]
      /\ z.addr \in {q, NoOne} /\ z.to = EpOf(c) /\ z.ep = e
  BY <1>4, <1>5 DEF Answer
<1>8. l \in [to : Endpoint, who : Addr, ep : Endpoint] /\ l.to = e /\ l.who = w /\ l.ep = EpOf(c)
  BY <1>4, <1>5, <1>6
<1>9. q # NoOne
  BY NameAssumption
<1> HIDE DEF e, l, z, w
<1>10. answers' = answers \cup {z} /\ calls' = calls \cup {l}
  BY <1>1 DEF z
<1>11. \A x \in answers' : x.addr # NoOne =>
          (\E k \in asked' : k.ep = x.to /\ k.addr = x.addr) /\ (x.ep # NoEp => Announces(x.ep, x.addr))
  BY <1>2, <1>3, <1>4, <1>7, <1>9, <1>10 DEF Inv, AskOK, Introductions
<1>12. \A x \in calls' : Announces(x.ep, x.who) /\ \E k \in asked' : k.ep = x.ep /\ Announces(x.to, k.addr)
  BY <1>2, <1>3, <1>4, <1>5, <1>8, <1>10 DEF Inv, AskOK, Introductions
<1>13. Introductions'
  BY <1>1, <1>11, <1>12 DEF Introductions, Announces
<1>14. AskOK'
  BY <1>2, <1>7, <1>8, <1>10, <1>13 DEF Inv, AskOK
<1>15. /\ conf' \in Confs /\ faults' \in Nat /\ PeersOK' /\ NeighOK' /\ PendOK' /\ RoutesOK' /\ ClientsOK' /\ FramesOK'
  BY <1>1, <1>2, KeptPeers, KeptNeigh, KeptPend, KeptRoutes, KeptClients, KeptFrames DEF Inv
<1>16. NetOK'
  BY <1>1, FewerNet DEF Inv
<1> QED BY <1>14, <1>15, <1>16 DEF Inv

LEMMA AskRouteKeeps == ASSUME Inv, NEW c \in Client, NEW q \in Addr, AskRoute(c, q) PROVE Inv'
<1>1. /\ Asking(c, q) /\ route_find(at[c], q) # {} /\ answers' = answers \cup {Answer(EpOf(c), q, RouteTo(at[c], q).ep)}
      /\ UNCHANGED <<conf, peers, neigh, pend, routes, at, inc, calls, frameVars, net, moves, faults>>
  BY DEF AskRoute, gwVars, Routed
<1>2. at[c] \in Gw /\ asked \subseteq asked' /\ asked' \subseteq AskedType /\ \E a \in asked' : a.ep = EpOf(c) /\ a.addr = q
  BY <1>1, AskingType
<1>3. RouteTo(at[c], q).ep \in Endpoint /\ Announces(RouteTo(at[c], q).ep, q)
  BY <1>1, <1>2, RouteOwn DEF Inv, RoutesOK, Route
<1>4. AskOK'
  BY <1>1, <1>2, <1>3, EpOfType, NewAnswer DEF Inv
<1>5. /\ conf' \in Confs /\ faults' \in Nat /\ PeersOK' /\ NeighOK' /\ PendOK' /\ RoutesOK' /\ ClientsOK' /\ FramesOK'
  BY <1>1, <1>2, KeptPeers, KeptNeigh, KeptPend, KeptRoutes, KeptClients, KeptFrames DEF Inv
<1>6. NetOK'
  BY <1>1, FewerNet DEF Inv
<1> QED BY <1>4, <1>5, <1>6 DEF Inv

LEMMA AskNoneKeeps == ASSUME Inv, NEW c \in Client, NEW q \in Addr, AskNone(c, q) PROVE Inv'
<1>1. /\ Asking(c, q) /\ answers' = answers \cup {Answer(EpOf(c), q, NoEp)}
      /\ UNCHANGED <<conf, peers, neigh, pend, routes, at, inc, calls, frameVars, net, moves, faults>>
  BY DEF AskNone, gwVars
<1>2. asked \subseteq asked' /\ asked' \subseteq AskedType /\ \E a \in asked' : a.ep = EpOf(c) /\ a.addr = q
  BY <1>1, AskingType
<1>3. AskOK'
  BY <1>1, <1>2, EpOfType, NewAnswer DEF Inv
<1>4. /\ conf' \in Confs /\ faults' \in Nat /\ PeersOK' /\ NeighOK' /\ PendOK' /\ RoutesOK' /\ ClientsOK' /\ FramesOK'
  BY <1>1, <1>2, KeptPeers, KeptNeigh, KeptPend, KeptRoutes, KeptClients, KeptFrames DEF Inv
<1>5. NetOK'
  BY <1>1, FewerNet DEF Inv
<1> QED BY <1>3, <1>4, <1>5 DEF Inv

LEMMA AskMeshKeeps == ASSUME Inv, NEW c \in Client, NEW q \in Addr, AskMesh(c, q) PROVE Inv'
<1> DEFINE g == at[c]
           p == [addr |-> q, asker |-> EpOf(c)]
           b == [type |-> "Q", addr |-> q]
<1>1. /\ Asking(c, q) /\ gw_mesh_query(g, q, EpOf(c))
      /\ UNCHANGED <<conf, peers, neigh, routes, at, inc, answers, calls, frameVars, moves, faults>>
  BY DEF AskMesh
<1>2. g \in Gw /\ asked \subseteq asked' /\ asked' \subseteq AskedType /\ \E a \in asked' : a.ep = EpOf(c) /\ a.addr = q
  BY <1>1, AskingType
<1>3. p \in Pending /\ p.addr = q /\ p.asker = EpOf(c)
  BY EpOfType DEF Inv, Pending
<1>4. b \in Body /\ b.type = "Q"
  BY BodyTypes
<1>5. \/ pend' = pend
      \/ /\ \A r \in pend[g] : r.addr # q
         /\ Cardinality(pend[g]) < conf.room /\ pend' = [pend EXCEPT ![g] = @ \cup {p}]
  BY <1>1 DEF gw_mesh_query
<1>6. net' \subseteq net \cup (OnSegment(g, b) \cup OnLinks(g, Links(g), b))
  BY <1>1 DEF gw_mesh_query
<1> HIDE DEF g, p, b
<1>7. PendOK'
  <2>1. CASE pend' = pend
    BY <2>1, <1>1, <1>2, KeptPend DEF Inv
  <2>2. CASE /\ \A r \in pend[g] : r.addr # q
             /\ Cardinality(pend[g]) < conf.room /\ pend' = [pend EXCEPT ![g] = @ \cup {p}]
    <3>1. Queries(pend[g], conf.room, asked')
      BY <1>2, MoreAsked DEF Inv, PendOK
    <3>2. Queries(pend[g] \cup {p}, conf.room, asked')
      BY <2>2, <3>1, <1>2, <1>3, ConfTypes, Remember DEF Inv
    <3>3. pend' = [pend EXCEPT ![g] = pend[g] \cup {p}]
      BY <2>2, <1>2 DEF Inv, PendOK
    <3> QED BY <3>2, <3>3, <1>1, <1>2, NewPend DEF Inv
  <2> QED BY <1>5, <2>1, <2>2
<1>8. NetOK'
  <2>1. \A m \in OnSegment(g, b) \cup OnLinks(g, Links(g), b) : Sound(m)
    BY <1>2, <1>4, LinksSound, SegmentSound, NameAssumption DEF Inv, Links
  <2> QED BY <2>1, <1>6, <1>1, KeptNet DEF Inv
<1>9. AskOK'
  BY <1>1, <1>2 DEF Inv, AskOK, Introductions, Announces
<1>10. /\ conf' \in Confs /\ faults' \in Nat /\ PeersOK' /\ NeighOK' /\ RoutesOK' /\ ClientsOK' /\ FramesOK'
  BY <1>1, KeptPeers, KeptNeigh, KeptRoutes, KeptClients, KeptFrames DEF Inv
<1> QED BY <1>7, <1>8, <1>9, <1>10 DEF Inv

-----------------------------------------------------------------------------
(* A gateway takes a datagram.                                               *)

LEMMA RecvRKeeps == ASSUME Inv, NEW m \in net, RecvR(m) PROVE Inv'
<1> DEFINE g == m.to
           E == {p \in pend[g] : p.addr = m.body.addr}
<1>1. /\ m.body.type = "R" /\ gw_pend_relay(m)
      /\ UNCHANGED <<conf, peers, neigh, routes, at, inc, asked, calls, frameVars, moves, faults>>
  BY DEF RecvR
<1>2. m.body \in Body /\ g \in Gw /\ m.body.addr \in Addr /\ m.body.ep \in Endpoint /\ Announces(m.body.ep, m.body.addr)
  <2>1. m \in Message /\ Announces(m.body.ep, m.body.addr)
    BY <1>1 DEF Inv, NetOK, Sound
  <2>2. m.body \in Body
    BY <2>1 DEF Message
  <2> QED BY <1>1, <2>1, <2>2, MessageTypes
<1>3. conf' \in Confs /\ faults' \in Nat /\ PeersOK' /\ NeighOK' /\ RoutesOK' /\ ClientsOK' /\ FramesOK'
  BY <1>1, KeptPeers, KeptNeigh, KeptRoutes, KeptClients, KeptFrames DEF Inv
<1>4. CASE E = {}
  <2>1. net' = net \ {m} /\ UNCHANGED <<pend, answers>>
    BY <1>1, <1>4 DEF gw_pend_relay, Takes
  <2>2. NetOK'
    BY <2>1, <1>1, FewerNet DEF Inv
  <2>3. PendOK' /\ AskOK'
    BY <2>1, <1>1, KeptPend, KeptAsk DEF Inv, askVars
  <2> QED BY <1>3, <2>2, <2>3 DEF Inv
<1>5. CASE E # {}
  <2>1. PICK p \in E : /\ pend' = [pend EXCEPT ![g] = @ \ {p}]
                       /\ net' = (net \ {m}) \cup (IF p.asker \in Gw THEN OnLinks(g, {p.asker}, m.body) ELSE {})
                       /\ answers' = IF p.asker \in Gw THEN answers ELSE answers \cup {Answer(p.asker, m.body.addr, m.body.ep)}
    BY <1>1, <1>5 DEF gw_pend_relay, Takes
  <2>2. p \in pend[g] /\ p.addr = m.body.addr /\ p.asker \in Endpoint \cup Gw
    BY <1>2 DEF Inv, PendOK, Pending
  <2>3. PendOK'
    <3>1. Queries(pend[g] \ {p}, conf.room, asked)
      BY <1>2, <2>2, ConfTypes, Forget DEF Inv, PendOK
    <3>2. pend' = [pend EXCEPT ![g] = pend[g] \ {p}]
      BY <2>1, <1>2 DEF Inv, PendOK
    <3>3. asked' = asked /\ Queries(pend[g] \ {p}, conf.room, asked')
      BY <1>1, <3>1
    <3> HIDE DEF g
    <3> QED BY <3>2, <3>3, <1>1, <1>2, NewPend DEF Inv
  <2>4. NetOK'
    <3>1. p.asker \in Gw => \A x \in OnLinks(g, {p.asker}, m.body) : Sound(x)
      BY <1>2, LinksSound
    <3>2. CASE p.asker \in Gw
      <4>1. net' \subseteq net \cup OnLinks(g, {p.asker}, m.body)
        BY <2>1, <3>2
      <4> QED BY <4>1, <3>1, <3>2, <1>1, KeptNet DEF Inv
    <3>3. CASE p.asker \notin Gw
      BY <2>1, <3>3, <1>1, FewerNet DEF Inv
    <3> QED BY <3>2, <3>3
  <2>5. AskOK'
    <3>1. CASE p.asker \in Gw
      BY <3>1, <2>1, <1>1, KeptAsk DEF Inv, askVars
    <3>2. CASE p.asker \notin Gw
      <4>1. p.asker \in Endpoint
        BY <3>2, <2>2
      <4>2. \E a \in asked' : a.ep = p.asker /\ a.addr = m.body.addr
        BY <4>1, <2>2, <1>1, <1>2 DEF Inv, PendOK, Queries
      <4>3. asked' \subseteq AskedType /\ asked \subseteq asked' /\ UNCHANGED <<conf, calls>>
        BY <1>1 DEF Inv, AskOK
      <4>4. answers' = answers \cup {Answer(p.asker, m.body.addr, m.body.ep)}
        BY <3>2, <2>1
      <4> QED BY <4>1, <4>2, <4>3, <4>4, <1>2, NewAnswer DEF Inv
    <3> QED BY <3>1, <3>2
  <2> QED BY <1>3, <2>3, <2>4, <2>5 DEF Inv
<1> QED BY <1>4, <1>5

LEMMA RecvLinkQKeeps == ASSUME Inv, NEW m \in net, RecvLinkQ(m) PROVE Inv'
<1> DEFINE g == m.to
           q == m.body.addr
           p == [addr |-> q, asker |-> m.from]
           b == [type |-> "R", addr |-> q, ep |-> WhereIs(g, q)]
           k == [type |-> "Q", addr |-> q]
<1>1. /\ m.via = "link" /\ m.body.type = "Q"
      /\ UNCHANGED <<conf, peers, neigh, routes, at, inc, askVars, frameVars, moves, faults>>
  BY DEF RecvLinkQ
<1>2. g \in Gw /\ m.from \in Gw /\ q \in Addr
  BY <1>1, MessageTypes DEF Inv, NetOK, Sound
<1>3. k \in Body /\ k.type = "Q"
  BY <1>2, BodyTypes
<1>4. \/ pend' = pend /\ net' \subseteq net
      \/ local(g, q) /\ pend' = pend /\ net' \subseteq net \cup OnLinks(g, {m.from}, b)
      \/ link_query(g, m.from, q)
  BY DEF RecvLinkQ, Takes
<1>5. conf' \in Confs /\ faults' \in Nat /\ PeersOK' /\ NeighOK' /\ RoutesOK' /\ ClientsOK' /\ FramesOK' /\ AskOK'
  BY <1>1, KeptPeers, KeptNeigh, KeptRoutes, KeptClients, KeptFrames, KeptAsk DEF Inv
<1>6. asked' = asked
  BY <1>1 DEF askVars
<1>7. CASE pend' = pend /\ net' \subseteq net
  BY <1>1, <1>5, <1>6, <1>7, KeptPend, FewerNet DEF Inv
<1>8. CASE local(g, q) /\ pend' = pend /\ net' \subseteq net \cup OnLinks(g, {m.from}, b)
  <2>1. WhereIs(g, q) \in Endpoint /\ Announces(WhereIs(g, q), q)
    BY <1>2, <1>8, WhereAnnounced DEF Inv, PeersOK
  <2>2. b \in Body /\ Announces(b.ep, b.addr)
    BY <2>1, <1>2, BodyTypes
  <2> HIDE DEF b, g
  <2>3. \A x \in OnLinks(g, {m.from}, b) : Sound(x)
    BY <2>2, <1>2, LinksSound
  <2>4. NetOK'
    BY <2>3, <1>8, <1>1, KeptNet DEF Inv
  <2> QED BY <2>4, <1>1, <1>5, <1>6, <1>8, KeptPend DEF Inv
<1>9. CASE link_query(g, m.from, q)
  <2>1. \/ pend' = pend /\ net' \subseteq net
        \/ /\ \A r \in pend[g] : r.addr # q
           /\ ~(Cardinality(pend[g]) >= conf.room) /\ pend' = [pend EXCEPT ![g] = @ \cup {p}]
           /\ net' \subseteq net \cup OnLinks(g, Links(g) \ {m.from}, k)
    BY <1>9 DEF link_query, Takes
  <2>2. CASE pend' = pend /\ net' \subseteq net
    BY <2>2, <1>7
  <2>3. CASE /\ \A r \in pend[g] : r.addr # q
             /\ ~(Cardinality(pend[g]) >= conf.room) /\ pend' = [pend EXCEPT ![g] = @ \cup {p}]
             /\ net' \subseteq net \cup OnLinks(g, Links(g) \ {m.from}, k)
    <3>1. p \in Pending /\ p.addr = q /\ p.asker \notin Endpoint
      BY <1>2, NameAssumption DEF Pending
    <3>2. Cardinality(pend[g]) < conf.room
      BY <2>3, <1>2, ConfTypes, FS_CardinalityType DEF Inv, PendOK, Queries
    <3> HIDE DEF g, q, p, k
    <3>3. Queries(pend[g] \cup {p}, conf.room, asked)
      BY <2>3, <3>1, <3>2, <1>2, ConfTypes, Remember DEF Inv, PendOK
    <3>4. pend' = [pend EXCEPT ![g] = pend[g] \cup {p}]
      BY <2>3, <1>2 DEF Inv, PendOK
    <3>5. Queries(pend[g] \cup {p}, conf.room, asked')
      BY <3>3, <1>6
    <3>6. PendOK'
      BY <3>4, <3>5, <1>1, <1>2, <1>6, NewPend DEF Inv
    <3>7. \A x \in OnLinks(g, Links(g) \ {m.from}, k) : Sound(x)
      BY <1>2, <1>3, LinksSound DEF Links
    <3>8. NetOK'
      BY <3>7, <2>3, <1>1, KeptNet DEF Inv
    <3> QED BY <3>6, <3>8, <1>5 DEF Inv
  <2> QED BY <2>1, <2>2, <2>3
<1> QED BY <1>4, <1>7, <1>8, <1>9

LEMMA RecvL2QKeeps == ASSUME Inv, NEW m \in net, RecvL2Q(m) PROVE Inv'
<1> DEFINE g == m.to
           q == m.body.addr
           b == [type |-> "R", addr |-> q, ep |-> WhereIs(g, q)]
           S == IF local(g, q) THEN OnSegment(g, b) ELSE {}
<1>1. /\ m.body.type = "Q" /\ net' \subseteq net \cup S
      /\ UNCHANGED <<conf, peers, neigh, pend, routes, at, inc, askVars, frameVars, moves, faults>>
  BY DEF RecvL2Q, gwVars, Takes
<1>2. g \in Gw /\ q \in Addr
  BY <1>1, MessageTypes DEF Inv, NetOK, Sound
<1>3. \A x \in S : Sound(x)
  <2>1. SUFFICES ASSUME local(g, q) PROVE \A x \in OnSegment(g, b) : Sound(x)
    OBVIOUS
  <2>2. WhereIs(g, q) \in Endpoint /\ Announces(WhereIs(g, q), q)
    BY <1>2, <2>1, WhereAnnounced DEF Inv, PeersOK
  <2>3. b \in Body /\ Announces(b.ep, b.addr)
    BY <2>2, <1>2, BodyTypes
  <2> HIDE DEF b, g
  <2> QED BY <2>3, <1>2, SegmentSound, NameAssumption DEF Inv
<1> HIDE DEF S
<1>4. NetOK'
  BY <1>1, <1>3, KeptNet DEF Inv
<1>5. asked' = asked
  BY <1>1 DEF askVars
<1>6. conf' \in Confs /\ faults' \in Nat /\ PeersOK' /\ NeighOK' /\ PendOK' /\ RoutesOK' /\ ClientsOK' /\ FramesOK' /\ AskOK'
  BY <1>1, <1>5, KeptPeers, KeptNeigh, KeptPend, KeptRoutes, KeptClients, KeptFrames, KeptAsk DEF Inv
<1> QED BY <1>4, <1>6 DEF Inv

LEMMA RecvRouteKeeps == ASSUME Inv, NEW m \in net, RecvRoute(m) PROVE Inv'
<1> DEFINE r == [addr |-> m.body.addr, ep |-> m.body.ep, li |-> m.from]
<1>1. /\ m.body.type = "ROUTE" /\ net' = net \ {m} /\ routes' = [routes EXCEPT ![m.to] = route_learn(m.to, r)]
      /\ UNCHANGED <<conf, peers, neigh, pend, at, inc, askVars, frameVars, moves, faults>>
  BY DEF RecvRoute, Takes
<1>2. m.to \in Gw /\ r \in Route /\ Announces(r.ep, r.addr)
  <2>1. m \in Message /\ m.from # Segment /\ Announces(m.body.ep, m.body.addr)
    BY <1>1 DEF Inv, NetOK, Sound
  <2> QED BY <1>1, <2>1, MessageTypes DEF Route
<1> HIDE DEF r
<1>3. RoutesOK'
  BY <1>1, <1>2, LearnRoute, NewRoutes DEF Inv, RoutesOK
<1>4. asked' = asked
  BY <1>1 DEF askVars
<1>5. NetOK'
  BY <1>1, FewerNet DEF Inv
<1>6. conf' \in Confs /\ faults' \in Nat /\ PeersOK' /\ NeighOK' /\ PendOK' /\ ClientsOK' /\ FramesOK' /\ AskOK'
  BY <1>1, <1>4, KeptPeers, KeptNeigh, KeptPend, KeptClients, KeptFrames, KeptAsk DEF Inv
<1> QED BY <1>3, <1>5, <1>6 DEF Inv

LEMMA RecvAnnKeeps == ASSUME Inv, NEW m \in net, RecvAnn(m) PROVE Inv'
<1>1. /\ m.body.type = "ANN" /\ net' = net \ {m} /\ neigh' = [neigh EXCEPT ![m.to] = @ \cup {m.from}]
      /\ UNCHANGED <<conf, peers, pend, routes, at, inc, askVars, frameVars, moves, faults>>
  BY DEF RecvAnn, Takes
<1>2. m.from \in Gw /\ m.to \in Gw
  BY <1>1, MessageTypes DEF Inv, NetOK, Sound
<1>3. NeighOK'
  BY <1>1, <1>2 DEF Inv, NeighOK
<1>4. asked' = asked
  BY <1>1 DEF askVars
<1>5. NetOK'
  BY <1>1, FewerNet DEF Inv
<1>6. conf' \in Confs /\ faults' \in Nat /\ PeersOK' /\ PendOK' /\ RoutesOK' /\ ClientsOK' /\ FramesOK' /\ AskOK'
  BY <1>1, <1>4, KeptPeers, KeptPend, KeptRoutes, KeptClients, KeptFrames, KeptAsk DEF Inv
<1> QED BY <1>3, <1>5, <1>6 DEF Inv

LEMMA ReceiveType == ASSUME got \in [Ids -> [Client -> Nat]], NEW n \in Ids, NEW S PROVE Receive(n, S) \in [Ids -> [Client -> Nat]]
<1> DEFINE G == [c \in Client |-> IF c \in S THEN got[n][c] + 1 ELSE got[n][c]]
<1>1. G \in [Client -> Nat]
  OBVIOUS
<1>2. Receive(n, S) = [got EXCEPT ![n] = G]
  BY DEF Receive
<1> HIDE DEF G
<1> QED BY <1>1, <1>2

LEMMA RecvLinkFrameKeeps == ASSUME Inv, NEW m \in net, RecvLinkFrame(m) PROVE Inv'
<1> DEFINE g == m.to
           n == m.body.id
           f == frames[n]
           out == gw_fed_data(g, m.from, f)
<1>1. /\ m.body.type = "frame" /\ net' \subseteq net \cup Copies(g, n, out) /\ got' = Receive(n, Receivers(f, out))
      /\ UNCHANGED <<conf, peers, neigh, pend, routes, at, inc, askVars, frames, moves, faults>>
  BY DEF RecvLinkFrame, gwVars, Takes
<1>2. g \in Gw /\ n \in Ids
  BY <1>1, MessageTypes DEF Inv, NetOK, Sound
<1>3. f \in Frame \cup {NoFrame}
  BY <1>2 DEF Inv, FramesOK
<1> HIDE DEF f, g, n
<1>4. out.links \subseteq Gw
  BY <1>2, <1>3, Outs DEF Inv, RoutesOK
<1> HIDE DEF out
<1>5. NetOK'
  BY <1>1, <1>2, <1>4, CopiesSound, KeptNet DEF Inv
<1>6. FramesOK'
  BY <1>1, <1>2, ReceiveType DEF Inv, FramesOK
<1>7. asked' = asked
  BY <1>1 DEF askVars
<1>8. conf' \in Confs /\ faults' \in Nat /\ PeersOK' /\ NeighOK' /\ PendOK' /\ RoutesOK' /\ ClientsOK' /\ AskOK'
  BY <1>1, <1>7, KeptPeers, KeptNeigh, KeptPend, KeptRoutes, KeptClients, KeptAsk DEF Inv
<1> QED BY <1>5, <1>6, <1>8 DEF Inv

LEMMA RecvL2FrameKeeps == ASSUME Inv, NEW m \in net, NEW thr, RecvL2Frame(m, thr) PROVE Inv'
<1> DEFINE g == m.to
           n == m.body.id
           f == frames[n]
           pass == class_ok(g, f.src, f.dst)
           P == IF pass THEN Learned(g, f, NoEp, "learn" \in thr) ELSE peers[g]
           out == IF ~pass \/ ("bcast" \in thr /\ Flooded(P, f)) THEN Drop ELSE l2_route(P, g, f)
<1>1. /\ m.body.type = "frame" /\ peers' = [peers EXCEPT ![g] = P] /\ net' \subseteq net \cup (Copies(g, n, out) \cup Refreshed(g, P))
      /\ got' = Receive(n, Receivers(f, out)) /\ (faults' = faults \/ faults' = faults + 1)
      /\ UNCHANGED <<conf, neigh, pend, routes, at, inc, askVars, frames, moves>>
  BY DEF RecvL2Frame, Takes, Throttle
<1>2. g \in Gw /\ n \in Ids
  BY <1>1, MessageTypes DEF Inv, NetOK, Sound
<1>3. f \in Frame \cup {NoFrame}
  BY <1>2 DEF Inv, FramesOK
<1> HIDE DEF f, g, n, pass
<1>4. Table(P)
  BY <1>2, <1>3, LearnedTable DEF Inv, PeersOK
<1> HIDE DEF P
<1>5. out.links \subseteq Gw
  BY <1>2, <1>3, Outs, DropLinks DEF Inv, RoutesOK
<1> HIDE DEF out
<1>6. PeersOK'
  BY <1>1, <1>2, <1>4, NewPeers DEF Inv
<1>7. NetOK'
  BY <1>1, <1>2, <1>4, <1>5, CopiesSound, RefreshedSound, KeptNet DEF Inv
<1>8. FramesOK'
  BY <1>1, <1>2, ReceiveType DEF Inv, FramesOK
<1>9. asked' = asked
  BY <1>1 DEF askVars
<1>10. conf' \in Confs /\ faults' \in Nat /\ NeighOK' /\ PendOK' /\ RoutesOK' /\ ClientsOK' /\ AskOK'
  BY <1>1, <1>9, KeptNeigh, KeptPend, KeptRoutes, KeptClients, KeptAsk DEF Inv
<1> QED BY <1>6, <1>7, <1>8, <1>10 DEF Inv

-----------------------------------------------------------------------------
(* Timers, moves and faults.                                                 *)

LEMMA AnnounceKeeps == ASSUME Inv, NEW g \in Gw, Announce(g) PROVE Inv'
<1> DEFINE b == [type |-> "ANN"]
           S == (IF OnL2(g) THEN OnSegment(g, b) ELSE {}) \cup Announced(g, peers[g])
<1>1. net' = S /\ UNCHANGED <<conf, peers, neigh, pend, routes, at, inc, askVars, frameVars, moves, faults>>
  BY DEF Announce, gwVars
<1>2. b \in Body /\ b.type = "ANN"
  BY BodyTypes
<1> HIDE DEF b
<1>3. \A x \in OnSegment(g, b) : Sound(x)
  BY <1>2, SegmentSound, NameAssumption DEF Inv
<1>4. \A x \in Announced(g, peers[g]) : Sound(x)
  BY AnnouncedSound DEF Inv, PeersOK
<1>5. NetOK'
  BY <1>1, <1>3, <1>4, KeptNet DEF Inv
<1>6. asked' = asked
  BY <1>1 DEF askVars
<1>7. conf' \in Confs /\ faults' \in Nat /\ PeersOK' /\ NeighOK' /\ PendOK' /\ RoutesOK' /\ ClientsOK' /\ FramesOK' /\ AskOK'
  BY <1>1, <1>6, KeptPeers, KeptNeigh, KeptPend, KeptRoutes, KeptClients, KeptFrames, KeptAsk DEF Inv
<1> QED BY <1>5, <1>7 DEF Inv

LEMMA PendExpireKeeps == ASSUME Inv, NEW g \in Gw, NEW p \in pend[g], PendExpire(g, p) PROVE Inv'
<1>1. /\ pend' = [pend EXCEPT ![g] = @ \ {p}] /\ (faults' = faults \/ faults' = faults + 1)
      /\ UNCHANGED <<conf, peers, neigh, routes, at, inc, askVars, frameVars, net, moves>>
  BY DEF PendExpire
<1>2. asked' = asked
  BY <1>1 DEF askVars
<1>3. Queries(pend[g] \ {p}, conf.room, asked')
  BY <1>2, ConfTypes, Forget DEF Inv, PendOK
<1>4. pend' = [pend EXCEPT ![g] = pend[g] \ {p}]
  BY <1>1 DEF Inv, PendOK
<1>5. PendOK'
  BY <1>1, <1>2, <1>3, <1>4, NewPend DEF Inv
<1>6. NetOK'
  BY <1>1, FewerNet DEF Inv
<1>7. conf' \in Confs /\ faults' \in Nat /\ PeersOK' /\ NeighOK' /\ RoutesOK' /\ ClientsOK' /\ FramesOK' /\ AskOK'
  BY <1>1, KeptPeers, KeptNeigh, KeptRoutes, KeptClients, KeptFrames, KeptAsk DEF Inv
<1> QED BY <1>5, <1>6, <1>7 DEF Inv

LEMMA RouteExpireKeeps == ASSUME Inv, NEW g \in Gw, NEW i \in DOMAIN routes[g], RouteExpire(g, i) PROVE Inv'
<1>1. /\ routes' = [routes EXCEPT ![g] = SwapRemove(@, i)]
      /\ UNCHANGED <<conf, peers, neigh, pend, at, inc, askVars, frameVars, net, moves, faults>>
  BY DEF RouteExpire
<1>2. routes' = [routes EXCEPT ![g] = SwapRemove(routes[g], i)]
  BY <1>1 DEF Inv, RoutesOK
<1>3. RouteTable(SwapRemove(routes[g], i))
  BY Removed DEF Inv, RoutesOK
<1>4. RoutesOK'
  BY <1>1, <1>2, <1>3, NewRoutes DEF Inv
<1>5. asked' = asked
  BY <1>1 DEF askVars
<1>6. NetOK'
  BY <1>1, FewerNet DEF Inv
<1>7. conf' \in Confs /\ faults' \in Nat /\ PeersOK' /\ NeighOK' /\ PendOK' /\ ClientsOK' /\ FramesOK' /\ AskOK'
  BY <1>1, <1>5, KeptPeers, KeptNeigh, KeptPend, KeptClients, KeptFrames, KeptAsk DEF Inv
<1> QED BY <1>4, <1>6, <1>7 DEF Inv

LEMMA AgeKeeps == ASSUME Inv, NEW g \in Gw, NEW i \in Slot, Age(g, i) PROVE Inv'
<1> DEFINE P == peers[g]
           Q == [P EXCEPT ![i] = [P[i] EXCEPT !.old = TRUE]]
<1>1. /\ peers' = [peers EXCEPT ![g][i].old = TRUE]
      /\ UNCHANGED <<conf, neigh, pend, routes, at, inc, askVars, frameVars, net, moves, faults>>
  BY DEF Age
<1>2. Table(P) /\ P \in [Slot -> PeerEntry]
  BY DEF Inv, PeersOK, Table
<1>3. peers' = [peers EXCEPT ![g] = Q]
  BY <1>1 DEF Inv, PeersOK
<1> HIDE DEF P
<1>4. [P[i] EXCEPT !.old = TRUE] \in PeerEntry
  BY <1>2 DEF PeerEntry
<1>5. Q \in [Slot -> PeerEntry]
  BY <1>2, <1>4
<1>6. \A j \in Slot : Q[j].id = P[j].id /\ Q[j].ep = P[j].ep /\ Q[j].addr = P[j].addr
  <2>1. /\ [P[i] EXCEPT !.old = TRUE].id = P[i].id /\ [P[i] EXCEPT !.old = TRUE].ep = P[i].ep
        /\ [P[i] EXCEPT !.old = TRUE].addr = P[i].addr
    BY <1>2 DEF PeerEntry
  <2> QED BY <1>2, <2>1
<1> HIDE DEF Q
<1>7. Table(Q)
  BY <1>2, <1>5, <1>6 DEF Table, used
<1>8. PeersOK'
  BY <1>1, <1>3, <1>7, NewPeers DEF Inv
<1>9. asked' = asked
  BY <1>1 DEF askVars
<1>10. NetOK'
  BY <1>1, FewerNet DEF Inv
<1>11. conf' \in Confs /\ faults' \in Nat /\ NeighOK' /\ PendOK' /\ RoutesOK' /\ ClientsOK' /\ FramesOK' /\ AskOK'
  BY <1>1, <1>9, KeptNeigh, KeptPend, KeptRoutes, KeptClients, KeptFrames, KeptAsk DEF Inv
<1> QED BY <1>8, <1>10, <1>11 DEF Inv

\* A frame may stop being one that has to arrive.
LEMMA Unsure == ASSUME NEW f \in Frame \cup {NoFrame} PROVE [f EXCEPT !.sure = FALSE] \in Frame \cup {NoFrame}
<1>1. CASE f \in Frame
  BY <1>1 DEF Frame
<1>2. CASE f = NoFrame
  <2> DEFINE R == [from : {NoOne}, to : {All}, src : {NoOne}, dst : {All}, nh : {"dgram"}, sure : {FALSE}]
  <2>1. f \in R
    BY <1>2 DEF NoFrame
  <2>2. [f EXCEPT !.sure = FALSE] \in R
    BY <2>1
  <2>3. ASSUME NEW r \in R PROVE r = NoFrame
    <3>1. r = [from |-> r.from, to |-> r.to, src |-> r.src, dst |-> r.dst, nh |-> r.nh, sure |-> r.sure]
      OBVIOUS
    <3>2. r.from = NoOne /\ r.to = All /\ r.src = NoOne /\ r.dst = All /\ r.nh = "dgram"
      OBVIOUS
    <3>3. r.sure = FALSE
      OBVIOUS
    <3> QED BY <3>1, <3>2, <3>3, Zenon DEF NoFrame
  <2> HIDE DEF R
  <2> QED BY <2>2, <2>3
<1> QED BY <1>1, <1>2

LEMMA MoveKeeps == ASSUME Inv, NEW g \in Gw, NEW c \in Client, Move(c, g) PROVE Inv'
<1>1. /\ moves < conf.moves /\ moves' = moves + 1 /\ at' = [at EXCEPT ![c] = g] /\ inc' = [inc EXCEPT ![c] = @ + 1]
      /\ frames' = [n \in Ids |-> IF frames[n].to = c THEN [frames[n] EXCEPT !.sure = FALSE] ELSE frames[n]]
      /\ got' = [n \in Ids |-> [got[n] EXCEPT ![c] = 0]]
      /\ UNCHANGED <<conf, peers, neigh, pend, routes, askVars, net, faults>>
  BY DEF Move, gwVars
<1>2. ClientsOK'
  <2>1. moves \in Nat /\ conf.moves \in 0 .. MaxMoves /\ MaxMoves \in Nat
    BY ConfTypes, Sizes DEF Inv, ClientsOK
  <2>2. inc \in [Client -> 1 .. MaxMoves + 1] /\ \A x \in Client : inc[x] <= moves + 1
    BY DEF Inv, ClientsOK
  <2>3. inc[c] + 1 \in 1 .. MaxMoves + 1 /\ inc[c] + 1 <= moves' + 1
    BY <1>1, <2>1, <2>2
  <2>4. inc' = [inc EXCEPT ![c] = inc[c] + 1]
    BY <1>1, <2>2
  <2>5. inc' \in [Client -> 1 .. MaxMoves + 1]
    BY <2>2, <2>3, <2>4
  <2>6. \A x \in Client : inc'[x] <= moves' + 1
    BY <1>1, <2>1, <2>2, <2>3, <2>4
  <2>7. at' \in [Client -> Gw \cup {Segment, Away}] /\ moves' \in Nat
    BY <1>1, <2>1 DEF Inv, ClientsOK
  <2> QED BY <2>5, <2>6, <2>7 DEF ClientsOK
<1>3. FramesOK'
  <2>1. \A n \in Ids : frames[n] \in Frame \cup {NoFrame} /\ [frames[n] EXCEPT !.sure = FALSE] \in Frame \cup {NoFrame}
    BY Unsure DEF Inv, FramesOK
  <2>2. frames' \in [Ids -> Frame \cup {NoFrame}]
    BY <1>1, <2>1
  <2>3. got' \in [Ids -> [Client -> Nat]]
    <3>1. \A n \in Ids : [got[n] EXCEPT ![c] = 0] \in [Client -> Nat]
      BY DEF Inv, FramesOK
    <3> QED BY <1>1, <3>1
  <2> QED BY <2>2, <2>3 DEF FramesOK
<1>4. asked' = asked
  BY <1>1 DEF askVars
<1>5. NetOK'
  BY <1>1, FewerNet DEF Inv
<1>6. conf' \in Confs /\ faults' \in Nat /\ PeersOK' /\ NeighOK' /\ PendOK' /\ RoutesOK' /\ AskOK'
  BY <1>1, <1>4, KeptPeers, KeptNeigh, KeptPend, KeptRoutes, KeptAsk DEF Inv
<1> QED BY <1>2, <1>3, <1>5, <1>6 DEF Inv

LEMMA LoseKeeps == ASSUME Inv, NEW m \in net, Lose(m) PROVE Inv'
<1>1. /\ faults' = faults + 1 /\ net' = net \ {m}
      /\ frames' = IF m.body.type = "frame" THEN [frames EXCEPT ![m.body.id].sure = FALSE] ELSE frames
      /\ UNCHANGED <<conf, peers, neigh, pend, routes, at, inc, askVars, got, moves>>
  BY DEF Lose, gwVars
<1>2. FramesOK'
  <2>1. CASE m.body.type = "frame"
    <3>1. m.body.id \in Ids
      BY <2>1, MessageTypes DEF Inv, NetOK, Sound
    <3>2. [frames[m.body.id] EXCEPT !.sure = FALSE] \in Frame \cup {NoFrame}
      BY <3>1, Unsure DEF Inv, FramesOK
    <3>3. frames' = [frames EXCEPT ![m.body.id] = [frames[m.body.id] EXCEPT !.sure = FALSE]]
      BY <1>1, <2>1, <3>1 DEF Inv, FramesOK
    <3> QED BY <1>1, <3>2, <3>3 DEF Inv, FramesOK
  <2>2. CASE m.body.type # "frame"
    BY <1>1, <2>2 DEF Inv, FramesOK
  <2> QED BY <2>1, <2>2
<1>3. asked' = asked
  BY <1>1 DEF askVars
<1>4. NetOK'
  BY <1>1, FewerNet DEF Inv
<1>5. conf' \in Confs /\ faults' \in Nat /\ PeersOK' /\ NeighOK' /\ PendOK' /\ RoutesOK' /\ ClientsOK' /\ AskOK'
  BY <1>1, <1>3, KeptPeers, KeptNeigh, KeptPend, KeptRoutes, KeptClients, KeptAsk DEF Inv
<1> QED BY <1>2, <1>4, <1>5 DEF Inv

-----------------------------------------------------------------------------
(* Every step.                                                               *)

LEMMA InvStep == Inv /\ [Next]_vars => Inv'
<1> SUFFICES ASSUME Inv, [Next]_vars PROVE Inv'
  OBVIOUS
<1>1. CASE UNCHANGED vars
  <2>1. UNCHANGED <<conf, peers, neigh, pend, routes, at, inc, askVars, frameVars, net, moves, faults>>
    BY <1>1 DEF vars, gwVars
  <2>2. asked' = asked
    BY <2>1 DEF askVars
  <2>3. NetOK'
    BY <2>1, <1>1, FewerNet DEF Inv
  <2> QED BY <2>1, <2>2, <2>3, KeptPeers, KeptNeigh, KeptPend, KeptRoutes, KeptClients, KeptFrames, KeptAsk DEF Inv
<1>2. ASSUME NEW c \in Client, NEW d \in Client \cup {All}, NEW nh \in conf.kinds,
             SendSegment(c, d, nh) \/ \E thr \in {{}, {"learn"}, {"bcast"}} : SendTunnel(c, d, nh, thr)
      PROVE  Inv'
  BY <1>2, SendTunnelKeeps, SendSegmentKeeps
<1>3. ASSUME NEW c \in Client, NEW q \in Addr, AskLocal(c, q) \/ AskRoute(c, q) \/ AskMesh(c, q) \/ AskNone(c, q)
      PROVE  Inv'
  BY <1>3, AskLocalKeeps, AskRouteKeeps, AskMeshKeeps, AskNoneKeeps
<1>4. ASSUME NEW m \in net, Recv(m) \/ Lose(m) \/ \E thr \in {{"learn"}, {"bcast"}} : RecvL2Frame(m, thr)
      PROVE  Inv'
  BY <1>4, RecvRKeeps, RecvLinkQKeeps, RecvL2QKeeps, RecvRouteKeeps, RecvAnnKeeps, RecvLinkFrameKeeps, RecvL2FrameKeeps, LoseKeeps DEF Recv
<1>5. ASSUME NEW g \in Gw,
             \/ Announce(g)
             \/ \E p \in pend[g] : PendExpire(g, p)
             \/ \E i \in DOMAIN routes[g] : RouteExpire(g, i)
             \/ \E i \in Slot : Age(g, i)
             \/ \E c \in Client : Move(c, g)
      PROVE  Inv'
  BY <1>5, AnnounceKeeps, PendExpireKeeps, RouteExpireKeeps, AgeKeeps, MoveKeeps
<1> QED BY <1>1, <1>2, <1>3, <1>4, <1>5 DEF Next

\* The gateways' tables keep their shape and never grow past their room: peers[], gwp[] and
\* routes[] of ipv69gw.c.
THEOREM Types == Spec => []TypeOK
<1>1. Spec => []Inv
  BY InvInit, InvStep, PTL DEF Spec
<1> QED BY <1>1, InvHolds, PTL

\* Whatever is learned, announced, lost or timed out, a key has one slot of a gateway's peer
\* table, an address one pending query, and an address one route of each link.
THEOREM Keys == Spec => []Keyed
<1>1. Spec => []Inv
  BY InvInit, InvStep, PTL DEF Spec
<1> QED BY <1>1, InvHolds, PTL

\* Through any number of gateways an answer to QUERY reaches only who asked for that
\* address, and what it gives is an endpoint that announced the address with a key that may
\* have it: on the list of --peer or, without one, any.  So for GW_CALL.
THEOREM Introduced == Spec => []Introductions
<1>1. Spec => []Inv
  BY InvInit, InvStep, PTL DEF Spec
<1> QED BY <1>1, InvHolds, PTL

-----------------------------------------------------------------------------
(* Class A and B addresses stay behind gateways with --private.  While nobody *)
(* moves, a tunnel's endpoint is of a client of that gateway; so a secret     *)
(* frame, which every gateway on its way has let pass, is handed only to      *)
(* clients of gateways with --private.  Of a frame in flight it is known that *)
(* its sender's gateway let it pass.                                          *)

Home(P, g, A) == \A i \in Slot : P[i].ep # NoEp => A[P[i].ep[1]] = g
Secret(f) == {f.src, f.dst} \cap conf.private # {}
Behind(c) == at[c] \in Gw => at[c] \in conf.allow_private
Fenced ==
    moves = 0 =>
        /\ \A g \in Gw : Home(peers[g], g, at)
        /\ \A n \in Ids : Secret(frames[n]) =>
              /\ Flying(n) # {} => Behind(frames[n].from)
              /\ \A c \in Client : got[n][c] > 0 => Behind(frames[n].from) /\ Behind(c)

LEMMA FencedGives == Fenced => Confined
BY DEF Fenced, Confined, Secret, Behind

LEMMA FencedInit == Init => Fenced
<1> SUFFICES ASSUME Init PROVE Fenced
  OBVIOUS
<1>1. \A g \in Gw : Home(peers[g], g, at)
  BY DEF Init, Home, Unused
<1>2. \A n \in Ids : Flying(n) = {} /\ \A c \in Client : ~(got[n][c] > 0)
  BY DEF Init, Flying
<1> QED BY <1>1, <1>2 DEF Fenced

\* Announcements, queries and answers are no frames; a copy is of the frame it is made of.
LEMMA NoFrameSent ==
    /\ \A g, S, b : b.type # "frame" => \A m \in OnLinks(g, S, b) \cup OnSegment(g, b) : m.body.type # "frame"
    /\ \A g, P : \A m \in Announced(g, P) \cup Refreshed(g, P) : m.body.type # "frame"
<1>1. \A g, S, b : b.type # "frame" => \A m \in OnLinks(g, S, b) \cup OnSegment(g, b) : m.body.type # "frame"
  BY DEF OnLinks, OnSegment
<1>2. \A g, P : \A m \in Announced(g, P) : m.body.type # "frame"
  BY DEF Announced, OnLinks
<1> QED BY <1>1, <1>2 DEF Refreshed

LEMMA CopiesOf ==
    /\ \A g, n, out : \A m \in Copies(g, n, out) : m.body.type = "frame" /\ m.body.id = n
    /\ \A g, n : Copies(g, n, Drop) = {}
BY DEF Copies, OnLinks, OnSegment, Drop, Out

\* A step that sends no frame and hands none over.
LEMMA FencedStays ==
    ASSUME Fenced, UNCHANGED <<conf, at, moves, peers, frames, got>>, \A m \in net' : m \in net \/ m.body.type # "frame"
    PROVE  Fenced'
<1>1. \A n \in Ids : Flying(n)' \subseteq Flying(n)
  BY DEF Flying
<1> QED BY <1>1 DEF Fenced, Secret, Behind, Home

\* Learning from a tunnel, of a client of the gateway, or from the segment.
LEMMA HomeLearned ==
    ASSUME NEW g \in Gw, Table(peers[g]), Home(peers[g], g, at), NEW f, NEW e \in Endpoint \cup {NoEp}, e = NoEp \/ at[e[1]] = g, NEW t
    PROVE  Home(Learned(g, f, e, t), g, at)
<1> DEFINE P == peers[g]
           r == Entry(f.from, f.src, e)
<1>1. ASSUME NEW i PROVE Home([P EXCEPT ![i] = r], g, at)
  <2>1. \A j \in Slot : [P EXCEPT ![i] = r][j] = IF j = i THEN r ELSE P[j]
    BY DEF Table
  <2>2. r.ep = e
    BY DEF Entry
  <2> HIDE DEF r, P
  <2> QED BY <2>1, <2>2 DEF Home, P
<1> QED BY <1>1 DEF Learned, peer_learn_auth

\* The peer a frame is for has its endpoint in the table.
LEMMA KnownEp ==
    ASSUME NEW P, NEW f, f.to # NoOne
    PROVE  /\ peer_for(P, f) \in SUBSET used(P)
           /\ peer_for(P, f) # {} => \E i \in Slot : EpFor(P, f) = P[i].ep
           /\ known(P, f.to) => \E i \in Slot : EpIn(P, peer_find(P, f.to)) = P[i].ep
<1>1. peer_for(P, f) \in SUBSET used(P) /\ peer_find(P, f.to) \in SUBSET used(P)
  BY Finds DEF peer_for
<1>2. \A S \in SUBSET used(P) : S # {} => \E i \in Slot : EpIn(P, S) = P[i].ep
  BY EpInOwn
<1> QED BY <1>1, <1>2 DEF EpFor, known

\* A handler hands a frame only to endpoints of its table, and only one its class filter
\* lets pass.
LEMMA OutEps ==
    ASSUME NEW g \in Gw, NEW f \in Frame \cup {NoFrame}, NEW P, NEW x
    PROVE  /\ udp_route(g, P, f, x).eps \subseteq {P[i].ep : i \in Slot} \ {NoEp}
           /\ gw_fed_data(g, x, f).eps \subseteq {peers[g][i].ep : i \in Slot} \ {NoEp}
           /\ l2_route(P, g, f).eps \subseteq {P[i].ep : i \in Slot} \ {NoEp}
           /\ Drop.eps = {} /\ Drop.l2 = FALSE /\ Drop.links = {}
           /\ ~class_ok(g, f.src, f.dst) => udp_route(g, P, f, x) = Drop /\ gw_fed_data(g, x, f) = Drop
<1> DEFINE E(Q) == {Q[i].ep : i \in Slot}
<1>1. f.to # NoOne
  BY NameAssumption DEF Frame, NoFrame
<1>2. \A Q, b : Tunnels(Q, b) \subseteq E(Q)
  BY DEF Tunnels, used
<1>3. \A Q : /\ peer_for(Q, f) # {} => EpFor(Q, f) \in E(Q)
             /\ known(Q, f.to) => EpIn(Q, peer_find(Q, f.to)) \in E(Q)
  BY <1>1, KnownEp
<1> HIDE DEF E
<1>4. \A eps, l2, links, S : eps \subseteq S => Out(eps, l2, links).eps \subseteq S \ {NoEp}
  BY DEF Out
<1>5. Drop.eps = {} /\ Drop.l2 = FALSE /\ Drop.links = {}
  BY DEF Drop, Out
<1>6. \A Q, b, l2, links : Out(Tunnels(Q, b), l2, links).eps \subseteq E(Q) \ {NoEp}
  BY <1>2, <1>4
<1>7. \A Q, l2, links : /\ peer_for(Q, f) # {} => Out({EpFor(Q, f)}, l2, links).eps \subseteq E(Q) \ {NoEp}
                        /\ known(Q, f.to) => Out({EpIn(Q, peer_find(Q, f.to))}, l2, links).eps \subseteq E(Q) \ {NoEp}
  BY <1>3, <1>4
<1>8. \A Q, l2, links : Out({}, l2, links).eps \subseteq E(Q) \ {NoEp} /\ Drop.eps \subseteq E(Q) \ {NoEp}
  BY <1>4, <1>5
<1>9. udp_route(g, P, f, x).eps \subseteq E(P) \ {NoEp}
  BY <1>6, <1>7, <1>8 DEF udp_route
<1>10. gw_fed_data(g, x, f).eps \subseteq E(peers[g]) \ {NoEp}
  BY <1>6, <1>7, <1>8 DEF gw_fed_data
<1>11. l2_route(P, g, f).eps \subseteq E(P) \ {NoEp}
  BY <1>6, <1>7, <1>8 DEF l2_route, Flooded
<1>12. ~class_ok(g, f.src, f.dst) => udp_route(g, P, f, x) = Drop /\ gw_fed_data(g, x, f) = Drop
  BY DEF udp_route, gw_fed_data
<1> QED BY <1>5, <1>9, <1>10, <1>11, <1>12 DEF E

\* Who gets a secret frame of a gateway is on the segment or a client of it.
LEMMA Reached ==
    ASSUME ClientsOK, NEW g \in Gw, NEW P, Home(P, g, at), NEW f, NEW out, out.eps \subseteq {P[i].ep : i \in Slot} \ {NoEp},
           g \in conf.allow_private, NEW c \in Client, c \in Receivers(f, out)
    PROVE  Behind(c)
<1>1. CASE EpOf(c) \in out.eps
  <2>1. PICK i \in Slot : EpOf(c) = P[i].ep /\ P[i].ep # NoEp
    BY <1>1
  <2>2. at[c] = g
    BY <2>1, EpOfType DEF Home
  <2> QED BY <2>2 DEF Behind
<1>2. CASE c \in Natives(f)
  BY <1>2, NameAssumption DEF Natives, Behind
<1> QED BY <1>1, <1>2 DEF Receivers

LEMMA SecretPasses == ASSUME NEW g, NEW f, Secret(f), class_ok(g, f.src, f.dst) PROVE g \in conf.allow_private
BY DEF Secret, class_ok

\* A client's frame goes out, under a number none is in flight with.
LEMMA FencedSend ==
    ASSUME Inv, Fenced, NEW c \in Client, NEW f \in Frame, f.from = c, NEW n \in Ids, Flying(n) = {},
           frames' = [frames EXCEPT ![n] = f], UNCHANGED <<conf, at, moves>>,
           moves = 0 => \A g \in Gw : Home(peers'[g], g, at),
           \A m \in net' : m \in net \/ m.body.type # "frame" \/ m.body.id = n,
           \A k \in Ids \ {n} : got'[k] = got[k],
           moves = 0 /\ Secret(f) =>
              /\ Behind(c) \/ \A m \in net' : m.body.type = "frame" => m.body.id # n
              /\ \A x \in Client : got'[n][x] > 0 => Behind(c) /\ Behind(x)
    PROVE  Fenced'
<1> SUFFICES ASSUME moves = 0, NEW k \in Ids, Secret(frames'[k])
             PROVE  /\ Flying(k)' # {} => Behind(frames'[k].from)
                    /\ \A x \in Client : got'[k][x] > 0 => Behind(frames'[k].from) /\ Behind(x)
  BY DEF Fenced, Secret, Behind
<1>1. frames'[n] = f /\ (k # n => frames'[k] = frames[k])
  BY DEF Inv, FramesOK
<1>2. CASE k = n
  BY <1>1, <1>2 DEF Flying
<1>3. CASE k # n
  <2>1. Flying(k)' \subseteq Flying(k)
    BY <1>3 DEF Flying
  <2> QED BY <1>1, <1>3, <2>1 DEF Fenced
<1> QED BY <1>2, <1>3

LEMMA FencedSendTunnel ==
    ASSUME Inv, Fenced, NEW c \in Client, NEW d \in Client \cup {All}, NEW nh \in conf.kinds, NEW thr, SendTunnel(c, d, nh, thr)
    PROVE  Fenced'
<1> DEFINE f == FrameOf(c, d, nh)
           n == First(FreeIds)
           g == at[c]
           P == Learned(g, f, EpOf(c), "learn" \in thr)
           out == IF "bcast" \in thr /\ d = All THEN Drop ELSE udp_route(g, P, f, EpOf(c))
<1>1. /\ g \in Gw /\ FreeIds # {} /\ peers' = [peers EXCEPT ![g] = P]
      /\ net' = net \cup Copies(g, n, out) \cup Refreshed(g, P) /\ frames' = [frames EXCEPT ![n] = f]
      /\ got' = [got EXCEPT ![n] = [x \in Client |-> IF x \in Receivers(f, out) THEN 1 ELSE 0]]
      /\ UNCHANGED <<conf, at, moves>>
  BY DEF SendTunnel, Sendable
<1>2. f \in Frame /\ f.from = c /\ f.src = AddrOf(c)
  BY ConfTypes, FrameType DEF Inv
<1>3. n \in Ids /\ Flying(n) = {}
  <2>1. FreeIds \in SUBSET Nat
    BY ConfTypes, Sizes DEF Inv, FreeIds, Ids
  <2>2. n \in FreeIds
    BY <1>1, <2>1, FirstIsIn
  <2> QED BY <1>1, <2>2, FreeId DEF Inv, FreeIds
<1>4. EpOf(c) \in Endpoint /\ EpOf(c)[1] = c
  BY EpOfType DEF Inv
<1> HIDE DEF f, n
<1>5. moves = 0 => Home(P, g, at)
  BY <1>1, <1>4, HomeLearned DEF Inv, PeersOK, Fenced
<1>6. out.eps \subseteq {P[i].ep : i \in Slot} \ {NoEp} /\ (~class_ok(g, f.src, f.dst) => out = Drop)
  <2> HIDE DEF P, g
  <2> QED BY <1>1, <1>2, OutEps
<1> HIDE DEF P, out
<1>7. moves = 0 => \A h \in Gw : Home(peers'[h], h, at)
  BY <1>1, <1>5 DEF Fenced, Inv, PeersOK
<1>8. \A m \in net' : m \in net \/ m.body.type # "frame" \/ m.body.id = n
  BY <1>1, CopiesOf, NoFrameSent
<1>9. \A x \in Client : got'[n][x] > 0 => x \in Receivers(f, out)
  BY <1>1, <1>3 DEF Inv, FramesOK
<1>10. \A k \in Ids \ {n} : got'[k] = got[k]
  BY <1>1 DEF Inv, FramesOK
<1>11. ASSUME moves = 0, Secret(f)
       PROVE  /\ Behind(c) \/ \A m \in net' : m.body.type = "frame" => m.body.id # n
              /\ \A x \in Client : got'[n][x] > 0 => Behind(c) /\ Behind(x)
  <2>1. CASE class_ok(g, f.src, f.dst)
    <3>1. g \in conf.allow_private
      BY <1>11, <2>1, SecretPasses
    <3>2. Behind(c)
      BY <3>1 DEF Behind, g
    <3>3. \A x \in Client : x \in Receivers(f, out) => Behind(x)
      <4> HIDE DEF g
      <4> QED BY <1>1, <1>5, <1>6, <1>11, <3>1, Reached DEF Inv
    <3> QED BY <1>9, <3>2, <3>3
  <2>2. CASE ~class_ok(g, f.src, f.dst)
    <3>1. out = Drop
      BY <1>6, <2>2
    <3>2. Copies(g, n, out) = {}
      BY <3>1, CopiesOf
    <3>3. \A m \in net' : m.body.type = "frame" => m.body.id # n
      BY <1>1, <1>3, <3>2, NoFrameSent DEF Flying
    <3>4. \A x \in Client : x \in Receivers(f, out) => FALSE
      BY <3>1, OutEps, <1>2, <1>1 DEF Receivers
    <3> QED BY <1>9, <3>3, <3>4
  <2> QED BY <2>1, <2>2
<1> HIDE DEF g
<1> QED BY <1>1, <1>2, <1>3, <1>7, <1>8, <1>10, <1>11, FencedSend

LEMMA FencedSendSegment ==
    ASSUME Inv, Fenced, NEW c \in Client, NEW d \in Client \cup {All}, NEW nh \in conf.kinds, SendSegment(c, d, nh)
    PROVE  Fenced'
<1> DEFINE f == FrameOf(c, d, nh)
           n == First(FreeIds)
           b == [type |-> "frame", id |-> n]
<1>1. /\ at[c] = Segment /\ FreeIds # {} /\ net' = net \cup OnSegment(Segment, b) /\ frames' = [frames EXCEPT ![n] = f]
      /\ got' = [got EXCEPT ![n] = [x \in Client |-> IF x \in Natives(f) THEN 1 ELSE 0]]
      /\ UNCHANGED <<conf, peers, at, moves>>
  BY DEF SendSegment, Sendable, gwVars
<1>2. f \in Frame /\ f.from = c /\ f.src = AddrOf(c)
  BY ConfTypes, FrameType DEF Inv
<1>3. n \in Ids /\ Flying(n) = {}
  <2>1. FreeIds \in SUBSET Nat
    BY ConfTypes, Sizes DEF Inv, FreeIds, Ids
  <2>2. n \in FreeIds
    BY <1>1, <2>1, FirstIsIn
  <2> QED BY <1>1, <2>2, FreeId DEF Inv, FreeIds
<1> HIDE DEF f, n
<1>4. \A m \in net' : m \in net \/ m.body.type # "frame" \/ m.body.id = n
  BY <1>1 DEF OnSegment
<1>5. Behind(c)
  BY <1>1, NameAssumption DEF Behind
<1>6. \A x \in Client : got'[n][x] > 0 => Behind(x)
  <2>1. \A x \in Client : got'[n][x] > 0 => x \in Natives(f)
    BY <1>1, <1>3 DEF Inv, FramesOK
  <2> QED BY <2>1, NameAssumption DEF Natives, Behind
<1>7. \A k \in Ids \ {n} : got'[k] = got[k]
  BY <1>1 DEF Inv, FramesOK
<1>8. moves = 0 => \A g \in Gw : Home(peers'[g], g, at)
  BY <1>1 DEF Fenced
<1> QED BY <1>1, <1>2, <1>3, <1>4, <1>5, <1>6, <1>7, <1>8, FencedSend

\* A gateway takes a frame and hands copies of it on.
LEMMA FencedHand ==
    ASSUME Inv, Fenced, NEW m \in net, m.body.type = "frame", NEW n \in Ids, n = m.body.id, NEW R, got' = Receive(n, R),
           UNCHANGED <<conf, at, moves, frames>>,
           moves = 0 => \A g \in Gw : Home(peers'[g], g, at),
           \A x \in net' : x \in net \/ x.body.type # "frame" \/ x.body.id = n,
           moves = 0 /\ Secret(frames[n]) => \A c \in Client : c \in R => Behind(c)
    PROVE  Fenced'
<1> SUFFICES ASSUME moves = 0, NEW k \in Ids, Secret(frames[k])
             PROVE  /\ Flying(k)' # {} => Behind(frames[k].from)
                    /\ \A c \in Client : got'[k][c] > 0 => Behind(frames[k].from) /\ Behind(c)
  BY DEF Fenced, Secret, Behind
<1>1. m \in Flying(n)
  BY DEF Flying
<1>2. CASE k = n
  <2>1. Behind(frames[k].from)
    BY <1>1, <1>2 DEF Fenced
  <2>2. \A c \in Client : got'[n][c] > 0 => c \in R \/ got[n][c] > 0
    BY DEF Receive, Inv, FramesOK
  <2> QED BY <1>2, <2>1, <2>2 DEF Fenced
<1>3. CASE k # n
  <2>1. Flying(k)' \subseteq Flying(k)
    BY <1>3 DEF Flying
  <2>2. got'[k] = got[k]
    BY <1>3 DEF Receive, Inv, FramesOK
  <2> QED BY <2>1, <2>2 DEF Fenced
<1> QED BY <1>2, <1>3

LEMMA FencedRecvLinkFrame == ASSUME Inv, Fenced, NEW m \in net, RecvLinkFrame(m) PROVE Fenced'
<1> DEFINE g == m.to
           n == m.body.id
           f == frames[n]
           out == gw_fed_data(g, m.from, f)
<1>1. /\ m.body.type = "frame" /\ net' = (net \ {m}) \cup Copies(g, n, out) /\ got' = Receive(n, Receivers(f, out))
      /\ UNCHANGED <<conf, peers, at, moves, frames>>
  BY DEF RecvLinkFrame, gwVars, Takes
<1>2. g \in Gw /\ n \in Ids
  BY <1>1, MessageTypes DEF Inv, NetOK, Sound
<1>3. f \in Frame \cup {NoFrame}
  BY <1>2 DEF Inv, FramesOK
<1>4. /\ out.eps \subseteq {peers[g][i].ep : i \in Slot} \ {NoEp} /\ (~class_ok(g, f.src, f.dst) => out = Drop)
      /\ Drop.eps = {} /\ Drop.l2 = FALSE
  <2> HIDE DEF g, f
  <2> QED BY <1>2, <1>3, OutEps
<1> HIDE DEF out, f
<1>5. \A x \in net' : x \in net \/ x.body.type # "frame" \/ x.body.id = n
  BY <1>1, CopiesOf
<1>6. ASSUME moves = 0, Secret(f) PROVE \A c \in Client : c \in Receivers(f, out) => Behind(c)
  <2>1. CASE class_ok(g, f.src, f.dst)
    <3>1. g \in conf.allow_private /\ Home(peers[g], g, at)
      BY <1>2, <1>6, <2>1, SecretPasses DEF Fenced
    <3> HIDE DEF g
    <3> QED BY <1>2, <1>4, <3>1, Reached DEF Inv
  <2>2. CASE ~class_ok(g, f.src, f.dst)
    BY <1>4, <2>2 DEF Receivers
  <2> QED BY <2>1, <2>2
<1>7. moves = 0 => \A h \in Gw : Home(peers'[h], h, at)
  BY <1>1 DEF Fenced
<1> HIDE DEF n
<1> QED BY <1>1, <1>2, <1>5, <1>6, <1>7, FencedHand DEF f, n

LEMMA FencedRecvL2Frame == ASSUME Inv, Fenced, NEW m \in net, NEW thr, RecvL2Frame(m, thr) PROVE Fenced'
<1> DEFINE g == m.to
           n == m.body.id
           f == frames[n]
           pass == class_ok(g, f.src, f.dst)
           P == IF pass THEN Learned(g, f, NoEp, "learn" \in thr) ELSE peers[g]
           out == IF ~pass \/ ("bcast" \in thr /\ Flooded(P, f)) THEN Drop ELSE l2_route(P, g, f)
<1>1. /\ m.body.type = "frame" /\ peers' = [peers EXCEPT ![g] = P] /\ net' = (net \ {m}) \cup (Copies(g, n, out) \cup Refreshed(g, P))
      /\ got' = Receive(n, Receivers(f, out)) /\ UNCHANGED <<conf, at, moves, frames>>
  BY DEF RecvL2Frame, Takes
<1>2. g \in Gw /\ n \in Ids
  BY <1>1, MessageTypes DEF Inv, NetOK, Sound
<1>3. f \in Frame \cup {NoFrame}
  BY <1>2 DEF Inv, FramesOK
<1>4. moves = 0 => Home(P, g, at)
  <2> HIDE DEF f, g
  <2> QED BY <1>2, HomeLearned DEF Inv, PeersOK, Fenced
<1>5. /\ out.eps \subseteq {P[i].ep : i \in Slot} \ {NoEp} /\ (~class_ok(g, f.src, f.dst) => out = Drop)
      /\ Drop.eps = {} /\ Drop.l2 = FALSE
  <2> HIDE DEF g, f, P
  <2> QED BY <1>2, <1>3, OutEps
<1> HIDE DEF out, f, P
<1>6. moves = 0 => \A h \in Gw : Home(peers'[h], h, at)
  BY <1>1, <1>4 DEF Fenced, Inv, PeersOK
<1>7. \A x \in net' : x \in net \/ x.body.type # "frame" \/ x.body.id = n
  BY <1>1, CopiesOf, NoFrameSent
<1>8. ASSUME moves = 0, Secret(f) PROVE \A c \in Client : c \in Receivers(f, out) => Behind(c)
  <2>1. CASE class_ok(g, f.src, f.dst)
    <3>1. g \in conf.allow_private
      BY <1>8, <2>1, SecretPasses
    <3> HIDE DEF g
    <3> QED BY <1>2, <1>4, <1>5, <1>8, <3>1, Reached DEF Inv
  <2>2. CASE ~class_ok(g, f.src, f.dst)
    BY <1>5, <2>2 DEF Receivers
  <2> QED BY <2>1, <2>2
<1> HIDE DEF n
<1> QED BY <1>1, <1>2, <1>6, <1>7, <1>8, FencedHand DEF f, n

\* Queries, answers, routes and announcements are no frames, and move nobody.
LEMMA Talk ==
    ASSUME \/ \E c \in Client, q \in Addr : AskLocal(c, q) \/ AskRoute(c, q) \/ AskMesh(c, q) \/ AskNone(c, q)
           \/ \E m \in net : RecvR(m) \/ RecvLinkQ(m) \/ RecvL2Q(m) \/ RecvRoute(m) \/ RecvAnn(m)
           \/ \E g \in Gw : Announce(g) \/ (\E p \in pend[g] : PendExpire(g, p)) \/ \E i \in DOMAIN routes[g] : RouteExpire(g, i)
    PROVE  UNCHANGED <<conf, at, inc, moves, peers, frames, got>> /\ \A m \in net' : m \in net \/ m.body.type # "frame"
<1>1. UNCHANGED <<conf, at, inc, moves, peers, frames, got>>
  BY DEF AskLocal, AskRoute, AskMesh, AskNone, RecvR, RecvLinkQ, RecvL2Q, RecvRoute, RecvAnn, Announce, PendExpire, RouteExpire,
         gwVars, frameVars
<1> DEFINE Silent == \A m \in net' : m \in net \/ m.body.type # "frame"
<1>2. ASSUME NEW c \in Client, NEW q \in Addr, AskLocal(c, q) \/ AskRoute(c, q) \/ AskMesh(c, q) \/ AskNone(c, q) PROVE Silent
  <2>1. CASE AskMesh(c, q)
    <3> DEFINE b == [type |-> "Q", addr |-> q]
    <3>1. net' \subseteq net \cup (OnLinks(at[c], Links(at[c]), b) \cup OnSegment(at[c], b))
      BY <2>1 DEF AskMesh, gw_mesh_query
    <3>2. b.type # "frame"
      OBVIOUS
    <3> HIDE DEF b
    <3> QED BY <3>1, <3>2, NoFrameSent
  <2> QED BY <1>2, <2>1 DEF AskLocal, AskRoute, AskNone
<1>3. ASSUME NEW m \in net, RecvR(m) PROVE Silent
  <2>1. m.body.type = "R" /\ \E S : net' \subseteq net \cup OnLinks(m.to, S, m.body)
    BY <1>3 DEF RecvR, gw_pend_relay, Takes
  <2>2. m.body.type # "frame"
    BY <2>1
  <2> QED BY <2>1, <2>2, NoFrameSent
<1>4. ASSUME NEW m \in net, RecvLinkQ(m) PROVE Silent
  <2> DEFINE g == m.to
             q == m.body.addr
             b == [type |-> "R", addr |-> q, ep |-> WhereIs(g, q)]
             k == [type |-> "Q", addr |-> q]
  <2>1. net' \subseteq net \cup OnLinks(g, {m.from}, b) \cup OnLinks(g, Links(g) \ {m.from}, k)
    <3>1. \/ Takes(m, OnLinks(g, {m.from}, b))
          \/ link_query(g, m.from, q)
          \/ Takes(m, {})
      BY <1>4 DEF RecvLinkQ
    <3>2. CASE link_query(g, m.from, q)
      BY <3>2 DEF link_query, Takes
    <3> QED BY <3>1, <3>2 DEF Takes
  <2>2. b.type # "frame" /\ k.type # "frame"
    OBVIOUS
  <2> HIDE DEF b, k
  <2> QED BY <2>1, <2>2, NoFrameSent
<1>5. ASSUME NEW m \in net, RecvL2Q(m) PROVE Silent
  <2> DEFINE g == m.to
             b == [type |-> "R", addr |-> m.body.addr, ep |-> WhereIs(g, m.body.addr)]
  <2>1. net' \subseteq net \cup OnSegment(g, b)
    BY <1>5 DEF RecvL2Q, Takes
  <2>2. b.type # "frame"
    OBVIOUS
  <2> HIDE DEF b
  <2> QED BY <2>1, <2>2, NoFrameSent
<1>6. ASSUME NEW m \in net, RecvRoute(m) \/ RecvAnn(m) PROVE Silent
  BY <1>6 DEF RecvRoute, RecvAnn, Takes
<1>7. ASSUME NEW g \in Gw, Announce(g) PROVE Silent
  <2> DEFINE b == [type |-> "ANN"]
  <2>1. net' \subseteq OnSegment(g, b) \cup Announced(g, peers[g])
    BY <1>7 DEF Announce
  <2>2. b.type # "frame"
    OBVIOUS
  <2> HIDE DEF b
  <2> QED BY <2>1, <2>2, NoFrameSent
<1>8. ASSUME NEW g \in Gw, (\E p \in pend[g] : PendExpire(g, p)) \/ \E i \in DOMAIN routes[g] : RouteExpire(g, i) PROVE Silent
  BY <1>8 DEF PendExpire, RouteExpire
<1>9. Silent
  BY <1>2, <1>3, <1>4, <1>5, <1>6, <1>7, <1>8
<1> QED BY <1>1, <1>9

LEMMA FencedAge == ASSUME Inv, Fenced, NEW g \in Gw, NEW i \in Slot, Age(g, i) PROVE Fenced'
<1>1. peers' = [peers EXCEPT ![g][i].old = TRUE] /\ UNCHANGED <<conf, at, moves, frames, got, net>>
  BY DEF Age, frameVars
<1>2. \A h \in Gw, j \in Slot : peers'[h][j].ep = peers[h][j].ep
  BY <1>1 DEF Inv, PeersOK, PeerEntry
<1>3. \A h \in Gw : Home(peers[h], h, at) => Home(peers'[h], h, at)
  BY <1>2 DEF Home
<1>4. \A n \in Ids : Flying(n)' = Flying(n)
  BY <1>1 DEF Flying
<1> QED BY <1>1, <1>3, <1>4 DEF Fenced, Secret, Behind

LEMMA FencedLose == ASSUME Inv, Fenced, NEW m \in net, Lose(m) PROVE Fenced'
<1>1. /\ net' = net \ {m} /\ frames' = IF m.body.type = "frame" THEN [frames EXCEPT ![m.body.id].sure = FALSE] ELSE frames
      /\ UNCHANGED <<conf, at, moves, peers, got>>
  BY DEF Lose, gwVars
<1>2. \A n \in Ids : frames'[n].src = frames[n].src /\ frames'[n].dst = frames[n].dst /\ frames'[n].from = frames[n].from
  <2>1. \A n \in Ids : /\ [frames[n] EXCEPT !.sure = FALSE].src = frames[n].src
                       /\ [frames[n] EXCEPT !.sure = FALSE].dst = frames[n].dst
                       /\ [frames[n] EXCEPT !.sure = FALSE].from = frames[n].from
    BY DEF Inv, FramesOK, Frame, NoFrame
  <2> QED BY <1>1, <2>1 DEF Inv, FramesOK
<1>3. \A n \in Ids : Flying(n)' \subseteq Flying(n)
  BY <1>1 DEF Flying
<1>4. \A n \in Ids : Secret(frames[n])' => Secret(frames[n])
  BY <1>1, <1>2 DEF Secret
<1> QED BY <1>1, <1>2, <1>3, <1>4 DEF Fenced, Behind

LEMMA FencedMove == ASSUME Inv, NEW g \in Gw, NEW c \in Client, Move(c, g) PROVE Fenced'
<1>1. moves' # 0
  BY DEF Move, Inv, ClientsOK
<1> QED BY <1>1 DEF Fenced

LEMMA FencedStep == Inv /\ Fenced /\ [Next]_vars => Fenced'
<1> SUFFICES ASSUME Inv, Fenced, [Next]_vars PROVE Fenced'
  OBVIOUS
<1>1. CASE UNCHANGED vars
  BY <1>1, FencedStays DEF vars, gwVars, frameVars
<1>2. ASSUME NEW c \in Client, NEW d \in Client \cup {All}, NEW nh \in conf.kinds,
             SendSegment(c, d, nh) \/ \E thr \in {{}, {"learn"}, {"bcast"}} : SendTunnel(c, d, nh, thr)
      PROVE  Fenced'
  BY <1>2, FencedSendTunnel, FencedSendSegment
<1>3. ASSUME NEW m \in net, RecvLinkFrame(m) \/ Lose(m) \/ \E thr \in {{}, {"learn"}, {"bcast"}} : RecvL2Frame(m, thr)
      PROVE  Fenced'
  BY <1>3, FencedRecvLinkFrame, FencedRecvL2Frame, FencedLose
<1>4. ASSUME NEW g \in Gw, (\E i \in Slot : Age(g, i)) \/ \E c \in Client : Move(c, g)
      PROVE  Fenced'
  BY <1>4, FencedAge, FencedMove
<1>5. ASSUME \/ \E c \in Client, q \in Addr : AskLocal(c, q) \/ AskRoute(c, q) \/ AskMesh(c, q) \/ AskNone(c, q)
             \/ \E m \in net : RecvR(m) \/ RecvLinkQ(m) \/ RecvL2Q(m) \/ RecvRoute(m) \/ RecvAnn(m)
             \/ \E g \in Gw : Announce(g) \/ (\E p \in pend[g] : PendExpire(g, p)) \/ \E i \in DOMAIN routes[g] : RouteExpire(g, i)
      PROVE  Fenced'
  BY <1>5, Talk, FencedStays
<1> QED BY <1>1, <1>2, <1>3, <1>4, <1>5 DEF Next, Recv

\* In any network of gateways, with any links and segments, whatever they learned and whoever
\* announced what: as long as nobody moves, a frame from or to a class A or B address reaches
\* no client behind a gateway without --private, and comes from none.
THEOREM Private == Spec => []Confined
<1>1. Init => Inv /\ Fenced
  BY InvInit, FencedInit
<1>2. Inv /\ Fenced /\ [Next]_vars => Inv' /\ Fenced'
  BY InvStep, FencedStep
<1> QED BY <1>1, <1>2, FencedGives, PTL DEF Spec

-----------------------------------------------------------------------------
(* Networks without cycles: what lies beyond a cable.                          *)

\* S can only be left between x and y.
Shut(k, S, x, y) == \A u \in S, v \in Node : Adjacent(k, u, v) /\ {u, v} # {x, y} => v \in S

\* It is the smallest set that can only be left there.
LEMMA SideLeast ==
    ASSUME NEW k, NEW x \in Node, NEW y \in Node
    PROVE  /\ y \in Side(k, x, y) /\ Side(k, x, y) \in SUBSET Node /\ Shut(k, Side(k, x, y), x, y)
           /\ \A S \in SUBSET Node : y \in S /\ Shut(k, S, x, y) => Side(k, x, y) \subseteq S
<1> DEFINE B == Side(k, x, y)
<1>1. B = {z \in Node : \A S \in SUBSET Node : y \in S /\ Shut(k, S, x, y) => z \in S}
  BY DEF Side, Shut
<1> HIDE DEF B
<1>2. y \in B /\ B \in SUBSET Node /\ \A S \in SUBSET Node : y \in S /\ Shut(k, S, x, y) => B \subseteq S
  BY <1>1
<1>3. Shut(k, B, x, y)
  <2> SUFFICES ASSUME NEW u \in B, NEW v \in Node, Adjacent(k, u, v), {u, v} # {x, y},
                      NEW S \in SUBSET Node, y \in S, Shut(k, S, x, y)
               PROVE  v \in S
    BY <1>1 DEF Shut
  <2>1. u \in S
    BY <1>1
  <2> QED BY <2>1 DEF Shut
<1> QED BY <1>2, <1>3 DEF B

\* Cables carry both ways.
LEMMA BothWays ==
    ASSUME NEW k \in Confs, NEW x \in Node, NEW y \in Node, Adjacent(k, x, y)
    PROVE  Adjacent(k, y, x)
<1>1. \A e \in k.link : <<e[2], e[1]>> \in k.link
  BY ConfAssumption
<1>2. <<x, y>> \in k.link => <<y, x>> \in k.link
  <2>1. <<x, y>>[1] = x /\ <<x, y>>[2] = y
    OBVIOUS
  <2> QED BY <1>1, <2>1
<1> QED BY <1>2 DEF Adjacent

\* What lies beyond a node behind y lies beyond y, and not at y.
LEMMA SideNested ==
    ASSUME NEW k \in Confs, WithoutCycles(k), NEW x \in Node, NEW y \in Node, NEW z \in Node,
           Adjacent(k, x, y), Adjacent(k, y, z), z # x
    PROVE  Side(k, y, z) \subseteq Side(k, x, y) /\ y \notin Side(k, y, z) /\ z \in Side(k, x, y)
<1> DEFINE T == Side(k, x, y)
           U == Side(k, y, z)
<1>1. y \in T /\ T \in SUBSET Node /\ Shut(k, T, x, y)
  BY SideLeast
<1>2. z \in U /\ U \in SUBSET Node /\ Shut(k, U, y, z) /\ \A S \in SUBSET Node : z \in S /\ Shut(k, S, y, z) => U \subseteq S
  BY SideLeast
<1>3. x \notin T /\ y \notin U
  BY DEF WithoutCycles
<1> HIDE DEF T, U
<1>4. z \in T
  <2>1. {y, z} # {x, y}
    BY <1>1, <1>2, <1>3
  <2> QED BY <1>1, <2>1 DEF Shut
<1>5. Shut(k, U \cap T, y, z)
  <2> SUFFICES ASSUME NEW u \in U \cap T, NEW v \in Node, Adjacent(k, u, v), {u, v} # {y, z}
               PROVE  v \in U \cap T
    BY DEF Shut
  <2>1. v \in U
    BY <1>2 DEF Shut
  <2>2. u # y /\ v # y
    BY <1>3, <2>1
  <2>3. {u, v} # {x, y}
    BY <2>2
  <2> QED BY <1>1, <2>1, <2>3 DEF Shut
<1>6. U \cap T \in SUBSET Node /\ z \in U \cap T
  BY <1>1, <1>2, <1>4
<1>7. U \subseteq U \cap T
  BY <1>2, <1>5, <1>6
<1> QED BY <1>3, <1>4, <1>7 DEF T, U

\* Different cables of a node lead to different parts.
LEMMA SidesApart ==
    ASSUME NEW k \in Confs, WithoutCycles(k), NEW y \in Node, NEW v \in Node, NEW w \in Node,
           Adjacent(k, y, v), Adjacent(k, y, w), v # w
    PROVE  Side(k, y, v) \cap Side(k, y, w) = {}
<1> DEFINE U == Side(k, y, v)
           W == Side(k, y, w)
<1>1. v \in U /\ U \in SUBSET Node /\ Shut(k, U, y, v) /\ \A S \in SUBSET Node : v \in S /\ Shut(k, S, y, v) => U \subseteq S
  BY SideLeast
<1>2. w \in W /\ W \in SUBSET Node /\ Shut(k, W, y, w)
  BY SideLeast
<1>3. y \notin U /\ y \notin W /\ Adjacent(k, v, y)
  BY BothWays DEF WithoutCycles
<1> HIDE DEF U, W
<1>4. v \notin W
  <2> SUFFICES ASSUME v \in W PROVE FALSE
    OBVIOUS
  <2>1. {v, y} # {y, w}
    BY <1>1, <1>3
  <2>2. y \in W
    BY <1>2, <1>3, <2>1 DEF Shut
  <2> QED BY <1>3, <2>2
<1>5. Shut(k, U \ W, y, v)
  <2> SUFFICES ASSUME NEW u \in U \ W, NEW z \in Node, Adjacent(k, u, z), {u, z} # {y, v}
               PROVE  z \in U \ W
    BY DEF Shut
  <2>1. z \in U
    BY <1>1 DEF Shut
  <2>2. ASSUME z \in W PROVE FALSE
    <3>1. Adjacent(k, z, u) /\ u \in Node
      BY <1>1, BothWays
    <3>2. {z, u} # {y, w}
      BY <1>3, <2>1
    <3> QED BY <1>2, <2>2, <3>1, <3>2 DEF Shut
  <2> QED BY <2>1, <2>2
<1>6. U \ W \in SUBSET Node /\ v \in U \ W
  BY <1>1, <1>4
<1>7. U \subseteq U \ W
  BY <1>1, <1>5, <1>6
<1> QED BY <1>7 DEF U, W

-----------------------------------------------------------------------------
(* The parts of the network that copies of a frame are on their way to.        *)

Source(m) == IF m.via = "l2" THEN Segment ELSE m.from
Ahead(m) == Side(conf, Source(m), m.to)

\* Copies go to the segment's other gateways, and over links.
LEMMA CopyShape ==
    ASSUME NEW g, NEW n, NEW out
    PROVE  /\ \A m \in Copies(g, n, out) : /\ m.from = g
                                           /\ \/ m.via = "l2" /\ out.l2 /\ m.to \in conf.l2 \ {g}
                                              \/ m.via = "link" /\ m.to \in out.links
           /\ \A m, x \in Copies(g, n, out) : m.to = x.to /\ m.via = x.via => m = x
<1> DEFINE b == [type |-> "frame", id |-> n]
           copy(h, w) == [to |-> h, from |-> g, via |-> w, body |-> b]
<1>1. \A h, w : copy(h, w).to = h /\ copy(h, w).from = g /\ copy(h, w).via = w
  OBVIOUS
<1>2. Copies(g, n, out) = (IF out.l2 THEN {copy(h, "l2") : h \in conf.l2 \ {g}} ELSE {}) \cup {copy(h, "link") : h \in out.links}
  BY DEF Copies, OnSegment, OnLinks
<1> HIDE DEF copy
<1>3. \A m \in Copies(g, n, out) : \/ out.l2 /\ \E h \in conf.l2 \ {g} : m = copy(h, "l2")
                                   \/ \E h \in out.links : m = copy(h, "link")
  BY <1>2
<1>4. \A m \in Copies(g, n, out) : m = copy(m.to, m.via)
  BY <1>1, <1>3
<1> QED BY <1>1, <1>3, <1>4

\* What the segment sends.
LEMMA SegmentShape ==
    ASSUME NEW g, NEW b
    PROVE  /\ \A m \in OnSegment(g, b) : m.via = "l2" /\ m.from = g /\ m.to \in conf.l2 \ {g} /\ m.body = b
           /\ \A m, x \in OnSegment(g, b) : m.to = x.to => m = x
<1> DEFINE copy(h) == [to |-> h, from |-> g, via |-> "l2", body |-> b]
<1>1. \A h : copy(h).to = h /\ copy(h).from = g /\ copy(h).via = "l2" /\ copy(h).body = b
  OBVIOUS
<1>2. OnSegment(g, b) = {copy(h) : h \in conf.l2 \ {g}}
  BY DEF OnSegment
<1> HIDE DEF copy
<1> QED BY <1>1, <1>2

\* What a gateway may send on: over its links, and to the segment it is on.
Possible(g, out) == (\A h \in out.links : h \in Gw /\ <<g, h>> \in conf.link) /\ (out.l2 => g \in conf.l2)

LEMMA Nodes == Segment \in Node /\ Segment \notin Gw /\ Gw \subseteq Node
BY NameAssumption DEF Node

\* The copies a gateway sends have disjoint parts ahead, without the gateway and without the
\* segment, if it got one.
LEMMA FanOut ==
    ASSUME conf \in Confs, WithoutCycles(conf), NEW g \in Gw, NEW n, NEW out, Possible(g, out)
    PROVE  /\ \A m \in Copies(g, n, out) : /\ Adjacent(conf, Source(m), m.to) /\ g \notin Ahead(m)
                                           /\ out.l2 => Segment \notin Ahead(m)
           /\ \A m, x \in Copies(g, n, out) : m # x => Ahead(m) \cap Ahead(x) = {}
<1> DEFINE C == Copies(g, n, out)
<1>0. conf.l2 \subseteq Gw
  BY ConfTypes
<1>1. \A m \in C : m.via = "link" => m.to \in Gw /\ Source(m) = g /\ Adjacent(conf, g, m.to)
  BY CopyShape DEF Source, Possible, Adjacent
<1>2. \A m \in C : m.via # "link" => m.to \in Gw /\ m.to # g /\ Source(m) = Segment /\ Adjacent(conf, Segment, m.to)
                                     /\ out.l2 /\ Adjacent(conf, g, Segment)
  BY <1>0, CopyShape DEF Source, Possible, Adjacent
<1>3. \A m, x \in C : m.to = x.to /\ (m.via = "link" <=> x.via = "link") => m = x
  BY CopyShape
<1> HIDE DEF C
<1>4. out.l2 => Adjacent(conf, g, Segment)
  BY DEF Possible, Adjacent
<1>5. \A m \in C : m.via = "link" => g \notin Ahead(m) /\ (out.l2 => Ahead(m) \cap Side(conf, g, Segment) = {})
  <2> SUFFICES ASSUME NEW m \in C, m.via = "link"
               PROVE  g \notin Ahead(m) /\ (out.l2 => Ahead(m) \cap Side(conf, g, Segment) = {})
    OBVIOUS
  <2>1. m.to \in Node /\ g \in Node /\ Segment \in Node /\ m.to # Segment
    BY <1>1, Nodes
  <2>2. Ahead(m) = Side(conf, g, m.to)
    BY <1>1 DEF Ahead
  <2>3. g \notin Ahead(m)
    BY <1>1, <2>1, <2>2 DEF WithoutCycles
  <2> QED BY <1>1, <1>4, <2>1, <2>2, <2>3, SidesApart
<1>6. \A m \in C : m.via # "link" => /\ Ahead(m) \subseteq Side(conf, g, Segment) /\ Segment \notin Ahead(m) /\ g \notin Ahead(m)
  <2> SUFFICES ASSUME NEW m \in C, m.via # "link"
               PROVE  Ahead(m) \subseteq Side(conf, g, Segment) /\ Segment \notin Ahead(m) /\ g \notin Ahead(m)
    OBVIOUS
  <2>1. m.to \in Node /\ g \in Node /\ Segment \in Node
    BY <1>2, Nodes
  <2>2. Ahead(m) = Side(conf, Segment, m.to)
    BY <1>2 DEF Ahead
  <2>3. Ahead(m) \subseteq Side(conf, g, Segment) /\ Segment \notin Ahead(m)
    BY <1>2, <2>1, <2>2, SideNested
  <2>4. g \notin Side(conf, g, Segment)
    BY <1>2, <2>1 DEF WithoutCycles
  <2> QED BY <2>3, <2>4
<1>7. out.l2 => Segment \in Side(conf, g, Segment)
  BY Nodes, SideLeast
<1>8. \A m \in C : Adjacent(conf, Source(m), m.to) /\ g \notin Ahead(m) /\ (out.l2 => Segment \notin Ahead(m))
  BY <1>1, <1>2, <1>5, <1>6, <1>7
<1>9. ASSUME NEW m \in C, NEW x \in C, m # x PROVE Ahead(m) \cap Ahead(x) = {}
  <2>0. g \in Node /\ Segment \in Node /\ m.to \in Node /\ x.to \in Node
    BY <1>1, <1>2, Nodes
  <2>1. CASE m.via = "link" /\ x.via = "link"
    <3>1. Ahead(m) = Side(conf, g, m.to) /\ Ahead(x) = Side(conf, g, x.to)
      BY <1>1, <2>1 DEF Ahead
    <3>2. m.to # x.to
      BY <1>3, <1>9, <2>1
    <3> QED BY <1>1, <2>0, <2>1, <3>1, <3>2, SidesApart
  <2>2. CASE m.via # "link" /\ x.via # "link"
    <3>1. Ahead(m) = Side(conf, Segment, m.to) /\ Ahead(x) = Side(conf, Segment, x.to)
      BY <1>2, <2>2 DEF Ahead
    <3>2. m.to # x.to
      BY <1>3, <1>9, <2>2
    <3> QED BY <1>2, <2>0, <2>2, <3>1, <3>2, SidesApart
  <2>3. CASE m.via = "link" /\ x.via # "link"
    BY <1>2, <1>5, <1>6, <2>3
  <2>4. CASE m.via # "link" /\ x.via = "link"
    BY <1>2, <1>5, <1>6, <2>4
  <2> QED BY <2>1, <2>2, <2>3, <2>4
<1> QED BY <1>8, <1>9 DEF C

\* What a gateway sends on of what came to it leads on, and not back.
LEMMA FanOn ==
    ASSUME conf \in Confs, WithoutCycles(conf), NEW g \in Gw, NEW n, NEW out, Possible(g, out),
           NEW s \in Node, Adjacent(conf, s, g), s \notin out.links, out.l2 => s # Segment
    PROVE  /\ g \in Side(conf, s, g) /\ (out.l2 => Segment \in Side(conf, s, g))
           /\ \A m \in Copies(g, n, out) : Ahead(m) \subseteq Side(conf, s, g)
<1>0. conf.l2 \subseteq Gw /\ Segment \in Node /\ g \in Node
  BY ConfTypes, Nodes
<1>1. g \in Side(conf, s, g)
  BY <1>0, SideLeast
<1>2. out.l2 => Adjacent(conf, g, Segment)
  BY DEF Possible, Adjacent
<1>3. out.l2 => Side(conf, g, Segment) \subseteq Side(conf, s, g) /\ Segment \in Side(conf, s, g)
  BY <1>0, <1>2, SideNested
<1>4. ASSUME NEW m \in Copies(g, n, out) PROVE Ahead(m) \subseteq Side(conf, s, g)
  <2>1. CASE m.via = "link"
    <3>1. m.to \in Node /\ m.to # s /\ Source(m) = g /\ Adjacent(conf, g, m.to)
      BY <2>1, <1>4, CopyShape, Nodes DEF Source, Possible, Adjacent
    <3>2. Ahead(m) = Side(conf, g, m.to)
      BY <3>1 DEF Ahead
    <3> QED BY <1>0, <3>1, <3>2, SideNested
  <2>2. CASE m.via # "link"
    <3>1. m.to \in Node /\ m.to # g /\ Source(m) = Segment /\ Adjacent(conf, Segment, m.to) /\ out.l2
      BY <2>2, <1>0, <1>4, CopyShape, Nodes DEF Source, Adjacent
    <3>2. Ahead(m) = Side(conf, Segment, m.to)
      BY <3>1 DEF Ahead
    <3>3. Side(conf, Segment, m.to) \subseteq Side(conf, g, Segment)
      BY <1>0, <1>2, <3>1, SideNested
    <3> QED BY <1>3, <3>1, <3>2, <3>3
  <2> QED BY <2>1, <2>2
<1> QED BY <1>1, <1>3, <1>4

\* What a host of the segment sends.
LEMMA FanSegment ==
    ASSUME conf \in Confs, WithoutCycles(conf), NEW b
    PROVE  /\ \A m \in OnSegment(Segment, b) : Adjacent(conf, Source(m), m.to) /\ Segment \notin Ahead(m)
           /\ \A m, x \in OnSegment(Segment, b) : m # x => Ahead(m) \cap Ahead(x) = {}
<1>1. \A m \in OnSegment(Segment, b) : m.to \in Node /\ Source(m) = Segment /\ Adjacent(conf, Segment, m.to) /\ Segment \in Node
  BY ConfTypes, SegmentShape, Nodes DEF Source, Adjacent
<1>2. \A m \in OnSegment(Segment, b) : Ahead(m) = Side(conf, Segment, m.to)
  BY <1>1 DEF Ahead
<1>3. \A m, x \in OnSegment(Segment, b) : m # x => m.to # x.to
  BY SegmentShape
<1>4. \A m \in OnSegment(Segment, b) : Segment \notin Ahead(m)
  BY <1>1, <1>2 DEF WithoutCycles
<1>5. ASSUME NEW m \in OnSegment(Segment, b), NEW x \in OnSegment(Segment, b), m # x
      PROVE  Ahead(m) \cap Ahead(x) = {}
  <2>1. Side(conf, Segment, m.to) \cap Side(conf, Segment, x.to) = {}
    BY <1>1, <1>3, <1>5, SidesApart
  <2> QED BY <1>2, <1>5, <2>1
<1> QED BY <1>1, <1>4, <1>5

-----------------------------------------------------------------------------
(* Where the endpoints of a table are.                                         *)

\* An endpoint a gateway has is an earlier one of its client, or that of a client of it.
PresentIn(P, g) ==
    \A i \in Slot : P[i].ep # NoEp =>
        P[i].ep[2] <= inc[P[i].ep[1]] /\ (P[i].ep[2] = inc[P[i].ep[1]] => at[P[i].ep[1]] = g)

\* Without a segment every peer has an endpoint; a client that has not moved is never old.
FirmIn(P, g) ==
    \A i \in Slot : P[i].id # NoOne =>
        (conf.l2 = {} => P[i].ep # NoEp) /\ (inc[P[i].id] = 1 /\ at[P[i].id] = g => ~P[i].old)

\* Learning writes the key's slot, or one that may be used again.
LEMMA LearnWrites ==
    ASSUME NEW P, NEW c \in Client, NEW a, NEW e
    PROVE  \/ peer_learn_auth(P, c, a, e) = P
           \/ \E i \in Slot : /\ peer_learn_auth(P, c, a, e) = [P EXCEPT ![i] = Entry(c, a, e)]
                              /\ P[i].id \in {c, NoOne} \/ P[i].old
<1>1. CASE known(P, c)
  <2> DEFINE i == First(peer_find(P, c))
  <2>1. peer_find(P, c) \in SUBSET Nat /\ peer_find(P, c) # {}
    BY <1>1, Sizes DEF peer_find, known
  <2>2. i \in Slot /\ P[i].id = c
    BY <2>1, FirstIsIn DEF peer_find
  <2>3. peer_learn_auth(P, c, a, e) = [P EXCEPT ![i] = Entry(c, a, e)]
    BY <1>1 DEF peer_learn_auth
  <2> HIDE DEF i
  <2> QED BY <2>2, <2>3
<1>2. CASE ~known(P, c) /\ reusable(P) # {}
  <2> DEFINE i == First(reusable(P))
  <2>1. reusable(P) \in SUBSET Nat
    BY Sizes DEF reusable
  <2>2. i \in Slot /\ (P[i].id = NoOne \/ P[i].old)
    BY <1>2, <2>1, FirstIsIn DEF reusable
  <2>3. peer_learn_auth(P, c, a, e) = [P EXCEPT ![i] = Entry(c, a, e)]
    BY <1>2 DEF peer_learn_auth
  <2> HIDE DEF i
  <2> QED BY <2>2, <2>3
<1>3. CASE ~known(P, c) /\ reusable(P) = {}
  BY <1>3 DEF peer_learn_auth
<1> QED BY <1>1, <1>2, <1>3

\* What learning keeps of that: the endpoint learned is where its client is, or none on a
\* segment; and who has not moved stays known.
LEMMA LearnedStays ==
    ASSUME NEW g \in Gw, Table(peers[g]), PresentIn(peers[g], g), FirmIn(peers[g], g),
           NEW f \in Frame \cup {NoFrame}, NEW e,
           e = NoEp => conf.l2 # {}, e # NoEp => e[2] = inc[e[1]] /\ at[e[1]] = g /\ inc[e[1]] \in Nat, NEW t
    PROVE  /\ PresentIn(Learned(g, f, e, t), g) /\ FirmIn(Learned(g, f, e, t), g)
           /\ \A d \in Client : known(peers[g], d) /\ inc[d] = 1 /\ at[d] = g => known(Learned(g, f, e, t), d)
<1>1. f.nh # "dgram" => f.from \in Client
  BY DEF Frame, NoFrame
<1> DEFINE P == peers[g]
           L == Learned(g, f, e, t)
           r == Entry(f.from, f.src, e)
<1>2. \/ L = P
      \/ \E i \in Slot : L = [P EXCEPT ![i] = r] /\ (P[i].id \in {f.from, NoOne} \/ P[i].old) /\ f.from \in Client
  <2>1. CASE L # P
    <3>1. L = peer_learn_auth(P, f.from, f.src, e) /\ f.nh # "dgram"
      BY <2>1 DEF Learned
    <3>2. f.from \in Client
      BY <1>1, <3>1
    <3> HIDE DEF P, L
    <3> QED BY <2>1, <3>1, <3>2, LearnWrites
  <2> QED BY <2>1
<1>3. r.id = f.from /\ r.ep = e /\ r.old = FALSE
  BY DEF Entry
<1>4. P \in [Slot -> PeerEntry]
  BY DEF Table
<1> HIDE DEF L, r, P
<1>5. ASSUME NEW i \in Slot, L = [P EXCEPT ![i] = r], P[i].id \in {f.from, NoOne} \/ P[i].old, f.from \in Client
      PROVE  PresentIn(L, g) /\ FirmIn(L, g) /\ \A d \in Client : known(P, d) /\ inc[d] = 1 /\ at[d] = g => known(L, d)
  <2>1. L[i] = r /\ \A j \in Slot : j # i => L[j] = P[j]
    BY <1>4, <1>5
  <2>2. PresentIn(L, g)
    BY <1>3, <2>1 DEF PresentIn, P
  <2>3. FirmIn(L, g)
    BY <1>3, <2>1 DEF FirmIn, P
  <2>4. ASSUME NEW d \in Client, known(P, d), inc[d] = 1, at[d] = g PROVE known(L, d)
    <3>1. PICK j \in Slot : P[j].id = d
      BY <2>4 DEF known, peer_find
    <3>2. ~P[j].old
      BY <2>4, <3>1, NameAssumption DEF FirmIn, P
    <3>3. L[j].id = d
      <4>1. CASE j = i
        BY <4>1, <1>3, <1>5, <2>1, <3>1, <3>2, NameAssumption
      <4>2. CASE j # i
        BY <4>2, <2>1, <3>1
      <4> QED BY <4>1, <4>2
    <3> QED BY <3>3 DEF known, peer_find
  <2> QED BY <2>2, <2>3, <2>4
<1> DEFINE Goal == PresentIn(L, g) /\ FirmIn(L, g) /\ \A d \in Client : known(P, d) /\ inc[d] = 1 /\ at[d] = g => known(L, d)
<1>6. ASSUME L = P PROVE Goal
  BY <1>6 DEF P
<1>7. Goal
  <2>1. ASSUME NEW i \in Slot, L = [P EXCEPT ![i] = r], P[i].id \in {f.from, NoOne} \/ P[i].old, f.from \in Client PROVE Goal
    BY <2>1, <1>5
  <2> HIDE DEF Goal
  <2> QED BY <1>2, <1>6, <2>1
<1> QED BY <1>7 DEF L, P

\* A present endpoint is in the table of its client's gateway only.
LEMMA Mine ==
    ASSUME ClientsOK, NEW P, NEW g, PresentIn(P, g), NEW c \in Client, NEW i \in Slot, P[i].ep = EpOf(c)
    PROVE  at[c] = g
<1>1. EpOf(c)[1] = c /\ EpOf(c)[2] = inc[c] /\ EpOf(c) # NoEp
  BY EpOfType, EpTypes DEF EpOf
<1> QED BY <1>1 DEF PresentIn

\* Where there is no segment, who has not moved is known to its own gateway only, and there
\* with its endpoint.
LEMMA KnownHere ==
    ASSUME ClientsOK, NEW P, Table(P), NEW g, PresentIn(P, g), FirmIn(P, g), conf.l2 = {},
           NEW d \in Client, inc[d] = 1, known(P, d)
    PROVE  at[d] = g /\ EpIn(P, peer_find(P, d)) = EpOf(d) /\ EpOf(d) # NoEp
<1> DEFINE i == First(peer_find(P, d))
<1>1. peer_find(P, d) \in SUBSET Nat /\ peer_find(P, d) # {}
  BY Sizes DEF peer_find, known
<1>2. i \in Slot /\ P[i].id = d
  BY <1>1, FirstIsIn DEF peer_find
<1>3. EpIn(P, peer_find(P, d)) = P[i].ep
  BY DEF EpIn
<1> HIDE DEF i
<1>4. P[i].ep # NoEp /\ P[i].id # NoOne
  BY <1>2, NameAssumption DEF FirmIn
<1> DEFINE e == P[i].ep
<1>5. e \in Endpoint /\ e[1] = d
  <2>1. P[i] \in PeerEntry
    BY <1>2 DEF Table
  <2> QED BY <1>2, <1>4, <2>1 DEF Table, PeerEntry, used
<1>6. e[2] \in 1 .. MaxMoves + 1 /\ e = <<d, e[2]>>
  BY <1>5 DEF Endpoint
<1>7. e[2] <= inc[e[1]] /\ (e[2] = inc[e[1]] => at[e[1]] = g)
  BY <1>2, <1>4 DEF PresentIn
<1> HIDE DEF e
<1>8. e[2] = 1
  BY <1>5, <1>6, <1>7, Sizes
<1>9. e = EpOf(d) /\ at[d] = g
  BY <1>5, <1>6, <1>7, <1>8 DEF EpOf
<1> QED BY <1>3, <1>4, <1>9 DEF e

\* There, who has an address for itself, and has not moved, is who a lookup for it finds.
LEMMA AddressHere ==
    ASSUME ClientsOK, NEW P, Table(P), NEW g, PresentIn(P, g), FirmIn(P, g), conf.l2 = {},
           NEW d \in Client, inc[d] = 1, NEW f, f.to = d, Own(d, f.dst), peer_for(P, f) # {}
    PROVE  known(P, d) /\ at[d] = g /\ EpFor(P, f) = EpOf(d) /\ EpFor(P, f) # NoEp
<1>1. ASSUME NEW i \in peer_find_addr(P, f.dst) PROVE known(P, d)
  <2>1. i \in used(P) /\ P[i].addr = f.dst
    BY <1>1 DEF peer_find_addr
  <2>2. P[i].ep # NoEp
    BY <2>1 DEF FirmIn, used
  <2>3. P[i].ep \in Endpoint /\ P[i].ep[1] = P[i].id /\ conf.addr[P[i].ep] = f.dst
    BY <2>1, <2>2, EntryOwn DEF Announces
  <2>4. i \in Slot /\ P[i].id = d
    BY <2>1, <2>3 DEF Own, used
  <2> QED BY <2>4 DEF known, peer_find
<1>2. known(P, d)
  BY <1>1 DEF peer_for
<1>3. EpFor(P, f) = EpIn(P, peer_find(P, d))
  BY <1>2 DEF EpFor, peer_for
<1> QED BY <1>2, <1>3, KnownHere

-----------------------------------------------------------------------------
(* Where routes lead, and what the datagrams in flight have come along.        *)

\* The route to a client that has not moved leads to its gateway.
MapIn(s, g) ==
    \A i \in DOMAIN s : Adjacent(conf, g, s[i].li) /\ (inc[s[i].ep[1]] = 1 => at[s[i].ep[1]] = s[i].li)

Cabled(m) ==
    /\ m.body.type \in {"frame", "ROUTE"} => Adjacent(conf, Source(m), m.to)
    /\ m.body.type = "ROUTE" => m.via = "link" /\ (inc[m.body.ep[1]] = 1 => at[m.body.ep[1]] = m.from)

Topo ==
    /\ \A g \in Gw : PresentIn(peers[g], g) /\ FirmIn(peers[g], g) /\ MapIn(routes[g], g)
    /\ \A m \in net : Cabled(m)

LEMMA NextHop ==
    ASSUME NEW g \in Gw, RouteTable(routes[g]), MapIn(routes[g], g), NEW q, route_find(g, q) # {}
    PROVE  /\ RouteTo(g, q).li \in Gw /\ <<g, RouteTo(g, q).li>> \in conf.link
           /\ \A d \in Client : Own(d, q) /\ inc[d] = 1 => at[d] = RouteTo(g, q).li
<1> DEFINE i == First(route_find(g, q))
<1>1. route_find(g, q) \in SUBSET Nat
  BY DEF route_find, RouteTable
<1>2. i \in DOMAIN routes[g] /\ routes[g][i].addr = q
  BY <1>1, FirstIsIn DEF route_find
<1>3. RouteTo(g, q) = routes[g][i]
  BY DEF RouteTo
<1> HIDE DEF i
<1>4. RouteTo(g, q) \in Route /\ RouteTo(g, q).li \in Gw /\ Announces(RouteTo(g, q).ep, q)
  BY RouteOwn DEF Route
<1>5. \A d \in Client : Own(d, q) => RouteTo(g, q).ep[1] = d
  BY <1>4 DEF Own, Announces, Route
<1>6. Adjacent(conf, g, RouteTo(g, q).li) /\ \A d \in Client : Own(d, q) /\ inc[d] = 1 => at[d] = RouteTo(g, q).li
  BY <1>2, <1>3, <1>5 DEF MapIn
<1> QED BY <1>4, <1>6, Nodes DEF Adjacent

LEMMA OutParts == \A eps, l2, links : Out(eps, l2, links).l2 = l2 /\ Out(eps, l2, links).links = links
BY DEF Out

\* A gateway sends on over its cables, and not back.
LEMMA OutPossible ==
    ASSUME NEW g \in Gw, RouteTable(routes[g]), MapIn(routes[g], g), NEW f \in Frame \cup {NoFrame}, NEW P, NEW x
    PROVE  /\ Possible(g, udp_route(g, P, f, x)) /\ Possible(g, gw_fed_data(g, x, f)) /\ Possible(g, l2_route(P, g, f))
           /\ Possible(g, Drop) /\ x \notin gw_fed_data(g, x, f).links /\ l2_route(P, g, f).l2 = FALSE
<1> DEFINE On(out) == Possible(g, out)
<1>2. route_find(g, f.dst) # {} => RouteTo(g, f.dst).li \in Gw /\ <<g, RouteTo(g, f.dst).li>> \in conf.link
  BY NextHop
<1>3. \A eps, l2, links : (links \subseteq Links(g) /\ (l2 => OnL2(g))) => On(Out(eps, l2, links))
  BY OutParts DEF Possible, Links, OnL2
<1>4. route_find(g, f.dst) # {} => {RouteTo(g, f.dst).li} \subseteq Links(g)
  BY <1>2 DEF Links
<1>5. On(Drop) /\ Drop.links = {} /\ Drop.l2 = FALSE
  BY <1>3, OutParts DEF Drop
<1> HIDE DEF On
<1>6. On(udp_route(g, P, f, x))
  BY <1>3, <1>4, <1>5 DEF udp_route
<1>7. On(gw_fed_data(g, x, f))
  BY <1>3, <1>4, <1>5 DEF gw_fed_data
<1>8. On(l2_route(P, g, f))
  BY <1>3, <1>5 DEF l2_route
<1>9. x \notin gw_fed_data(g, x, f).links
  <2> DEFINE Back(out) == x \in out.links
  <2>1. \A eps, l2, links : x \notin links => ~Back(Out(eps, l2, links))
    BY OutParts
  <2>2. ~Back(Drop)
    BY <1>5
  <2>3. x \notin {} /\ x \notin Links(g) \ {x} /\ (RouteTo(g, f.dst).li # x => x \notin {RouteTo(g, f.dst).li})
    OBVIOUS
  <2> HIDE DEF Back
  <2>4. ~Back(gw_fed_data(g, x, f))
    BY <2>1, <2>2, <2>3 DEF gw_fed_data
  <2> QED BY <2>4 DEF Back
<1>10. l2_route(P, g, f).l2 = FALSE
  BY <1>5, OutParts DEF l2_route
<1> QED BY <1>5, <1>6, <1>7, <1>8, <1>9, <1>10 DEF On

LEMMA CopiesCabled ==
    ASSUME conf \in Confs, WithoutCycles(conf), NEW g \in Gw, NEW n, NEW out, Possible(g, out)
    PROVE  \A m \in Copies(g, n, out) : Cabled(m)
BY FanOut, CopiesOf DEF Cabled

\* A gateway announces who is there.
LEMMA AnnouncedCabled ==
    ASSUME ClientsOK, NEW g \in Gw, NEW P, Table(P), PresentIn(P, g)
    PROVE  \A m \in Announced(g, P) \cup Refreshed(g, P) : Cabled(m)
<1>1. ASSUME NEW i \in used(P), P[i].ep # NoEp
      PROVE  \A m \in OnLinks(g, Links(g), [type |-> "ROUTE", addr |-> P[i].addr, ep |-> P[i].ep]) : Cabled(m)
  <2> DEFINE b == [type |-> "ROUTE", addr |-> P[i].addr, ep |-> P[i].ep]
             e == P[i].ep
  <2>1. b.type = "ROUTE" /\ b.ep = e
    OBVIOUS
  <2>2. i \in Slot /\ P[i].id \in Client /\ e \in Endpoint /\ e[1] = P[i].id
    BY <1>1, EntryOwn DEF used
  <2>3. e[2] \in 1 .. MaxMoves + 1 /\ e[2] <= inc[e[1]] /\ (e[2] = inc[e[1]] => at[e[1]] = g)
    BY <1>1, <2>2 DEF Endpoint, PresentIn
  <2> HIDE DEF b, e
  <2>4. inc[e[1]] = 1 => at[e[1]] = g
    BY <2>2, <2>3, Sizes
  <2>5. ASSUME NEW h \in Links(g) PROVE Cabled([to |-> h, from |-> g, via |-> "link", body |-> b])
    BY <2>1, <2>4 DEF Cabled, Source, Links, Adjacent
  <2> QED BY <2>5 DEF OnLinks, b
<1>2. \A m \in Announced(g, P) : Cabled(m)
  BY <1>1 DEF Announced
<1> QED BY <1>2 DEF Refreshed

\* What else is sent is neither a frame nor a route.
LEMMA TalkCabled ==
    ASSUME NEW b, b.type \notin {"frame", "ROUTE"}
    PROVE  \A g, S : \A m \in OnLinks(g, S, b) \cup OnSegment(g, b) : Cabled(m)
<1>1. \A g, S : \A m \in OnLinks(g, S, b) \cup OnSegment(g, b) : m.body = b
  BY DEF OnLinks, OnSegment
<1> QED BY <1>1 DEF Cabled

LEMMA TopoInit == Init => Topo
<1> SUFFICES ASSUME Init PROVE Topo
  OBVIOUS
<1>1. \A g \in Gw, i \in Slot : peers[g][i].id = NoOne /\ peers[g][i].ep = NoEp
  BY DEF Init, Unused
<1>2. \A g \in Gw : routes[g] = <<>>
  BY DEF Init
<1>3. net = {}
  BY DEF Init
<1> QED BY <1>1, <1>2, <1>3 DEF Topo, PresentIn, FirmIn, MapIn

\* Nobody moves: what is kept of every table and datagram.
LEMMA TopoKept ==
    ASSUME UNCHANGED <<conf, at, inc>>, \A g \in Gw : PresentIn(peers'[g], g) /\ FirmIn(peers'[g], g) /\ MapIn(routes'[g], g),
           \A m \in net' : Cabled(m)
    PROVE  Topo'
BY DEF Topo, PresentIn, FirmIn, MapIn, Cabled

LEMMA TopoLearns ==
    ASSUME Inv, Topo, UNCHANGED <<conf, at, inc, routes>>, NEW g \in Gw, NEW P, PresentIn(P, g), FirmIn(P, g),
           peers' = [peers EXCEPT ![g] = P], \A m \in net' : m \in net \/ Cabled(m)
    PROVE  Topo'
<1>1. \A h \in Gw : peers'[h] = IF h = g THEN P ELSE peers[h]
  BY DEF Inv, PeersOK
<1> QED BY <1>1, TopoKept DEF Topo

LEMMA FreshId ==
    ASSUME conf \in Confs, FreeIds # {}
    PROVE  First(FreeIds) \in Ids /\ First(FreeIds) \in FreeIds
<1>1. FreeIds \in SUBSET Nat
  BY ConfTypes, Sizes DEF FreeIds, Ids
<1> QED BY <1>1, FirstIsIn, FreeId

\* What a gateway learns from a tunnel, and where it sends the frame.
LEMMA Tunnelled ==
    ASSUME Inv, Topo, NEW c \in Client, at[c] \in Gw, NEW f \in Frame, NEW t, NEW P, P = Learned(at[c], f, EpOf(c), t),
           f.from = c, f.src = AddrOf(c)
    PROVE  /\ Table(P) /\ PresentIn(P, at[c]) /\ FirmIn(P, at[c])
           /\ \A d \in Client : known(peers[at[c]], d) /\ inc[d] = 1 /\ at[d] = at[c] => known(P, d)
<1> DEFINE g == at[c]
           e == EpOf(c)
<1>1. e \in Endpoint /\ e[1] = c /\ e[2] = inc[c] /\ e # NoEp /\ inc[c] \in Nat /\ conf.addr[e] = f.src
  BY EpOfType, EpTypes, Sizes DEF Inv, EpOf, AddrOf, ClientsOK
<1>2. at[e[1]] = g /\ e[2] = inc[e[1]] /\ inc[e[1]] \in Nat
  BY <1>1
<1>3. g \in Gw /\ Table(peers[g]) /\ PresentIn(peers[g], g) /\ FirmIn(peers[g], g) /\ P = Learned(g, f, e, t)
  BY DEF Inv, PeersOK, Topo
<1> HIDE DEF e, g
<1>4. Table(P)
  BY <1>1, <1>3, LearnedTable
<1>5. PresentIn(P, g) /\ FirmIn(P, g) /\ \A d \in Client : known(peers[g], d) /\ inc[d] = 1 /\ at[d] = g => known(P, d)
  BY <1>1, <1>2, <1>3, LearnedStays
<1> QED BY <1>4, <1>5 DEF g

LEMMA TopoSendTunnel ==
    ASSUME Inv, Topo, WithoutCycles(conf), NEW c \in Client, NEW d \in Client \cup {All}, NEW nh \in conf.kinds, NEW thr,
           SendTunnel(c, d, nh, thr)
    PROVE  Topo'
<1> DEFINE f == FrameOf(c, d, nh)
           n == First(FreeIds)
           g == at[c]
           P == Learned(g, f, EpOf(c), "learn" \in thr)
           out == IF "bcast" \in thr /\ d = All THEN Drop ELSE udp_route(g, P, f, EpOf(c))
<1>1. /\ g \in Gw /\ peers' = [peers EXCEPT ![g] = P] /\ net' = net \cup Copies(g, n, out) \cup Refreshed(g, P)
      /\ UNCHANGED <<conf, at, inc, routes>>
  BY DEF SendTunnel
<1>2. f \in Frame /\ f.from = c /\ f.src = AddrOf(c)
  BY ConfTypes, FrameType DEF Inv
<1>3. Table(P) /\ PresentIn(P, g) /\ FirmIn(P, g)
  <2> HIDE DEF f
  <2> QED BY <1>1, <1>2, Tunnelled
<1> HIDE DEF f, n, g, P
<1>4. Possible(g, out)
  BY <1>1, <1>2, OutPossible DEF Inv, RoutesOK, Topo
<1> HIDE DEF out
<1>5. \A m \in net' : m \in net \/ Cabled(m)
  BY <1>1, <1>3, <1>4, CopiesCabled, AnnouncedCabled DEF Inv
<1> QED BY <1>1, <1>3, <1>5, TopoLearns

LEMMA TopoSendSegment ==
    ASSUME Inv, Topo, WithoutCycles(conf), NEW c \in Client, NEW d \in Client \cup {All}, NEW nh \in conf.kinds, SendSegment(c, d, nh)
    PROVE  Topo'
<1> DEFINE b == [type |-> "frame", id |-> First(FreeIds)]
<1>1. net' = net \cup OnSegment(Segment, b) /\ UNCHANGED <<conf, peers, routes, at, inc>>
  BY DEF SendSegment, gwVars
<1>2. b.type = "frame"
  OBVIOUS
<1> HIDE DEF b
<1>3. \A m \in OnSegment(Segment, b) : Cabled(m)
  BY <1>2, FanSegment, SegmentShape DEF Inv, Cabled
<1> QED BY <1>1, <1>3, TopoKept DEF Topo

LEMMA TopoRecvLinkFrame == ASSUME Inv, Topo, WithoutCycles(conf), NEW m \in net, RecvLinkFrame(m) PROVE Topo'
<1> DEFINE g == m.to
           n == m.body.id
           f == frames[n]
           out == gw_fed_data(g, m.from, f)
<1>1. /\ m.body.type = "frame" /\ net' = (net \ {m}) \cup Copies(g, n, out) /\ UNCHANGED <<conf, peers, routes, at, inc>>
  BY DEF RecvLinkFrame, gwVars, Takes
<1>2. g \in Gw /\ n \in Ids
  BY <1>1, MessageTypes DEF Inv, NetOK, Sound
<1>3. f \in Frame \cup {NoFrame}
  BY <1>2 DEF Inv, FramesOK
<1> HIDE DEF f, n, g
<1>4. Possible(g, out)
  BY <1>2, <1>3, OutPossible DEF Inv, RoutesOK, Topo
<1> HIDE DEF out
<1>5. \A x \in net' : x \in net \/ Cabled(x)
  BY <1>1, <1>2, <1>4, CopiesCabled DEF Inv
<1> QED BY <1>1, <1>5, TopoKept DEF Topo

\* What a gateway of the segment learns from it.
LEMMA Heard ==
    ASSUME Inv, Topo, NEW g \in Gw, g \in conf.l2, NEW f \in Frame \cup {NoFrame}, NEW t, NEW P,
           P = Learned(g, f, NoEp, t) \/ P = peers[g]
    PROVE  /\ Table(P) /\ PresentIn(P, g) /\ FirmIn(P, g)
           /\ \A d \in Client : known(peers[g], d) /\ inc[d] = 1 /\ at[d] = g => known(P, d)
<1>1. Table(peers[g]) /\ PresentIn(peers[g], g) /\ FirmIn(peers[g], g) /\ conf.l2 # {}
  BY DEF Inv, PeersOK, Topo
<1>2. CASE P = peers[g]
  BY <1>1, <1>2
<1>3. CASE P = Learned(g, f, NoEp, t)
  BY <1>1, <1>3, LearnedTable, LearnedStays
<1> QED BY <1>2, <1>3

LEMMA OnTheSegment == ASSUME Inv, Topo, NEW m \in net, m.via = "l2", m.body.type = "frame" PROVE m.to \in conf.l2
<1>1. Adjacent(conf, Segment, m.to) /\ m.to \in Gw
  BY MessageTypes DEF Topo, Cabled, Source, Inv, NetOK, Sound
<1>2. \A e \in conf.link : e \in Gw \X Gw
  <2>1. conf \in Conf
    BY ConfAssumption DEF Inv
  <2> QED BY <2>1 DEF Conf
<1>3. <<Segment, m.to>> \notin conf.link
  BY <1>2, Nodes
<1> QED BY <1>1, <1>3, Nodes DEF Adjacent

LEMMA TopoRecvL2Frame == ASSUME Inv, Topo, WithoutCycles(conf), NEW m \in net, NEW thr, RecvL2Frame(m, thr) PROVE Topo'
<1> DEFINE g == m.to
           n == m.body.id
           f == frames[n]
           pass == class_ok(g, f.src, f.dst)
           P == IF pass THEN Learned(g, f, NoEp, "learn" \in thr) ELSE peers[g]
           out == IF ~pass \/ ("bcast" \in thr /\ Flooded(P, f)) THEN Drop ELSE l2_route(P, g, f)
<1>1. /\ m.via = "l2" /\ m.body.type = "frame" /\ peers' = [peers EXCEPT ![g] = P]
      /\ net' = (net \ {m}) \cup (Copies(g, n, out) \cup Refreshed(g, P)) /\ UNCHANGED <<conf, routes, at, inc>>
  BY DEF RecvL2Frame, Takes
<1>2. g \in Gw /\ n \in Ids /\ g \in conf.l2
  BY <1>1, OnTheSegment, MessageTypes DEF Inv, NetOK, Sound
<1>3. f \in Frame \cup {NoFrame}
  BY <1>2 DEF Inv, FramesOK
<1> HIDE DEF f, n, g, pass
<1>4. Table(P) /\ PresentIn(P, g) /\ FirmIn(P, g)
  BY <1>2, <1>3, Heard
<1> HIDE DEF P
<1>5. Possible(g, out)
  BY <1>2, <1>3, OutPossible DEF Inv, RoutesOK, Topo
<1> HIDE DEF out
<1>6. \A x \in net' : x \in net \/ Cabled(x)
  BY <1>1, <1>2, <1>4, <1>5, CopiesCabled, AnnouncedCabled DEF Inv
<1> QED BY <1>1, <1>2, <1>4, <1>6, TopoLearns

\* Queries, answers and announcements.
LEMMA TopoTalk ==
    ASSUME Inv, Topo,
           \/ \E c \in Client, q \in Addr : AskLocal(c, q) \/ AskRoute(c, q) \/ AskMesh(c, q) \/ AskNone(c, q)
           \/ \E m \in net : RecvR(m) \/ RecvLinkQ(m) \/ RecvL2Q(m) \/ RecvAnn(m) \/ Lose(m)
           \/ \E g \in Gw : Announce(g) \/ (\E p \in pend[g] : PendExpire(g, p))
    PROVE  Topo'
<1>1. UNCHANGED <<conf, at, inc, peers, routes>>
  BY DEF AskLocal, AskRoute, AskMesh, AskNone, RecvR, RecvLinkQ, RecvL2Q, RecvAnn, Lose, Announce, PendExpire, gwVars
<1> DEFINE Said == \A m \in net' : m \in net \/ Cabled(m)
<1>2. ASSUME NEW c \in Client, NEW q \in Addr, AskLocal(c, q) \/ AskRoute(c, q) \/ AskMesh(c, q) \/ AskNone(c, q) PROVE Said
  <2>1. CASE AskMesh(c, q)
    <3> DEFINE b == [type |-> "Q", addr |-> q]
    <3>1. net' \subseteq net \cup (OnLinks(at[c], Links(at[c]), b) \cup OnSegment(at[c], b))
      BY <2>1 DEF AskMesh, gw_mesh_query
    <3>2. b.type \notin {"frame", "ROUTE"}
      OBVIOUS
    <3> HIDE DEF b
    <3> QED BY <3>1, <3>2, TalkCabled
  <2> QED BY <1>2, <2>1 DEF AskLocal, AskRoute, AskNone
<1>3. ASSUME NEW m \in net, RecvR(m) PROVE Said
  <2>1. m.body.type = "R" /\ \E S : net' \subseteq net \cup OnLinks(m.to, S, m.body)
    BY <1>3 DEF RecvR, gw_pend_relay, Takes
  <2>2. m.body.type \notin {"frame", "ROUTE"}
    BY <2>1
  <2> QED BY <2>1, <2>2, TalkCabled
<1>4. ASSUME NEW m \in net, RecvLinkQ(m) PROVE Said
  <2> DEFINE g == m.to
             q == m.body.addr
             b == [type |-> "R", addr |-> q, ep |-> WhereIs(g, q)]
             k == [type |-> "Q", addr |-> q]
  <2>1. net' \subseteq net \cup OnLinks(g, {m.from}, b) \cup OnLinks(g, Links(g) \ {m.from}, k)
    <3>1. \/ Takes(m, OnLinks(g, {m.from}, b))
          \/ link_query(g, m.from, q)
          \/ Takes(m, {})
      BY <1>4 DEF RecvLinkQ
    <3>2. CASE link_query(g, m.from, q)
      BY <3>2 DEF link_query, Takes
    <3> QED BY <3>1, <3>2 DEF Takes
  <2>2. b.type \notin {"frame", "ROUTE"} /\ k.type \notin {"frame", "ROUTE"}
    OBVIOUS
  <2> HIDE DEF b, k
  <2> QED BY <2>1, <2>2, TalkCabled
<1>5. ASSUME NEW m \in net, RecvL2Q(m) PROVE Said
  <2> DEFINE g == m.to
             b == [type |-> "R", addr |-> m.body.addr, ep |-> WhereIs(g, m.body.addr)]
  <2>1. net' \subseteq net \cup OnSegment(g, b)
    BY <1>5 DEF RecvL2Q, Takes
  <2>2. b.type \notin {"frame", "ROUTE"}
    OBVIOUS
  <2> HIDE DEF b
  <2> QED BY <2>1, <2>2, TalkCabled
<1>6. ASSUME NEW m \in net, RecvAnn(m) \/ Lose(m) PROVE Said
  BY <1>6 DEF RecvAnn, Lose, Takes
<1>7. ASSUME NEW g \in Gw, Announce(g) PROVE Said
  <2> DEFINE b == [type |-> "ANN"]
  <2>1. net' \subseteq OnSegment(g, b) \cup Announced(g, peers[g])
    BY <1>7 DEF Announce
  <2>2. b.type \notin {"frame", "ROUTE"}
    OBVIOUS
  <2> HIDE DEF b
  <2> QED BY <2>1, <2>2, TalkCabled, AnnouncedCabled DEF Inv, PeersOK, Topo
<1>8. ASSUME NEW g \in Gw, \E p \in pend[g] : PendExpire(g, p) PROVE Said
  BY <1>8 DEF PendExpire
<1>9. Said
  BY <1>2, <1>3, <1>4, <1>5, <1>6, <1>7, <1>8
<1> QED BY <1>1, <1>9, TopoKept DEF Topo

LEMMA TopoRecvRoute == ASSUME Inv, Topo, NEW m \in net, RecvRoute(m) PROVE Topo'
<1> DEFINE g == m.to
           s == routes[g]
           r == [addr |-> m.body.addr, ep |-> m.body.ep, li |-> m.from]
           t == route_learn(g, r)
<1>1. /\ m.body.type = "ROUTE" /\ net' = net \ {m} /\ routes' = [routes EXCEPT ![g] = t] /\ UNCHANGED <<conf, peers, at, inc>>
  BY DEF RecvRoute, Takes
<1>2. g \in Gw /\ m.from \in Gw /\ r \in Route
  <2>1. m \in Message /\ m.from # Segment /\ Announces(m.body.ep, m.body.addr)
    BY <1>1 DEF Inv, NetOK, Sound
  <2> QED BY <1>1, <2>1, MessageTypes DEF Route
<1>3. Adjacent(conf, m.from, g) /\ (inc[r.ep[1]] = 1 => at[r.ep[1]] = r.li) /\ r.li = m.from
  BY <1>1 DEF Topo, Cabled, Source
<1> HIDE DEF r
<1>4. Adjacent(conf, g, r.li)
  BY <1>2, <1>3, BothWays, Nodes DEF Inv
<1>5. MapIn(s, g) /\ s \in Seq(Route)
  BY <1>2 DEF Topo, Inv, RoutesOK, RouteTable
<1>6. t = s \/ t = Append(s, r)
  BY DEF route_learn
<1> HIDE DEF t, s
<1>7. ASSUME t = Append(s, r) PROVE MapIn(t, g)
  <2>1. DOMAIN t = 1 .. Len(s) + 1 /\ DOMAIN s = 1 .. Len(s) /\ Len(s) \in Nat /\ t[Len(s) + 1] = r /\ \A i \in DOMAIN s : t[i] = s[i]
    BY <1>2, <1>5, <1>7
  <2>2. \A i \in DOMAIN t : i \in DOMAIN s \/ i = Len(s) + 1
    BY <2>1
  <2> QED BY <1>3, <1>4, <1>5, <2>1, <2>2 DEF MapIn
<1>8. MapIn(t, g)
  BY <1>5, <1>6, <1>7
<1>9. \A h \in Gw : MapIn(routes'[h], h)
  BY <1>1, <1>8 DEF Topo, Inv, RoutesOK
<1> QED BY <1>1, <1>9, TopoKept DEF Topo

LEMMA TopoRouteExpire == ASSUME Inv, Topo, NEW g \in Gw, NEW i \in DOMAIN routes[g], RouteExpire(g, i) PROVE Topo'
<1> DEFINE s == routes[g]
           t == SwapRemove(s, i)
<1>1. routes' = [routes EXCEPT ![g] = t] /\ UNCHANGED <<conf, peers, at, inc, net>>
  BY DEF RouteExpire, Inv, RoutesOK
<1>2. s \in Seq(Route) /\ MapIn(s, g) /\ i \in DOMAIN s
  BY DEF Topo, Inv, RoutesOK, RouteTable
<1>3. \A j \in DOMAIN t : \E k \in DOMAIN s : t[j] = s[k]
  <2>1. DOMAIN s = 1 .. Len(s) /\ Len(s) \in Nat
    BY <1>2
  <2>2. DOMAIN t = 1 .. Len(s) - 1 /\ \A j \in 1 .. Len(s) - 1 : t[j] = s[Len(s)] \/ t[j] = s[j]
    BY DEF SwapRemove
  <2>3. \A j \in 1 .. Len(s) - 1 : j \in 1 .. Len(s) /\ Len(s) \in 1 .. Len(s)
    BY <2>1
  <2> HIDE DEF s, t
  <2> QED BY <2>1, <2>2, <2>3
<1> HIDE DEF t
<1>4. MapIn(t, g)
  BY <1>2, <1>3 DEF MapIn
<1>5. \A h \in Gw : MapIn(routes'[h], h)
  BY <1>1, <1>4 DEF Topo, Inv, RoutesOK
<1> QED BY <1>1, <1>5, TopoKept DEF Topo

\* Only a peer that no longer sends to the gateway grows old.
LEMMA TopoAge == ASSUME Inv, Topo, NEW g \in Gw, NEW i \in Slot, Age(g, i) PROVE Topo'
<1> DEFINE P == peers[g]
           Q == [P EXCEPT ![i] = [P[i] EXCEPT !.old = TRUE]]
<1>1. /\ at[P[i].id] # g /\ peers' = [peers EXCEPT ![g] = Q] /\ UNCHANGED <<conf, at, inc, routes, net>>
  BY DEF Age, Inv, PeersOK
<1>2. P \in [Slot -> PeerEntry] /\ PresentIn(P, g) /\ FirmIn(P, g)
  BY DEF Inv, PeersOK, Table, Topo
<1>3. \A j \in Slot : Q[j].id = P[j].id /\ Q[j].ep = P[j].ep /\ (j # i => Q[j] = P[j])
  <2>1. [P[i] EXCEPT !.old = TRUE].id = P[i].id /\ [P[i] EXCEPT !.old = TRUE].ep = P[i].ep
    BY <1>2 DEF PeerEntry
  <2> QED BY <1>2, <2>1
<1> HIDE DEF P, Q
<1>4. PresentIn(Q, g)
  BY <1>2, <1>3 DEF PresentIn
<1>5. FirmIn(Q, g)
  BY <1>1, <1>2, <1>3 DEF FirmIn
<1> QED BY <1>1, <1>4, <1>5, TopoLearns

\* Who has moved has another endpoint than any that is known.
LEMMA TopoMove == ASSUME Inv, Topo, NEW g \in Gw, NEW c \in Client, Move(c, g) PROVE Topo'
<1>1. at' = [at EXCEPT ![c] = g] /\ inc' = [inc EXCEPT ![c] = inc[c] + 1] /\ UNCHANGED <<conf, peers, routes, net>>
  BY DEF Move, gwVars, Inv, ClientsOK
<1>2. inc[c] \in Nat /\ inc[c] >= 1 /\ at \in [Client -> Gw \cup {Segment, Away}] /\ inc \in [Client -> 1 .. MaxMoves + 1]
  BY Sizes DEF Inv, ClientsOK
<1>3. inc'[c] # 1 /\ inc'[c] = inc[c] + 1
  BY <1>1, <1>2
<1>4. \A d \in Client : d # c => inc'[d] = inc[d] /\ at'[d] = at[d]
  BY <1>1, <1>2
<1>5. ASSUME NEW h \in Gw, NEW i \in Slot, peers[h][i].ep # NoEp
      PROVE  LET e == peers[h][i].ep IN e[2] <= inc'[e[1]] /\ (e[2] = inc'[e[1]] => at'[e[1]] = h)
  <2> DEFINE e == peers[h][i].ep
  <2>1. e \in Endpoint /\ e[2] <= inc[e[1]] /\ (e[2] = inc[e[1]] => at[e[1]] = h)
    <3>1. peers[h][i] \in PeerEntry
      BY DEF Inv, PeersOK
    <3> QED BY <1>5, <3>1 DEF Topo, PresentIn, PeerEntry
  <2>2. e[1] \in Client /\ e[2] \in Nat
    BY <2>1, Sizes DEF Endpoint
  <2> HIDE DEF e
  <2>3. CASE e[1] = c
    <3>1. e[2] <= inc[c]
      BY <2>1, <2>3
    <3>2. e[2] < inc'[c]
      BY <1>2, <1>3, <2>2, <3>1
    <3> QED BY <2>2, <2>3, <3>2, <1>2, <1>3 DEF e
  <2>4. CASE e[1] # c
    BY <1>4, <2>1, <2>2, <2>4 DEF e
  <2> QED BY <2>3, <2>4
<1>6. \A h \in Gw : PresentIn(peers[h], h)'
  BY <1>1, <1>5 DEF PresentIn
<1>7. \A h \in Gw : FirmIn(peers[h], h)'
  <2>1. SUFFICES ASSUME NEW h \in Gw, NEW i \in Slot, peers[h][i].id # NoOne
                 PROVE  (conf.l2 = {} => peers[h][i].ep # NoEp) /\ (inc'[peers[h][i].id] = 1 /\ at'[peers[h][i].id] = h => ~peers[h][i].old)
    BY <1>1 DEF FirmIn
  <2>2. peers[h][i].id \in Client
    BY <2>1 DEF Inv, PeersOK, PeerEntry
  <2> QED BY <1>3, <1>4, <2>1, <2>2 DEF Topo, FirmIn
<1>8. \A h \in Gw : MapIn(routes[h], h)'
  <2>1. SUFFICES ASSUME NEW h \in Gw, NEW i \in DOMAIN routes[h]
                 PROVE  Adjacent(conf, h, routes[h][i].li) /\ (inc'[routes[h][i].ep[1]] = 1 => at'[routes[h][i].ep[1]] = routes[h][i].li)
    BY <1>1 DEF MapIn
  <2>2. routes[h][i].ep[1] \in Client
    <3> DEFINE s == routes[h]
    <3>1. s \in Seq(Route)
      BY DEF Inv, RoutesOK
    <3>2. s[i] \in Route
      BY <3>1
    <3> QED BY <3>2, EpTypes DEF Route
  <2> QED BY <1>3, <1>4, <2>1, <2>2 DEF Topo, MapIn
<1>9. \A m \in net : Cabled(m)'
  <2>1. SUFFICES ASSUME NEW m \in net
                 PROVE  /\ m.body.type \in {"frame", "ROUTE"} => Adjacent(conf, Source(m), m.to)
                        /\ m.body.type = "ROUTE" => m.via = "link" /\ (inc'[m.body.ep[1]] = 1 => at'[m.body.ep[1]] = m.from)
    BY <1>1 DEF Cabled
  <2>2. m.body.type = "ROUTE" => m.body.ep[1] \in Client
    BY MessageTypes, EpTypes DEF Inv, NetOK, Sound
  <2> QED BY <1>3, <1>4, <2>2 DEF Topo, Cabled
<1> QED BY <1>1, <1>6, <1>7, <1>8, <1>9 DEF Topo

LEMMA TopoStep == ASSUME Inv, Topo, WithoutCycles(conf), [Next]_vars PROVE Topo'
<1>1. CASE UNCHANGED vars
  BY <1>1, TopoKept DEF vars, gwVars, Topo
<1>2. ASSUME NEW c \in Client, NEW d \in Client \cup {All}, NEW nh \in conf.kinds,
             SendSegment(c, d, nh) \/ \E thr \in {{}, {"learn"}, {"bcast"}} : SendTunnel(c, d, nh, thr)
      PROVE  Topo'
  BY <1>2, TopoSendTunnel, TopoSendSegment
<1>3. ASSUME NEW m \in net, RecvLinkFrame(m) \/ RecvRoute(m) \/ \E thr \in {{}, {"learn"}, {"bcast"}} : RecvL2Frame(m, thr)
      PROVE  Topo'
  BY <1>3, TopoRecvLinkFrame, TopoRecvL2Frame, TopoRecvRoute
<1>4. ASSUME NEW g \in Gw, (\E i \in Slot : Age(g, i)) \/ (\E c \in Client : Move(c, g)) \/ \E i \in DOMAIN routes[g] : RouteExpire(g, i)
      PROVE  Topo'
  BY <1>4, TopoAge, TopoMove, TopoRouteExpire
<1> QED BY <1>1, <1>2, <1>3, <1>4, TopoTalk DEF Next, Recv

-----------------------------------------------------------------------------
(* Who has a frame, and who it is still on its way to.                         *)

\* Who got a frame, or sent it and stayed, is not in a part of the network a copy is on its
\* way to; and no two copies are on their way to the same part.
Has(n, c) == got[n][c] > 0 \/ (c = frames[n].from /\ inc[c] = 1)
Apart(n) ==
    /\ \A m \in Flying(n), c \in Client : Has(n, c) => at[c] \notin Ahead(m)
    /\ \A m, x \in Flying(n) : m # x => Ahead(m) \cap Ahead(x) = {}
Once(n) == \A c \in Client : got[n][c] <= 1 /\ (c = frames[n].from /\ inc[c] = 1 => got[n][c] = 0)
Spread == \A n \in Ids : Apart(n) /\ Once(n)

\* A frame none is sent copies of; who moves starts anew.
LEMMA SpreadKept ==
    ASSUME NEW n \in Ids, Apart(n), Once(n), UNCHANGED conf, Flying(n)' \subseteq Flying(n), frames'[n].from = frames[n].from,
           \A c \in Client : \/ got'[n][c] = got[n][c] /\ inc'[c] = inc[c] /\ at'[c] = at[c]
                             \/ got'[n][c] = 0 /\ inc'[c] # 1
    PROVE  Apart(n)' /\ Once(n)'
<1>1. \A c \in Client : Has(n, c)' => Has(n, c) /\ at'[c] = at[c]
  BY DEF Has
<1>2. \A m : Ahead(m)' = Ahead(m)
  BY DEF Ahead, Source
<1>3. Apart(n)'
  BY <1>1, <1>2 DEF Apart
<1>4. Once(n)'
  BY DEF Once
<1> QED BY <1>3, <1>4

\* Client c sends a frame: no copy is on its way to where it has been.
LEMMA SpreadSent ==
    ASSUME NEW n \in Ids, NEW c \in Client, UNCHANGED <<conf, at, inc>>, frames'[n].from = c, got'[n][c] = 0,
           \A x \in Client : got'[n][x] \in {0, 1},
           \A m \in Flying(n)', x \in Client : x = c \/ got'[n][x] = 1 => at[x] \notin Ahead(m),
           \A m, x \in Flying(n)' : m # x => Ahead(m) \cap Ahead(x) = {}
    PROVE  Apart(n)' /\ Once(n)'
<1>1. \A m : Ahead(m)' = Ahead(m)
  BY DEF Ahead, Source
<1>2. \A x \in Client : Has(n, x)' => x = c \/ got'[n][x] = 1
  BY DEF Has
<1>3. Apart(n)'
  BY <1>1, <1>2 DEF Apart
<1>4. Once(n)'
  BY DEF Once
<1> QED BY <1>3, <1>4

\* A copy is taken, handed over and sent on.
LEMMA SpreadHanded ==
    ASSUME Inv, Topo, WithoutCycles(conf), NEW n \in Ids, Apart(n), Once(n), NEW m \in Flying(n), NEW out, Possible(m.to, out),
           Source(m) \notin out.links, out.l2 => m.via # "l2", NEW R,
           \A c \in Client : c \in R => at[c] = m.to \/ (out.l2 /\ at[c] = Segment),
           UNCHANGED <<conf, at, inc, frames>>, got' = Receive(n, R), Flying(n)' \subseteq (Flying(n) \ {m}) \cup Copies(m.to, n, out)
    PROVE  Apart(n)' /\ Once(n)'
<1> DEFINE g == m.to
           s == Source(m)
           C == Copies(g, n, out)
<1>1. m \in net /\ m.body.type = "frame"
  BY DEF Flying
<1>2. g \in Gw /\ Adjacent(conf, s, g) /\ s \in Node /\ (out.l2 => s # Segment)
  <2>1. Sound(m) /\ Cabled(m)
    BY <1>1 DEF Inv, NetOK, Topo
  <2>2. m.to \in Gw /\ m.from \in Gw \cup {Segment} /\ (m.from = Segment => m.via = "l2")
    BY <2>1, MessageTypes DEF Sound
  <2> QED BY <1>1, <2>1, <2>2, Nodes DEF Cabled, Source
<1>3. Ahead(m) = Side(conf, s, g)
  BY DEF Ahead
<1> HIDE DEF g, s, C
<1>4. g \in Ahead(m) /\ (out.l2 => Segment \in Ahead(m)) /\ \A x \in C : Ahead(x) \subseteq Ahead(m)
  BY <1>2, <1>3, FanOn DEF Inv, C, g, s
<1>5. /\ \A x \in C : g \notin Ahead(x) /\ (out.l2 => Segment \notin Ahead(x))
      /\ \A x, y \in C : x # y => Ahead(x) \cap Ahead(y) = {}
  BY <1>2, FanOut DEF Inv, C, g
<1>6. \A x : Ahead(x)' = Ahead(x)
  BY DEF Ahead, Source
<1>7. \A c \in Client : /\ c \in R => at[c] \in Ahead(m) /\ ~Has(n, c) /\ \A x \in C : at[c] \notin Ahead(x)
                        /\ Has(n, c) => at[c] \notin Ahead(m)
  <2>1. \A c \in Client : Has(n, c) => at[c] \notin Ahead(m)
    BY DEF Apart
  <2> QED BY <1>4, <1>5, <2>1 DEF g
<1>8. \A c \in Client : got'[n][c] = IF c \in R THEN got[n][c] + 1 ELSE got[n][c]
  BY DEF Receive, Inv, FramesOK
<1>9. \A c \in Client : got[n][c] \in Nat
  BY DEF Inv, FramesOK
<1>10. Once(n)'
  <2>1. ASSUME NEW c \in Client, c \in R PROVE got'[n][c] <= 1 /\ ~(c = frames[n].from /\ inc[c] = 1)
    <3>1. got[n][c] = 0 /\ ~(c = frames[n].from /\ inc[c] = 1)
      BY <1>7, <1>9, <2>1 DEF Has
    <3> QED BY <1>8, <2>1, <3>1
  <2> QED BY <1>8, <2>1 DEF Once
<1>11. \A c \in Client : Has(n, c)' => Has(n, c) \/ c \in R
  BY <1>8 DEF Has
<1>12. \A x \in Flying(n)' : (x \in Flying(n) /\ x # m) \/ x \in C
  BY DEF C, g
<1>13. \A x \in Flying(n) : x # m => Ahead(x) \cap Ahead(m) = {}
  BY DEF Apart
<1>14. ASSUME NEW x \in Flying(n)', NEW c \in Client, Has(n, c)' PROVE at[c] \notin Ahead(x)
  <2>1. CASE x \in C
    BY <1>4, <1>7, <1>11, <1>14, <2>1
  <2>2. CASE x \in Flying(n) /\ x # m
    <3>1. Has(n, c) => at[c] \notin Ahead(x)
      BY <2>2 DEF Apart
    <3> QED BY <1>7, <1>11, <1>13, <1>14, <2>2, <3>1
  <2> QED BY <1>12, <2>1, <2>2
<1>15. ASSUME NEW x \in Flying(n)', NEW y \in Flying(n)', x # y PROVE Ahead(x) \cap Ahead(y) = {}
  <2>1. CASE x \in C /\ y \in C
    BY <1>5, <1>15, <2>1
  <2>2. CASE x \in C /\ y \in Flying(n) /\ y # m
    BY <1>4, <1>13, <2>2
  <2>3. CASE y \in C /\ x \in Flying(n) /\ x # m
    BY <1>4, <1>13, <2>3
  <2>4. CASE x \in Flying(n) /\ y \in Flying(n)
    BY <1>15, <2>4 DEF Apart
  <2> QED BY <1>12, <2>1, <2>2, <2>3, <2>4
<1>16. Apart(n)'
  BY <1>6, <1>14, <1>15 DEF Apart
<1> QED BY <1>10, <1>16

\* A gateway hands a frame to clients of it, or to hosts of its segment.
LEMMA HandedWhere ==
    ASSUME ClientsOK, NEW g \in Gw, NEW P, PresentIn(P, g), NEW f, NEW out, out.eps \subseteq {P[i].ep : i \in Slot} \ {NoEp},
           NEW c \in Client, c \in Receivers(f, out)
    PROVE  at[c] = g \/ (out.l2 /\ at[c] = Segment)
<1>1. CASE EpOf(c) \in out.eps
  <2>1. PICK i \in Slot : P[i].ep = EpOf(c)
    BY <1>1
  <2> QED BY <2>1, Mine
<1>2. CASE out.l2 /\ c \in Natives(f)
  BY <1>2 DEF Natives
<1> QED BY <1>1, <1>2 DEF Receivers

\* What a client sends does not come back to it from its gateway.
LEMMA NotBack ==
    ASSUME ClientsOK, NEW g \in Gw, NEW P, Table(P), NEW f \in Frame, NEW c \in Client, f.from = c, f.to # c,
           f.to # All => f.dst # AddrOf(c)
    PROVE  c \notin Receivers(f, udp_route(g, P, f, EpOf(c)))
<1> DEFINE e == EpOf(c)
           To(out) == e \in out.eps
<1>1. e # NoEp /\ e[1] = c
  BY EpOfType, EpTypes DEF e
<1>2. \A eps, l2, links : e \notin eps => ~To(Out(eps, l2, links))
  BY DEF Out
<1>3. ~To(Drop)
  BY <1>2 DEF Drop
<1>4. e \notin Tunnels(P, e)
  BY DEF Tunnels
<1>5. f.to # All /\ peer_for(P, f) # {} => e \notin {EpFor(P, f)}
  <2>1. SUFFICES ASSUME f.to # All, peer_for(P, f) # {}, EpFor(P, f) = e PROVE FALSE
    OBVIOUS
  <2>2. f.to \in Client
    BY <2>1 DEF Frame
  <2> DEFINE i == First(peer_for(P, f))
  <2>3. i \in used(P) /\ (P[i].id = f.to \/ P[i].addr = f.dst) /\ P[i].ep = e
    <3>1. peer_for(P, f) \in SUBSET used(P) /\ \A j \in peer_for(P, f) : P[j].id = f.to \/ P[j].addr = f.dst
      BY <2>2, NameAssumption DEF peer_for, peer_find, peer_find_addr, used
    <3> QED BY <2>1, <3>1, EpInOwn DEF EpFor
  <2> HIDE DEF i, e
  <2>4. e[1] = P[i].id /\ conf.addr[e] = P[i].addr
    BY <1>1, <2>3, EntryOwn DEF Announces
  <2> QED BY <1>1, <2>1, <2>3, <2>4 DEF AddrOf, e
<1> HIDE DEF e, To
<1>6. ~To(udp_route(g, P, f, e))
  BY <1>2, <1>3, <1>4, <1>5 DEF udp_route
<1>7. c \notin Natives(f)
  BY DEF Natives
<1> QED BY <1>6, <1>7 DEF Receivers, e, To

LEMMA SpreadSendTunnel ==
    ASSUME Inv, Topo, WithoutCycles(conf), Spread, NEW c \in Client, NEW d \in Client \cup {All}, NEW nh \in conf.kinds, NEW thr,
           SendTunnel(c, d, nh, thr)
    PROVE  Spread'
<1>a. FreeIds # {}
  BY DEF SendTunnel, Sendable
<1>b. PICK n \in Ids : n = First(FreeIds) /\ n \in FreeIds
  BY <1>a, FreshId DEF Inv
<1> DEFINE f == FrameOf(c, d, nh)
           g == at[c]
           P == Learned(g, f, EpOf(c), "learn" \in thr)
           out == IF "bcast" \in thr /\ d = All THEN Drop ELSE udp_route(g, P, f, EpOf(c))
           R == Receivers(f, out)
           W == {g} \cup (IF out.l2 THEN {Segment} ELSE {})
<1>1. /\ g \in Gw /\ d # c /\ (d # All => AddrOf(d) # AddrOf(c)) /\ net' = net \cup Copies(g, n, out) \cup Refreshed(g, P)
      /\ frames' = [frames EXCEPT ![n] = f] /\ got' = [got EXCEPT ![n] = [x \in Client |-> IF x \in R THEN 1 ELSE 0]]
      /\ UNCHANGED <<conf, at, inc>>
  BY <1>b DEF SendTunnel, Sendable
<1>2. f \in Frame /\ f.from = c /\ f.src = AddrOf(c) /\ f.to = d /\ (d # All => f.dst = AddrOf(d))
  BY ConfTypes, FrameType DEF Inv, FrameOf
<1>3. n \in Ids /\ Flying(n) = {}
  BY <1>b DEF FreeIds
<1> HIDE DEF f
<1>4. Table(P) /\ PresentIn(P, g)
  BY <1>1, <1>2, Tunnelled
<1>5. c \notin R
  <2>1. CASE "bcast" \in thr /\ d = All
    <3>1. out.eps = {} /\ out.l2 = FALSE
      BY <2>1 DEF Drop, Out
    <3> QED BY <3>1 DEF Receivers
  <2>2. CASE ~("bcast" \in thr /\ d = All)
    <3> HIDE DEF P, g
    <3>1. c \notin Receivers(f, udp_route(g, P, f, EpOf(c)))
      BY <1>1, <1>2, <1>4, NotBack DEF Inv
    <3> QED BY <2>2, <3>1
  <2> QED BY <2>1, <2>2
<1> HIDE DEF P, R
<1>6. g = at[c] /\ RouteTable(routes[g]) /\ MapIn(routes[g], g)
  BY <1>1 DEF Inv, RoutesOK, Topo
<1> HIDE DEF g
<1>7. Possible(g, out) /\ out.eps \subseteq {P[i].ep : i \in Slot} \ {NoEp}
  BY <1>1, <1>2, <1>6, OutPossible, OutEps
<1> HIDE DEF out
<1>8. \A x \in Client : x \in R => at[x] \in W
  BY <1>1, <1>4, <1>7, HandedWhere DEF Inv, R
<1> DEFINE C == Copies(g, n, out)
<1>9. (\A m \in C : Ahead(m) \cap W = {}) /\ \A m, x \in C : m # x => Ahead(m) \cap Ahead(x) = {}
  BY <1>1, <1>7, FanOut DEF Inv
<1>10. at[c] \in W
  BY <1>6
<1>11. Flying(n)' \subseteq C
  BY <1>1, <1>3, NoFrameSent DEF Flying
<1>12. \A k \in Ids : k # n => Flying(k)' \subseteq Flying(k) /\ frames'[k] = frames[k] /\ got'[k] = got[k]
  <2>1. \A k \in Ids : k # n => Flying(k)' \subseteq Flying(k)
    BY <1>1, NoFrameSent, CopiesOf DEF Flying
  <2> QED BY <1>1, <2>1 DEF Inv, FramesOK
<1> HIDE DEF C, W
<1>13. Apart(n)' /\ Once(n)'
  <2>1. frames'[n].from = c /\ \A x \in Client : got'[n][x] = IF x \in R THEN 1 ELSE 0
    BY <1>1, <1>2, <1>3 DEF Inv, FramesOK
  <2>2. \A m \in Flying(n)', x \in Client : x = c \/ got'[n][x] = 1 => at[x] \notin Ahead(m)
    BY <1>8, <1>9, <1>10, <1>11, <2>1
  <2>3. \A m, x \in Flying(n)' : m # x => Ahead(m) \cap Ahead(x) = {}
    BY <1>9, <1>11
  <2>4. got'[n][c] = 0 /\ \A x \in Client : got'[n][x] \in {0, 1}
    BY <1>5, <2>1
  <2> QED BY <1>1, <2>1, <2>2, <2>3, <2>4, SpreadSent
<1>14. ASSUME NEW k \in Ids, k # n PROVE Apart(k)' /\ Once(k)'
  BY <1>1, <1>12, <1>14, SpreadKept DEF Spread
<1> QED BY <1>13, <1>14 DEF Spread

LEMMA SpreadSendSegment ==
    ASSUME Inv, WithoutCycles(conf), Spread, NEW c \in Client, NEW d \in Client \cup {All}, NEW nh \in conf.kinds, SendSegment(c, d, nh)
    PROVE  Spread'
<1>a. FreeIds # {}
  BY DEF SendSegment, Sendable
<1>b. PICK n \in Ids : n = First(FreeIds) /\ n \in FreeIds
  BY <1>a, FreshId DEF Inv
<1> DEFINE f == FrameOf(c, d, nh)
           b == [type |-> "frame", id |-> n]
           R == Natives(f)
           S == OnSegment(Segment, b)
           W == {Segment}
<1>1. /\ at[c] = Segment /\ net' = net \cup S
      /\ frames' = [frames EXCEPT ![n] = f] /\ got' = [got EXCEPT ![n] = [x \in Client |-> IF x \in R THEN 1 ELSE 0]]
      /\ UNCHANGED <<conf, at, inc>>
  BY <1>b DEF SendSegment, Sendable
<1>2. f \in Frame /\ f.from = c /\ f.src = AddrOf(c)
  BY ConfTypes, FrameType DEF Inv
<1>3. n \in Ids /\ Flying(n) = {}
  BY <1>b DEF FreeIds
<1> HIDE DEF f
<1>4. c \notin R /\ \A x \in Client : x \in R => at[x] \in W
  BY <1>2 DEF Natives
<1>5. \A m \in S : m.body.id = n
  BY SegmentShape
<1> HIDE DEF R, b
<1>6. (\A m \in S : Ahead(m) \cap W = {}) /\ \A m, x \in S : m # x => Ahead(m) \cap Ahead(x) = {}
  BY FanSegment DEF Inv
<1> HIDE DEF S
<1>7. Flying(n)' \subseteq S
  BY <1>1, <1>3 DEF Flying
<1>8. \A k \in Ids : k # n => Flying(k)' \subseteq Flying(k) /\ frames'[k] = frames[k] /\ got'[k] = got[k]
  <2>1. \A k \in Ids : k # n => Flying(k)' \subseteq Flying(k)
    BY <1>1, <1>5 DEF Flying
  <2> QED BY <1>1, <2>1 DEF Inv, FramesOK
<1>9. at[c] \in W
  BY <1>1
<1> HIDE DEF W
<1>10. Apart(n)' /\ Once(n)'
  <2>1. frames'[n].from = c /\ \A x \in Client : got'[n][x] = IF x \in R THEN 1 ELSE 0
    BY <1>1, <1>2, <1>3 DEF Inv, FramesOK
  <2>2. \A m \in Flying(n)', x \in Client : x = c \/ got'[n][x] = 1 => at[x] \notin Ahead(m)
    BY <1>4, <1>6, <1>7, <1>9, <2>1
  <2>3. \A m, x \in Flying(n)' : m # x => Ahead(m) \cap Ahead(x) = {}
    BY <1>6, <1>7
  <2>4. got'[n][c] = 0 /\ \A x \in Client : got'[n][x] \in {0, 1}
    BY <1>4, <2>1
  <2> QED BY <1>1, <2>1, <2>2, <2>3, <2>4, SpreadSent
<1>11. ASSUME NEW k \in Ids, k # n PROVE Apart(k)' /\ Once(k)'
  BY <1>1, <1>8, <1>11, SpreadKept DEF Spread
<1> QED BY <1>10, <1>11 DEF Spread

LEMMA SpreadRecvLinkFrame == ASSUME Inv, Topo, WithoutCycles(conf), Spread, NEW m \in net, RecvLinkFrame(m) PROVE Spread'
<1> DEFINE g == m.to
           n == m.body.id
           f == frames[n]
           out == gw_fed_data(g, m.from, f)
           R == Receivers(f, out)
<1>1. /\ m.via = "link" /\ m.body.type = "frame" /\ net' = (net \ {m}) \cup Copies(g, n, out) /\ got' = Receive(n, R)
      /\ UNCHANGED <<conf, at, inc, frames>>
  BY DEF RecvLinkFrame, Takes
<1>2. g \in Gw /\ n \in Ids
  BY <1>1, MessageTypes DEF Inv, NetOK, Sound
<1>3. f \in Frame \cup {NoFrame}
  BY <1>2 DEF Inv, FramesOK
<1>4. m \in Flying(n) /\ Source(m) = m.from
  BY <1>1 DEF Flying, Source
<1> HIDE DEF f, n, R
<1>5. RouteTable(routes[g]) /\ MapIn(routes[g], g) /\ PresentIn(peers[g], g)
  BY <1>2 DEF Inv, RoutesOK, Topo
<1>6. Possible(g, out) /\ m.from \notin out.links /\ out.eps \subseteq {peers[g][i].ep : i \in Slot} \ {NoEp}
  <2> HIDE DEF g
  <2> QED BY <1>2, <1>3, <1>5, OutPossible, OutEps
<1> HIDE DEF out
<1>7. \A x \in Client : x \in R => at[x] = g \/ (out.l2 /\ at[x] = Segment)
  <2> HIDE DEF g
  <2> QED BY <1>2, <1>5, <1>6, HandedWhere DEF Inv, R
<1>8. Flying(n)' \subseteq (Flying(n) \ {m}) \cup Copies(g, n, out)
  BY <1>1 DEF Flying
<1>9. \A k \in Ids : k # n => Flying(k)' \subseteq Flying(k) /\ got'[k] = got[k]
  <2>1. \A k \in Ids : k # n => Flying(k)' \subseteq Flying(k)
    BY <1>1, CopiesOf DEF Flying
  <2> QED BY <1>1, <2>1 DEF Inv, FramesOK, Receive
<1>10. Apart(n)' /\ Once(n)'
  BY <1>1, <1>2, <1>4, <1>6, <1>7, <1>8, SpreadHanded DEF Spread
<1>11. ASSUME NEW k \in Ids, k # n PROVE Apart(k)' /\ Once(k)'
  BY <1>1, <1>9, <1>11, SpreadKept DEF Spread
<1> QED BY <1>10, <1>11 DEF Spread

LEMMA SpreadRecvL2Frame ==
    ASSUME Inv, Topo, WithoutCycles(conf), Spread, NEW m \in net, NEW thr, RecvL2Frame(m, thr)
    PROVE  Spread'
<1> DEFINE g == m.to
           n == m.body.id
           f == frames[n]
           pass == class_ok(g, f.src, f.dst)
           P == IF pass THEN Learned(g, f, NoEp, "learn" \in thr) ELSE peers[g]
           out == IF ~pass \/ ("bcast" \in thr /\ Flooded(P, f)) THEN Drop ELSE l2_route(P, g, f)
           R == Receivers(f, out)
<1>1. /\ m.via = "l2" /\ m.body.type = "frame" /\ net' = (net \ {m}) \cup (Copies(g, n, out) \cup Refreshed(g, P))
      /\ got' = Receive(n, R) /\ UNCHANGED <<conf, at, inc, frames>>
  BY DEF RecvL2Frame, Takes
<1>2. g \in Gw /\ n \in Ids /\ g \in conf.l2
  BY <1>1, OnTheSegment, MessageTypes DEF Inv, NetOK, Sound
<1>3. f \in Frame \cup {NoFrame}
  BY <1>2 DEF Inv, FramesOK
<1>4. m \in Flying(n) /\ Source(m) = Segment
  BY <1>1 DEF Flying, Source
<1> HIDE DEF f, n, R, pass
<1>5. PresentIn(P, g)
  <2> HIDE DEF g
  <2> QED BY <1>2, <1>3, Heard
<1> HIDE DEF P
<1>6. RouteTable(routes[g]) /\ MapIn(routes[g], g)
  BY <1>2 DEF Inv, RoutesOK, Topo
<1>7. Possible(g, out) /\ out.l2 = FALSE /\ out.eps \subseteq {P[i].ep : i \in Slot} \ {NoEp}
  <2> HIDE DEF g
  <2> QED BY <1>2, <1>3, <1>6, OutPossible, OutEps
<1> HIDE DEF out
<1>8. Segment \notin out.links
  BY <1>7, Nodes DEF Possible
<1>9. \A x \in Client : x \in R => at[x] = g \/ (out.l2 /\ at[x] = Segment)
  <2> HIDE DEF g
  <2> QED BY <1>2, <1>5, <1>7, HandedWhere DEF Inv, R
<1>10. Flying(n)' \subseteq (Flying(n) \ {m}) \cup Copies(g, n, out)
  BY <1>1, NoFrameSent DEF Flying
<1>11. \A k \in Ids : k # n => Flying(k)' \subseteq Flying(k) /\ got'[k] = got[k]
  <2>1. \A k \in Ids : k # n => Flying(k)' \subseteq Flying(k)
    BY <1>1, NoFrameSent, CopiesOf DEF Flying
  <2> QED BY <1>1, <2>1 DEF Inv, FramesOK, Receive
<1>12. Apart(n)' /\ Once(n)'
  BY <1>1, <1>2, <1>4, <1>7, <1>8, <1>9, <1>10, SpreadHanded DEF Spread
<1>13. ASSUME NEW k \in Ids, k # n PROVE Apart(k)' /\ Once(k)'
  BY <1>1, <1>11, <1>13, SpreadKept DEF Spread
<1> QED BY <1>12, <1>13 DEF Spread

\* No frame is sent or handed over, and nobody moves.
LEMMA SpreadStays ==
    ASSUME Spread, UNCHANGED <<conf, at, inc, got>>, \A n \in Ids : frames'[n].from = frames[n].from,
           \A m \in net' : m \in net \/ m.body.type # "frame"
    PROVE  Spread'
<1>1. \A n \in Ids : Flying(n)' \subseteq Flying(n)
  BY DEF Flying
<1> QED BY <1>1, SpreadKept DEF Spread

\* A frame lost, or whose receiver moves, keeps its MACs.
LEMMA StillFrom ==
    ASSUME Inv, NEW n \in Ids
    PROVE  [frames[n] EXCEPT !.sure = FALSE].from = frames[n].from /\ [frames[n] EXCEPT !.sure = FALSE].to = frames[n].to
BY DEF Inv, FramesOK, Frame, NoFrame

LEMMA SpreadLose == ASSUME Inv, Spread, NEW m \in net, Lose(m) PROVE Spread'
<1>1. /\ net' = net \ {m} /\ frames' = IF m.body.type = "frame" THEN [frames EXCEPT ![m.body.id].sure = FALSE] ELSE frames
      /\ UNCHANGED <<conf, at, inc, got>>
  BY DEF Lose
<1>2. \A n \in Ids : frames'[n].from = frames[n].from
  BY <1>1, StillFrom DEF Inv, FramesOK
<1> QED BY <1>1, <1>2, SpreadStays

LEMMA SpreadMove == ASSUME Inv, Spread, NEW g \in Gw, NEW c \in Client, Move(c, g) PROVE Spread'
<1>1. /\ at' = [at EXCEPT ![c] = g] /\ inc' = [inc EXCEPT ![c] = inc[c] + 1] /\ UNCHANGED <<conf, net>>
      /\ frames' = [n \in Ids |-> IF frames[n].to = c THEN [frames[n] EXCEPT !.sure = FALSE] ELSE frames[n]]
      /\ got' = [n \in Ids |-> [got[n] EXCEPT ![c] = 0]]
  BY DEF Move, Inv, ClientsOK
<1>2. inc[c] \in Nat /\ inc[c] >= 1
  BY Sizes DEF Inv, ClientsOK
<1>3. inc'[c] # 1
  BY <1>1, <1>2 DEF Inv, ClientsOK
<1>4. \A d \in Client : d # c => inc'[d] = inc[d] /\ at'[d] = at[d]
  BY <1>1 DEF Inv, ClientsOK
<1>5. \A n \in Ids : got'[n][c] = 0 /\ \A d \in Client : d # c => got'[n][d] = got[n][d]
  BY <1>1 DEF Inv, FramesOK
<1>6. \A n \in Ids : frames'[n].from = frames[n].from /\ Flying(n)' \subseteq Flying(n)
  BY <1>1, StillFrom DEF Flying
<1>7. ASSUME NEW n \in Ids PROVE Apart(n)' /\ Once(n)'
  <2>1. \A d \in Client : \/ got'[n][d] = got[n][d] /\ inc'[d] = inc[d] /\ at'[d] = at[d]
                          \/ got'[n][d] = 0 /\ inc'[d] # 1
    BY <1>3, <1>4, <1>5
  <2> QED BY <1>1, <1>6, <2>1, SpreadKept DEF Spread
<1> QED BY <1>7 DEF Spread

LEMMA SpreadInit == Init => Spread
<1> SUFFICES ASSUME Init PROVE Spread
  OBVIOUS
<1>1. \A n \in Ids : Flying(n) = {} /\ \A c \in Client : got[n][c] = 0
  BY DEF Init, Flying
<1> QED BY <1>1 DEF Spread, Apart, Once

LEMMA SpreadStep == ASSUME Inv, Topo, WithoutCycles(conf), Spread, [Next]_vars PROVE Spread'
<1>1. CASE UNCHANGED vars
  BY <1>1, SpreadStays DEF vars, frameVars
<1>2. ASSUME NEW c \in Client, NEW d \in Client \cup {All}, NEW nh \in conf.kinds,
             SendSegment(c, d, nh) \/ \E thr \in {{}, {"learn"}, {"bcast"}} : SendTunnel(c, d, nh, thr)
      PROVE  Spread'
  BY <1>2, SpreadSendTunnel, SpreadSendSegment
<1>3. ASSUME NEW m \in net, RecvLinkFrame(m) \/ Lose(m) \/ \E thr \in {{}, {"learn"}, {"bcast"}} : RecvL2Frame(m, thr)
      PROVE  Spread'
  BY <1>3, SpreadRecvLinkFrame, SpreadRecvL2Frame, SpreadLose
<1>4. ASSUME NEW g \in Gw, NEW i \in Slot, Age(g, i) PROVE Spread'
  BY <1>4, SpreadStays DEF Age, frameVars
<1>5. ASSUME NEW g \in Gw, NEW c \in Client, Move(c, g) PROVE Spread'
  BY <1>5, SpreadMove
<1>6. ASSUME \/ \E c \in Client, q \in Addr : AskLocal(c, q) \/ AskRoute(c, q) \/ AskMesh(c, q) \/ AskNone(c, q)
             \/ \E m \in net : RecvR(m) \/ RecvLinkQ(m) \/ RecvL2Q(m) \/ RecvRoute(m) \/ RecvAnn(m)
             \/ \E g \in Gw : Announce(g) \/ (\E p \in pend[g] : PendExpire(g, p)) \/ \E i \in DOMAIN routes[g] : RouteExpire(g, i)
      PROVE  Spread'
  BY <1>6, Talk, SpreadStays
<1> QED BY <1>1, <1>2, <1>3, <1>4, <1>5, <1>6 DEF Next, Recv

-----------------------------------------------------------------------------
(* A frame that has to arrive.                                                 *)

\* A copy on its way to client d: at its gateway next, or one link further on.
OnWay(m, d) == m.to = at[d] \/ (<<m.to, at[d]>> \in conf.link /\ at[d] # m.from)

\* Its destination stays registered where it is, and alone has the address; nobody filters
\* the frame, and it has arrived or a copy is on its way.
Bound(d, a) == d \in Client /\ conf.l2 = {} /\ at[d] \in Gw /\ inc[d] = 1 /\ known(peers[at[d]], d) /\ Own(d, a)
Reaching(n, d) ==
    /\ Bound(d, frames[n].dst) /\ \A g \in Gw : class_ok(g, frames[n].src, frames[n].dst)
    /\ got[n][d] = 1 \/ \E m \in Flying(n) : OnWay(m, d)
Arrive(n) == frames[n].sure => Reaching(n, frames[n].to)
Arrives == \A n \in Ids : Arrive(n)

LEMMA OnceGives == Spread /\ Arrives => ExactlyOnce
BY DEF Spread, Once, Arrives, Arrive, Reaching, ExactlyOnce

LEMMA ArrivesInit == Init => Arrives
BY DEF Init, NoFrame, Arrives, Arrive

LEMMA CopyOn ==
    ASSUME NEW g, NEW n, NEW out, NEW h \in out.links
    PROVE  \E m \in Copies(g, n, out) : m.to = h /\ m.from = g /\ m.body.type = "frame" /\ m.body.id = n
<1> DEFINE m == [to |-> h, from |-> g, via |-> "link", body |-> [type |-> "frame", id |-> n]]
<1>1. m \in Copies(g, n, out)
  BY DEF Copies, OnLinks
<1>2. m.to = h /\ m.from = g /\ m.body.type = "frame" /\ m.body.id = n
  OBVIOUS
<1> HIDE DEF m
<1> QED BY <1>1, <1>2

\* Who has not moved stays known to its gateway.
LEMMA StillKnown ==
    ASSUME Inv, Topo, [Next]_vars, NEW d \in Client, at[d] \in Gw, inc[d] = 1, known(peers[at[d]], d)
    PROVE  known(peers'[at[d]], d)
<1>1. ASSUME NEW c \in Client, NEW x \in Client \cup {All}, NEW nh \in conf.kinds, NEW thr, SendTunnel(c, x, nh, thr)
      PROVE  known(peers'[at[d]], d)
  <2> DEFINE f == FrameOf(c, x, nh)
             g == at[c]
             P == Learned(g, f, EpOf(c), "learn" \in thr)
  <2>1. g \in Gw /\ peers' = [peers EXCEPT ![g] = P]
    BY <1>1 DEF SendTunnel
  <2>2. f \in Frame /\ f.from = c /\ f.src = AddrOf(c)
    BY ConfTypes, FrameType DEF Inv
  <2>3. at[d] = g => known(P, d)
    <3> HIDE DEF f
    <3> QED BY <2>1, <2>2, Tunnelled
  <2> HIDE DEF P, g
  <2> QED BY <2>1, <2>3 DEF Inv, PeersOK
<1>2. ASSUME NEW m \in net, NEW thr, RecvL2Frame(m, thr) PROVE known(peers'[at[d]], d)
  <2> DEFINE g == m.to
             f == frames[m.body.id]
             P == IF class_ok(g, f.src, f.dst) THEN Learned(g, f, NoEp, "learn" \in thr) ELSE peers[g]
  <2>1. m.via = "l2" /\ m.body.type = "frame" /\ peers' = [peers EXCEPT ![g] = P]
    BY <1>2 DEF RecvL2Frame
  <2>2. g \in Gw /\ g \in conf.l2 /\ f \in Frame \cup {NoFrame}
    BY <2>1, OnTheSegment, MessageTypes DEF Inv, NetOK, Sound, FramesOK
  <2> HIDE DEF f, g
  <2>3. at[d] = g => known(P, d)
    BY <2>2, Heard
  <2> HIDE DEF P
  <2> QED BY <2>1, <2>2, <2>3 DEF Inv, PeersOK
<1>3. ASSUME NEW g \in Gw, NEW i \in Slot, Age(g, i) PROVE known(peers'[at[d]], d)
  <2>1. \A h \in Gw, j \in Slot : peers'[h][j].id = peers[h][j].id
    BY <1>3 DEF Age, Inv, PeersOK, PeerEntry
  <2> QED BY <2>1 DEF known, peer_find
<1>4. ASSUME UNCHANGED peers PROVE known(peers'[at[d]], d)
  BY <1>4
<1>5. ASSUME NEW c \in Client, NEW x \in Client \cup {All}, NEW nh \in conf.kinds, SendSegment(c, x, nh) PROVE UNCHANGED peers
  BY <1>5 DEF SendSegment, gwVars
<1>6. ASSUME NEW m \in net, RecvLinkFrame(m) \/ Lose(m) PROVE UNCHANGED peers
  BY <1>6 DEF RecvLinkFrame, Lose, gwVars
<1>7. ASSUME NEW g \in Gw, NEW c \in Client, Move(c, g) PROVE UNCHANGED peers
  BY <1>7 DEF Move, gwVars
<1>8. CASE UNCHANGED vars
  BY <1>4, <1>8 DEF vars, gwVars
<1>9. ASSUME \/ \E c \in Client, q \in Addr : AskLocal(c, q) \/ AskRoute(c, q) \/ AskMesh(c, q) \/ AskNone(c, q)
             \/ \E m \in net : RecvR(m) \/ RecvLinkQ(m) \/ RecvL2Q(m) \/ RecvRoute(m) \/ RecvAnn(m)
             \/ \E g \in Gw : Announce(g) \/ (\E p \in pend[g] : PendExpire(g, p)) \/ \E i \in DOMAIN routes[g] : RouteExpire(g, i)
      PROVE  UNCHANGED peers
  BY <1>9, Talk
<1> QED BY <1>1, <1>2, <1>3, <1>4, <1>5, <1>6, <1>7, <1>8, <1>9 DEF Next, Recv

\* A frame none of whose copies is taken or lost, to who stays.
LEMMA ArriveKept ==
    ASSUME NEW n \in Ids, Arrive(n), UNCHANGED conf, Flying(n) \subseteq Flying(n)',
           frames'[n].sure => /\ frames'[n] = frames[n] /\ at'[frames[n].to] = at[frames[n].to]
                              /\ inc'[frames[n].to] = inc[frames[n].to] /\ got'[n][frames[n].to] = got[n][frames[n].to],
           \A d \in Client : at[d] \in Gw /\ inc[d] = 1 /\ known(peers[at[d]], d) => known(peers'[at[d]], d)
    PROVE  Arrive(n)'
<1>1. PICK d, f : d = frames[n].to /\ f = frames[n]
  OBVIOUS
<1>2. SUFFICES ASSUME frames'[n].sure PROVE Reaching(n, d)'
  BY <1>1 DEF Arrive
<1>3. frames'[n] = f /\ at'[d] = at[d] /\ inc'[d] = inc[d] /\ got'[n][d] = got[n][d] /\ Reaching(n, d)
  BY <1>1, <1>2 DEF Arrive
<1>4. Bound(d, f.dst)'
  BY <1>1, <1>3 DEF Reaching, Bound, Own
<1>5. \A g \in Gw : class_ok(g, f.src, f.dst)'
  BY <1>1, <1>3 DEF Reaching, class_ok
<1>6. \A m : OnWay(m, d) => OnWay(m, d)'
  BY <1>3 DEF OnWay
<1>7. got'[n][d] = 1 \/ \E m \in Flying(n)' : OnWay(m, d)'
  BY <1>3, <1>6 DEF Reaching
<1> QED BY <1>3, <1>4, <1>5, <1>7 DEF Reaching

\* A gateway that takes a frame which has to arrive hands it to its client, or sends it on
\* towards the gateway of that client, if it is the next.
LEMMA Onward ==
    ASSUME Inv, Topo, NEW g \in Gw, NEW from, NEW f \in Frame \cup {NoFrame}, NEW d, d = f.to, Bound(d, f.dst), class_ok(g, f.src, f.dst),
           NEW out, out = gw_fed_data(g, from, f)
    PROVE  /\ at[d] = g => d \in Receivers(f, out)
           /\ <<g, at[d]>> \in conf.link /\ at[d] # from => d \in Receivers(f, out) \/ at[d] \in out.links
<1> DEFINE P == peers[g]
<1>1. d \in Client /\ d # All /\ ~OnL2(g)
  BY NameAssumption DEF Bound, OnL2
<1>2. ClientsOK /\ Table(P) /\ PresentIn(P, g) /\ FirmIn(P, g) /\ RouteTable(routes[g]) /\ MapIn(routes[g], g)
  BY DEF Inv, PeersOK, RoutesOK, Topo
<1>3. at[d] = g => known(P, d)
  BY DEF Bound
<1> HIDE DEF P
<1>4. peer_for(P, f) # {} => EpFor(P, f) = EpOf(d) /\ EpFor(P, f) # NoEp
  BY <1>1, <1>2, AddressHere DEF Bound
<1>5. CASE peer_for(P, f) # {}
  <2>1. out = Out({EpFor(P, f)}, FALSE, {})
    BY <1>1, <1>4, <1>5 DEF gw_fed_data, P
  <2>2. EpOf(d) \in out.eps
    BY <1>4, <1>5, <2>1 DEF Out
  <2> QED BY <1>1, <2>2 DEF Receivers
<1>6. peer_for(P, f) = {} => at[d] # g
  BY <1>3 DEF peer_for, known
<1>7. CASE peer_for(P, f) = {} /\ route_find(g, f.dst) # {}
  <2>1. SUFFICES ASSUME at[d] # from PROVE at[d] \in out.links
    BY <1>6, <1>7
  <2>2. at[d] = RouteTo(g, f.dst).li
    BY <1>1, <1>2, <1>7, NextHop DEF Bound
  <2>3. out = Out({}, FALSE, {RouteTo(g, f.dst).li})
    BY <1>1, <1>7, <2>1, <2>2 DEF gw_fed_data, P
  <2> QED BY <2>2, <2>3 DEF Out
<1>8. CASE peer_for(P, f) = {} /\ route_find(g, f.dst) = {}
  <2>1. SUFFICES ASSUME <<g, at[d]>> \in conf.link, at[d] # from PROVE at[d] \in out.links
    BY <1>6, <1>8
  <2>2. out = Out({}, FALSE, Links(g) \ {from})
    BY <1>1, <1>8 DEF gw_fed_data, P
  <2>3. at[d] \in Links(g)
    BY <2>1 DEF Bound, Links
  <2> QED BY <2>1, <2>2, <2>3 DEF Out
<1> QED BY <1>5, <1>7, <1>8

\* The gateway of who sends such a frame.
LEMMA Outward ==
    ASSUME Inv, Topo, NEW c \in Client, NEW d \in Client, d # c, NEW nh \in {"control", "stream", "dgram"}, Sure(c, d, nh),
           NEW f, f = FrameOf(c, d, nh), NEW P, NEW t, P = Learned(at[c], f, EpOf(c), t),
           NEW out, out = udp_route(at[c], P, f, EpOf(c))
    PROVE  \/ d \in Receivers(f, out)
           \/ \E h \in out.links : h = at[d] \/ (<<h, at[d]>> \in conf.link /\ at[d] # at[c])
<1> DEFINE g == at[c]
<1>1. g \in Gw /\ at[d] \in Gw /\ Near(g, at[d]) /\ inc[d] = 1 /\ known(peers[at[d]], d) /\ conf.l2 = {}
      /\ (nh # "dgram" \/ peer_find_addr(peers[g], AddrOf(c)) # {}) /\ class_ok(g, AddrOf(c), AddrOf(d)) /\ Own(d, AddrOf(d))
  BY DEF Sure
<1>2. f \in Frame /\ f.from = c /\ f.src = AddrOf(c) /\ f.to = d /\ f.dst = AddrOf(d) /\ f.nh = nh /\ d # All
  <2>1. f \in Frame /\ d # All
    BY FrameType, NameAssumption DEF Inv
  <2> QED BY <2>1 DEF FrameOf
<1>3. Table(P) /\ PresentIn(P, g) /\ FirmIn(P, g) /\ (at[d] = g => known(P, d))
  BY <1>1, <1>2, Tunnelled
<1>4. gw_src_ok(P, f)
  BY <1>1, <1>2 DEF gw_src_ok, Learned
<1>5. ClientsOK /\ RouteTable(routes[g]) /\ MapIn(routes[g], g) /\ ~OnL2(g)
  BY <1>1 DEF Inv, RoutesOK, Topo, OnL2
<1>6. out = udp_route(g, P, f, EpOf(c)) /\ g = at[c]
  OBVIOUS
<1> HIDE DEF g
<1>7. CASE peer_for(P, f) # {}
  <2>1. EpFor(P, f) = EpOf(d) /\ EpFor(P, f) # NoEp
    BY <1>1, <1>2, <1>3, <1>5, <1>7, AddressHere
  <2>2. out = Out({EpFor(P, f)}, FALSE, {})
    BY <1>1, <1>2, <1>4, <1>6, <1>7, <2>1 DEF udp_route
  <2>3. EpOf(d) \in out.eps
    BY <2>1, <2>2 DEF Out
  <2> QED BY <2>3 DEF Receivers
<1>8. CASE peer_for(P, f) = {} /\ route_find(g, f.dst) # {}
  <2>1. at[d] = RouteTo(g, f.dst).li
    BY <1>1, <1>2, <1>5, <1>8, NextHop
  <2>2. out = Out({}, FALSE, {RouteTo(g, f.dst).li})
    BY <1>1, <1>2, <1>4, <1>5, <1>6, <1>8 DEF udp_route
  <2> QED BY <2>1, <2>2 DEF Out
<1>9. CASE peer_for(P, f) = {} /\ route_find(g, f.dst) = {}
  <2>1. out = Out({}, FALSE, Links(g))
    BY <1>1, <1>2, <1>4, <1>5, <1>6, <1>9 DEF udp_route
  <2>2. at[d] # g
    BY <1>2, <1>3, <1>9 DEF peer_for, known
  <2>3. out.links = Links(g)
    BY <2>1 DEF Out
  <2>4. CASE at[d] \in Links(g)
    BY <2>3, <2>4
  <2>5. CASE Links(g) \cap Links(at[d]) # {}
    <3>1. PICK h \in Gw : h \in Links(g) /\ <<at[d], h>> \in conf.link
      BY <2>5 DEF Links
    <3>2. Adjacent(conf, h, at[d])
      BY <1>1, <3>1, BothWays, Nodes DEF Inv, Adjacent
    <3>3. <<h, at[d]>> \in conf.link
      BY <1>1, <3>1, <3>2, Nodes DEF Adjacent
    <3> QED BY <1>6, <2>2, <2>3, <3>1, <3>3
  <2> QED BY <1>1, <2>2, <2>4, <2>5 DEF Near
<1> QED BY <1>7, <1>8, <1>9

LEMMA ArriveSendTunnel ==
    ASSUME Inv, Topo, [Next]_vars, Arrives, NEW c \in Client, NEW d \in Client \cup {All}, NEW nh \in conf.kinds, NEW thr,
           SendTunnel(c, d, nh, thr)
    PROVE  Arrives'
<1>a. FreeIds # {}
  BY DEF SendTunnel, Sendable
<1>b. PICK n \in Ids : n = First(FreeIds) /\ n \in FreeIds
  BY <1>a, FreshId DEF Inv
<1> DEFINE f == FrameOf(c, d, nh)
           g == at[c]
           P == Learned(g, f, EpOf(c), "learn" \in thr)
           out == IF "bcast" \in thr /\ d = All THEN Drop ELSE udp_route(g, P, f, EpOf(c))
           R == Receivers(f, out)
           C == Copies(g, n, out)
<1>1. /\ g \in Gw /\ d # c /\ net' = net \cup C \cup Refreshed(g, P)
      /\ frames' = [frames EXCEPT ![n] = f] /\ got' = [got EXCEPT ![n] = [x \in Client |-> IF x \in R THEN 1 ELSE 0]]
      /\ UNCHANGED <<conf, at, inc>>
  BY <1>b DEF SendTunnel, Sendable
<1>2. f.src = AddrOf(c) /\ f.to = d /\ (d # All => f.dst = AddrOf(d)) /\ f.sure = Sure(c, d, nh)
  BY DEF FrameOf
<1>3. frames'[n] = f /\ \A x \in Client : got'[n][x] = IF x \in R THEN 1 ELSE 0
  BY <1>1, <1>2, FrameType, ConfTypes DEF Inv, FramesOK
<1>4. \A k \in Ids : k # n => Flying(k) \subseteq Flying(k)' /\ frames'[k] = frames[k] /\ got'[k] = got[k]
  <2>1. \A k \in Ids : Flying(k) \subseteq Flying(k)'
    BY <1>1 DEF Flying
  <2> QED BY <1>1, <2>1 DEF Inv, FramesOK
<1>5. ASSUME Sure(c, d, nh) PROVE d \in R \/ \E h \in out.links : h = at[d] \/ (<<h, at[d]>> \in conf.link /\ at[d] # g)
  <2>1. d \in Client /\ out = udp_route(g, P, f, EpOf(c)) /\ nh \in {"control", "stream", "dgram"}
    BY <1>5, NameAssumption, ConfTypes DEF Sure, Inv
  <2> QED BY <1>1, <1>5, <2>1, Outward
<1> HIDE DEF f, P, out, R, C
<1>6. \A h \in out.links : \E m \in Flying(n)' : m.to = h /\ m.from = g
  <2>1. SUFFICES ASSUME NEW h \in out.links PROVE \E m \in Flying(n)' : m.to = h /\ m.from = g
    OBVIOUS
  <2>2. PICK m \in C : m.to = h /\ m.from = g /\ m.body.type = "frame" /\ m.body.id = n
    BY CopyOn DEF C
  <2> QED BY <1>1, <2>2 DEF Flying
<1>7. ASSUME Sure(c, d, nh) PROVE Reaching(n, d)'
  <2>1. Bound(d, AddrOf(d)) /\ d \in Client /\ \A h \in Gw : class_ok(h, AddrOf(c), AddrOf(d))
    BY <1>7 DEF Sure, Bound
  <2>2. known(peers'[at[d]], d)
    BY <2>1, StillKnown DEF Bound
  <2>3. PICK x, y : x = AddrOf(c) /\ y = AddrOf(d)
    OBVIOUS
  <2>4. Bound(d, y)'
    BY <1>1, <2>1, <2>2, <2>3 DEF Bound, Own
  <2>5. \A h \in Gw : class_ok(h, x, y)'
    BY <1>1, <2>1, <2>3 DEF class_ok
  <2>6. got'[n][d] = 1 \/ \E m \in Flying(n)' : OnWay(m, d)
    BY <1>3, <1>5, <1>6, <1>7, <2>1 DEF OnWay
  <2>7. \A m : OnWay(m, d) => OnWay(m, d)'
    BY <1>1 DEF OnWay
  <2>8. frames'[n].src = x /\ frames'[n].dst = y
    BY <1>2, <1>3, <2>1, <2>3, NameAssumption
  <2> QED BY <2>4, <2>5, <2>6, <2>7, <2>8 DEF Reaching
<1>8. Arrive(n)'
  <2>1. frames'[n].sure => Sure(c, d, nh)
    BY <1>2, <1>3
  <2>2. frames'[n].to = d
    BY <1>2, <1>3
  <2> QED BY <1>7, <2>1, <2>2 DEF Arrive
<1>9. \A x \in Client : at[x] \in Gw /\ inc[x] = 1 /\ known(peers[at[x]], x) => known(peers'[at[x]], x)
  BY StillKnown
<1>10. ASSUME NEW k \in Ids, k # n PROVE Arrive(k)'
  <2>1. \A x : at'[x] = at[x] /\ inc'[x] = inc[x] /\ got'[k][x] = got[k][x]
    BY <1>1, <1>4, <1>10
  <2> QED BY <1>1, <1>4, <1>9, <1>10, <2>1, ArriveKept DEF Arrives
<1> QED BY <1>8, <1>10 DEF Arrives

LEMMA ArriveSendSegment ==
    ASSUME Inv, Topo, [Next]_vars, Arrives, NEW c \in Client, NEW d \in Client \cup {All}, NEW nh \in conf.kinds, SendSegment(c, d, nh)
    PROVE  Arrives'
<1>1. FreeIds # {} /\ at[c] = Segment
  BY DEF SendSegment, Sendable
<1>2. PICK n \in Ids : n = First(FreeIds)
  BY <1>1, FreshId DEF Inv
<1> DEFINE f == FrameOf(c, d, nh)
<1>3. /\ net \subseteq net' /\ frames' = [frames EXCEPT ![n] = f] /\ UNCHANGED <<conf, at, inc>>
      /\ \A k \in Ids : k # n => got'[k] = got[k]
  BY <1>2 DEF SendSegment, Inv, FramesOK
<1>4. f.sure = FALSE
  BY <1>1, Nodes DEF FrameOf, Sure
<1> HIDE DEF f
<1>5. Arrive(n)'
  BY <1>3, <1>4 DEF Arrive, Inv, FramesOK
<1>6. \A x \in Client : at[x] \in Gw /\ inc[x] = 1 /\ known(peers[at[x]], x) => known(peers'[at[x]], x)
  BY StillKnown
<1>7. ASSUME NEW k \in Ids, k # n PROVE Arrive(k)'
  <2>1. Flying(k) \subseteq Flying(k)' /\ frames'[k] = frames[k]
    BY <1>3, <1>7 DEF Flying, Inv, FramesOK
  <2>2. \A x : at'[x] = at[x] /\ inc'[x] = inc[x] /\ got'[k][x] = got[k][x]
    BY <1>3, <1>7
  <2> QED BY <1>3, <1>6, <2>1, <2>2, ArriveKept DEF Arrives
<1> QED BY <1>5, <1>7 DEF Arrives

LEMMA ArriveRecvLinkFrame ==
    ASSUME Inv, Topo, [Next]_vars, Arrives, Spread', NEW m \in net, RecvLinkFrame(m)
    PROVE  Arrives'
<1> DEFINE g == m.to
           n == m.body.id
           f == frames[n]
           out == gw_fed_data(g, m.from, f)
           R == Receivers(f, out)
           C == Copies(g, n, out)
<1>1. /\ m.body.type = "frame" /\ net' = (net \ {m}) \cup C /\ got' = Receive(n, R) /\ UNCHANGED <<conf, at, inc, frames>>
  BY DEF RecvLinkFrame, Takes
<1>2. g \in Gw /\ n \in Ids
  BY <1>1, MessageTypes DEF Inv, NetOK, Sound
<1>3. f \in Frame \cup {NoFrame}
  BY <1>2 DEF Inv, FramesOK
<1>4. \A x \in Client : got'[n][x] = IF x \in R THEN got[n][x] + 1 ELSE got[n][x]
  BY <1>1, <1>2 DEF Inv, FramesOK, Receive
<1>5. \A x \in Client : got'[n][x] <= 1 /\ got[n][x] \in Nat
  BY <1>2 DEF Spread, Once, Inv, FramesOK
<1>6. \A x \in Client : got[n][x] = 1 \/ x \in R => got'[n][x] = 1
  BY <1>4, <1>5
<1>7. \A d : Bound(d, f.dst) /\ d = f.to /\ class_ok(g, f.src, f.dst) =>
         /\ at[d] = g => d \in R
         /\ <<g, at[d]>> \in conf.link /\ at[d] # m.from => d \in R \/ at[d] \in out.links
  <2> HIDE DEF g, f, out
  <2> QED BY <1>2, <1>3, Onward DEF out
<1> HIDE DEF out, R
<1>8. \A h \in out.links : \E x \in Flying(n)' : x.to = h
  <2>1. SUFFICES ASSUME NEW h \in out.links PROVE \E x \in Flying(n)' : x.to = h
    OBVIOUS
  <2>2. PICK x \in C : x.to = h /\ x.body.type = "frame" /\ x.body.id = n
    BY CopyOn
  <2> HIDE DEF C
  <2> QED BY <1>1, <2>2 DEF Flying
<1>9. \A x \in Flying(n) : x # m => x \in Flying(n)'
  BY <1>1 DEF Flying
<1>10. \A x \in Client : at[x] \in Gw /\ inc[x] = 1 /\ known(peers[at[x]], x) => known(peers'[at[x]], x)
  BY StillKnown
<1>11. Arrive(n)'
  <2>1. PICK d, x, y : d = f.to /\ x = f.src /\ y = f.dst
    OBVIOUS
  <2>2. SUFFICES ASSUME f.sure PROVE Reaching(n, d)'
    BY <1>1, <2>1 DEF Arrive
  <2>3. Reaching(n, d) /\ Bound(d, y) /\ \A h \in Gw : class_ok(h, x, y)
    BY <1>2, <2>1, <2>2 DEF Arrives, Arrive, Reaching
  <2>4. Bound(d, y)' /\ \A h \in Gw : class_ok(h, x, y)'
    BY <1>1, <1>10, <2>3 DEF Bound, Own, class_ok
  <2>5. got'[n][d] = 1 \/ \E k \in Flying(n)' : OnWay(k, d)
    <3>1. d \in Client
      BY <2>3 DEF Bound
    <3>2. CASE got[n][d] = 1
      BY <1>6, <3>1, <3>2
    <3>3. ASSUME NEW k \in Flying(n), OnWay(k, d) PROVE got'[n][d] = 1 \/ \E l \in Flying(n)' : OnWay(l, d)
      <4>1. CASE k = m
        <5>1. at[d] = g \/ (<<g, at[d]>> \in conf.link /\ at[d] # m.from)
          BY <3>3, <4>1 DEF OnWay
        <5>2. d \in R \/ at[d] \in out.links
          BY <1>2, <1>7, <2>1, <2>3, <5>1
        <5> QED BY <1>6, <1>8, <3>1, <5>2 DEF OnWay
      <4>2. CASE k # m
        BY <1>9, <3>3, <4>2
      <4> QED BY <4>1, <4>2
    <3> QED BY <2>3, <3>2, <3>3 DEF Reaching
  <2>6. \A k : OnWay(k, d) => OnWay(k, d)'
    BY <1>1 DEF OnWay
  <2>7. frames'[n].src = x /\ frames'[n].dst = y
    BY <1>1, <2>1
  <2> QED BY <2>4, <2>5, <2>6, <2>7 DEF Reaching
<1>12. ASSUME NEW k \in Ids, k # n PROVE Arrive(k)'
  <2>1. Flying(k) \subseteq Flying(k)' /\ frames'[k] = frames[k]
    BY <1>1, <1>12 DEF Flying
  <2>2. \A x : at'[x] = at[x] /\ inc'[x] = inc[x] /\ got'[k][x] = got[k][x]
    BY <1>1, <1>12 DEF Receive, Inv, FramesOK
  <2> QED BY <1>1, <1>10, <2>1, <2>2, ArriveKept DEF Arrives
<1> QED BY <1>11, <1>12 DEF Arrives

\* Only where there is a segment does a frame come from one.
LEMMA ArriveRecvL2Frame ==
    ASSUME Inv, Topo, [Next]_vars, Arrives, NEW m \in net, NEW thr, RecvL2Frame(m, thr)
    PROVE  Arrives'
<1> DEFINE n == m.body.id
<1>1. /\ m.via = "l2" /\ m.body.type = "frame" /\ net \ {m} \subseteq net' /\ UNCHANGED <<conf, at, inc, frames>>
      /\ \A k \in Ids : k # n => got'[k] = got[k]
  BY DEF RecvL2Frame, Takes, Receive, Inv, FramesOK
<1>2. conf.l2 # {}
  BY <1>1, OnTheSegment
<1>3. \A k \in Ids : ~frames[k].sure
  BY <1>2 DEF Arrives, Arrive, Reaching, Bound
<1> QED BY <1>1, <1>3 DEF Arrives, Arrive

\* A frame of which a copy is lost need not arrive any more.
LEMMA ArriveLose == ASSUME Inv, Topo, [Next]_vars, Arrives, NEW m \in net, Lose(m) PROVE Arrives'
<1>1. /\ net' = net \ {m} /\ frames' = IF m.body.type = "frame" THEN [frames EXCEPT ![m.body.id].sure = FALSE] ELSE frames
      /\ UNCHANGED <<conf, at, inc, got>>
  BY DEF Lose
<1>2. \A x \in Client : at[x] \in Gw /\ inc[x] = 1 /\ known(peers[at[x]], x) => known(peers'[at[x]], x)
  BY StillKnown
<1>3. ASSUME NEW k \in Ids PROVE Arrive(k)'
  <2>1. CASE m.body.type = "frame" /\ m.body.id = k
    <3>1. frames'[k].sure = FALSE
      BY <1>1, <2>1 DEF Inv, FramesOK, Frame, NoFrame
    <3> QED BY <3>1 DEF Arrive
  <2>2. CASE ~(m.body.type = "frame" /\ m.body.id = k)
    <3>1. Flying(k) \subseteq Flying(k)' /\ frames'[k] = frames[k]
      BY <1>1, <2>2 DEF Flying, Inv, FramesOK
    <3> QED BY <1>1, <1>2, <3>1, ArriveKept DEF Arrives
  <2> QED BY <2>1, <2>2
<1> QED BY <1>3 DEF Arrives

\* Nor need one whose receiver moves.
LEMMA ArriveMove == ASSUME Inv, Topo, [Next]_vars, Arrives, NEW g \in Gw, NEW c \in Client, Move(c, g) PROVE Arrives'
<1>1. /\ at' = [at EXCEPT ![c] = g] /\ inc' = [inc EXCEPT ![c] = @ + 1] /\ UNCHANGED <<conf, net>>
      /\ frames' = [n \in Ids |-> IF frames[n].to = c THEN [frames[n] EXCEPT !.sure = FALSE] ELSE frames[n]]
      /\ got' = [n \in Ids |-> [got[n] EXCEPT ![c] = 0]]
  BY DEF Move
<1>2. \A x \in Client : at[x] \in Gw /\ inc[x] = 1 /\ known(peers[at[x]], x) => known(peers'[at[x]], x)
  BY StillKnown
<1>3. ASSUME NEW k \in Ids PROVE Arrive(k)'
  <2>1. CASE frames[k].to = c
    <3>1. frames'[k].sure = FALSE
      BY <1>1, <2>1 DEF Inv, FramesOK, Frame, NoFrame
    <3> QED BY <3>1 DEF Arrive
  <2>2. CASE frames[k].to # c
    <3>1. Flying(k) \subseteq Flying(k)' /\ frames'[k] = frames[k]
      BY <1>1, <2>2 DEF Flying
    <3>2. \A x \in Client : x # c => at'[x] = at[x] /\ inc'[x] = inc[x] /\ got'[k][x] = got[k][x]
      BY <1>1 DEF Inv, FramesOK, ClientsOK
    <3>3. frames[k].sure => frames[k].to \in Client
      BY DEF Arrives, Arrive, Reaching, Bound
    <3> QED BY <1>1, <1>2, <2>2, <3>1, <3>2, <3>3, ArriveKept DEF Arrives
  <2> QED BY <2>1, <2>2
<1> QED BY <1>3 DEF Arrives

\* Talk takes no frame.
LEMMA TalkLeaves ==
    ASSUME \/ \E c \in Client, q \in Addr : AskLocal(c, q) \/ AskRoute(c, q) \/ AskMesh(c, q) \/ AskNone(c, q)
           \/ \E m \in net : RecvR(m) \/ RecvLinkQ(m) \/ RecvL2Q(m) \/ RecvRoute(m) \/ RecvAnn(m)
           \/ \E g \in Gw : Announce(g) \/ (\E p \in pend[g] : PendExpire(g, p)) \/ \E i \in DOMAIN routes[g] : RouteExpire(g, i)
    PROVE  \A m \in net : m.body.type = "frame" => m \in net'
<1>1. ASSUME NEW c \in Client, NEW q \in Addr, AskLocal(c, q) \/ AskRoute(c, q) \/ AskMesh(c, q) \/ AskNone(c, q)
      PROVE  net \subseteq net'
  BY <1>1 DEF AskLocal, AskRoute, AskMesh, AskNone, gw_mesh_query
<1>2. ASSUME NEW m \in net, RecvR(m) \/ RecvL2Q(m) \/ RecvRoute(m) \/ RecvAnn(m)
      PROVE  net \ {m} \subseteq net' /\ m.body.type # "frame"
  BY <1>2 DEF RecvR, gw_pend_relay, RecvL2Q, RecvRoute, RecvAnn, Takes
<1>3. ASSUME NEW m \in net, RecvLinkQ(m) PROVE \A x \in net : x.body.type = "frame" => x \in net'
  <2> DEFINE k == [to |-> m.to, from |-> m.from, via |-> "link", body |-> [type |-> "Q", addr |-> m.body.addr]]
  <2>1. m.body.type = "Q" /\ (net \ {m} \subseteq net' \/ net \ {k} \subseteq net')
    <3>1. CASE link_query(m.to, m.from, m.body.addr)
      BY <1>3, <3>1 DEF RecvLinkQ, link_query, Takes
    <3>2. CASE ~link_query(m.to, m.from, m.body.addr)
      BY <1>3, <3>2 DEF RecvLinkQ, Takes
    <3> QED BY <3>1, <3>2
  <2>2. k.body.type = "Q"
    OBVIOUS
  <2> HIDE DEF k
  <2> QED BY <2>1, <2>2
<1>4. ASSUME NEW g \in Gw, Announce(g) PROVE net = {}
  BY <1>4 DEF Announce
<1>5. ASSUME NEW g \in Gw, (\E p \in pend[g] : PendExpire(g, p)) \/ \E i \in DOMAIN routes[g] : RouteExpire(g, i) PROVE net' = net
  BY <1>5 DEF PendExpire, RouteExpire
<1> QED BY <1>1, <1>2, <1>3, <1>4, <1>5

LEMMA ArriveStays ==
    ASSUME Inv, Topo, [Next]_vars, Arrives, UNCHANGED <<conf, at, inc, frames, got>>, \A m \in net : m.body.type = "frame" => m \in net'
    PROVE  Arrives'
<1>1. \A x \in Client : at[x] \in Gw /\ inc[x] = 1 /\ known(peers[at[x]], x) => known(peers'[at[x]], x)
  BY StillKnown
<1>2. \A k \in Ids : Flying(k) \subseteq Flying(k)'
  BY DEF Flying
<1>3. ASSUME NEW k \in Ids PROVE Arrive(k)'
  BY <1>1, <1>2, ArriveKept DEF Arrives
<1> QED BY <1>3 DEF Arrives

LEMMA ArriveStep == ASSUME Inv, Topo, [Next]_vars, Arrives, Spread' PROVE Arrives'
<1>1. CASE UNCHANGED vars
  BY <1>1, ArriveStays DEF vars, frameVars
<1>2. ASSUME NEW c \in Client, NEW d \in Client \cup {All}, NEW nh \in conf.kinds,
             SendSegment(c, d, nh) \/ \E thr \in {{}, {"learn"}, {"bcast"}} : SendTunnel(c, d, nh, thr)
      PROVE  Arrives'
  BY <1>2, ArriveSendTunnel, ArriveSendSegment
<1>3. ASSUME NEW m \in net, RecvLinkFrame(m) \/ Lose(m) \/ \E thr \in {{}, {"learn"}, {"bcast"}} : RecvL2Frame(m, thr)
      PROVE  Arrives'
  BY <1>3, ArriveRecvLinkFrame, ArriveRecvL2Frame, ArriveLose
<1>4. ASSUME NEW g \in Gw, NEW i \in Slot, Age(g, i) PROVE Arrives'
  BY <1>4, ArriveStays DEF Age, frameVars
<1>5. ASSUME NEW g \in Gw, NEW c \in Client, Move(c, g) PROVE Arrives'
  BY <1>5, ArriveMove
<1>6. ASSUME \/ \E c \in Client, q \in Addr : AskLocal(c, q) \/ AskRoute(c, q) \/ AskMesh(c, q) \/ AskNone(c, q)
             \/ \E m \in net : RecvR(m) \/ RecvLinkQ(m) \/ RecvL2Q(m) \/ RecvRoute(m) \/ RecvAnn(m)
             \/ \E g \in Gw : Announce(g) \/ (\E p \in pend[g] : PendExpire(g, p)) \/ \E i \in DOMAIN routes[g] : RouteExpire(g, i)
      PROVE  Arrives'
  BY <1>6, Talk, TalkLeaves, ArriveStays
<1> QED BY <1>1, <1>2, <1>3, <1>4, <1>5, <1>6 DEF Next, Recv

\* In any network of gateways without cycles, of links and segments, whatever is lost,
\* throttled or announced and whoever moves: nobody gets two copies of a frame, who sent it
\* and stayed gets none; and over links that lost none of it, a frame for a client registered
\* at most one gateway away has been received once no copy is left (udp_route, l2_route,
\* gw_fed_data).
THEOREM Delivered == ASSUME \A k \in Confs : WithoutCycles(k) PROVE Spec => []ExactlyOnce
<1> DEFINE IInv == Inv /\ Topo /\ Spread /\ Arrives
<1>1. Init => IInv
  BY InvInit, TopoInit, SpreadInit, ArrivesInit
<1>2. IInv /\ [Next]_vars => IInv'
  <2>1. Inv => WithoutCycles(conf)
    BY DEF Inv
  <2>2. Inv /\ [Next]_vars => Inv'
    BY InvStep
  <2>3. IInv /\ [Next]_vars => Topo'
    BY <2>1, TopoStep
  <2>4. IInv /\ [Next]_vars => Spread'
    BY <2>1, SpreadStep
  <2>5. IInv /\ [Next]_vars => Arrives'
    BY <2>4, ArriveStep
  <2> QED BY <2>2, <2>3, <2>4, <2>5
<1>3. IInv => ExactlyOnce
  BY OnceGives
<1> QED BY <1>1, <1>2, <1>3, PTL DEF Spec
=============================================================================
