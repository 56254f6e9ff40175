------------------------------- MODULE Gateway -------------------------------
(***************************************************************************)
(* ipv69gw (c/src/IPv69/ipv69gw.c): gateways that join the UDP tunnels of   *)
(* their clients, a local L2 segment and links to other gateways.  Each     *)
(* keeps the peers it has authenticated, the neighbours it has heard on the *)
(* segment, the queries it has passed on and the routes its links told it.  *)
(*                                                                          *)
(* A client is its key, and its MAC is its own; its address need not be:    *)
(* `recv <addr> --remote` takes any, and leases change hands.  The program  *)
(* behind an endpoint has one address.  Every prefix is 40.                 *)
(* What a client sends reaches its gateway in the step that sends it: a     *)
(* datagram lost on that hop is one not sent.  Between gateways datagrams   *)
(* are a set: delayed, overtaken and, conf.faults times, lost.              *)
(***************************************************************************)
EXTENDS Integers, Sequences, FiniteSets, Least

CONSTANTS
    Gw,           \* gateways
    Client,       \* clients
    Addr,         \* addresses
    NoOne,        \* no client, no address
    All,          \* the broadcast MAC and address
    Segment,      \* where a client is that sits on the L2 segment
    Away,         \* where a client is that takes no part
    MaxFlying,    \* bound: frames of clients in flight at once
    Confs,        \* how the gateways may be started: see Conf
    MaxPeers,     \* MAX_PEERS of the peer table, 256
    MaxRoutes,    \* MAX_PEERS of the route table, 256
    MaxMoves      \* bound: clients that get another endpoint

VARIABLES
    conf,         \* the command lines
    \* gateway g
    peers,        \* peers[0 .. MAX_PEERS-1]
    neigh,        \* gwn[0 .. n_gwn-1]
    pend,         \* gwp[0 .. n_gwp-1]
    routes,       \* routes[0 .. n_routes-1]
    \* clients
    at,           \* [Client -> the gateway it sends to, Segment or Away]
    inc,          \* [Client -> number of its present endpoint]
    asked,        \* every QUERY sent: from which endpoint, for which address
    answers,      \* every "E69" answer that reached an endpoint
    calls,        \* every GW_CALL that reached an endpoint
    frames,       \* [Ids -> the last frame sent under that number]
    got,          \* [Ids -> [Client -> copies of it received]]
    \* environment
    net, moves, faults

gwVars == <<peers, neigh, pend, routes>>
askVars == <<asked, answers, calls>>
frameVars == <<frames, got>>
vars == <<conf, gwVars, at, inc, askVars, frameVars, net, moves, faults>>

Slot == 1 .. MaxPeers
Ids == 1 .. MaxFlying
Endpoint == Client \X (1 .. MaxMoves + 1)
NoEp == <<>>                                  \* slen == 0
PeerEntry == [id : Client \cup {NoOne}, addr : Addr \cup {NoOne}, ep : Endpoint \cup {NoEp}, old : BOOLEAN]
Unused == [id |-> NoOne, addr |-> NoOne, ep |-> NoEp, old |-> FALSE]
Pending == [addr : Addr, asker : Endpoint \cup Gw]
Route == [addr : Addr, ep : Endpoint, li : Gw]

\* --peer-gw links (both ends), --iface, --peer (key and address), --private; where the clients
\* are and the address each uses at each of its endpoints; the addresses of class A or B and
\* those with a zero byte in them; room for pending queries (16); bounds on the frames the
\* clients send and have in flight, on their moves and queries, and on the datagrams that are
\* lost, late or throttled by rate_allow.
Conf == [link : SUBSET (Gw \X Gw), l2 : SUBSET Gw, auth : SUBSET (Client \X Addr), allow_private : SUBSET Gw,
         at : [Client -> Gw \cup {Segment, Away}], addr : [Endpoint -> Addr],
         private : SUBSET Addr, zero : SUBSET Addr,
         kinds : SUBSET {"control", "stream", "dgram"}, flying : Ids,
         room : Nat, moves : 0 .. MaxMoves, asks : Nat, faults : Nat]

ASSUME ConfAssumption == \A k \in Confs : k \in Conf /\ \A e \in k.link : <<e[2], e[1]>> \in k.link
ASSUME NameAssumption == NoOne # All /\ {NoOne, All} \cap (Client \cup Addr) = {} /\ Gw \cap {Segment, Away} = {} /\ Gw \cap Endpoint = {}
ASSUME SizeAssumption == MaxFlying \in Nat /\ MaxPeers \in Nat /\ MaxRoutes \in Nat /\ MaxMoves \in Nat

\* nh: "control" is a signed ND announce, "stream" an ICSP INIT, "dgram" data.
\* from and to are whose MACs it carries, src and dst the addresses.
Frame == [from : Client, to : Client \cup {All}, src : Addr, dst : Addr \cup {All},
          nh : {"control", "stream", "dgram"}, sure : BOOLEAN]
NoFrame == [from |-> NoOne, to |-> All, src |-> NoOne, dst |-> All, nh |-> "dgram", sure |-> FALSE]
Body == [type : {"frame"}, id : Ids] \cup [type : {"ANN"}] \cup [type : {"Q"}, addr : Addr]
        \cup [type : {"R", "ROUTE"}, addr : Addr, ep : Endpoint]
Message == [to : Gw, from : Gw \cup {Segment}, via : {"link", "l2"}, body : Body]

TypeOK ==
    /\ conf \in Confs
    /\ peers \in [Gw -> [Slot -> PeerEntry]] /\ neigh \in [Gw -> SUBSET Gw]
    /\ pend \in [Gw -> SUBSET Pending] /\ \A g \in Gw : Cardinality(pend[g]) <= conf.room
    /\ routes \in [Gw -> Seq(Route)] /\ \A g \in Gw : Len(routes[g]) <= MaxRoutes
    /\ at \in [Client -> Gw \cup {Segment, Away}] /\ inc \in [Client -> 1 .. MaxMoves + 1]
    /\ asked \subseteq [ep : Endpoint, addr : Addr, sure : BOOLEAN]
    /\ answers \subseteq [to : Endpoint, addr : Addr \cup {NoOne}, ep : Endpoint \cup {NoEp}]
    /\ calls \subseteq [to : Endpoint, who : Addr, ep : Endpoint]
    /\ frames \in [Ids -> Frame \cup {NoFrame}] /\ got \in [Ids -> [Client -> Nat]]
    /\ net \subseteq Message /\ moves \in Nat /\ faults \in Nat

Init ==
    /\ conf \in Confs
    /\ peers = [g \in Gw |-> [i \in Slot |-> Unused]] /\ neigh = [g \in Gw |-> {}]
    /\ pend = [g \in Gw |-> {}] /\ routes = [g \in Gw |-> <<>>]
    /\ at = conf.at /\ inc = [c \in Client |-> 1] /\ asked = {} /\ answers = {} /\ calls = {}
    /\ frames = [n \in Ids |-> NoFrame] /\ got = [n \in Ids |-> [c \in Client |-> 0]]
    /\ net = {} /\ moves = 0 /\ faults = 0

EpOf(c) == <<c, inc[c]>>
AddrOf(c) == conf.addr[EpOf(c)]
Links(g) == {h \in Gw : <<g, h>> \in conf.link}       \* glink[0 .. n_glink-1]
OnL2(g) == g \in conf.l2                              \* l2fd >= 0

-----------------------------------------------------------------------------
(* The peer table; P is a gateway's table, or what a handler made of it.     *)

used(P) == {i \in Slot : P[i].id # NoOne}
peer_find(P, c) == {i \in Slot : P[i].id = c}             \* by key, or by MAC
known(P, c) == peer_find(P, c) # {}
peer_find_addr(P, a) == {i \in used(P) : P[i].addr = a}
peer_find_endpoint(P, ep) == {i \in used(P) : P[i].ep = ep}
reusable(P) == {i \in Slot : P[i].id = NoOne \/ P[i].old}
EpIn(P, S) == P[First(S)].ep

\* Mutant: a key on the list may use any address.
auth_allowed_key(c, a) == conf.auth = {} \/ \E b \in Addr : <<c, b>> \in conf.auth

\* Without --peer any key may have any address.
auth_allowed(c, a) == conf.auth = {} \/ <<c, a>> \in conf.auth

Entry(c, a, ep) == [id |-> c, addr |-> a, ep |-> ep, old |-> FALSE]

\* Mutant: a peer is looked up by its endpoint, not by its key.
peer_learn_by_ep(P, c, a, ep) ==
    IF peer_find_endpoint(P, ep) # {} THEN [P EXCEPT ![First(peer_find_endpoint(P, ep))] = Entry(c, a, ep)]
    ELSE IF reusable(P) # {} THEN [P EXCEPT ![First(reusable(P))] = Entry(c, a, ep)]
    ELSE P

\* A peer's address and endpoint are the last it was heard with; a new peer takes the first
\* slot that is unused or has been silent for PEER_TIMEOUT.
peer_learn_auth(P, c, a, ep) ==
    IF known(P, c) THEN [P EXCEPT ![First(peer_find(P, c))] = Entry(c, a, ep)]
    ELSE IF reusable(P) # {} THEN [P EXCEPT ![First(reusable(P))] = Entry(c, a, ep)]
    ELSE P

\* gw_learn_init and gw_learn_announce; throttled is rate_allow saying no.
Learned(g, f, ep, throttled) ==
    IF f.nh # "dgram" /\ auth_allowed(f.from, f.src) /\ ~throttled
    THEN peer_learn_auth(peers[g], f.from, f.src, ep) ELSE peers[g]

\* Whose address it is does not matter.
gw_src_ok(P, f) == f.nh # "dgram" \/ peer_find_addr(P, f.src) # {}

\* Mutant: only the source's class is looked at.
class_src_only(g, src, dst) == g \in conf.allow_private \/ src \notin conf.private

class_ok(g, src, dst) == g \in conf.allow_private \/ {src, dst} \cap conf.private = {}

-----------------------------------------------------------------------------
(* Routes of the links.                                                      *)

route_find(g, a) == {i \in DOMAIN routes[g] : routes[g][i].addr = a}
RouteTo(g, a) == routes[g][First(route_find(g, a))]

\* A route already known from that link is refreshed: its endpoint stays what it was.
route_learn(g, r) ==
    IF (\E i \in DOMAIN routes[g] : routes[g][i].addr = r.addr /\ routes[g][i].li = r.li) \/ Len(routes[g]) >= MaxRoutes
    THEN routes[g] ELSE Append(routes[g], r)

\* routes[i] = routes[--n_routes]
SwapRemove(s, i) == [j \in 1 .. Len(s) - 1 |-> IF j = i THEN s[Len(s)] ELSE s[j]]

-----------------------------------------------------------------------------
(* Where a handler sends a frame: endpoints, the segment, links.             *)

Out(eps, l2, links) == [eps |-> eps \ {NoEp}, l2 |-> l2, links |-> links]
Drop == Out({}, FALSE, {})

\* Mutant: no split horizon between tunnels.
Tunnels_all(P, but) == {P[i].ep : i \in used(P)}

Tunnels(P, but) == {P[i].ep : i \in used(P)} \ {but}

\* The peer a frame is for: by MAC first, then by address.
peer_for(P, f) == IF known(P, f.to) THEN peer_find(P, f.to) ELSE peer_find_addr(P, f.dst)
EpFor(P, f) == EpIn(P, peer_for(P, f))

\* From a tunnel, after learning: the class filter, then broadcast with split horizon,
\* then the peer, the segment, the route, every link.
udp_route(g, P, f, ep) ==
    IF ~gw_src_ok(P, f) \/ ~class_ok(g, f.src, f.dst) THEN Drop
    ELSE IF f.to = All THEN Out(Tunnels(P, ep), OnL2(g), Links(g))
    ELSE IF peer_for(P, f) # {} THEN Out({EpFor(P, f)}, EpFor(P, f) = NoEp /\ OnL2(g), {})
    ELSE IF OnL2(g) THEN Out({}, TRUE, {})
    ELSE IF route_find(g, f.dst) # {} THEN Out({}, FALSE, {RouteTo(g, f.dst).li})
    ELSE Out({}, FALSE, Links(g))

\* Mutant: no split horizon between links.
gw_fed_data_back(g, from, f) ==
    IF ~class_ok(g, f.src, f.dst) THEN Drop
    ELSE IF f.to = All THEN Out(Tunnels(peers[g], NoEp), FALSE, {})
    ELSE IF peer_for(peers[g], f) # {} /\ EpFor(peers[g], f) # NoEp THEN Out({EpFor(peers[g], f)}, FALSE, {})
    ELSE IF peer_for(peers[g], f) # {} /\ OnL2(g) THEN Out({}, TRUE, {})
    ELSE Out({}, FALSE, Links(g))

\* From a link: broadcast goes to the tunnels only, and nothing goes back.
gw_fed_data(g, from, f) ==
    IF ~class_ok(g, f.src, f.dst) THEN Drop
    ELSE IF f.to = All THEN Out(Tunnels(peers[g], NoEp), FALSE, {})
    ELSE IF peer_for(peers[g], f) # {} /\ EpFor(peers[g], f) # NoEp THEN Out({EpFor(peers[g], f)}, FALSE, {})
    ELSE IF peer_for(peers[g], f) # {} /\ OnL2(g) THEN Out({}, TRUE, {})
    ELSE IF route_find(g, f.dst) # {} /\ RouteTo(g, f.dst).li # from THEN Out({}, FALSE, {RouteTo(g, f.dst).li})
    ELSE Out({}, FALSE, Links(g) \ {from})

\* From the segment, after the class filter and learning.
Flooded(P, f) == f.to = All \/ ~known(P, f.to)
l2_route(P, g, f) ==
    IF ~gw_src_ok(P, f) THEN Drop
    ELSE IF Flooded(P, f) THEN Out(Tunnels(P, NoEp), FALSE, Links(g))
    ELSE Out({EpIn(P, peer_find(P, f.to))}, FALSE, {})

\* Control or data on the segment and on links.
OnSegment(from, b) == {[to |-> h, from |-> from, via |-> "l2", body |-> b] : h \in conf.l2 \ {from}}
OnLinks(g, S, b) == {[to |-> h, from |-> g, via |-> "link", body |-> b] : h \in S}

\* A copy is received at a present endpoint, or on the segment by whom it is for.
Natives(f) == {c \in Client : at[c] = Segment /\ c # f.from /\ f.to \in {c, All}}
Receivers(f, out) == {c \in Client : EpOf(c) \in out.eps} \cup (IF out.l2 THEN Natives(f) ELSE {})
Copies(g, n, out) ==
    (IF out.l2 THEN OnSegment(g, [type |-> "frame", id |-> n]) ELSE {}) \cup OnLinks(g, out.links, [type |-> "frame", id |-> n])
Receive(n, cs) == [got EXCEPT ![n] = [c \in Client |-> IF c \in cs THEN @[c] + 1 ELSE @[c]]]

\* gw_route_announce: every peer with an endpoint, to every link.
Announced(g, P) ==
    UNION {OnLinks(g, Links(g), [type |-> "ROUTE", addr |-> P[i].addr, ep |-> P[i].ep]) : i \in {j \in used(P) : P[j].ep # NoEp}}

\* A slot that changed hands sets routes_dirty: the loop announces the routes before it
\* takes another datagram.
Refreshed(g, P) == IF \E i \in Slot : P[i].id # peers[g][i].id THEN Announced(g, P) ELSE {}

-----------------------------------------------------------------------------
(* Clients send.                                                             *)

Flying(n) == {m \in net : m.body.type = "frame" /\ m.body.id = n}
FreeIds == {n \in 1 .. conf.flying : Flying(n) = {}}

\* At most one gateway is between the two.
Near(g, h) == g = h \/ h \in Links(g) \/ Links(g) \cap Links(h) # {}

\* Nobody else uses d's address.
Own(d, a) == \A e \in Endpoint : conf.addr[e] = a => e[1] = d

\* A frame that has to arrive: links only, and a destination that has never moved, is
\* registered at its gateway and has its address for itself.
Sure(c, d, nh) ==
    /\ conf.l2 = {} /\ d \in Client /\ at[c] \in Gw /\ at[d] \in Gw /\ Near(at[c], at[d])
    /\ inc[d] = 1 /\ known(peers[at[d]], d) /\ Own(d, AddrOf(d))
    /\ nh # "dgram" \/ peer_find_addr(peers[at[c]], AddrOf(c)) # {}
    /\ \A g \in Gw : class_ok(g, AddrOf(c), AddrOf(d))

FrameOf(c, d, nh) ==
    [from |-> c, to |-> d, src |-> AddrOf(c), dst |-> IF d = All THEN All ELSE AddrOf(d),
     nh |-> nh, sure |-> Sure(c, d, nh)]
Sendable(c, d, nh) ==
    /\ d # c /\ (d # All => AddrOf(d) # AddrOf(c)) /\ FreeIds # {}
    /\ nh \in IF d = All THEN {"control", "dgram"} ELSE {"stream", "dgram"}

Throttle(thr) == faults' = IF thr = {} THEN faults ELSE faults + 1

\* A datagram from a tunnel, the data part of the UDP side.
SendTunnel(c, d, nh, thr) ==
    LET f == FrameOf(c, d, nh)
        n == First(FreeIds)
        g == at[c]
        P == Learned(g, f, EpOf(c), "learn" \in thr)
        out == IF "bcast" \in thr /\ d = All THEN Drop ELSE udp_route(g, P, f, EpOf(c))
    IN /\ at[c] \in Gw /\ Sendable(c, d, nh)
       /\ peers' = [peers EXCEPT ![g] = P]
       /\ net' = net \cup Copies(g, n, out) \cup Refreshed(g, P)
       /\ frames' = [frames EXCEPT ![n] = f]
       /\ got' = [got EXCEPT ![n] = [x \in Client |-> IF x \in Receivers(f, out) THEN 1 ELSE 0]]
       /\ Throttle(thr)
       /\ UNCHANGED <<conf, neigh, pend, routes, at, inc, askVars, moves>>

\* A host of the segment sends.
SendSegment(c, d, nh) ==
    LET f == FrameOf(c, d, nh)
        n == First(FreeIds)
    IN /\ at[c] = Segment /\ Sendable(c, d, nh)
       /\ net' = net \cup OnSegment(Segment, [type |-> "frame", id |-> n])
       /\ frames' = [frames EXCEPT ![n] = f]
       /\ got' = [got EXCEPT ![n] = [x \in Client |-> IF x \in Natives(f) THEN 1 ELSE 0]]
       /\ UNCHANGED <<conf, gwVars, at, inc, askVars, moves, faults>>

-----------------------------------------------------------------------------
(* QUERY.                                                                    *)

\* The text of an answer is cut or shifted by a zero byte of the address: the asker does
\* not recognise it.
Answer(ep, q, e) == [to |-> ep, addr |-> IF q \in conf.zero THEN NoOne ELSE q, ep |-> e]

WhereIs(g, q) == EpIn(peers[g], peer_find_addr(peers[g], q))
local(g, q) == peer_find_addr(peers[g], q) # {} /\ WhereIs(g, q) # NoEp

\* gw_mesh_query: once per address, and asked even if there is no room to remember it.
gw_mesh_query(g, q, ep) ==
    IF \E p \in pend[g] : p.addr = q
    THEN UNCHANGED <<pend, net>>
    ELSE /\ pend' = IF Cardinality(pend[g]) < conf.room THEN [pend EXCEPT ![g] = @ \cup {[addr |-> q, asker |-> ep]}] ELSE pend
         /\ net' = net \cup (IF neigh[g] # {} THEN OnSegment(g, [type |-> "Q", addr |-> q]) ELSE {})
                       \cup OnLinks(g, Links(g), [type |-> "Q", addr |-> q])

Registered(c) == peer_find_endpoint(peers[at[c]], EpOf(c)) # {}
Asker(c) == peers[at[c]][First(peer_find_endpoint(peers[at[c]], EpOf(c)))]

\* A query that has to be answered: the first one, by a registered client, for the address of
\* one who alone has it, never moved and is registered over links alone, or on a segment
\* already announced.
SureAsk(c, q) ==
    /\ asked = {} /\ Registered(c) /\ q \notin conf.zero /\ class_ok(at[c], Asker(c).addr, q)
    /\ \E d \in Client :
          /\ AddrOf(d) = q /\ Own(d, q) /\ at[d] \in Gw /\ local(at[d], q) /\ inc[d] = 1
          /\ \/ conf.l2 = {} /\ Near(at[c], at[d])
             \/ {at[c], at[d]} \subseteq conf.l2 /\ neigh[at[c]] # {}

Asking(c, q) ==
    /\ at[c] \in Gw /\ q # AddrOf(c) /\ Cardinality(asked) < conf.asks
    /\ asked' = asked \cup {[ep |-> EpOf(c), addr |-> q, sure |-> SureAsk(c, q)]}
Routed(g, q) == ~local(g, q) /\ route_find(g, q) # {}
Meshed(g, q) == ~local(g, q) /\ route_find(g, q) = {} /\ (neigh[g] # {} \/ Links(g) # {})

\* The target is a client of this gateway: it is told who asked.
AskLocal(c, q) ==
    /\ Asking(c, q) /\ Registered(c) /\ local(at[c], q) /\ class_ok(at[c], Asker(c).addr, q)
    /\ answers' = answers \cup {Answer(EpOf(c), q, WhereIs(at[c], q))}
    /\ calls' = calls \cup {[to |-> WhereIs(at[c], q), who |-> Asker(c).addr, ep |-> EpOf(c)]}
    /\ UNCHANGED <<conf, gwVars, at, inc, frameVars, net, moves, faults>>

AskRoute(c, q) ==
    /\ Asking(c, q) /\ Registered(c) /\ Routed(at[c], q) /\ class_ok(at[c], Asker(c).addr, q)
    /\ answers' = answers \cup {Answer(EpOf(c), q, RouteTo(at[c], q).ep)}
    /\ UNCHANGED <<conf, gwVars, at, inc, calls, frameVars, net, moves, faults>>

AskMesh(c, q) ==
    /\ Asking(c, q) /\ Registered(c) /\ Meshed(at[c], q)
    /\ gw_mesh_query(at[c], q, EpOf(c))
    /\ UNCHANGED <<conf, peers, neigh, routes, at, inc, answers, calls, frameVars, moves, faults>>

\* "-"
AskNone(c, q) ==
    /\ Asking(c, q)
    /\ Registered(c) => ~(Meshed(at[c], q) \/ ((local(at[c], q) \/ Routed(at[c], q)) /\ class_ok(at[c], Asker(c).addr, q)))
    /\ answers' = answers \cup {Answer(EpOf(c), q, NoEp)}
    /\ UNCHANGED <<conf, gwVars, at, inc, calls, frameVars, net, moves, faults>>

-----------------------------------------------------------------------------
(* A gateway takes a datagram of a link or a frame of the segment.           *)

Takes(m, out) == net' = (net \ {m}) \cup out

\* GW_R: back to the link or the client that asked for this address, if any did.
gw_pend_relay(m) ==
    LET g == m.to
        E == {p \in pend[g] : p.addr = m.body.addr}
    IN /\ IF E = {} THEN Takes(m, {}) /\ UNCHANGED <<pend, answers>>
          ELSE \E p \in E :
                 /\ pend' = [pend EXCEPT ![g] = @ \ {p}]
                 /\ Takes(m, IF p.asker \in Gw THEN OnLinks(g, {p.asker}, m.body) ELSE {})
                 /\ answers' = IF p.asker \in Gw THEN answers ELSE answers \cup {Answer(p.asker, m.body.addr, m.body.ep)}

RecvR(m) ==
    /\ m.body.type = "R" /\ gw_pend_relay(m)
    /\ UNCHANGED <<conf, peers, neigh, routes, at, inc, asked, calls, frameVars, moves, faults>>

\* Mutant: the next gateway is asked, and who asked is not remembered.
link_query_forget(g, from, q) ==
    /\ UNCHANGED pend
    /\ net' = (net \ {[to |-> g, from |-> from, via |-> "link", body |-> [type |-> "Q", addr |-> q]]})
              \cup OnLinks(g, Links(g) \ {from}, [type |-> "Q", addr |-> q])

\* The next gateways are asked, once per address and only if there is room to remember.
link_query(g, from, q) ==
    LET m == [to |-> g, from |-> from, via |-> "link", body |-> [type |-> "Q", addr |-> q]]
    IN IF (\E p \in pend[g] : p.addr = q) \/ Cardinality(pend[g]) >= conf.room
       THEN Takes(m, {}) /\ UNCHANGED pend
       ELSE /\ pend' = [pend EXCEPT ![g] = @ \cup {[addr |-> q, asker |-> from]}]
            /\ Takes(m, OnLinks(g, Links(g) \ {from}, m.body))

\* GW_Q on a link.  A peer of the segment is neither answered for nor asked for.
RecvLinkQ(m) ==
    LET g == m.to
        q == m.body.addr
    IN /\ m.via = "link" /\ m.body.type = "Q"
       /\ IF local(g, q)
          THEN Takes(m, OnLinks(g, {m.from}, [type |-> "R", addr |-> q, ep |-> WhereIs(g, q)])) /\ UNCHANGED pend
          ELSE IF peer_find_addr(peers[g], q) = {} /\ Cardinality(Links(g)) > 1
          THEN link_query(g, m.from, q)
          ELSE Takes(m, {}) /\ UNCHANGED pend
       /\ UNCHANGED <<conf, peers, neigh, routes, at, inc, askVars, frameVars, moves, faults>>

\* GW_Q on the segment: answered there, never passed on to links.
RecvL2Q(m) ==
    LET g == m.to
        q == m.body.addr
    IN /\ m.via = "l2" /\ m.body.type = "Q"
       /\ Takes(m, IF local(g, q) THEN OnSegment(g, [type |-> "R", addr |-> q, ep |-> WhereIs(g, q)]) ELSE {})
       /\ UNCHANGED <<conf, gwVars, at, inc, askVars, frameVars, moves, faults>>

RecvRoute(m) ==
    /\ m.body.type = "ROUTE"
    /\ routes' = [routes EXCEPT ![m.to] = route_learn(m.to, [addr |-> m.body.addr, ep |-> m.body.ep, li |-> m.from])]
    /\ Takes(m, {})
    /\ UNCHANGED <<conf, peers, neigh, pend, at, inc, askVars, frameVars, moves, faults>>

RecvAnn(m) ==
    /\ m.body.type = "ANN"
    /\ neigh' = [neigh EXCEPT ![m.to] = @ \cup {m.from}]
    /\ Takes(m, {})
    /\ UNCHANGED <<conf, peers, pend, routes, at, inc, askVars, frameVars, moves, faults>>

RecvLinkFrame(m) ==
    LET g == m.to
        f == frames[m.body.id]
        out == gw_fed_data(g, m.from, f)
    IN /\ m.via = "link" /\ m.body.type = "frame"
       /\ Takes(m, Copies(g, m.body.id, out))
       /\ got' = Receive(m.body.id, Receivers(f, out))
       /\ UNCHANGED <<conf, gwVars, at, inc, askVars, frames, moves, faults>>

\* The segment's side of the loop: the class filter comes before learning.
RecvL2Frame(m, thr) ==
    LET g == m.to
        f == frames[m.body.id]
        pass == class_ok(g, f.src, f.dst)
        P == IF pass THEN Learned(g, f, NoEp, "learn" \in thr) ELSE peers[g]
        out == IF ~pass \/ ("bcast" \in thr /\ Flooded(P, f)) THEN Drop ELSE l2_route(P, g, f)
    IN /\ m.via = "l2" /\ m.body.type = "frame"
       /\ peers' = [peers EXCEPT ![g] = P]
       /\ Takes(m, Copies(g, m.body.id, out) \cup Refreshed(g, P))
       /\ got' = Receive(m.body.id, Receivers(f, out))
       /\ Throttle(thr)
       /\ UNCHANGED <<conf, neigh, pend, routes, at, inc, askVars, frames, moves>>

Recv(m) ==
    \/ RecvR(m) \/ RecvLinkQ(m) \/ RecvL2Q(m) \/ RecvRoute(m) \/ RecvAnn(m)
    \/ RecvLinkFrame(m) \/ RecvL2Frame(m, {})

-----------------------------------------------------------------------------
(* Timers, moves and faults.                                                 *)

\* Every 30 s, long after the last datagram has settled: GW_ANN on the segment, routes on
\* the links.  (GW_ANN on a link only dates the link's last authentication, which nothing reads.)
Announce(g) ==
    /\ net = {}
    /\ net' = (IF OnL2(g) THEN OnSegment(g, [type |-> "ANN"]) ELSE {}) \cup Announced(g, peers[g])
    /\ net' # {}
    /\ UNCHANGED <<conf, gwVars, at, inc, askVars, frameVars, moves, faults>>

Asks(q) == {m \in net : m.body.type \in {"Q", "R"} /\ m.body.addr = q}

\* 2 s: an answer that comes at all comes before, unless the network is slow.
PendExpire(g, p) ==
    /\ pend' = [pend EXCEPT ![g] = @ \ {p}]
    /\ faults' = IF Asks(p.addr) = {} THEN faults ELSE faults + 1
    /\ UNCHANGED <<conf, peers, neigh, routes, at, inc, askVars, frameVars, net, moves>>

\* 90 s without a refresh: the owner no longer announces the route.
RouteExpire(g, i) ==
    /\ \A j \in peer_find_addr(peers[routes[g][i].li], routes[g][i].addr) : EpIn(peers[routes[g][i].li], {j}) = NoEp
    /\ routes' = [routes EXCEPT ![g] = SwapRemove(@, i)]
    /\ UNCHANGED <<conf, peers, neigh, pend, at, inc, askVars, frameVars, net, moves, faults>>

\* PEER_TIMEOUT passes for a peer that no longer sends to this gateway.
Age(g, i) ==
    /\ i \in used(peers[g]) /\ ~peers[g][i].old /\ at[peers[g][i].id] # g
    /\ peers' = [peers EXCEPT ![g][i].old = TRUE]
    /\ UNCHANGED <<conf, neigh, pend, routes, at, inc, askVars, frameVars, net, moves, faults>>

\* A client gets another endpoint, at this gateway or another one.
Move(c, g) ==
    /\ moves < conf.moves /\ moves' = moves + 1
    /\ at[c] \in Gw /\ at' = [at EXCEPT ![c] = g]
    /\ inc' = [inc EXCEPT ![c] = @ + 1]
    /\ frames' = [n \in Ids |-> IF frames[n].to = c THEN [frames[n] EXCEPT !.sure = FALSE] ELSE frames[n]]
    /\ got' = [n \in Ids |-> [got[n] EXCEPT ![c] = 0]]
    /\ UNCHANGED <<conf, gwVars, askVars, net, faults>>

Lose(m) ==
    /\ faults' = faults + 1
    /\ net' = net \ {m}
    /\ frames' = IF m.body.type = "frame" THEN [frames EXCEPT ![m.body.id].sure = FALSE] ELSE frames
    /\ UNCHANGED <<conf, gwVars, at, inc, askVars, got, moves>>

Quiet(p) == Asks(p.addr) = {} \/ faults < conf.faults

Next ==
    \/ \E c \in Client, d \in Client \cup {All}, nh \in conf.kinds :
          \/ SendTunnel(c, d, nh, {}) \/ SendSegment(c, d, nh)
          \/ faults < conf.faults /\ \E thr \in {{"learn"}, {"bcast"}} : SendTunnel(c, d, nh, thr)
    \/ \E c \in Client, q \in Addr : AskLocal(c, q) \/ AskRoute(c, q) \/ AskMesh(c, q) \/ AskNone(c, q)
    \/ \E m \in net :
          \/ Recv(m)
          \/ faults < conf.faults /\ (Lose(m) \/ \E thr \in {{"learn"}, {"bcast"}} : RecvL2Frame(m, thr))
    \/ \E g \in Gw :
          \/ Announce(g)
          \/ \E p \in pend[g] : Quiet(p) /\ PendExpire(g, p)
          \/ \E i \in DOMAIN routes[g] : RouteExpire(g, i)
          \/ \E i \in Slot : Age(g, i)
          \/ \E c \in Client : Move(c, g)

Spec == Init /\ [][Next]_vars

\* The loop of every gateway goes on taking datagrams.
FairSpec ==
    /\ Spec
    /\ WF_vars(\E q \in Addr : \E m \in Asks(q) : Recv(m))
    /\ \A n \in Ids : WF_vars(\E m \in Flying(n) : Recv(m))

-----------------------------------------------------------------------------
(* Properties.                                                               *)

\* A key has one slot of the peer table, an address one pending query, and an address one
\* route of each link (peer_learn_auth, gw_mesh_query and gw_fed_handle, route_learn).
Keyed ==
    \A g \in Gw :
        /\ \A i, j \in used(peers[g]) : peers[g][i].id = peers[g][j].id => i = j
        /\ \A p, r \in pend[g] : p.addr = r.addr => p = r
        /\ \A i, j \in DOMAIN routes[g] :
              routes[g][i].addr = routes[g][j].addr /\ routes[g][i].li = routes[g][j].li => i = j

\* Was announced from there, with a key that may have it: which in open mode is any key.
Announces(ep, a) == conf.addr[ep] = a /\ (conf.auth = {} \/ <<ep[1], a>> \in conf.auth)

\* An answer reaches only an endpoint that asked for that address, through however many
\* gateways it came, and names an endpoint whose client announced the address with a key that
\* is allowed it, not one that had it before or that a list refuses; who is called announced
\* the address that was asked for, and is told an endpoint of the asker and its address
\* (QUERY, gw_pend_relay, GW_CALL).
Introductions ==
    /\ \A a \in answers : a.addr # NoOne =>
          /\ \E k \in asked : k.ep = a.to /\ k.addr = a.addr
          /\ a.ep # NoEp => Announces(a.ep, a.addr)
    /\ \A l \in calls :
          /\ Announces(l.ep, l.who)
          /\ \E k \in asked : k.ep = l.ep /\ Announces(l.to, k.addr)

\* A segment is one node of the network, which its gateways are connected to.
Node == Gw \cup {Segment}
Adjacent(k, x, y) == <<x, y>> \in k.link \/ (x = Segment /\ y \in k.l2) \/ (y = Segment /\ x \in k.l2)

\* What is reached from y without passing between x and y.
Side(k, x, y) ==
    {z \in Node : \A S \in SUBSET Node :
        y \in S /\ (\A u \in S, v \in Node : Adjacent(k, u, v) /\ {u, v} # {x, y} => v \in S) => z \in S}

WithoutCycles(k) == \A x, y \in Node : Adjacent(k, x, y) => x \notin Side(k, x, y)

\* In a network of gateways without cycles nobody gets two copies of a frame, and who sent it
\* and stayed gets none (split horizon, on links and on the segment); and a frame for a
\* registered client that has not moved, sent over links none of which lost it, has been
\* received once no copy is left in flight (flooding and routes reach it).
ExactlyOnce ==
    \A n \in Ids :
        /\ \A c \in Client : got[n][c] <= 1 /\ (c = frames[n].from /\ inc[c] = 1 => got[n][c] = 0)
        /\ frames[n].sure /\ Flying(n) = {} => got[n][frames[n].to] = 1

\* A frame from or to a class A or B address is received only behind gateways with
\* --private: neither the sender's gateway nor the receiver's lets it cross otherwise.
Confined ==
    \A n \in Ids, c \in Client :
        got[n][c] > 0 /\ moves = 0 /\ {frames[n].src, frames[n].dst} \cap conf.private # {}
            => {at[c], at[frames[n].from]} \cap Gw \subseteq conf.allow_private

\* No frame circulates for ever (there is no hop count to stop it).
DataDrains == \A n \in Ids : []<>(Flying(n) = {})

Unanswered ==
    \E k \in asked : k.sure /\ \A e \in Endpoint : conf.addr[e] = k.addr => [to |-> k.ep, addr |-> k.addr, ep |-> e] \notin answers

\* The first query, if the client asked for is registered within reach and stays, and no
\* datagram is lost or late, is answered with its endpoint: from the table, from a route,
\* over the segment or from gateway to gateway and back.
QueryResolves ==
    Unanswered ~> ~Unanswered \/ faults > 0 \/ moves > 0 \/ Cardinality(asked) > 1
=============================================================================
