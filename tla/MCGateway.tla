------------------------------ MODULE MCGateway ------------------------------
(* Instances of Gateway for TLC. *)
EXTENDS Gateway, TLC
CONSTANTS g1, g2, g3, c1, c2, c3, a1, a2, a3

Both(S) == S \cup {<<e[2], e[1]>> : e \in S}
Each(x1, x2, x3) == (c1 :> x1) @@ (c2 :> x2) @@ (c3 :> x3)

\* The address derived from the key, wherever the client is.
Derived == [e \in Endpoint |-> Each(a1, a2, a3)[e[1]]]

Start(link, l2, x1, x2, x3) ==
    [link |-> Both(link), l2 |-> l2, auth |-> {}, allow_private |-> {}, at |-> Each(x1, x2, x3), addr |-> Derived,
     private |-> {}, zero |-> {}, kinds |-> {"control"}, flying |-> 1, room |-> 2, moves |-> 0, asks |-> 0, faults |-> 0]

\* Three gateways in a line of links; the clients at the two ends.
Line == Start({<<g1, g2>>, <<g2, g3>>}, {}, g1, g3, Away)
\* The same, with one client only.
Lone == [Line EXCEPT !.at[c2] = Away]
\* Two gateways on a segment, the second linked to a third.
Mixed == Start({<<g2, g3>>}, {g1, g2}, g1, g3, Away)
\* Two gateways and a host on a segment.
Island == Start({}, {g1, g2}, g1, g2, Segment)
\* Two gateways and a link, or a segment.
Pair == Start({<<g1, g2>>}, {}, g1, g2, Away)
Wire == Start({}, {g1, g2}, g1, g2, Away)
\* Both clients at one of two gateways.
Same == Start({<<g1, g2>>}, {}, g1, g1, Away)
AllKinds == {"control", "stream", "dgram"}
Data == {"control", "dgram"}

\* What is sent over links and a segment, lost or throttled, by clients that move or not;
\* queries; a table that fills up; a client with a private address or one with a zero byte;
\* a client that is not on the list of --peer.
\* Open gateways take an address from any key: two clients that both announce a1, at two
\* gateways or at one, where the third asks for it.  With --peer, c2 is on the list with its
\* own address and announces the one c1 asks for.  A client has another address at its
\* second endpoint.
TestConfs == {
    [Line EXCEPT !.kinds = Data, !.flying = 2, !.faults = 1],
    [Line EXCEPT !.kinds = Data, !.private = {a2}, !.allow_private = {g2, g3}],
    [Lone EXCEPT !.asks = 2, !.room = 1],
    [Pair EXCEPT !.asks = 2],
    [Line EXCEPT !.asks = 1, !.faults = 1, !.zero = {a1}],
    [Mixed EXCEPT !.kinds = AllKinds, !.auth = {<<c1, a1>>}],
    [Mixed EXCEPT !.kinds = Data, !.faults = 1, !.private = {a1}],
    [Mixed EXCEPT !.asks = 1, !.faults = 1],
    [Pair EXCEPT !.kinds = AllKinds, !.moves = 1],
    [Wire EXCEPT !.moves = 1],
    [Same EXCEPT !.moves = 1],
    [Same EXCEPT !.asks = 1],
    [Island EXCEPT !.private = {a2}, !.allow_private = {g1}],
    [Pair EXCEPT !.at[c3] = g2, !.addr[<<c2, 1>>] = a1, !.asks = 1],
    [Pair EXCEPT !.at[c3] = g1, !.addr[<<c2, 1>>] = a1, !.kinds = {"stream", "dgram"}],
    [Pair EXCEPT !.auth = {<<c1, a1>>, <<c2, a2>>}, !.addr[<<c2, 1>>] = a3, !.asks = 1],
    [Same EXCEPT !.addr[<<c2, 2>>] = a3, !.moves = 1, !.asks = 1] }

\* None of them has a cycle: see ExactlyOnce.
ASSUME TestConfsAssumption == \A k \in TestConfs : WithoutCycles(k)
=============================================================================
