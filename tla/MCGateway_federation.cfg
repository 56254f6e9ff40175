\* Two clients behind three gateways: in a line of links, or a segment and a link.
CONSTANTS
    g1 = g1
    g2 = g2
    g3 = g3
    c1 = c1
    c2 = c2
    c3 = c3
    a1 = a1
    a2 = a2
    a3 = a3
    Gw = {g1, g2, g3}
    Client = {c1, c2, c3}
    Addr = {a1, a2, a3}
    NoOne = NoOne
    All = All
    Segment = Segment
    Away = Away
    MaxFlying = 2
    Confs <- TestConfs
    MaxPeers = 2
    MaxRoutes = 2
    MaxMoves = 1
SPECIFICATION FairSpec
INVARIANTS Keyed Introductions ExactlyOnce Confined
PROPERTIES DataDrains QueryResolves
CHECK_DEADLOCK TRUE
