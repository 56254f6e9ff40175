\* Three clients that send anything, a table and a peer file that fill up.
CONSTANTS
    c1 = c1
    c2 = c2
    c3 = c3
    Tun = {}
    Raw = {c1, c2, c3}
    NoMac = NoMac
    Span = 2
    Extra = {5}
    Hash <- HashC3
    MaxLeases = 2
    Probes = 1
    Lease = 2
    Attempts = 3
    CliPeers = {c1}
    FilePeers = {}
    Auth = TRUE
    HasFile = TRUE
    Learn = TRUE
    Allow = {}
    AllowedIPs <- RangeC3
    MaxPeers = 2
    Timely = TRUE
    MaxFaults = 0
    MaxAsked = 1
SPECIFICATION Spec
INVARIANTS TypeOK OneLease SharedOnlyIfRevived
CHECK_DEADLOCK FALSE
