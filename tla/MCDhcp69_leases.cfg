\* Two daemons on a timely network that loses or repeats up to two frames; a "renew"
\* command or a stop.
CONSTANTS
    c1 = c1
    c2 = c2
    c3 = c3
    Tun = {c1, c2}
    Raw = {}
    NoMac = NoMac
    Span = 2
    Extra = {5}
    Hash <- HashSame
    MaxLeases = 2
    Probes = 2
    Lease = 10
    Attempts = 2
    CliPeers = {c1, c2}
    FilePeers = {}
    Auth = TRUE
    HasFile = FALSE
    Learn = FALSE
    Allow = {}
    AllowedIPs <- RangeNone
    MaxPeers = 2
    Timely = TRUE
    MaxFaults = 2
    MaxAsked = 1
SPECIFICATION FairSpec
INVARIANTS HeldIsLeased NeverLapses
PROPERTY Binds
CHECK_DEADLOCK FALSE
