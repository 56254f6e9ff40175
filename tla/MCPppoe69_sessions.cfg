\* Two hosts and an AC: room for one session or two, allowlists, data, faults.
CONSTANTS
    h1 = h1
    h2 = h2
    a1 = a1
    a2 = a2
    ac = ac
    Host = {h1, h2}
    NoHost = NoHost
    Addr = {a1, a2, ac}
    AcAddr = ac
    NoAddr = NoAddr
    MaxSessions = 2
    MaxSid = 2
    MaxPeers = 2
    Attempts = 2
    Confs <- TestConfs
    Wire = 1
SPECIFICATION FairSpec
INVARIANTS SessionsUnique UpHasSession Isolation
PROPERTIES Reaped Dials
CHECK_DEADLOCK TRUE
