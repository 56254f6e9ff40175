\* One DATA frame is lost and retransmitted.
CONSTANTS
    a = a
    b = b
    c = c
    Stream = {a}
    PeerStreams = {}
    MaxStreams = 2
    SendQ = 4
    RcvQ = 2
    Window = 2
    TsnMod = 32
    SeqMod = 4
    InitTsn = {1}
    Retransmits = TRUE
    Timely = TRUE
    Faults = {"data"}
    LossStreams = {a}
    ForeignTsn = {}
    MaxFaults = 1
    MaxMsg = 1
SPECIFICATION FairSpec
PROPERTY LossRecovered
CHECK_DEADLOCK FALSE
