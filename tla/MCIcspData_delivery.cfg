\* A timely network that loses DATA of stream a and spares stream b.
CONSTANTS
    a = a
    b = b
    c = c
    Stream = {a, b}
    PeerStreams = {}
    MaxStreams = 2
    SendQ = 4
    RcvQ = 2
    Window = 2
    TsnMod = 32
    SeqMod = 4
    InitTsn = {1}
    Retransmits = TRUE
    Timely = TRUE
    Faults = {"data", "dup"}
    LossStreams = {a}
    ForeignTsn = {}
    MaxFaults = 2
    MaxMsg = 2
SPECIFICATION FairSpec
INVARIANT AckedIsDelivered
PROPERTIES EveryMessageArrives EverythingAcked TailLossRecovered
CHECK_DEADLOCK FALSE
