\* Two streams over the TSN wrap, a stream table full at the receiver, small queues;
\* reordering, retransmission, and one fault of any kind.
CONSTANTS
    a = a
    b = b
    c = c
    Stream = {a, b}
    PeerStreams = {c}
    MaxStreams = 2
    SendQ = 2
    RcvQ = 1
    Window = 2
    TsnMod = 8
    SeqMod = 4
    InitTsn = {1, 6}
    Retransmits = TRUE
    Timely = FALSE
    Faults = {"sack", "dup", "reset", "fail", "foreign"}
    LossStreams = {}
    ForeignTsn = {5}
    MaxFaults = 1
    MaxMsg = 2
SPECIFICATION Spec
INVARIANTS TypeOK DeliveredOnce
PROPERTY IsFifo
CHECK_DEADLOCK FALSE
