\* Two clients, one of them allowed and one with its clock ahead, on a segment or
\* through a gateway; frames delayed, damaged and duplicated.
CONSTANTS
    c1 = c1
    c2 = c2
    Client = {c1, c2}
    Server = srv
    Allowed = {c1}
    Modes = {"l2_timeout", "tunnel"}
    MaxTries = 2
    Skew <- SkewC2
    Timely = FALSE
    LossKinds = {}
    DupKinds = {"INIT", "INIT_ACK", "COOKIE_ECHO", "COOKIE_ACK"}
    DamageKinds = {"INIT_ACK", "COOKIE_ECHO"}
    MaxFaults = 1
    MaxRuns = 1
SPECIFICATION Spec
INVARIANTS TypeOK ServerAuthentic ClientAccepted
CHECK_DEADLOCK FALSE
