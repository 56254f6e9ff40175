\* A timely network that loses up to MaxTries - 1 of the client's frames.
CONSTANTS
    c1 = c1
    c2 = c2
    Client = {c1}
    Server = srv
    Allowed = {}
    Modes = {"l2"}
    MaxTries = 5
    Skew <- SkewNone
    Timely = TRUE
    LossKinds = {"INIT", "COOKIE_ECHO"}
    DupKinds = {"INIT_ACK", "COOKIE_ACK"}
    DamageKinds = {}
    MaxFaults = 4
    MaxRuns = 2
SPECIFICATION FairSpec
INVARIANT KeyAgreement
PROPERTY Connects
CHECK_DEADLOCK FALSE
