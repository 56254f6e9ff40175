\* Two rekeys while each end sends a message, and two late or repeated frames or other troubles.
CONSTANTS
    HbInterval = 1
    DeadTimeout = 3
    RekeyAfter = 1
    Window = 1
    InitTsn = {1}
    LateKinds = {"INIT", "INIT_ACK", "COOKIE_ECHO", "COOKIE_ACK", "DATA", "HEARTBEAT", "SHUTDOWN"}
    DupKinds = {"INIT", "INIT_ACK", "COOKIE_ECHO", "DATA", "SHUTDOWN"}
    Troubles = {"stray", "send", "stop"}
    MaxTrouble = 2
    MaxMsg = 1
    MaxRekeys = 2
SPECIFICATION Spec
VIEW Present
INVARIANTS TypeOK SealsAgree ErrOnlyIfDisturbed DeliveredOnce NoFalseDeath
CHECK_DEADLOCK FALSE
