\* Two messages of each end and a rekey, nothing lost; either end may be killed or leave.
CONSTANTS
    HbInterval = 1
    DeadTimeout = 3
    RekeyAfter = 1
    Window = 1
    InitTsn = {1}
    LateKinds = {}
    DupKinds = {}
    Troubles = {"stop"}
    MaxTrouble = 1
    MaxMsg = 2
    MaxRekeys = 1
SPECIFICATION FairSpec
PROPERTIES GoneIsNoticed RekeyCompletes Flows
CHECK_DEADLOCK FALSE
