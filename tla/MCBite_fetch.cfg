\* Two clients that fetch from one server: names that match or not, associations that follow each
\* other or meet, records lost, sends that fail, time that runs out.
CONSTANTS
    c1 = c1
    c2 = c2
    Client = {c1, c2}
    NoClient = NoClient
    NoLabel = NoLabel
    ServerKey = srvkey
    MaxFrags = 2
    Idle = 2
    AcceptWindow = 3
    RespIdle = 1
    FetchTime = 1
    DialTime = 1
    Confs <- TestConfs
    MaxRuns = 2
SPECIFICATION FairSpec
INVARIANTS Channel Answers
PROPERTY Serves
CHECK_DEADLOCK TRUE
