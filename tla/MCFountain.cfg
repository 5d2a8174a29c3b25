SPECIFICATION FountainSpec
CONSTANTS
    a = a
    b = b
    c = c
    id1 = id1
    id2 = id2
    elsewhere = elsewhere
    dflt = dflt
    custom = custom
    garbled = garbled
    None = None
    Objects <- MCObjects
    ObjectLen <- MCObjectLen
    EnabledCodecs = {"RaptorQ", "Raptor10"}
    Tunings <- MCTunings
    DefaultTuning = dflt
    BlockSizes <- MCBlockSizes
    NumTotal <- MCNumTotal
    Decodable <- MCDecodable
    Garbled = garbled
    SessionIds <- MCSessionIds
    U32 = 1000
    expected_session_id = None
    Datagrams <- MCDatagrams
    Peers <- MCPeers
    MaxIgnored = 0
    MaxAccepted = 0
    Senders = {"first", "again", "typo"}
    Job <- MCJob
    Command <- MCCommand
    missing = missing
    oldfile = oldfile
    torn = torn
    Missing = missing
    OldFile = oldfile
    Torn = torn
    MaxLaunches = 2
    MaxFaults = 1
    Strays = {}
    MaxLost = 0
    MaxDuplicated = 0
INVARIANTS
    OutcomeIntegrity
    FileKeptUntilDecoded
    SuccessMeansFile
PROPERTIES
    RetrySucceeds
\* The processes end and nobody launches them again.
CHECK_DEADLOCK FALSE
