SPECIFICATION SystemSpec
CONSTANTS
    a = a
    b = b
    c = c
    id1 = id1
    id2 = id2
    elsewhere = elsewhere
    dflt = dflt
    custom = custom
    garbled = garbled
    None = None
    Objects <- MCObjects
    ObjectLen <- MCObjectLen
    EnabledCodecs = {"RaptorQ", "Raptor10"}
    Tunings <- MCTunings
    DefaultTuning = dflt
    BlockSizes <- MCBlockSizes
    NumTotal <- MCNumTotal
    Decodable <- MCDecodable
    Garbled = garbled
    SessionIds <- MCSessionIds
    U32 = 1000
    expected_session_id = None
    Datagrams <- MCDatagrams
    Peers <- MCPeers
    MaxIgnored = 0
    MaxAccepted = 0
    Senders = {"first"}
    Job <- CustomTuning
    Strays = {}
    MaxLost = 0
    MaxDuplicated = 0
INVARIANTS
    SpecAgreement
\* The call returns, the senders finish and the network empties.
CHECK_DEADLOCK FALSE
