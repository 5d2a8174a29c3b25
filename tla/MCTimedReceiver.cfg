SPECIFICATION FairTimedSpec
CONSTANTS
    a = a
    own = own
    other = other
    p1 = p1
    dflt = dflt
    garbled = garbled
    None = None
    Objects <- MCObjects
    ObjectLen <- MCObjectLen
    EnabledCodecs = {"RaptorQ"}
    Tunings <- MCTunings
    DefaultTuning = dflt
    BlockSizes <- MCBlockSizes
    NumTotal <- MCNumTotal
    Decodable <- MCDecodable
    Garbled = garbled
    SessionIds <- MCSessionIds
    U32 = 1000
    expected_session_id = own
    Datagrams <- MCDatagrams
    Peers <- MCPeers
    MaxIgnored = 3
    MaxAccepted = 4
    recv_timeout = 2
INVARIANTS
    TimeoutOnlyAfterSilence
    ExpectedSessionOnly
PROPERTIES
    ReturnsOrKeepsReceiving
\* The receive call returns.
CHECK_DEADLOCK FALSE
