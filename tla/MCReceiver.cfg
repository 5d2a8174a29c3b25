SPECIFICATION PrintedReceiverSpec
CONSTANTS
    a = a
    b = b
    own = own
    other = other
    p1 = p1
    dflt = dflt
    garbled = garbled
    None = None
    Objects <- MCObjects
    ObjectLen <- MCObjectLen
    EnabledCodecs = {"RaptorQ"}
    Tunings <- MCTunings
    DefaultTuning = dflt
    BlockSizes <- MCBlockSizes
    NumTotal <- MCNumTotal
    Decodable <- MCDecodable
    Garbled = garbled
    SessionIds <- MCSessionIds
    U32 = 1000
    expected_session_id = None
    Datagrams <- MCDatagrams
    Peers <- MCPeers
    MaxIgnored = 3
    SampleEvery = 2
    MaxAccepted = 5
INVARIANTS
    TypeOK
    DecoderFollowsSession
    CountersMatchDecoder
    CompletesExactlyWhenDecodable
    HundredPercentMeansDone
    ScreenIsFresh
    BandOnScreen
PROPERTIES
    StickySession
    ProgressLostOnlyToRestart
    NoBandTwice
\* receive_object returns: no datagram is read after that.
CHECK_DEADLOCK FALSE
