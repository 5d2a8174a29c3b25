SPECIFICATION PrintedSenderSpec
CONSTANTS
    a = a
    b = b
    sid = sid
    dflt = dflt
    garbled = garbled
    Objects <- MCObjects
    ObjectLen <- MCObjectLen
    EnabledCodecs = {"RaptorQ", "Raptor10"}
    Tunings <- MCTunings
    DefaultTuning = dflt
    BlockSizes <- MCBlockSizes
    NumTotal <- MCNumTotal
    Decodable <- MCDecodable
    Garbled = garbled
    SessionIds = {sid}
    U32 = 8
    SampleEvery = 3
    Senders <- MCSenders
    Job <- MCJob
INVARIANTS
    SenderTypeOK
    NoPacketAfterTruncatedMeta
    EsiNamesSymbol
    EachSymbolOnce
    FinishedSentEverything
    BytesAsPlanned
    SenderScreenIsFresh
PROPERTIES
    SendersReturn
\* Every sender returns.
CHECK_DEADLOCK FALSE
