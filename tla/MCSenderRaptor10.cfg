SPECIFICATION PrintedSenderSpec
CONSTANTS
    a = a
    b = b
    sid = sid
    dflt = dflt
    garbled = garbled
    Objects <- MCObjects
    ObjectLen <- MCObjectLen
    EnabledCodecs = {"RaptorQ", "Raptor10"}
    Tunings <- MCTunings
    DefaultTuning = dflt
    BlockSizes <- MCBlockSizes
    NumTotal <- MCNumTotal
    Decodable <- MCDecodable
    Garbled = garbled
    SessionIds = {sid}
    U32 = 9
    SampleEvery = 3
    Senders <- MCRaptor10Senders
    Job <- MCRaptor10Job
INVARIANTS
    EsiIsPayloadIdentifier
\* The sender returns.
CHECK_DEADLOCK FALSE
