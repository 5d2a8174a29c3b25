SPECIFICATION FacadeSpec
CONSTANTS
    dflt = dflt
    None = None
    Objects <- MCObjects
    ObjectLen <- MCObjectLen
    EnabledCodecs = {"RaptorQ", "Raptor10"}
    Tunings <- MCTunings
    DefaultTuning = dflt
    BlockSizes <- MCBlockSizes
    NumTotal <- MCNumTotal
    Decodable <- MCDecodable
    Garbled <- MCGarbled
    Transfers <- MCTransfers
    ManagerSizes = {1, 2}
    ForeignPackets <- MCForeignPackets
    MaxPlayed = 3
    MaxRepair = 2
    MaxStored = 2
    MaxLength = 6
    MaxSymbol = 4
INVARIANTS
    BlockIsTight
    RoundTrip
    HandleNamesPacket
    RecoverHonest
\* Objects longer than MaxPlayed are only laid out.
CHECK_DEADLOCK FALSE
