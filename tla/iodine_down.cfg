SPECIFICATION FairSpec
CONSTANTS
    Files <- MCFiles
    NoFile = "none"
    PacketLens <- MCPacketLens
    maxFragmentTx = 1
    serverTries = 1
    Inputs <- BobTwo
    OwnFile <- AliceOwnLong
    MaxInFlight = 1
    MaxLocal = 1
    MaxMoot = 0
    MaxLosses = 1
INVARIANTS
    AdmissionToken
    DownstreamExact
    DownAckMeansDelivered
PROPERTIES
    ReceiversNeverGoBack
    QueuesDrain
    TransmissionEnds
