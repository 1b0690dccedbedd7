SPECIFICATION Spec
CONSTANTS
    Files <- MCFiles
    NoFile = "none"
    PacketLens <- MCPacketLens
    maxFragmentTx = 1
    serverTries = 1
    Inputs <- NoInput
    OwnFile <- AliceOwnFour
    MaxInFlight = 2
    MaxLocal = 1
    MaxMoot = 0
    MaxLosses = 2
INVARIANTS
    TypeOK
    AckTimerArmed
    OnePingTimer
    AckMeansDelivered
    UpstreamWhole
    NoNumberFromTheFuture
    NoGap
