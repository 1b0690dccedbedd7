SPECIFICATION FairSpec
CONSTANTS
    Machines <- MCMachines
    Texts <- MCTexts
    Tests <- MCTests
    Main = "main"
CHECK_DEADLOCK FALSE
INVARIANTS
    MergedOnce
    ChannelDelivery
PROPERTIES
    SimulatesRules
    ToolEnds
