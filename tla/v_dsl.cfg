SPECIFICATION Spec
CONSTANTS
    Machines <- MCMachines
    Texts <- TwiceTexts
    Tests <- MCTests
    Main = "main"
CHECK_DEADLOCK FALSE
PROPERTIES
    DelRemovesFirst
