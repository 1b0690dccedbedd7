SPECIFICATION FairSpec
CONSTANTS
    retryMax = 1
    maxSteps = 4
    NumToResolve = {0, 1, 2}
    noQuery = noQuery
    noAction = noAction
    States <- MCStates
    start = "single"
    Succ <- MCSucc
    Nums <- MCNums
CHECK_DEADLOCK FALSE
INVARIANTS
    TypeOK
    OneConversation
    QueryTimed
PROPERTIES
    StepsTaken
    ImplementsService
