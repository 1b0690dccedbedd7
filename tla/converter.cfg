SPECIFICATION Spec
CONSTANTS
    Yaml <- MCYaml
    MayBreak <- MCMayBreak
    MaxTools = 2
    MaxFaults = 1
INVARIANTS
    ProfileKept
    ConvertedOrLogged
    ModelsProvided
CHECK_DEADLOCK FALSE
