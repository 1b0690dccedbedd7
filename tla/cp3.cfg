SPECIFICATION Spec
CONSTANTS
    Scenarios <- MCScenarios
    GenArgs <- MCGenArgs
    ScriptArgs <- MCScriptArgs
    PipelineArgs <- MCPipelineArgs
    Samples <- MCSamples
    Workers = 2
    SizeLimit = 4
    ParseLimits = {0, 2}
    MaxJobs = 2
INVARIANTS NetworkComplete ActorsComplete EveryoneStarts QueriesAnswerable EquationFresh
CHECK_DEADLOCK FALSE
