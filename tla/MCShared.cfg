SPECIFICATION Spec
CONSTANTS
    Writer = {w1, w2}
    RunId = {1}
    MaxRuns = 1
    MaxCalls = 2
INVARIANT DocumentsParse
CHECK_DEADLOCK FALSE
