\* One run that nobody cancels, over responses of up to three calls, to each of its
\* limits: the one on steps, too.
SPECIFICATION Spec
CONSTANTS
    Kinds = {"read", "shell", "unknown"}
    Policy <- MCPolicy
    Deciders = {d}
    Cancellers = {}
    HasToken = FALSE
    MaxRuns = 1
    MaxSteps = 3
    MaxCalls = 3
    MaxSingle = 2
    LoopThreshold = 2
    NoCall = NoCall
INVARIANTS RunsBounded
CHECK_DEADLOCK FALSE
