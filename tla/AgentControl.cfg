\* One run over several responses, raced by a canceller and a decider.  The limits on
\* calls end it before the one on steps; AgentLimits.cfg has them all.
SPECIFICATION FairSpec
CONSTANTS
    Kinds = {"read", "shell", "unknown"}
    Policy <- MCPolicy
    Deciders = {d}
    Cancellers = {h}
    HasToken = FALSE
    MaxRuns = 1
    MaxSteps = 3
    MaxCalls = 2
    MaxSingle = 1
    LoopThreshold = 2
    NoCall = NoCall
INVARIANTS RunsBounded OneToolAfterCancel PausedWhileAsking OneTerminalEvent
PROPERTIES RunsEnd
