\* Cancels that go wrong, one property to be listed at a time: a cancel of one run
\* that reaches the next (CancelHitsItsRun), an approval after the cancel
\* (CancelClosesGate), a cancel that comes before the run has its token
\* (CancelTakesEffect), and a run that ends in another state than cancelled
\* (CancelledEndsCancelled); the last two under PROPERTIES.
SPECIFICATION FairSpec
CONSTANTS
    Kinds = {"read", "shell"}
    Policy <- MCPolicy
    Deciders = {d}
    Cancellers = {h}
    HasToken = FALSE
    MaxRuns = 2
    MaxSteps = 1
    MaxCalls = 1
    MaxSingle = 1
    LoopThreshold = 2
    NoCall = NoCall
INVARIANTS CancelHitsItsRun
CHECK_DEADLOCK FALSE
