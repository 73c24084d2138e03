\* A start that fails after some services are up.
SPECIFICATION Spec
CONSTANTS
    recorder = recorder
    slow = slow
    quick = quick
    Subs = {recorder, slow, quick}
    AsyncSubs = {slow}
    Wants <- MCWants
    Recorder = recorder
    MaxNotes = 1
    Callers <- MCCallers
    Calls <- MCCalls
    NoOne = NoOne
    Starter = start
    Stoppers = {x}
    MayRaise = {"intelligence", "agent", "delegation"}
INVARIANTS FailedStartStops
