\* Two stop calls, two events of services, and subscribers that come and go.
SPECIFICATION FairSpec
CONSTANTS
    recorder = recorder
    slow = slow
    quick = quick
    Subs = {recorder, slow, quick}
    AsyncSubs = {slow}
    Wants <- MCWants
    Recorder = recorder
    MaxNotes = 2
    Callers <- MCCallers
    Calls <- MCCalls
    NoOne = NoOne
    Starter = start
    Stoppers = {x, y}
    MayRaise = {"intelligence", "agent", "delegation"}
INVARIANTS FileTellsTheEnd
PROPERTIES EveryoneTold UsersStopFirst StopEnds
