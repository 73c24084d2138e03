SPECIFICATION Spec
CONSTANTS
    p1 = p1
    p2 = p2
    p3 = p3
    plain = plain
    single = single
    twins = twins
    long = long
    knot = knot
    a = a
    b = b
    c = c
    Procs = {cli, server}
    Servers = {server}
    Plans = {p1}
    Versions = {plain}
    Tasks = {t1}
    StepIds = {a, b}
    IdAt <- MCIdAt
    PlanLen <- MCPlanLen
    MaxPlanLen = 3
    MaxSteps = 2
    Ceiling = 3
    Asks <- MCAsks
    Grants = {TRUE, FALSE}
    Drafts <- MCDrafts
    Files <- MCFiles
    Verifiable <- MCVerifiable
    Orderable <- MCOrderable
    MaxCrashes = 0
    NoPlan = NoPlan
    NoVersion = NoVersion
    NoTask = NoTask
INVARIANTS
    NoFinishedTaskPlanReady
