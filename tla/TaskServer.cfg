SPECIFICATION FairSpec
CONSTANTS
    p1 = p1
    p2 = p2
    p3 = p3
    plain = plain
    single = single
    twins = twins
    long = long
    knot = knot
    a = a
    b = b
    c = c
    Procs = {server}
    Servers = {server}
    Plans = {p3}
    Versions = {plain, twins, knot}
    Tasks = {t1}
    StepIds = {a, b}
    IdAt <- MCIdAt
    PlanLen <- MCPlanLen
    MaxPlanLen = 3
    MaxSteps = 3
    Ceiling = 3
    Asks <- MCAsks
    Grants = {TRUE}
    Drafts <- MCDrafts
    Files <- MCFiles
    Verifiable <- MCVerifiable
    Orderable <- MCOrderable
    MaxCrashes = 1
    NoPlan = NoPlan
    NoVersion = NoVersion
    NoTask = NoTask
INVARIANTS
    TaskInv
PROPERTIES
    RunsEnd
