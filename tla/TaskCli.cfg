SPECIFICATION Spec
CONSTANTS
    p1 = p1
    p2 = p2
    p3 = p3
    plain = plain
    single = single
    twins = twins
    long = long
    knot = knot
    a = a
    b = b
    c = c
    Procs = {cli}
    Servers = {}
    Plans = {p3}
    Versions = {plain, long}
    Tasks = {t1, t2}
    StepIds = {a, b, c}
    IdAt <- MCIdAt
    PlanLen <- MCPlanLen
    MaxPlanLen = 3
    MaxSteps = 2
    Ceiling = 3
    Asks <- MCAsks
    Grants = {TRUE, FALSE}
    Drafts <- MCDrafts
    Files <- MCFiles
    Verifiable <- MCVerifiable
    Orderable <- MCOrderable
    MaxCrashes = 2
    NoPlan = NoPlan
    NoVersion = NoVersion
    NoTask = NoTask
INVARIANTS
    MirroredAtExit
PROPERTIES
    AskStepsAudited
    RecordedStepsNotRerun
    ImplementsContract
SYMMETRY MCTaskSymmetry
