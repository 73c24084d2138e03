\* A plan with a repeated id, in which a step goes before what it depends on.
INIT ServicesInit
NEXT ServicesNext
CONSTANTS
    x = x
    y = y
    u = u
    v = v
    w = w
    Chosen = {"plan"}
    Ids = {1, 2, 3}
    Graphs <- MCGraphs
    MaxClauses = 3
    MaxPlanSteps = 2
    Ceiling = 4
    Schedules = {x, y}
    Commands = {u, v, w}
    MaxSchedules = 2
    Interval = 2
    MaxTime = 2
    Memories = {x, y}
    Clients = {"server", "command"}
    MaxVersion = 1
    MaxNow = 1
    MaxCalls = 2
    Openers = {x, y}
    Stores <- MCStores
    MaxOpens = 4
    ToolRequests <- MCToolRequests
    Workloads <- MCWorkloads
    Modes = {"development", "lockdown"}
    Styles = {"text", "voice", "always"}
    MaxTurns = 4
    MaxHistory = 1
    MaxIdle = 2
    MaxWindows = 2
    MaxVoice = 5
    Listeners = {x, y}
    Updates = 3
    Sent <- MCSent
    MaxPolls = 2
    Pids = {x, y}
    Cmds = {u, v, w}
    NoPid = "none"
    Calls = {"call"}
    Probes = {}
    Questions <- MCQuestions
    Defaults = {"none"}
    MaxMessages = 2
    Handlers = {u, v}
    ControlCalls <- MCControlCalls
    MaxRuns = 2
    Tags = {"noscript", "ol", "li", "a", "p", "img"}
    MaxTokens = 7
    MaxHops = 1
    Sections = {}
INVARIANT DependenciesFirst
CHECK_DEADLOCK FALSE
