\* Two delegations at the session limit.
SPECIFICATION Spec
CONSTANTS
    edit = edit
    read = read
    net = net
    Tasks = {a, b}
    Permissions = {edit, read, net}
    Policy <- MCPolicy
    HasApproval = TRUE
    Cancellers = {h}
    MaxSessions = 1
    MaxPermissions = 2
    MaxOutput = 0
    ReconnectLimit = 1
    ResultsKeep = 1
    MaxProgress = 1
    NoTask = NoTask
INVARIANTS SessionsWithinLimit
CHECK_DEADLOCK FALSE
