\* A query between the end of a delegation and its result; a reply that is lost.
SPECIFICATION Spec
CONSTANTS
    edit = edit
    read = read
    net = net
    Tasks = {a}
    Permissions = {edit, read, net}
    Policy <- MCPolicy
    HasApproval = TRUE
    Cancellers = {h}
    MaxSessions = 1
    MaxPermissions = 2
    MaxOutput = 0
    ReconnectLimit = 1
    ResultsKeep = 1
    MaxProgress = 1
    NoTask = NoTask
INVARIANTS KnownToGet
CHECK_DEADLOCK FALSE
