\* A delegation, its executor and a canceller.
SPECIFICATION FairSpec
CONSTANTS
    edit = edit
    read = read
    net = net
    Tasks = {a}
    Permissions = {edit, read, net}
    Policy <- MCPolicy
    HasApproval = TRUE
    Cancellers = {h}
    MaxSessions = 1
    MaxPermissions = 2
    MaxOutput = 0
    ReconnectLimit = 1
    ResultsKeep = 1
    MaxProgress = 1
    NoTask = NoTask
INVARIANTS NothingLeftBehind CancelIsNotAFailure AskedOnce OneGrantAfterCancel
PROPERTIES DelegationsEnd
CHECK_DEADLOCK FALSE
