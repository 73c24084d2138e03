\* Ids that are never reused: three requests, two people who may decide about
\* each other's, at most one in progress.
SPECIFICATION FairSpec
CONSTANTS
    c1 = c1
    c2 = c2
    c3 = c3
    Calls = {c1, c2, c3}
    Ids = {c1, c2, c3}
    IdOf <- UniqueIds
    Deciders = {p, q}
    HasToken = TRUE
    NoCall = NoCall
INVARIANTS ApprovedByPerson QueueShowsTheWait
PROPERTIES EveryRequestAnswered
