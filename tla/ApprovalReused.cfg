\* One request id for every call, as the local provider numbers them.
SPECIFICATION Spec
CONSTANTS
    c1 = c1
    c2 = c2
    i1 = i1
    Calls = {c1, c2}
    Ids = {i1}
    IdOf <- SameId
    Deciders = {p}
    HasToken = FALSE
    NoCall = NoCall
INVARIANTS ApprovedByPerson
