SPECIFICATION Spec
CONSTANTS
    Proc = {p1}
    Child = {vm1, node1}
    Failure = {"401", "404"}
    Unauthorized = {"401"}
    NotFound = {"404"}
    Dismissal = TRUE
INVARIANTS UnauthorizedIsOfCluster OneRowPerFailure
PROPERTY ChildrenSilenced
CHECK_DEADLOCK FALSE
