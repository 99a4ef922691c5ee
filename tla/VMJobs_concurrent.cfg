SPECIFICATION Spec
CONSTANTS
    p1 = p1
    p2 = p2
    Proc = {p1, p2}
    MaxJobs = 2
    View = {"operate", "destroy"}
    Outcome = {"success", "error"}
    Fault = {"rapi", "crash"}
SYMMETRY Symmetry
INVARIANTS TypeOK TrackedIsBypassed
PROPERTY DeletesOnlyTheDead
CHECK_DEADLOCK FALSE
