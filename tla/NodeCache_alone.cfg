SPECIFICATION Spec
CONSTANTS
    Proc = {p1, p2}
    Expiry = 1
    MaxVersion = 2
    MaxJobs = 1
    Fault = {"poll", "fetch", "crash", "archive"}
INVARIANT TypeOK
PROPERTY KeepsPromise
CHECK_DEADLOCK FALSE
