SPECIFICATION FairSpec
CONSTANTS
    p1 = p1
    p2 = p2
    Proc = {p1}
    MaxJobs = 3
    View = {"visit", "operate", "destroy", "reparent", "clear", "create"}
    Outcome = {"success", "error", "canceled"}
    Fault = {"archive"}
INVARIANTS NewestJobTracked StrandedDeleteExplained
PROPERTIES TrackingEnds ClearKeepsVM ReleasesOnlyEndedJobs
CHECK_DEADLOCK FALSE
