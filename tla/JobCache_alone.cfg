SPECIFICATION FairSpec
CONSTANTS
    Proc = {p1, p2}
    Outcome = {"success", "error", "canceled"}
    Fault = {"rapi", "crash", "archive"}
INVARIANTS RecordsTheTruth
PROPERTIES Immutable ClearedStaysCleared OutcomeRecorded
CHECK_DEADLOCK FALSE
