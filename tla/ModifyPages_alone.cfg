SPECIFICATION EditSpec
CONSTANTS
    VM = {"v", "w"}
    Name = {"a", "b", "c"}
    Tab = {"t1", "t2"}
    NoVM = "none"
    NoName = "none"
INVARIANTS SentWasEntered ReachesOwnInstance
CHECK_DEADLOCK FALSE
