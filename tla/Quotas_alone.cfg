SPECIFICATION QuotaSpec
CONSTANTS
    VM = {v1, v2}
    Owner = {o1}
    MaxSize = 2
    Limits = {0, 3}
INVARIANTS QuotaHasCause
CHECK_DEADLOCK FALSE
