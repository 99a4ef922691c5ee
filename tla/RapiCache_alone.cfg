SPECIFICATION Spec
CONSTANTS
    Proc = {p1}
    Cluster = {c1, c2}
    Cred <- FourCreds
    Hash <- OwnHashes
    HashOf <- OwnHash
    NoCred = NoCred
    NoHash = NoHash
INVARIANTS NoClientLeaks RowsCurrent ClientCurrent
CHECK_DEADLOCK FALSE
