SPECIFICATION Spec
CONSTANTS
    a = a
    b = b
    c = c
    Cluster = {"c1", "c2"}
    Node = {a, b, c}
    NodesOf <- TwoAndOne
    Allocating = {"c1"}
    HvsOf <- BothAndHVM
    VersionOf <- OldAndNew
    Filled <- TwoPages
    Changing = {"c1"}
    NoCluster = "none"
    NoNode = NoNode
SYMMETRY Alike
INVARIANTS NodesFit HypervisorFits StillAllowed
PROPERTY OnlyAsked
CHECK_DEADLOCK FALSE
