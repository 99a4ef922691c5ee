SPECIFICATION Spec
CONSTANTS
    Cluster = {c1, c2}
    Host = {h}
    Node = {n1, n2}
    Owner = {u}
    Writable = {c1}
    Flaky = {c1}
    NoCluster = NoCluster
    NoNode = NoNode
    NoOwner = NoOwner
SYMMETRY NodeSymmetry
INVARIANTS TypeOK TagsInStep PlacementCurrent
PROPERTIES LossNeedsCause RefreshConverges
