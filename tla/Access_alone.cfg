SPECIFICATION Spec
CONSTANTS
    User = {u}
    Group = {g}
    VM = {v}
    Cluster = Cluster
    ClusterPerm = {"admin", "create_vm"}
    VMPerm = {"admin", "modify"}
    Root = Root
    Nobody = Nobody
    NoVM = NoVM
INVARIANTS QuotaShown MayIsShown KeysOfAdmins OwnerToChoose
PROPERTIES CreatorManages
CHECK_DEADLOCK FALSE
