SPECIFICATION BoundedSpec
CONSTANTS
    Vm = {a, b}
    Host = {h}
    Cluster = {c}
    Placement = Placement
    MaxActionsPerHost = 1
    MaxActionsPerCluster = 2
    MaxWndLength = 2
    NoTag = NoTag
    MaxPlans = 2
SYMMETRY Perms
INVARIANTS
    TypeOK
    WithinLimits
    
CHECK_DEADLOCK FALSE
