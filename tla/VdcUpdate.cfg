SPECIFICATION UpdateSpec
CONSTANTS
    v1 = v1
    v2 = v2
    g1 = g1
    g2 = g2
    Vdc = {v1, v2}
    Group = {g1, g2}
    Resource <- MCResource
    All <- MCAll
    MaxRequest = 2
    Wants <- MCWants
    First = v1
    NoVdc = NoVdc
    MaxDrop = 1
INVARIANTS
    TypeOK
    NoOrphanRule
    GrantsHaveRules
    AgreedContents
    LoneRequestSucceeds
    RemovedLeaves

    
CHECK_DEADLOCK FALSE
