SPECIFICATION LiveSpec
CONSTANTS
    Zone = {z}
    Imported = 2
    Retention = 2
    MaxIndex = 4
    MaxLate = 1
    MaxFault = 1
    MaxRefuse = 1
    MaxRestart = 1
INVARIANTS
    TypeOK
    InOrder
    ExecutedOnce
PROPERTIES
    SlavesCatchUp
CHECK_DEADLOCK FALSE
