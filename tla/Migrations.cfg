SPECIFICATION Spec
CONSTANTS
    Processes = {p1, p2}
    Earlier = earlier
INVARIANTS
    TypeOK
    CompleteBeforeClose
    UpgradeFailsOnLeftovers
    
CHECK_DEADLOCK FALSE
