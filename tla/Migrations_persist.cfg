SPECIFICATION Spec
CONSTANTS
    Processes = {p1}
    Earlier = earlier
INVARIANT
    UpgradePersists
CHECK_DEADLOCK FALSE
