\* One check through a broker.
CONSTANTS
    NumChecks = 2
    Strategies = {"broker"}
    Inventories <- AllInventories
SPECIFICATION Spec
PROPERTIES StartsInTime
CHECK_DEADLOCK FALSE
