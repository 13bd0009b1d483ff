\* Two checks under every strategy and authority.
CONSTANTS
    NumChecks = 2
    Strategies = {"direct", "weak", "broker", "none"}
    Inventories <- AllInventories
SPECIFICATION Spec
INVARIANTS ContainedIsEmpty VerdictIsTrue
PROPERTIES StartsPinned NoOrphans EveryCheckAnswered
CHECK_DEADLOCK FALSE
