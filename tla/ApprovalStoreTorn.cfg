\* A full disk may keep a part of a snapshot.
CONSTANTS
    Approvals = {a1, a2}
    MaxRecords = 3
    Ttls = {2}
    TtlMax = 2
    HardTtlMax = 3
    MaxTime = 3
    Disk = {"ok", "torn"}
SPECIFICATION Spec
INVARIANTS DecisionsAreFinal
CHECK_DEADLOCK FALSE
