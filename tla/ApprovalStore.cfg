\* Writes are kept whole or not at all; a read-back or a compaction may fail.
CONSTANTS
    Approvals = {a1, a2, a3}
    MaxRecords = 2
    Ttls = {0, 1, 2, 3}
    TtlMax = 2
    HardTtlMax = 3
    MaxTime = 4
    Disk = {"ok", "none", "unread"}
SPECIFICATION Spec
INVARIANTS TypeOK DecisionsAreFinal AnswersKept NewestRetained
PROPERTIES ApprovedInTime FollowsLifecycle RetentionHolds
CHECK_DEADLOCK FALSE
