\* The audit log is required and everything may fail, the same without the
\* requirement, both on a disk that keeps parts of writes, and a deployment where
\* no write fails.
CONSTANTS
    a1 = a1
    a2 = a2
    r1 = r1
    r2 = r2
    Approvals = {a1, a2}
    Runs = {r1, r2}
    MaxActions = 2
    MaxRecords = 1
    Modes <- AllModes
    Used <- AllUsed
SPECIFICATION Spec
INVARIANTS ExecutedUnderApproval NotedAgrees RecordedIsAudited
INVARIANTS TransitionsAudited RunsAuditedAfter
PROPERTIES  RunsEnd
CHECK_DEADLOCK FALSE
