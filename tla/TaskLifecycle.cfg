\* One task, a chat request and two decisions that overlap.
CONSTANTS
    Tasks = {t1}
    Requests = {r1, r2, r3}
    MaxSteps = 2
    DbFails = TRUE
SPECIFICATION Spec
INVARIANTS ExecutionsGranted NothingStuck
PROPERTIES RequestsEnd
CHECK_DEADLOCK FALSE
