\* Two decisions of one task that overlap.
CONSTANTS
    Tasks = {t1}
    Requests = {r1, r2, r3}
    MaxSteps = 1
    DbFails = FALSE
SPECIFICATION Spec
PROPERTIES BegunWhenApproved
CHECK_DEADLOCK FALSE
