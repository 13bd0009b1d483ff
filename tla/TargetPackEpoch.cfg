\* Three processes, and a cleaner that removes both objects twice.
CONSTANTS
    Users = {p1, p2, p3}
    p1 = p1
    p2 = p2
    p3 = p3
    MaxObjects = 4
SPECIFICATION EpochSpec
INVARIANTS EpochOK HeldIsNamed
PROPERTIES FollowsLease
SYMMETRY Symmetry
