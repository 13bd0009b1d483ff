\* The pull request changes three more times; its second commit repairs findings.
CONSTANTS
    MaxHead = 3
    MaxTime = 7
    Touched = {2}
    Requesters = TRUE
    Starts <- StartsDone
SPECIFICATION Spec
INVARIANTS DoneAtTheTurn
VIEW Sight
CHECK_DEADLOCK FALSE
