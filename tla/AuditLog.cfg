\* A failure or a crash at every step, with the number of backups the same at
\* every start or not, on a disk that keeps parts of failed writes or not.
CONSTANTS
    MaxBackups = 3
    BackupCounts = {0, 1, 3}
    MaxBytes = 3
    Rotation = TRUE
    Sizes = {1, 2, 4}
    MaxEvents = 6
    Regimes <- MCRegimes
SPECIFICATION Spec
INVARIANTS SurvivesRotations NoHoles BackupsOrdered LossConfined
CHECK_DEADLOCK FALSE
