\* Two processes; the owner edits three times, to profiles that are valid or not.
CONSTANTS
    Procs = {p1, p2}
    p1 = p1
    p2 = p2
    absent = absent
    seed = seed
    mine = mine
    ours = ours
    other = other
    Absent = absent
    Seed = seed
    Profiles = {mine, ours, other}
    Invalid = {other}
    MaxEdits = 3
SPECIFICATION Spec
INVARIANTS TypeOK Described AnswersTrue
PROPERTIES NeverOverwritten LineageKept
SYMMETRY Symmetry
