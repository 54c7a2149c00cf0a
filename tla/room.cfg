SPECIFICATION Spec
CONSTANTS
    Sessions = {s1, s2}
    s1 = s1
    s2 = s2
    Notes = 1
    Versions = 2
    MaxCommands = 2
    MaxCommits = 2
    MaxEdits = 2
    Overlap = FALSE
SYMMETRY Symmetric
INVARIANTS
    RoomTypeOK
    PairTogether
    LabelShowsInputs
    FreshIsBuilt
CHECK_DEADLOCK FALSE
