SPECIFICATION Spec
CONSTANTS
    s1 = s1
    s2 = s2
    Slot <- MCSlot
    MaxInputs = 2
INVARIANTS
    TypeOK
    PanelsFollow
    OwnChangesShown
SYMMETRY Symmetry
CHECK_DEADLOCK FALSE
