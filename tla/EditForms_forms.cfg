SPECIFICATION Spec
CONSTANTS
    src = src
    spare = spare
    both = both
    g1 = g1
    g2 = g2
    g3 = g3
    e1 = e1
    e2 = e2
    p1 = p1
    slot1 = slot1
    slot2 = slot2
    None = None
    Share <- MCShare
    Group <- MCGroup
    Event <- MCEvent
    Preset <- MCPreset
    Slot <- MCSlot
    Role <- MCRole
    First <- MCFirst
    Change <- MCChange
    Before <- MCBefore
    After <- MCAfter
    Now <- MCNow
    PickDay <- MCPickDay
    PickTime <- MCPickTime
    Initial <- MCInitial
    MaxInputs = 5
INVARIANTS
    TypeOK
    WindowHolds
    NewFromDefaults
PROPERTIES
    SavesWhatWasMeant
CHECK_DEADLOCK FALSE
