SPECIFICATION Spec
CONSTANTS
    t1 = t1
    t2 = t2
    s1 = s1
    s2 = s2
    p1 = p1
    r1 = r1
    r2 = r2
    Tab <- MCTab
    Slot <- MCSlot
    Plain = {p1}
    Retention = {r1, r2}
    Blank = Blank
    Keep = Keep
    Unloaded = Unloaded
    NoFile = NoFile
    NoTab = NoTab
    Defaults <- MCDefaults
SYMMETRY Symmetric
INVARIANTS
    LiveWasConfirmed
PROPERTIES
    LeavesDryRunConfirmed
    OthersKept
