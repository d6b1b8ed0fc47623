SPECIFICATION Spec
CONSTANTS
    AP = {0}
    Mac = {m1, m2, m3}
    None = None
    AclArrayEntries = 2
SYMMETRY MacSymmetry
INVARIANTS
    TypeOK
    ListedOnce
    EntriesFilled
    DenyRegistered
    DenyApplied
PROPERTIES
    AllowApplied
    BootRestores
