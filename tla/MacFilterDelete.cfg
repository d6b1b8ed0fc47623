SPECIFICATION Spec
CONSTANTS
    AP = {0}
    Mac = {m1, m2}
    None = None
    AclArrayEntries = 2
PROPERTY DeleteKeepsOthers
