SPECIFICATION MCSpec
CONSTANTS
    Sta = {0, 1}
    Networks = {"n1", "n2"}
INVARIANTS FlagsAgree NetworksInUse
