SPECIFICATION Spec
CONSTANTS
    NumSta = 2
    MaxChanges = 2
INVARIANTS
    TypeOK
    WatchdogGuards
    NeverOrphaned
    NoGap
PROPERTIES
    ReportsSpec
    Recovers
    EventTold
