SPECIFICATION Spec
CONSTANT MaxSubs = 3
INVARIANTS
    TypeOK
    SettledAgrees
    UpsBounded
PROPERTY Converges
