SPECIFICATION Spec
CONSTANTS
    NoTarget = NoTarget
    a1 = a1
    a2 = a2
    a3 = a3
    a4 = a4
    outsider = outsider
    Addr = {a1, a2, a3, a4, outsider}
    Target = {k1, k2}
    Stakeholders <- FourStakeholders
CHECK_DEADLOCK FALSE
INVARIANTS RevokedIffDecided RevokedByMajority
PROPERTY ImplementsRevocation
