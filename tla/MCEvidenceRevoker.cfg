SPECIFICATION Spec
CONSTANTS
    NoTarget = NoTarget
    ZeroKey = ZeroKey
    EventId = {e1, e2}
    Content = {m1, m2}
    RevokingHash = RevokingHash
    MaxSigned = 3
    RepCerts <- Reports
    SvrCerts <- Servers
    AppCerts <- Apps
    RootNotAfter = 4
    MaxTime = 4
SYMMETRY Symmetry
INVARIANTS OnlyGuiltyRevoked ChainWasInForce
PROPERTY ImplementsRevocation
CHECK_DEADLOCK FALSE
