SPECIFICATION Spec
CONSTANTS
    ChkptSize = 3
    StartBlk = 2
    MaxBlk = 60
    ParisBlk = 22
INVARIANTS
    WindowIsLatestCheckpoint
    MinDiffFromLatestPoW
PROPERTY ImplementsWindow
CHECK_DEADLOCK FALSE
