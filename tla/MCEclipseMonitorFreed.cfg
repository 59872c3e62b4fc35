SPECIFICATION Spec
CONSTANTS
    Top = 9
    Forks = {103, 104}
    Blocks <- MCBlocks
    NumberOf <- MCNumberOf
    ParentOf <- MCParentOf
    ChkptSize = 2
    StartBlk = 1
    PlanStart = 1
    Heads = {6, 9}
    MaxHead = 9
    MaxNodes = 6
    Word = 64
    ParisBlk = 0
INVARIANT NoFreedNodeRead
CHECK_DEADLOCK FALSE
