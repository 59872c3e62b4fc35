SPECIFICATION Spec
CONSTANTS
    Top = 8
    Forks = {103, 104}
    Blocks <- MCBlocks
    NumberOf <- MCNumberOf
    ParentOf <- MCParentOf
    ChkptSize = 2
    StartBlk = 1
    PlanStart = 3
    Heads = {6, 8}
    MaxHead = 8
    MaxNodes = 6
    Word = 64
    ParisBlk = 5
INVARIANTS
    DescCountExact
    TreeRootedAtLast
    ConfirmedIsChain
    LiveNodesKnown
    ConfirmedIsBuried
PROPERTY ImplementsWindow
CHECK_DEADLOCK FALSE
