SPECIFICATION FeedSpec
CONSTANTS
    Early = 3
    Late = 6
    Blocks <- MCBlocks
    NumberOf <- MCNumberOf
    ParentOf <- MCParentOf
    ChkptSize = 2
    StartBlk = 1
    PlanStart = 1
    Heads = {5, 6, 8}
    MaxHead = 10
    MaxNodes = 11
    Word = 64
    ParisBlk = 0
INVARIANTS
    LostOnlyByReorg
    NoFreedNodeRead
PROPERTIES
    NeverReattached
    EventuallySync
    EveryBlockConfirmed
CHECK_DEADLOCK FALSE
