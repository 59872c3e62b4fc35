----------------------------- MODULE MCBlockFeed -----------------------------
\* Main-chain blocks are their numbers; 100 + n and 200 + n are blocks n of two
\* other branches, which leave the main chain after blocks Early and Late.
EXTENDS BlockFeed

CONSTANTS Early, Late

MCBlocks ==
    (StartBlk..MaxHead) \cup {100 + n : n \in (Early + 1)..MaxHead}
                        \cup {200 + n : n \in (Late + 1)..MaxHead}
MCNumberOf == [b \in MCBlocks |-> b % 100]
MCParentOf ==
    [b \in MCBlocks |->
        CASE b = StartBlk -> 0 [] b = 101 + Early -> Early [] b = 201 + Late -> Late
          [] OTHER -> b - 1]
=============================================================================
