-------------------------- MODULE MCEclipseMonitor --------------------------
\* Main-chain blocks are their numbers; 100 + n is a fork block of number n.
EXTENDS EclipseMonitor

CONSTANTS Top, Forks

MCBlocks == (StartBlk..Top) \cup Forks
MCNumberOf == [b \in MCBlocks |-> b % 100]

\* A fork leaves the main chain unless the fork has its parent.
MCParentOf ==
    [b \in MCBlocks |->
        IF b = StartBlk THEN 0
        ELSE IF b - 1 \in MCBlocks THEN b - 1 ELSE (b % 100) - 1]
=============================================================================
