---------------------------- MODULE MCEventBroker ----------------------------
\* One publisher; the blocks in which its contract's logs can fall.
EXTENDS EventBroker

CONSTANTS p1, c1, c2

MCBlocks == {<<Deploy>>, <<Reg(p1)>>, <<Notify(p1)>>,
             <<Notify(p1), Notify(p1)>>}

\* Blocks with several steps of the contract.
MCDenseBlocks == {<<Deploy>>, <<Reg(p1)>>, <<Notify(p1)>>,
                  <<Deploy, Reg(p1)>>, <<Reg(p1), Notify(p1)>>}

LeftToRight == {<<"blk", "past">>}
AnyOrder == {<<"blk", "past">>, <<"past", "blk">>}
=============================================================================
