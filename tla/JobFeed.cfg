\* Three best blocks, the second ours, and a change of the mempool on each.
SPECIFICATION FairSpec
CONSTANTS
    MaxTips = 3
    MaxMempool = 1
    OurBlocks <- SecondBlock
INVARIANTS TypeOK CursorMatchesJob
PROPERTIES TipNeverRegresses FollowsNode
