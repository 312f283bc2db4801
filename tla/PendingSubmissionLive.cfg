\* One block, one storage fault, lost answers and stops: it reaches the node.
CONSTANTS
    b1 = b1
    b2 = b2
    Blocks <- OneBlock
    InvalidBlocks <- NoBlock
    MaxFinds = 2
    MaxFaults = 1
    MaxRpcFaults = 2
    MaxStops = 2
SPECIFICATION FairSpec
PROPERTIES
    OnDiskLeadsToSubmitted
