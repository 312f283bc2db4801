\* Two solved blocks, one of which bitcoind rejects.
CONSTANTS
    b1 = b1
    b2 = b2
    Blocks <- TwoBlocks
    InvalidBlocks <- SecondBlock
    MaxFinds = 1
    MaxFaults = 2
    MaxRpcFaults = 1
    MaxStops = 1
SPECIFICATION Spec
INVARIANTS
    TypeOK
    AcceptedMeansKnown
    OnDiskBeforeRpc
    OneFaultStrandsNothing
    SoleSubmitter
PROPERTIES
    SubmittedIsFinal
    ImplementsCustody
