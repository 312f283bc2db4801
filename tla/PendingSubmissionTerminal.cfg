\* A retransmitted share reopens a row that was already submitted.
CONSTANTS
    b1 = b1
    b2 = b2
    Blocks <- OneBlock
    InvalidBlocks <- NoBlock
    MaxFinds = 2
    MaxFaults = 0
    MaxRpcFaults = 1
    MaxStops = 0
SPECIFICATION Spec
PROPERTIES
    TerminalStateKept
