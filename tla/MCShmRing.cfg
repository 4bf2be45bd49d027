CONSTANTS
    Frames = 4
    Blocks <- MCBlocks
    MaxMade = 9
    MaxRestarts = 1
SPECIFICATION Spec
PROPERTY ImplementsFifo
