SPECIFICATION StatsSpec
CONSTANTS
    Cap = 3000
    Offsets <- CodeOffsets
    Said <- CodeComments
    Starts = {0, 2990}
    MaxSamples = 6100
INVARIANT WindowSpans
CHECK_DEADLOCK FALSE
