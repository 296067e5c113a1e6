\* The frame path round trip with correctly packed operations.
CONSTANTS
    OpInputs <- MCOpsAligned
    MaxOps = 2
    NumSources = 2
    EthernetMax = 400
    EthernetMin = 70
    SinkId = 5
    MaxProbes = 1
SPECIFICATION Spec
INVARIANT TypeOK
INVARIANT FramesDecode
INVARIANT ResponsesParsed
INVARIANT CreditsCoverFlits
INVARIANT SourcesConserved
