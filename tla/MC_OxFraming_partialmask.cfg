\* A 12-byte tail of a bitload write, sent as PutPartialData: the endpoint
\* must write exactly the caller's bytes.
CONSTANTS
    OpInputs <- MCOpsPartial
    MaxOps = 1
    NumSources = 2
    EthernetMax = 400
    EthernetMin = 70
    SinkId = 5
    MaxProbes = 0
SPECIFICATION Spec
INVARIANT FramesDecode
