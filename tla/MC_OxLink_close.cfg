CONSTANTS
    MaxFrames = 3
    WireMax = 1
    Closing = TRUE
    Window = 2
    Reqs = {}
    SeqModulus = 16
    Chans = {1, 4}
    CompatMode = FALSE
    DefaultCredits = 2
    RecvCredits = 2
    ReadFlits = 1
    MaskWidth = 64
    EthernetMax = 70
    CloseTimeout = TRUE
    MaxLoss = 1
    None = None
    EpAckOnly = TRUE
SPECIFICATION Spec
CONSTRAINT MCConstraint
INVARIANT ClosedTogether
