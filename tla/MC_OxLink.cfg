CONSTANTS
    MaxFrames = 3
    WireMax = 1
    Closing = FALSE
    Window = 2
    Reqs = {r1, r2}
    SeqModulus = 8
    Chans = {1, 4}
    CompatMode = FALSE
    DefaultCredits = 2
    RecvCredits = 2
    ReadFlits = 1
    MaskWidth = 64
    EthernetMax = 70
    CloseTimeout = TRUE
    MaxLoss = 1
    None = None
    EpAckOnly = FALSE
SPECIFICATION Spec
CONSTRAINT MCWrapConstraint
SYMMETRY MCSymmetry
INVARIANTS TypeOK NoRxPanic CreditConservation NoFrameLostForGood
PROPERTY LinkSpec
