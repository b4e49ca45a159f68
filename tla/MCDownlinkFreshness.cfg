SPECIFICATION Spec
CONSTANTS
    WireMod = 4
    Epochs = 3
    MaxFcntGap = 2
INVARIANTS
    DeliveredBelow
    InGapAccepted
PROPERTIES
    NoReplay
CHECK_DEADLOCK FALSE
