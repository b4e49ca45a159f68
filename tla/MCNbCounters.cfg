SPECIFICATION Spec
CONSTANTS
    WireMod = 2
    Epochs = 2
    MaxFcntGap = 1
    SupportedDR = {0}
    DefaultDR = 0
    AdrAckLimit = 1
    AdrAckDelay = 1
    Second = 1
    FixedPlan = FALSE
    Frames <- CounterFrames
    TxTimes = {0}
    TsMod = 64
    RxOffset = 0
    RxDurations = {1}
    D = 1
    Api = {"abp", "session", "reboot"}
INVARIANTS
    TypeOK
    UplinkCounterUnused
    AdrAckCntBounded
    StickyQueued
PROPERTIES
    ImplementsContract
