SPECIFICATION Spec
CONSTANTS
    WireMod = 5
    Epochs = 2
    MaxFcntGap = 3
    SupportedDR = {0, 1, 3}
    DefaultDR = 3
    AdrAckLimit = 2
    AdrAckDelay = 2
    Second = 1
    FixedPlan = TRUE
    Frames <- AdrFrames
    TxTimes = {0}
    TsMod = 64
    RxOffset = 0
    RxDurations = {1}
    D = 1
    Api = {"abp", "set_adr"}
INVARIANTS
    AdrBackoffReached
PROPERTIES
    AskedBeforeBackoff
