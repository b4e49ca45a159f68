SPECIFICATION FairSpec
CONSTANTS
    WireMod = 2
    Epochs = 1
    MaxFcntGap = 1
    SupportedDR = {0}
    DefaultDR = 0
    AdrAckLimit = 1
    AdrAckDelay = 1
    Second = 1
    FixedPlan = FALSE
    Frames <- AsyncFrames
    TxMs = {0, 2}
    Lead = 1
    D = 1
    Api = {"abp", "class_c", "session", "reboot", "set_adr", "set_datarate"}
INVARIANTS
    UplinkCounterUnused
    StickyQueued
    Rx2FollowsRx1
    ExchangeAnswers
PROPERTIES
    ImplementsContract
    ExchangeCompletes
