SPECIFICATION FairSpec
CONSTANTS
    WireMod = 2
    Epochs = 1
    MaxFcntGap = 1
    SupportedDR = {0, 1}
    DefaultDR = 1
    AdrAckLimit = 1
    AdrAckDelay = 1
    Second = 2
    FixedPlan = FALSE
    Frames <- TimingFrames
    TxTimes = {0, 62}
    TsMod = 64
    RxOffset <- Early
    RxDurations = {1, 3}
    D = 1
    Api = {"abp", "set_datarate"}
INVARIANTS
    WindowSchedule
    Rx1ClosesForRx2
PROPERTIES
    ExchangeCompletes
