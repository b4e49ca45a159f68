SPECIFICATION Spec
CONSTANTS
    BankSize = 2
    Banks = 2
    CfListLen = 1
    RegionsUsed <- MCRegions
    Biases <- MCBiases
    LinkAdrReqs <- MCLinkAdrReqs
    ChannelIndices = {0, 2, 4}
    RateRanges <- MCRateRanges
    AppRates = {0, 4}
    Delays = {1}
    Offsets = {0, 7}
    FoptsMaxLen = 6
    Rx2Rates = {8, 15}
    CfMasks <- MCCfMasks
    MaxCmds = 3
    MaxJoins = 7
    MaxLost = 1
INVARIANTS
    TypeOK
    AdrAnswered
    JoinChannelsKept
    DrawEnds
    MaskObeyed
    JoinBalanced
    OnlyKnownPanics
    ConfigurationUsable
