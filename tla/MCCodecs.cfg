SPECIFICATION Spec
CONSTANTS
    Parts = {"fields", "stream", "frame", "chip"}
    MaxSetters = 3
    MaxCommands = 3
    BufferLen = 62
    StatusBytes = {0, 5, 79}
    FOptsLens = {0, 1, 15, 16}
    FrmLens = {0, 1, 17}
    FcntHighs = {0, 1}
    Flags <- MCFlags
    Models = {"sx1272", "sx1276", "sx1261", "sx1262", "stm32wl", "lr1110lp", "lr1110hp", "lr1110hf"}
    Factors = {5, 6, 11}
    Bandwidths = {31250, 125000, 500000}
    Rates = {5, 8}
    Frequencies = {169400000, 868100000}
    Powers <- MCPowers
    WindowsMs = {0, 50, 1500}
    MaxSettings = 3
    None = None
INVARIANTS
    ReadBack
    StreamParsed
    FrameAuthentic
    SettingsAccurate
CHECK_DEADLOCK FALSE
