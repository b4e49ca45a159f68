SPECIFICATION Spec
CONSTANTS
    Parts = {"chip"}
    MaxSetters = 3
    MaxCommands = 3
    BufferLen = 62
    StatusBytes = {0, 5, 79}
    FOptsLens = {0, 1, 15, 16}
    FrmLens = {0, 1, 17}
    FcntHighs = {0, 1}
    Flags <- MCFlags
    Models = {"sx1276"}
    Factors = {7, 11, 12}
    Bandwidths = {125000}
    Rates = {5, 8}
    Frequencies = {169400000, 868100000}
    Powers <- MCPowers
    WindowsMs = {0, 50, 1500}
    MaxSettings = 3
    None = None
INVARIANTS
    LdroAgrees
CHECK_DEADLOCK FALSE
