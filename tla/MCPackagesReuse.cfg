SPECIFICATION Spec
CONSTANTS
    SetupMessages <- MCSetupMessages
    CertMessages <- MCCertMessages
    ApiSessions <- MCApiSessions
    SetupPorts = {200, 201}
    McFrames <- MCMcFrames
    WireModulus = 4
    MaxFcntUp = 2
    QueueLen = 1
    MaxPending = 256
    Faults = FALSE
INVARIANT
    UplinkCounterFresh
CHECK_DEADLOCK FALSE
