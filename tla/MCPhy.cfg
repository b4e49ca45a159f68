SPECIFICATION FairSpec
CONSTANTS
    Chips = {"Lr1110", "Sx127x"}
    SyncWords = {"Public", "Private"}
    RxModes = {"Single", "Continuous"}
    Droppable = {"rx"}
    Faulty = {"new", "set_lora_sync_word", "sleep", "prepare_for_rx", "tx", "rx"}
INVARIANTS
    OnAirReady
    AsleepKnown
    WakeUpComes
    NoPanic
    RxResultFresh
PROPERTIES
    OperationEnds
CHECK_DEADLOCK FALSE
