SPECIFICATION Spec
CONSTANTS
    Chips = {"Sx126x"}
    SyncWords = {"Public"}
    RxModes = {"Single", "Continuous"}
    Droppable = {}
    Faulty = {}
INVARIANTS
    WakeUpComesAnywhere
CHECK_DEADLOCK FALSE
