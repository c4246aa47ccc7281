SPECIFICATION Spec
CONSTANTS
    Bits <- PulseBits
    Codes = {"loop", "stop", "wait"}
    CellTime = 7
    Lengths = {}
    Times = {}
    Settings <- MCSettings
    Initial <- MCInitial
    Trig = 1
    Meter = 2
    Margin = 5
    Freq = 2
    Width = 128
    UMax = 80
INVARIANTS
    TypeOK
    LoopIsThere
    GateSurroundsRF
    PulsesHavePhase
    OneADTrigger
    OneTriggerOut
CHECK_DEADLOCK FALSE
