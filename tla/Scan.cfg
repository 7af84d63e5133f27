\* Two submissions in pages of one: hints, lost hints, a busy row, lost connections.
CONSTANTS
    Last = 2
    PageSize = 1
    MaxBusy = 1
    Delays = 1
    Starts = 1
    MaxFaults = 2
SPECIFICATION PromptSpec
INVARIANTS
    TypeOK
    HintIsRemembered
PROPERTIES
    HintIsAnswered
    ReadyIsSettled
