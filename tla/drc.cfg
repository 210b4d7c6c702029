\* The resolution changes once and the device may fail, at any moment, before,
\* during and after a seek.
SPECIFICATION FairSpec
CONSTANTS
    InBuf = {i1, i2, i3}
    OutBuf = {o1, o2}
    None = None
    StreamLen = 2
    MaxFrameCnt = 5
    MinInputCount = 1
    MinOutputCount = 1
    MaxRetry = 1
    MaxHeld = 1
    MaxChanges = 1
    Faults = FALSE
    DeviceErrors = TRUE
    SeekCmds <- SeekEarly
INVARIANTS
    ListsPartition
    ReconfigLosesNoFrame
    ResolutionChangeRemembered
PROPERTIES
    Termination
