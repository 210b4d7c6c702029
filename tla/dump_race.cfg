\* A buffer is free before it has been dumped.
SPECIFICATION Spec
CONSTANTS
    InBuf = {i1, i2, i3}
    OutBuf = {o1, o2, o3}
    None = None
    StreamLen = 4
    MaxFrameCnt = 5
    MinInputCount = 2
    MinOutputCount = 2
    MaxRetry = 2
    MaxHeld = 2
    MaxChanges = 0
    Faults = FALSE
    DeviceErrors = FALSE
    SeekCmds <- NoSeeks
SYMMETRY Symmetry
INVARIANTS
    DumpedFrameIsStable
