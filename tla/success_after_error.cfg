\* The device fails and the session prints SUCCESS.
SPECIFICATION Spec
CONSTANTS
    InBuf = {i1, i2, i3}
    OutBuf = {o1, o2}
    None = None
    StreamLen = 2
    MaxFrameCnt = 5
    MinInputCount = 2
    MinOutputCount = 2
    MaxRetry = 1
    MaxHeld = 1
    MaxChanges = 0
    Faults = FALSE
    DeviceErrors = TRUE
    SeekCmds <- NoSeeks
SYMMETRY Symmetry
INVARIANTS
    NoFrameLost
