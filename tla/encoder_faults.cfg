\* Any ioctl or allocation may fail, and so may the device.
SPECIFICATION FairSpec
CONSTANTS
    InBuf = {i1, i2}
    OutBuf = {o1, o2}
    None = None
    StreamLen = 3
    MaxFrameCnt = 5
    MinInputCount = 1
    MaxRetry = 1
    MaxHeld = 1
    Faults = TRUE
    DeviceErrors = TRUE
    DynamicControls <- Controls
INVARIANTS
    OwnershipInv
    ControlsInv
PROPERTIES
    SessionEnds
