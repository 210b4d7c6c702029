\* A device that works: the session implements CodecService.
SPECIFICATION FairSpec
CONSTANTS
    InBuf = {i1, i2}
    OutBuf = {o1, o2}
    None = None
    StreamLen = 4
    MaxFrameCnt = 3
    MinInputCount = 1
    MaxRetry = 2
    MaxHeld = 2
    Faults = FALSE
    DeviceErrors = FALSE
    DynamicControls <- Controls
INVARIANTS
    ControlsOnTime
    ServiceInv
PROPERTIES
    ServiceSpec
