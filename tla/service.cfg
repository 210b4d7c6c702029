\* NumFrames is below the length of the stream, and any ioctl or allocation may
\* fail: the session implements CodecService.
SPECIFICATION FairSpec
CONSTANTS
    InBuf = {i1, i2, i3}
    OutBuf = {o1, o2}
    None = None
    StreamLen = 3
    MaxFrameCnt = 2
    MinInputCount = 1
    MinOutputCount = 1
    MaxRetry = 2
    MaxHeld = 1
    MaxChanges = 0
    Faults = TRUE
    DeviceErrors = FALSE
    SeekCmds <- NoSeeks
INVARIANTS
    DeviceBuffersNotFree
    ServiceInv
PROPERTIES
    ServiceSpec
