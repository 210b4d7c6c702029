\* Ioctls fail in the middle of a seek and of a resolution change.  A
\* VIDIOC_STREAMOFF that fails in the teardown leaves VIDIOC_DQBUF blocked and
\* the session in its join, so it may stop.
SPECIFICATION Spec
CONSTANTS
    InBuf = {i1, i2}
    OutBuf = {o1, o2}
    None = None
    StreamLen = 3
    MaxFrameCnt = 5
    MinInputCount = 1
    MinOutputCount = 1
    MaxRetry = 1
    MaxHeld = 1
    MaxChanges = 1
    Faults = TRUE
    DeviceErrors = FALSE
    SeekCmds <- SeekBack
SYMMETRY Symmetry
CHECK_DEADLOCK FALSE
INVARIANTS
    TypeOK
    ListsInv
