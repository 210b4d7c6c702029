\* Every device list and memory type; pauses, resumes and spurious wake-ups in
\* any order.  A session that stops a paused thread waits in join() for ever,
\* so the system may stop there.
SPECIFICATION LifeSpec
CONSTANTS
    MaxPauses = 3
    MaxWakes = 2
    DeviceLists <- VideoDevices
    RawFormats = {"NV12", "NV21", "QC08C", "QC10C"}
    CodecFormats = {"H264", "HEVC", "VP9", "VP8", "H263", "MPEG"}
    TestFormats <- Asked
CHECK_DEADLOCK FALSE
INVARIANTS
    LifeInv
    WaitsOnlyPaused
    PauseTakesHold
    CallbacksRegistered
    DriverOutlivesThread
    DeinitIsEnough
    FirstMatchOpened
    HeapForDmaBuffers
    ThreadPollsOpenDevice
    DescriptorsKept
PROPERTIES
    StopReturns
