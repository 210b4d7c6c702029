\* What test cases read: streams with seeks in them, and raw frames after the
\* static controls.
SPECIFICATION MediaSpec
CONSTANTS
    Streams <- ShortStreams
    CommandLists <- Meetings
    MaxSeekFrame = 1
    MaxFrameCnt = 4
    MaxRetry = 1
    Pictures <- SomePictures
    FileFrames = 2
    StaticControlLists <- SomeSettings
INVARIANTS
    TypeOK
    InStep
    NoSeekForgotten
    NoSeekUnasked
    CopiesInside
    FrameInPlace
    StaticsInOrder
PROPERTIES
    SeeksEnd
