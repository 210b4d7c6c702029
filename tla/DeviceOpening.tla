--------------------------- MODULE DeviceOpening ---------------------------
(***************************************************************************)
(* The beginning and the end of V4l2Decoder::init, V4l2Encoder::init and   *)
(* deinit: which of the /dev/video* is opened (V4l2Driver::Open and        *)
(* isMatchVideoDevice), with which formats (setCodecPixelFmt) and where    *)
(* the memory of the buffers comes from (OpenDMAHeap), and the descriptors *)
(* that are held meanwhile.  A device is known by its number and by the    *)
(* formats of its two queues.                                              *)
(***************************************************************************)
EXTENDS Integers, Sequences, FiniteSetsExt

CONSTANTS
    DeviceLists,  \* what /dev/video* there may be: sequences of records
                  \* [opens, m2m, capture, output]
    RawFormats, CodecFormats,  \* those isMatchVideoDevice looks for
    TestFormats   \* what test cases ask for: records [codec, pixel]

ASSUME DeviceAssumption ==
    \A list \in DeviceLists :
        Len(list) \in Nat /\ DOMAIN list = 1 .. Len(list)

VARIABLES
    opening,      \* where init and deinit are
    devices,
    mDomain,
    formats,      \* those of the test case
    idx,
    mFd, mHeapFd,
    mMemoryType,
    held          \* the descriptors the process has open

openingVars == <<opening, devices, mDomain, formats, idx, mFd, mHeapFd,
                 mMemoryType, held>>
caseVars == <<devices, mDomain, formats>>

\* Descriptors: video device i is i, the heap is 0.
Closed == -1
Heap == 0

OpeningTypeOK ==
    /\ opening \in {"open", "match", "formats", "heap", "ready", "closed",
                    "failed"}
    /\ mDomain \in {"Decoder", "Encoder"}
    /\ idx \in 1 .. Len(devices) + 1
    /\ mFd \in {Closed} \cup DOMAIN devices
    /\ mHeapFd \in {Closed, Heap}
    /\ mMemoryType \in {"unset", "MMAP", "DMA_BUF"}
    /\ held \subseteq {Heap} \cup DOMAIN devices

OpeningInit ==
    /\ opening = "open"
    /\ devices \in DeviceLists
    /\ mDomain \in {"Decoder", "Encoder"}
    /\ formats \in TestFormats
    /\ idx = 1
    /\ mFd = Closed
    /\ mHeapFd = Closed
    /\ mMemoryType \in {"unset", "MMAP", "DMA_BUF"}
    /\ held = {}

-----------------------------------------------------------------------------
\* Open and isMatchVideoDevice.

\* The formats of the queue with the pictures and of that with the stream.
PictureSide(d) == IF mDomain = "Decoder" THEN d.capture ELSE d.output
StreamSide(d) == IF mDomain = "Decoder" THEN d.output ELSE d.capture

\* Mutant: one queue is looked at.
PictureSideOnly(d) == d.m2m /\ PictureSide(d) \cap RawFormats # {}

isMatchVideoDevice(d) ==
    /\ d.m2m
    /\ PictureSide(d) \cap RawFormats # {}
    /\ StreamSide(d) \cap CodecFormats # {}

NextDevice == idx' = idx + 1

TryDevice ==
    /\ opening = "open"
    /\ idx <= Len(devices)
    /\ IF devices[idx].opens
       THEN /\ mFd' = idx
            /\ held' = held \cup {idx}
            /\ opening' = "match"
            /\ UNCHANGED idx
       ELSE NextDevice /\ UNCHANGED <<mFd, held, opening>>
    /\ UNCHANGED <<caseVars, mHeapFd, mMemoryType>>

\* Mutant: a device that does not match stays open.
LeftOpen == UNCHANGED held

ClosedAgain == held' = held \ {mFd}

MatchDevice ==
    /\ opening = "match"
    /\ \/ /\ isMatchVideoDevice(devices[mFd])
          /\ opening' = "formats"
          /\ UNCHANGED <<idx, mFd, held>>
       \/ /\ ~isMatchVideoDevice(devices[mFd])
          /\ opening' = "open"
          /\ ClosedAgain
          /\ mFd' = Closed
          /\ NextDevice
    /\ UNCHANGED <<caseVars, mHeapFd, mMemoryType>>

NoDevice ==
    /\ opening = "open"
    /\ idx > Len(devices)
    /\ opening' = "failed"
    /\ UNCHANGED <<caseVars, idx, mFd, mHeapFd, mMemoryType, held>>

-----------------------------------------------------------------------------
\* The rest of init, up to createPollThread.

\* setCodecPixelFmt for both queues: the device has to have the very formats
\* of the test case, and an ioctl may fail.
SetFormats ==
    /\ opening = "formats"
    /\ \/ /\ formats.codec \in StreamSide(devices[mFd])
          /\ formats.pixel \in PictureSide(devices[mFd])
          /\ opening' = "heap"
       \/ opening' = "failed"
    /\ UNCHANGED <<caseVars, idx, mFd, mHeapFd, mMemoryType, held>>

\* Mutant: the test case's memory type is kept.
MemoryAsAsked(type) == UNCHANGED mMemoryType

setMemoryType(type) == mMemoryType' = type

OpenHeap ==
    /\ opening = "heap"
    /\ \/ /\ mMemoryType = "MMAP"
          /\ opening' = "ready"
          /\ UNCHANGED <<mHeapFd, mMemoryType, held>>
       \/ /\ mMemoryType # "MMAP"
          /\ mHeapFd' = Heap
          /\ held' = held \cup {Heap}
          /\ setMemoryType("DMA_BUF")
          /\ opening' = "ready"
       \/ /\ mMemoryType = "unset"
          /\ setMemoryType("MMAP")
          /\ opening' = "ready"
          /\ UNCHANGED <<mHeapFd, held>>
       \/ /\ mMemoryType = "DMA_BUF"
          /\ opening' = "failed"
          /\ UNCHANGED <<mHeapFd, mMemoryType, held>>
    /\ UNCHANGED <<caseVars, idx, mFd>>

Opening == TryDevice \/ MatchDevice \/ NoDevice \/ SetFormats \/ OpenHeap

\* Close and, of a session whose buffers come from the heap, CloseDMAHeap.
CloseAll ==
    /\ opening = "ready"
    /\ opening' = "closed"
    /\ mFd' = Closed
    /\ mHeapFd' = IF mMemoryType = "DMA_BUF" THEN Closed ELSE mHeapFd
    /\ held' = held \ ({mFd} \cup IF mMemoryType = "DMA_BUF"
                                  THEN {mHeapFd} ELSE {})
    /\ UNCHANGED <<caseVars, idx, mMemoryType>>

-----------------------------------------------------------------------------
\* Open takes the first device that can be opened and is for the Domain, and
\* fails only if there is none: a scaler, a device with one queue or one of
\* the other Domain does not stop the search.  It need not be a device that
\* has the codec of the test case.
ForDomain(d) ==
    d.opens /\ d.m2m /\ PictureSide(d) \cap RawFormats # {}
                     /\ StreamSide(d) \cap CodecFormats # {}

FirstMatchOpened ==
    LET fitting == {i \in DOMAIN devices : ForDomain(devices[i])} IN
    /\ opening \in {"formats", "heap", "ready"} => mFd = Min(fitting)
    /\ opening = "failed" /\ mFd = Closed => fitting = {}

\* The buffers come from the heap exactly when there is one, whatever the test
\* case has left open: allocateBuffer has no other place for them, and deinit
\* closes the heap for no other.
HeapForDmaBuffers ==
    opening = "ready" =>
        /\ mMemoryType \in {"MMAP", "DMA_BUF"}
        /\ mMemoryType = "DMA_BUF" <=> mHeapFd # Closed

-----------------------------------------------------------------------------
\* The inductive invariant.

\* The search leaves no device behind that would do.
SearchInOrder ==
    /\ idx \in Nat \ {0}
    /\ \A i \in DOMAIN devices : i < idx => ~ForDomain(devices[i])
    /\ opening = "match" => devices[idx].opens
    /\ opening \in {"formats", "heap", "ready"} => ForDomain(devices[idx])
    /\ opening \in {"match", "formats", "heap", "ready"} =>
           mFd = idx /\ mFd \in DOMAIN devices
    /\ opening = "failed" /\ mFd = Closed => idx > Len(devices)

\* What is open at each point.
HeldInOrder ==
    /\ opening \in {"open", "match", "formats", "heap", "ready", "closed",
                   "failed"}
    /\ opening = "open" => mFd = Closed /\ held = {}
    /\ opening \in {"match", "formats", "heap"} => held = {mFd}
    /\ opening \in {"open", "match", "formats", "heap"} => mHeapFd = Closed
    /\ opening = "ready" =>
           held = {mFd} \cup IF mMemoryType = "DMA_BUF" THEN {mHeapFd} ELSE {}
    /\ opening = "closed" => held = {}
    /\ opening = "failed" => held \subseteq {mFd}

OpeningInv ==
    /\ devices \in DeviceLists
    /\ mMemoryType \in {"unset", "MMAP", "DMA_BUF"}
    /\ SearchInOrder
    /\ HeldInOrder
    /\ HeapForDmaBuffers
=============================================================================
