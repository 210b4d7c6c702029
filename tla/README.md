# Verification of the V4L2 video test application

This directory holds a TLA+ model of `iris_v4l2_test`, the application in this
repository that plays test cases (JSON files) on a V4L2 video decoder or
encoder, with the TLC configurations that check it and the proofs TLAPS checks.
Paths below are relative to the repository; `src/V4l2Decoder.cpp` is
the file of that name in its `src/` directory.

## 1. Inventory

| Component | State it keeps | Operations | Modelled by |
|---|---|---|---|
| `V4l2Decoder` | flags for drains, resolution changes and errors; pending seeks; frame and retry counters | `configureInput/Output`, `queueBuffers`, `handleSeek`, `handleRandomSeek`, `reconfigureOutput`, `start`, `stop`; callbacks `onBufferDone`, `onEventDone`, `onError` | `V4l2Decoder`, `DecoderSession`; all its seeks in `SeekCommands` |
| `V4l2Encoder` | drain flags, controls still to be set, counters | `configureInput/Output`, `queueBuffers`, `start`, `stop`; callbacks `onBufferDone`, `onError` | `V4l2Encoder`, `EncoderSession`; its queries of controls in `StaticControls` |
| `V4l2Codec` (base class) | per port: free list, pending list, buffer pool, started flag; commands; dump files | `allocateBuffers`, `freeBuffers`, `start/stopInput/Output`, `queueBuffer`, `setDynamicControls`, `setDynamicCommands`, `setDump`, `setMemoryType`, `populateStaticConfigs`, `setStaticControls` | `V4l2Codec`, `SeekCommands` (commands), `StaticControls`, `DumpNames`, `DeviceOpening` (memory type) |
| `V4l2Driver` | file descriptors, poll thread, exit and pause flags, `mBufferQueued` | `Open`, `isMatchVideoDevice`, `setCodecPixelFmt`, `OpenDMAHeap`, `Close`; `threadLoop`, `create/stop/pause/resumePollThread`; ioctl wrappers | `V4l2Driver` (a turn of `threadLoop`), `PollThread`, `DeviceOpening`, `DriverLife` |
| the device | two buffer queues, events, error condition, the codec's own state | ioctls, `poll()` | `V4l2Device`, `DecoderFirmware`, `EncoderFirmware` (external) |
| `TestingDecoder`, `TestingEncoder` | the OR-ed result | one session from `init` to the verdict | `DriverLife` (up to the first OR-ed call, early returns, deinit), `DecoderSession`, `EncoderSession`, `CodecService` (from there to the verdict), `TestMedia` (what it reads) |
| `main`, `runAndWaitForComplete` | table of test cases, execution mode, threads, result file | files one by one; sequential or concurrent execution; one line per test case | `Application` |
| `FFStreamParser` | FFmpeg contexts, position, packet positions | packets, IDR seek, random seek | `StreamParser` |
| `FFYUVParser` | file or FFmpeg context | raw frames with stride and scanline | `RawFrames` |
| `UBWC_Utils` | none | sizes and strides of compressed frames | `PlaneLayout` |
| `ConfigParser` | none | JSON to `ConfigureStruct` | `ConfigParser` |
| `Buffer.h`, `Log.h`, build files | | | no protocol |

**Interactions.** A session has two threads. The *session thread* runs
`TestingDecoder` or `TestingEncoder` and in it the loop of `queueBuffers`; the
*poll thread* runs `V4l2Driver::threadLoop` and in it the callbacks. They share
the two lists of each port (under the port's mutex), the atomic flags of
`V4l2Codec` (no lock), and the device (ioctls from both). The device is a third
actor: it finishes buffers, reports events and fails on its own. Test cases run
one after the other or each on a thread of its own; what they share is the
table of test cases, the static map of `setDump` and the result file.

**What is hard.** The session stops, reclaims and frees buffers while the poll
thread is inside its callbacks. One snapshot of `poll()` is acted on in three
steps, with blocking `VIDIOC_DQBUF`s that the session can invalidate in
between. A `V4L2_BUF_FLAG_LAST` buffer means the end of a drain, of a
resolution change or of both. A drain may have to be postponed until the output
port is started. Any ioctl may fail; before the loop failures are only OR-ed
together, in the teardown they are ignored. The wait for a LAST buffer has no
limit. The poll thread runs before the callbacks are registered and may be
paused; a session that gives up leaves it behind. Seeks move the parser and the
frame counter apart, are found again by number in two maps, and use -1 both for
"no seek" and for a failure. A second configuration file inherits the table and
the mode of the first.

**What makes it correct.** Every buffer is on exactly one list and never free
while the device owns it; a dumped frame is stable; SUCCESS means that every
frame asked for was fed and came back; a resolution change is neither forgotten
nor acted on before the last old frame; a control is set once, at its frame; a
session ends whatever the device does. The driver opens the right device, loses
no descriptor and no wake-up, and outlives its thread. The frame counter is the
position in the stream, and every seek asked for is made once, at its frame. A
raw frame is copied within its buffer to where the device looks for it. Static
controls reach the device in the order of the file, none passed over. Every
test case accepted so far gets its line before the next file changes the table.
The hazards, each at its line and with the properties that cover it, are listed
in `PROJECT.json`.

## 2. Modules

```
V4l2Device --- V4l2Driver --- V4l2Codec --+-- V4l2Decoder --- DecoderSession --+-- DecoderRefinement ---+-- MCDecoder
      |                                   |                                    +-- DecoderInvariants ---+
      +-- DecoderFirmware ----------------+
      |                                   |
      +-- EncoderFirmware ----------------+-- V4l2Encoder --- EncoderSession --+-- EncoderRefinement ---+-- MCEncoder
                                                                               +-- EncoderInvariants ---+
CodecService: what both refinements implement

PollThread ----+-- DriverLife --- MCDriver          ConfigParser --+-- Application --- MCApplication
DeviceOpening -+                                    DumpNames -----+

StreamParser --- SeekCommands --+
PlaneLayout ---- RawFrames -----+-- TestMedia --- MCMedia
StaticControls -----------------+

V4l2CodecProofs --+-- DecoderProofs --- DecoderRefinementProofs
                  +-- EncoderProofs
DataInduction ----+-- ApplicationProofs
                  +-- MediaProofs
DriverLifeProofs
```

* `V4l2Device` (external): the queues of the device node. `queued` are the
  buffers handed over by `VIDIOC_QBUF`, `done` the completions waiting for
  `VIDIOC_DQBUF`, both owned by the device; plus the event count, streaming,
  allocation and the POLLERR condition. It says which ioctls are refused.
* `DecoderFirmware`, `EncoderFirmware` (external): what is behind the queues.
  The decoder parses a header, raises the source-change event, consumes and
  produces frames, announces resolution changes, flushes before them, marks
  LAST buffers and stops until it is told to go on. The encoder consumes raw
  frames, produces bitstream and drains. Both are modelled from what the source
  expects of them.
* `V4l2Driver`: a turn of `threadLoop`. `ppc` is the place in its body,
  `revents` what is left of the snapshot, `buffer` the completion being
  handled.
* `V4l2Codec`: the lists, pools and flags (`flags` is the set of the
  `atomic_bool`s that are true), and the list operations with their failures;
  at its end what both codecs promise of the lists and of the buffers the
  device owns (`ListsPartition`, `OwnedOnce`, `OwnedApart`, `OwnedPending`).
* `V4l2Decoder`, `V4l2Encoder`: `queueBuffers` and the callbacks. `pc` names
  the function or lambda the session thread is in; a step is one ioctl, one
  section under a lock or one access to the shared flags (but for
  `Reconfig`, whose comment says why its several are one step). `ret` is what
  the calls have returned, OR-ed.
* `DecoderSession`, `EncoderSession`: the calls around the loop, `Init`, `Next`,
  fairness and the properties.
* `CodecService`: the promise of a session to whoever runs a test, in three
  actions: feed, deliver, report. `DecoderRefinement` and `EncoderRefinement`
  hold the refinement mappings.
* `DecoderInvariants`, `EncoderInvariants`: the inductive invariants; the one
  behind the refinement, `ServiceInv`, is with the mapping. The `...Proofs`
  modules: the theorems (section 4).
* `PollThread`: the thread's life: creating, pausing, resuming and stopping it,
  `mPauser` with its spurious wake-ups, the early returns that destroy the
  driver, and the protocol of `threadLoop` around a turn, which is one step.
  `pc` is the session, `tpc` the thread.
* `DeviceOpening`: `init` before that thread and `deinit` after it: the search
  over `/dev/video*`, `setCodecPixelFmt`, the heap and the memory type; `held`
  are the descriptors the process has open. `DriverLife` composes both: the
  thread is made on an open device, which is closed after the join.
* `StreamParser`: packets and seeking; a packet is a frame or one
  `getNextPacket` refuses. `SeekCommands`: `setDynamicCommands` and the loop of
  `V4l2Decoder::queueBuffers` as far as seeks go, with both maps, `RandomSeek`
  and -1. `PlaneLayout`: `UBWC_Utils` as functions. `RawFrames`:
  `fillPacketData`, a step for each `memcpy` of a line, of both planes or of
  the whole frame into the input buffer. `StaticControls`: the list from the
  configuration, what `queryControlsAVC/HEVC` take out of it, and the calls
  that set it, each of which the device may refuse. `TestMedia` is a test case
  that reads a stream, or sets its controls and reads raw frames.
* `ConfigParser`: `parseJsonConfigs` as a function; a recursive function goes
  over the test cases. `DumpNames`: `setDump`, its lookup and its counting
  apart. `Application`: `main`, the test cases and their threads, over both; a
  session is one step, which need not come: nothing is claimed of when it ends.
* `MCDecoder`, `MCEncoder`, `MCDriver`, `MCApplication`, `MCMedia`: values of
  constants for TLC.
* `DataInduction`: induction over numbers and sequences, for the proofs about
  what recursive functions compute.

An operator whose comment says *Mutant* is a wrong variant of the definition
after it. No specification uses it; putting it in place of that definition
shows that a property notices (`PROJECT.json`, "mutants").

### Abstractions

* A packet or raw frame is a frame, whatever it contains; `fed` and `delivered`
  count them. Buffers are model values without memory, planes or sizes.
* The lists are sets: `front()` is any member. This allows more behaviours than
  the code has.
* `usleep()` and the length of a retry take no time; a limited wait may run out
  at any moment. `MaxRetry` stands for the 100 of the code.
* In `V4l2Driver` `poll()`'s timeout changes nothing and is left out, and so is
  pausing the thread: `pause` and `resume` (`src/V4l2Decoder.cpp:456`) are for
  users of the class, and nothing in the application calls them. `PollThread`
  has them, as the driver offers them. POLLERR stands for a failed device.
* `queueAvailableOutputBuffers` is one step, as it holds the port's lock
  throughout. The format negotiation of `configureInput` and `configureOutput`
  is its last ioctl, `VIDIOC_REQBUFS`, which succeeds or fails.
* `V4l2Decoder` has one `IDRSeek` per frame number and no `RandomSeek`, with the
  device and its buffers; `SeekCommands` has every command, and of the device
  only whether calls fail, when the first reconfiguration is seen and whether a
  drain ends. There is one command of each kind for a frame.
* `Application` knows of a test case which dumps it opens and that it ends, or
  ends the process. A configuration is what decides whether it is accepted.
* A static control has an id and a value; of the tables that translate them
  there is left whether they have an entry, and 0 where they have none.
* Raw files have whole frames. A picture's `size` is the sizeimage the device
  answers, which is the size of the input buffer; the program compares it with
  nothing, so it may be any number. Sizes are numbers without a width: for
  compressed pictures up to 8192 x 8192 `SizesDoNotWrap` proves that 31 bits
  are enough.
* An allocation or ioctl fails only when the device refuses it or when `Faults`
  is TRUE; when it fails it has had no effect.

## 3. Runs

| Run | Module | What it asks | Bounds |
|---|---|---|---|
| `service` | MCDecoder | any ioctl or allocation may fail: the session implements `CodecService` (safety and the final report), with the inductive `ServiceInv`; `DeviceBuffersNotFree` | 3 input, 2 output buffers, 3 frames, NumFrames 2 |
| `drc` | MCDecoder | one resolution change before, during or after a seek, and a device that fails anywhere: `ReconfigLosesNoFrame`, `ResolutionChangeRemembered`, `ListsPartition`, `Termination` | 3 + 2 buffers, 2 frames |
| `faults` | MCDecoder | faults with a seek and a resolution change: `TypeOK` and the inductive `ListsInv` | 2 + 2 buffers, 3 frames, seek from frame 2 to 0 |
| `encoder` | MCEncoder | with a device that works, the session implements `CodecService`, with the inductive `ServiceInv`; `ControlsOnTime` | 2 + 2 buffers, 4 frames, NumFrames 3, 2 frames held, 3 controls |
| `encoder_faults` | MCEncoder | ioctls, allocations and the device fail: `SessionEnds`, and the inductive invariants of ownership and of the controls | 2 + 2 buffers, 3 frames, 3 controls |
| `poll_thread` | MCDriver | the whole life of a driver: `FirstMatchOpened`, `HeapForDmaBuffers`, `DescriptorsKept`, `ThreadPollsOpenDevice`, `WaitsOnlyPaused`, `PauseTakesHold`, `CallbacksRegistered`, `DriverOutlivesThread`, `DeinitIsEnough`, `StopReturns`, the inductive `LifeInv` | up to 3 devices of 6 kinds, 3 pauses, 2 spurious wake-ups |
| `application` | MCApplication | `OneAtATime`, `TableStable`, `TableIsLatest`, `EveryTestJudged`, `DumpsApart` | 1 or 2 files of 7 kinds with up to 3 test cases, 2 names, 2 dump names |
| `media` | MCMedia | `InStep`, `NoSeekForgotten`, `NoSeekUnasked`, `SeeksEnd`; `CopiesInside`, `FrameInPlace`; `StaticsInOrder` | 6 streams of up to 5 packets, 14 lists of up to 3 commands; 11 lists of up to 3 controls; 10 NV12 and 336 compressed pictures, each with 2 to 4 answers of the device for its sizeimage; 2 frames |
| `success_after_error`, `drc_ends_drain`, `dump_race`, `seek_reuse` | MCDecoder | the disagreements of section 5 | see the `.cfg` |

**Bounds.** `StreamLen`, `MaxFrameCnt` (NumFrames), `MaxRetry`, `MaxHeld`
(frames inside the device), `MaxChanges` (resolution changes) and the buffer
sets bound the state space; everything else follows from them. Two buffers on a
port are enough for one to be in the device, or in the poll thread's hands,
while the loop works on the other; the third input buffer lets the whole stream
be queued before the header is parsed, which is what postpones a drain. Three
frames give a first, a middle and a last one, and room for a resolution change
with frames on both sides of it. `MaxRetry` 1 already separates "wait" from
"give up". NumFrames is below the length of the stream in `service` and
`encoder` and above it elsewhere, so both ways to reach the end are taken.

In `poll_thread` a third pause follows a second one with and without a resume
between, and two wake-ups tell a wait that is repeated from one that is not;
the lists of devices have one that matches first, in the middle, last or
nowhere, twice, and each reason not to match. In `media` the commands are the
meetings that matter: one seek back, one forward, two in a row, an IDRSeek and
a RandomSeek on one frame and apart, one beyond the stream, one to a frame that
is not there, one at frame 0, one whose value is not a string; the pictures are
about the sizes at which an alignment or a tile adds a step, and about the
limit of interlacing, and the device's sizeimage is less than the frame, one
byte short of what the program reckons, that, and more; the controls have a
Level and a Tier in either order, alone, twice and with no entry in the tables,
FrameRC on, off and unlisted, first and last, and devices that lack the one,
the other or both. In `application` two files are what is needed for one to
inherit from another, and the files differ in mode, in names they share and in
where an error ends them; one has no test cases, which is an error too, and one
a mandatory control missing, which another hides by giving one twice.

`faults` and `poll_thread` do not check for deadlock. In `faults` the poll
thread may be blocked in `VIDIOC_DQBUF` after a seek, and if then the
VIDIOC_STREAMOFF of the teardown fails, nothing wakes it and the join never
returns. In `poll_thread` a session that stops a paused thread waits for ever.

**Symmetry** permutes the buffers of each port, in runs that check invariants
only.

**Fairness.** `FairSpec` has weak fairness on the session thread, on the poll
thread and on the progress of a device that has not failed. The threads are
ordinary `std::thread`s that the operating system schedules; every wait of
theirs is a poll with a sleep, a mutex held briefly or a blocking ioctl, and
the last is a disabled action here, so fairness does not rescue a thread that
is blocked for ever. Fairness of the device is the assumption that a working
device makes progress. There is no fairness on its failures. The properties
`Termination`, `SessionEnds` and the liveness of `CodecService` need all three.
`SessionEnds` is for a session whose setup succeeded and allows ioctls and
allocations to fail from there on, except the `VIDIOC_DQBUF` of a completion
that is there, which does not fail in the model. `LifeSpec` is fair to the
thread and to `join()`, which returns when the thread has ended; nothing
obliges a session to go on, and nothing wakes a thread that waits. `MediaSpec`
is fair to the turns of the loop and to a drain the device still has.
`Application` assumes no fairness: that `main` ends is not claimed, since
sessions have waits without a limit (for the LAST buffer,
`src/V4l2Decoder.cpp:787` and `src/V4l2Encoder.cpp:634`, and for the poll
thread, `src/V4l2Driver.cpp:659`). The modules of the sessions say when these
end.

## 4. Proofs

The theorems hold for all values of the constants that satisfy the named
assumptions (`BufAssumption`: the ports have finite, disjoint sets of buffers
and `None` is not one; `FaultsAssumption`; `FirmwareAssumption`;
`DecoderAssumption` and `EncoderAssumption`: counters are naturals, minimum
counts within the buffer sets; `PollThreadAssumption`: the bounds on pauses and
wake-ups are naturals; `DeviceAssumption`: device lists are sequences;
`StreamAssumption`: streams are sequences of packets; `SeekAssumption`: a frame
has one command of each kind, whose value is a number or not a string;
`StaticAssumption`: controls come in sequences, and no table has the mode for
skipped frames; `RawAssumption`: pictures have a height, an even width, a
stride no less than it and any sizeimage; `FilesAssumption`: a configuration is
what the JSON reader can return). None of them puts a bound on a size.

| Theorem | Module | Says |
|---|---|---|
| `TypeCorrect` | `DecoderProofs` | `Spec => []TypeOK` |
| `ListsInvAlways`, `ListsCorrect` | `DecoderProofs` | `Spec => []ListsInv`, `Spec => []ListsPartition` |
| `ReconfigCorrect` | `DecoderProofs` | `Spec => []ReconfigLosesNoFrame` |
| `ChangeRemembered` | `DecoderProofs` | `Spec => []ResolutionChangeRemembered` |
| `OwnershipCorrect` | `DecoderProofs` | `Spec => []DeviceBuffersNotFree`, if `SeekCmds = {}` |
| `ServiceInvAlways`, `ImplementsService`, `NoFrameLostQuietly` | `DecoderRefinementProofs` | `Spec => []ServiceInv`, `Spec => Service!Init /\ [][Service!Next]_Service!vars` and `Spec => []NoFrameLost`, if `SeekCmds = {}`, `MaxChanges = 0` and `~DeviceErrors` |
| `OwnershipAlways`, `OwnershipCorrect` | `EncoderProofs` | `Spec => []OwnershipInv`, `Spec => []DeviceBuffersNotFree` |
| `ControlsAlways`, `ControlsCorrect` | `EncoderProofs` | `Spec => []ControlsInv`, `Spec => []ControlsOnTime` |
| `ServiceInvAlways`, `ImplementsService` | `EncoderProofs` | `Spec => []ServiceInv`, `Spec => Service!Init /\ [][Service!Next]_Service!vars`, if `~DeviceErrors` |
| `NoResumeLost`, `PauseHolds`, `CallbacksFindSession`, `DriverOutlives`, `DeinitSuffices` | `DriverLifeProofs` | of `PollThread`'s `Spec`: `WaitsOnlyPaused`, `PauseTakesHold`, `CallbacksRegistered`, `DriverOutlivesThread`, `DeinitIsEnough` |
| `LifeInvariant`, `ThreadProtocol` | `DriverLifeProofs` | `LifeSpec => []LifeInv`, and with it the same five for the composition |
| `ThreadHasDevice`, `SearchIsRight`, `HeapSettled`, `NoneLost` | `DriverLifeProofs` | of `LifeSpec`: `ThreadPollsOpenDevice`, `FirstMatchOpened`, `HeapForDmaBuffers`, `DescriptorsKept` |
| `SeekTypes` | `MediaProofs` | `MediaSpec => []TypeOK`, the types of `SeekCommands` |
| `FramesInStep`, `NoSeekOfItself`, `SeeksInTime` | `MediaProofs` | of `MediaSpec`: `InStep`, `NoSeekUnasked`, `NoSeekForgotten` |
| `ControlsInOrder` | `MediaProofs` | `MediaSpec => []StaticsInOrder` |
| `CopiesStayInside`, `FramesInPlace` | `MediaProofs` | `MediaSpec => []CopiesInside`, `MediaSpec => []FrameInPlace` |
| `SizesDoNotWrap` | `MediaProofs` | of `PlaneLayout`: the size of a picture up to 8192 x 8192 is below 2^31 |
| `AppInvAlways`, `ApplicationTypes` | `ApplicationProofs` | of `Application`'s `Spec`: `[]AppInv`, `[]TypeOK` |
| `OneTestAtATime`, `TableAlwaysLatest`, `AllTestsJudged`, `DumpsNeverShared`, `TableStaysPut` | `ApplicationProofs` | of the same: `[]OneAtATime`, `[]TableIsLatest`, `[]EveryTestJudged`, `[]DumpsApart`, `TableStable` |

Each follows from an inductive invariant, of `DecoderInvariants`,
`EncoderInvariants` or `PollThread` or of the module of the proofs: the initial
states satisfy it, every action preserves it (a lemma for each conjunct, or for
each group of actions that disturbs it), and it implies the property. None of
the properties but the codecs' `TypeOK` is inductive.

*`V4l2CodecProofs`* holds what both codecs need: what the operations of
`V4l2Device`, `V4l2Driver` and `V4l2Codec` do to types, to a partition of the
lists (`AllocateLists`, `TakeLists`, `PutLists`, `ReclaimLists`) and to the set
of buffers the device owns (`CompleteOwns`, `DqBufOwns`, `QueueOwns`,
`StreamOffOwns`).

*`ListsInv`* (types and lists). Allocating a port whose pool is not empty would
put a buffer that is pending on the free list as well, so `AllocatedOnce` says
when the pool is empty: before the first allocation, and for OUTPUT_PORT
whenever the running loop has it stopped, except between `allocateBuffers` and
`startOutput` and inside `reconfigureOutput`. Types need `InputFilled`: the
loop that is about to queue an input buffer has one.

*`LastInv`* (resolution changes). `ReconfigLosesNoFrame` speaks of one moment,
the stop of OUTPUT_PORT. It holds because of where the LAST buffer is until
then: it is the last completion in the queue and the device has stopped
(`LastEndsQueue`); when the poll thread handles it, nothing is behind it and no
earlier one is noted (`HandlingLast`); once noted in `mDrcLastFlagReceived`, or
by the place of the session's thread, the queue stays empty and the thread has
no output buffer (`LastNoted`). `IdleUntilStarted` closes the circle: while
OUTPUT_PORT is not started, or stopped and not yet reclaimed, the device owns
no buffer of it, so restarting it finds no LAST buffer of before.

*`RememberedInv`* adds `NotDecoding`: `handleReconfigEvent` clears the event's
flag at once when OUTPUT_PORT is not started, and then the device is not in the
middle of a stream whose resolution could change. When the port is started the
flag is cleared only with the LAST buffer noted, and `LastInv` says that the
device has stopped.

*`OwnershipInv`* (both codecs). That an owned buffer is not free
(`OwnedApart`) survives a completion only if a buffer the poll thread has in
hand is not owned either, and the device has each buffer once (`OwnedOnce`).
It survives `allocateBuffers`, `queueAvailableOutputBuffers` and
`getInputBuffer` only if what is free is really not owned, that is if whatever
is owned or in hand is pending (`OwnedPending`) and, by `ListsInv`, not free;
this holds while the loop runs and no longer during the teardown, where a
completion may be put back after its list was rebuilt. `InputTaken` follows
the buffer between `getInputBuffer` and VIDIOC_QBUF, `Stopped` the ports
between VIDIOC_STREAMOFF and the reclaiming of their lists. In the decoder the
loop itself reclaims and frees OUTPUT_PORT; there `OutputIdle` of `LastInv`
says that neither the device nor the poll thread has a buffer of it. INPUT_PORT
has nothing of the kind in `handleSeek`, and with seeks the property is false
(`seek_reuse`): hence the assumption `SeekCmds = {}`.

*`ControlsInv`* (encoder). `SetOnce`: a control is on the list of those still
to be set or has been set, once; `SetInTime`: a control on the list is for a
frame that is not queued yet, and for a later one than the next when
`setDynamicControls` has passed, and one that has been set is not for a later
frame; `FramesCounted`: `frameCounter` is the number of frames queued, until
the drain is sent.

*`ServiceInv`* (both codecs) is behind the refinement. A report of SUCCESS must
find `fed` and `delivered` at what was asked for, and each of the two needs a
chain of its own. `FramesFed`: the parser and the counters are at the next
frame to feed, and a drain begins only when all have been fed.
`FramesAccounted`: what is fed and not delivered is in a queue of the device,
inside it, in a completion, or in the poll thread's hands, each frame once; so
`delivered = fed` as soon as these are empty. That they are empty when the loop
ends is what the LAST buffer has to show. In the encoder `LastIsLast` says it
of every place the LAST buffer passes, from the device to
`isDrainLastFlagReceived`. In the decoder a LAST buffer could also belong to a
resolution change, could be cancelled by a seek, or precede the start of
OUTPUT_PORT: `StartedOnce` (one source-change event, one start), `DrainedOnce`
(one V4L2_DEC_CMD_STOP, sent after the start, and the device stops for nothing
else), `LastOfDrain`. `SuccessEarned` carries the result through the teardown,
which may drop buffers but no longer changes what was delivered. The
assumptions are needed: with a failing device the verdict is wrong
(`success_after_error`), and with a resolution change frames are lost
(`drc_ends_drain`); seeks feed frames a second time. Ioctls and allocations may
fail. `ImplementsService` then maps each step to the service's feeding,
delivering or reporting, or to a stutter; `NoFrameLostQuietly` is the decoder's
promise in its own words, the one section 5 shows to fail in general.

*`PollThreadInv`*. That a thread only waits while it is paused is inductive with
the types; that it polls at most once more after a pause needs `PollAllowance`:
at the head of its loop it still has the poll it is about to make.
`QuietUntilBuffer` keeps the thread in its first sleep until the session is past
its setup, and `ThreadFollowsSession` ties `joinable`, `deinitCalled` and the
thread's place to the session's, which gives the three properties of deinit.

*`LifeInv`* adds the types of `DeviceOpening`, `SearchInOrder` (no device before
`idx` would do, and once the search is over the one at `idx` does),
`HeldInOrder` (what is open at each point of `init` and `deinit`) and
`InTurnInv` (the two halves go in turn). The steps of `PollThread` preserve its
invariant and leave the rest alone, and the other way round; only `InTurnInv`
needs both.

*`SeekInv`* says that as long as no seek has failed or gone astray the frame
counter is a natural number, the frames the parser knows are the packets of the
stream, and no seek was made for no command; `InStep` follows, as a seek to
frame f of a stream of frames is a seek to packet f (`PacketOfFrame`, by the
cardinality of an interval). *`OrderInv`* is behind `NoSeekForgotten`: an entry
is in a map only between the turn's `setDynamicCommands` and its seek, and is for
the frame the counter is at; so it is the first of its map, and the one erased.

*`SeekTypeInv`*. The types of `SeekCommands` are not inductive by themselves: a
seek takes the parser to a packet that must exist. For raw video the frames
known to the parser are those `loopPackets` has found one after the other
(`FoundFrames`), so each is a packet; in a container the packet of frame f is
found by counting, up to a packet that refuses (`CountFrames`, by induction).
`MapsTyped` says that a map leads only to numbers, also after its first entry
has been erased, which is the least because a set of numbers has one.

*`StaticInv`* compares two lists that are built in different orders. While
`populateStaticConfigs` works, the list without the modes for skipped frames is
what the test case has asked for so far, and every such mode comes after a
FrameRC that is on (`Paired`); `queryControlsAVC/HEVC` may then take out Level
or Tier, which keeps both; and while the device is set, what has been set and
what is left are together that list. `Without`, the loop that takes controls
out, is a recursive function, of which `WithoutAppend`, `WithoutBoth` and
`WithoutNone` say what it does to longer lists, and for two names. The proof
found an error in the first form of `StaticsInOrder`, which asked for the mode
after no other control than FrameRC: a control named FrameRC that the codec's
table does not list gets the id 0 and has the mode after it as well, and with
that control in the instance TLC found it too. The property now says so.

*`RawInv`* says of a frame that is being filled in that the lines before `line`
have been copied, and where the two pointers are; between frames it says which
of the three ways of copying has been gone to its end (`Finished`), and what
has been written to the input buffer. That every copy is inside the frame and
`pbuf` is then arithmetic: `LineInside` for lines, the scanlines being at least
the lines (`PictureFacts`); for planes the half of all luma against the
scanlines of chroma (`PlanesBounds`). The input buffer is the device's, of the
size it has answered, and nothing in the code compares that with the `bufSize`
or `getBufferSizeUsed` bytes written to it: `CopiesInside` says when they fit.
For NV12 that is when the sizeimage covers the two aligned planes; for
compressed pictures it is when it covers what `getBufferSize` gives, the size
with room for two fields, by `UsedFits`: a picture is no larger than two fields
of half its lines, rounded up, because each of the four roundings of a length
(`RoundUpHalves`, `AlignHalves`) is no more than twice that of half the length.
The solvers do not multiply variables; `TimesMonotone` and `TimesCancel` do it
for them. `SizesDoNotWrap` goes the same way with monotonicity, up to the
planes of the largest picture, which are computed.

*`AppInv`* (main and its test cases). `TableIsLatest` is behind the rest: a
file changes the table to what its accepted test cases make of it (`ReadInto`),
which `ParseTestsReads` shows of the recursive function by induction over the
test cases. Accepted is said there in other words than the parser's:
`WhatIsAccepted` compares its count of mandatory controls with the set of those
given, by a surjection from places in the section to controls (`EachOnce`), and
what remains is what the parser lets pass (section 5). From the definitions of
all files so far the latest of each name then stays the table (`ParseLatest`).
`OneInv`: outside the mode Concurrent a test case has ended when the next
begins. `ModeInv`: the mode is Concurrent only if a file has said so.
`JudgedInv`: of this file the test cases with a line are those that have ended,
and later files have none; with it `EveryTestJudged` is inductive, since
`JoinAll` waits for all. `NamesInv` gives `DumpsApart`: as long as no test runs
beside another, the dumps of a name are numbered below its counter, and the one
a test case is about to open is not among them. A mode that a file leaves
behind is why the assumption is about all files so far.

**Induction over data.** A fact with an operator for a parameter cannot be used
by the installed provers. `DataInduction` has sets in its place: a set of
numbers that has 0 and with n also n + 1 has all of them (`NumberInduction`,
from the least number of its complement, `LeastNumber`, which
`WellFoundedInduction` gives), and a set of sequences that has the empty one and
each one element longer has all (`AppendInduction`). `RecursionTo` gives a
recursive function on an interval its values. What is proved of recursive
functions rests on these.

TLC checks `ListsInv` in `faults`, the encoder's `OwnershipInv` and
`ControlsInv` in `encoder_faults`, `ServiceInv` (and with it the decoder's
`OwnershipInv`) in `service` and `encoder`, and `LifeInv` in `poll_thread`; the
decoder's `LastInv` and `RememberedInv`, `AppInv`, `SeekTypeInv`, `StaticInv` and
`RawInv` were checked on the instances of the runs of their modules.

Only model-checked: liveness, that of the refinements included, as fairness and
ENABLED are beyond the prover: `Termination`, `SessionEnds`, `StopReturns`,
`SeeksEnd` and the last conjunct of `ServiceSpec`. Every invariant that a
passing run checks, and `TableStable`, is stated by a theorem.

## 5. Where the code and its documentation disagree

Each of the first four has a run that finds the counterexample.

* `success_after_error`: `onError` sets `mErrorReceived`, the loop ends with
  `ret` 0 and the test case of a failed device prints SUCCESS.
* `drc_ends_drain`: with `V4L2_DEC_CMD_STOP` sent while the device flushes for
  a resolution change, `onBufferDone` takes the one LAST buffer for both; the
  loop ends while the frames behind the change are still in the device.
* `dump_race`: `putOutputBufferLocked` frees an output buffer before
  `writeDumpDataToFile` reads it; the loop can queue it in between and the
  device decodes into it while it is written to the file. The encoder's
  callback does the same.
* `seek_reuse`: a completion the poll thread has dequeued before `stopInput` is
  put back after it, when the buffer may have been queued again: it is then
  free while the device owns it.

Two more have no run of their own; `Accepted` of `ConfigParser` names both
(`MandatoryNotMissed`), so that `TableIsLatest` says how far the table is from
what the documentation promises, and the test cases of `application` have both.

* The repository's `README.md:209` calls `StaticControls` mandatory, and
  `parseJsonConfigs` prints "Static configs are mandatory for Encoder!" when
  `getConfigs` refuses it (`src/ConfigParser.cpp:257`). But `getConfigs`
  returns 0 for a section that is missing or empty (`:86`), for an encoder as
  for a decoder.
* Its `README.md:229-237` calls each of `Profile`, `Level`, `BitRate`,
  `BitRateMode` and `PrefixHeaderMode` mandatory, and `getConfigs` has "Mandatory
  controls not found!!!" for it (`src/ConfigParser.cpp:157`). But it counts them
  as they come (`:131`): one that is given twice stands for one that is missing.

Consequences met while modelling without a run of their own, most of them
listed as hazards: a frame is written to the device's input buffer without a
look at its size, so that one whose sizeimage is below the aligned planes is
overrun (`src/FFYUVParser.cpp:168`, `src/V4l2Encoder.cpp:293`); the loops of
both codecs may return -ENOMEM with a free buffer at hand, as
`isInputAvailable` and `needWaitForInput` take the lock one after the other; an
encoder whose `startOutput` failed may wait for a LAST buffer for ever, because
its result is only OR-ed; an IDRSeek that shares its frame with a RandomSeek is
never made and hides those after it; a failed random seek makes the frame
counter -1 and is followed by an IDR seek nobody asked for; `mTotalFrameCnt`
stays 0 for a container, so a RandomSeek in one divides by zero; concurrent
test cases with one dump name may open the same file; a `stopPollThread` of a
paused thread never returns; a session that gives up after `init` terminates
the process, and one whose `init` fails leaks its descriptors; an error in
`DynamicControls` silently drops the rest of the file, while a file without any
test case is refused and ends the program, because `ret` still has the 1 that
`reader->parse` returned for its success (`src/ConfigParser.cpp:208`).

Met while reading, outside the models or on a single path: `queryControlsAVC`
accepts a level whose menu entry cannot be queried and passes over the others
(`src/V4l2Encoder.cpp:154`), which has no effect, as nobody looks at what it
returns; a string that is in no table becomes the value 0 (the lowest level,
say) without a word, and an id that is in none the control 0, which no device
has and which ends `setStaticControls` (`src/V4l2Codec.cpp:307`); the `bufAddr`
of the DMABUF branch hides the outer one, which the dump of the input then
reads as null (`src/V4l2Decoder.cpp:398`); a container whose video is not its
first stream is refused (`src/FFStreamParser.cpp:64`); the last chroma line of
an odd height is not copied, and `bufSize` is not initialised for an
uncompressed format other than NV12 (`src/FFYUVParser.cpp:162`, `:176`); a read
error that is not the end of the file gives empty frames
(`src/FFYUVParser.cpp:121`); a command whose value is not a string ends the
process in `stoi` (`src/V4l2Codec.cpp:259`).

## 6. Not modelled

* The format negotiation of `configureInput` and `configureOutput` beyond its
  last ioctl, and the tables of `fillCfgCtrls`: each call only sets or reads a
  value of the device, whose meaning the device alone knows.
* `replaceNalSizeWAndWrite`, the contents of dumps, and the dump of the input:
  buffers have no memory in the model.
* The opening of files by FFmpeg and the choice of bitstream filters; a partial
  frame at the end of a raw file, and read errors.
* The enumeration of sizes, intervals and controls in `V4l2Driver`, command line
  options and signal handlers: they print, or end the process.
* `Buffer.h` and `Log.h` have no protocol; build files and data have no
  behaviour at run time.
* Races on the library's containers (`sNames` is taken as a lookup and a
  counting that interleave, the least such a race may do).

## 7. Plan

Done: the decoder and the encoder with their sessions and service, also under
failing ioctls; the driver's whole life; seeks, streams, static controls and raw
frames; the configuration files and the test cases; and the proofs of section 4.

What could follow: the liveness of the encoder's refinement under faults, of
which `SessionEnds` has only that the session ends; a `startOutput` that fails
would have to be excepted there too; a session of
`Application` refined by `DecoderSession` and `EncoderSession`; the negotiation
of formats, with what the device may answer; and a lemma on the sizes of NV12
like `SizesDoNotWrap`, whose stride the device chooses.
