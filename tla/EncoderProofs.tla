---------------------------- MODULE EncoderProofs ---------------------------
(***************************************************************************)
(* An encoding session, for every value of the constants: any number of    *)
(* buffers, frames and controls, with or without faults and device errors. *)
(*                                                                         *)
(* OwnershipInv and ControlsInv are about any session.  On a device that   *)
(* does not fail, ServiceInv is inductive as well, and under it every step *)
(* of a session maps to a step of CodecService or to none, whatever ioctls *)
(* and allocations fail: a session implements CodecService, but for its    *)
(* liveness.                                                               *)
(***************************************************************************)
EXTENDS EncoderRefinement, V4l2CodecProofs

-----------------------------------------------------------------------------
\* The encoder's own reactions keep its type.

\* Nothing happens to the encoder.
LEMMA FirmwareUnchanged ==
  ASSUME FirmwareTypeOK, UNCHANGED firmwareVars
  PROVE  FirmwareTypeOK'
BY DEF FirmwareTypeOK, firmwareVars

\* The encoder is told of VIDIOC_STREAMOFF.
LEMMA StreamOffFirmware ==
  ASSUME FirmwareTypeOK, NEW p \in Port, FirmwareStreamOff(p)
  PROVE  FirmwareTypeOK'
<1>1. draining' \in BOOLEAN
  BY DEF FirmwareStreamOff
<1> QED
  BY <1>1 DEF FirmwareTypeOK, FirmwareStreamOff

-----------------------------------------------------------------------------
\* Every step keeps the type of each component.

\* deviceVars: the ioctls of either thread, and the device itself.
LEMMA DeviceTypeStep ==
  ASSUME ListsInv, Next
  PROVE  DeviceTypeOK'
<1>1. CASE \/ ConfigureInput \/ ConfigureOutput \/ FreeInput \/ FreeOutput
  <2>1. \/ UNCHANGED deviceVars
        \/ \E p \in Port, some \in BOOLEAN : ReqBufs(p, some)
    BY <1>1
    DEF ConfigureInput, ConfigureOutput, ConfigurePort, FreeInput, FreeOutput,
        FreePort, Port
  <2> QED
    BY <2>1, DeviceUnchanged, ReqBufsType DEF ListsInv, TypeOK
<1>2. CASE \/ StartInput \/ StartOutput
  <2>1. UNCHANGED deviceVars \/ \E p \in Port : StreamOn(p)
    BY <1>2 DEF StartInput, StartOutput, StartPort, Port
  <2> QED
    BY <2>1, DeviceUnchanged, StreamOnType DEF ListsInv, TypeOK
<1>3. CASE \/ StopInput \/ StopOutput
  <2>1. UNCHANGED deviceVars \/ \E p \in Port : StreamOff(p)
    BY <1>3 DEF StopInput, StopOutput, StopPort, Port, hardwareVars
  <2> QED
    BY <2>1, DeviceUnchanged, StreamOffType DEF ListsInv, TypeOK
<1>4. CASE QueueOutput
  <2>1. \E S \in SUBSET bufs[OUTPUT_PORT] : QueueBuffers(OUTPUT_PORT, S)
    BY <1>4 DEF QueueOutput, QueueAllOutput, QueueSomeOutput
  <2>2. bufs[OUTPUT_PORT] \subseteq BufsOf(OUTPUT_PORT)
    BY DEF ListsInv, TypeOK, CodecTypeOK, IsPortBufs, Port
  <2> QED
    BY <2>1, <2>2, QueueBuffersType DEF ListsInv, TypeOK, Port
<1>5. CASE QueueInput
  <2>1. CASE UNCHANGED deviceVars
    BY <2>1, DeviceUnchanged DEF ListsInv, TypeOK
  <2>2. CASE QueueBuffers(INPUT_PORT, {input}) /\ input # None
    <3>1. {input} \in SUBSET BufsOf(INPUT_PORT)
      BY <2>2 DEF ListsInv, TypeOK, EncoderTypeOK, BufsOf
    <3> QED
      BY <2>2, <3>1, QueueBuffersType DEF ListsInv, TypeOK, Port
  <2> QED
    BY <1>5, <2>1, <2>2 DEF QueueInput, ListsInv, InputFilled
<1>6. CASE PollLoop
  <2>1. DqBuf(INPUT_PORT) \/ DqBuf(OUTPUT_PORT) \/ UNCHANGED deviceVars
    BY <1>6 DEF PollLoop, PollReady, PollExit, DequeueOutput, DequeueInput,
                DequeueBuffer
  <2> QED
    BY <2>1, DqBufType, DeviceUnchanged DEF ListsInv, TypeOK, Port
<1>7. CASE \/ DeviceWorks \/ DeviceBreaks
  <2>1. CASE Break
    BY <2>1 DEF Break, ListsInv, TypeOK, DeviceTypeOK, IsPortBufs
  <2>2. CASE ConsumeFrame
    BY <2>2, CompleteType, INPUT_PORT \in Port, FALSE \in BOOLEAN
    DEF ConsumeFrame, ListsInv, TypeOK, Port
  <2>3. CASE ProduceFrame
    BY <2>3, CompleteType DEF ProduceFrame, ListsInv, TypeOK, Port
  <2>4. CASE ProduceEmptyLast
    BY <2>4, CompleteType DEF ProduceEmptyLast, ListsInv, TypeOK, Port
  <2> QED
    BY <1>7, <2>1, <2>2, <2>3, <2>4 DEF DeviceWorks, DeviceBreaks
<1>8. CASE \/ SetControls \/ AllocateOutput \/ AllocateInput \/ LoopHead
           \/ DrainWait \/ SetDynamicControls \/ InputAvailable
           \/ WaitForInput \/ PrepareInput \/ SetDrain \/ DrainStop
           \/ ReclaimInput \/ ReclaimOutput \/ StopPollThread \/ Join
           \/ OnError \/ OnInputDone \/ OnOutputDone \/ DumpOutput
           \/ OnLastForDrain \/ Finished
  <2>1. UNCHANGED deviceVars
    BY <1>8
    DEF SetControls, AllocateOutput, AllocateInput, AllocatePort, LoopHead,
        DrainWait, SetDynamicControls, InputAvailable, WaitForInput,
        PrepareInput, SetDrain, DrainStop, ReclaimInput, ReclaimOutput,
        ReclaimPort, StopPollThread, Join, OnError, PollError, OnInputDone,
        OnOutputDone, DumpOutput, OnLastForDrain, Finished, hardwareVars, vars
  <2> QED
    BY <2>1, DeviceUnchanged DEF ListsInv, TypeOK
<1> QED
  BY <1>1, <1>2, <1>3, <1>4, <1>5, <1>6, <1>7, <1>8
  DEF Next, SessionNext, QueueBuffersNext, PollNext

\* firmwareVars: what the encoder does, alone or told by an ioctl.
LEMMA FirmwareTypeStep ==
  ASSUME ListsInv, Next
  PROVE  FirmwareTypeOK'
<1>1. CASE \/ StopInput \/ StopOutput
  <2>1. UNCHANGED firmwareVars \/ \E p \in Port : FirmwareStreamOff(p)
    BY <1>1 DEF StopInput, StopOutput, StopPort, Port, hardwareVars
  <2> QED
    BY <2>1, FirmwareUnchanged, StreamOffFirmware DEF ListsInv, TypeOK
<1>2. CASE \/ DrainWait \/ DrainStop
  <2>1. FirmwareCmdStart \/ FirmwareCmdStop \/ UNCHANGED firmwareVars
    BY <1>2 DEF DrainWait, DrainStop
  <2> QED
    BY <2>1, FirmwareUnchanged
    DEF ListsInv, TypeOK, FirmwareTypeOK, FirmwareCmdStart, FirmwareCmdStop
<1>3. CASE \/ DeviceWorks \/ DeviceBreaks
  <2> USE DEF ListsInv, TypeOK, FirmwareTypeOK
  <2>1. CASE ConsumeFrame
    BY <2>1 DEF ConsumeFrame
  <2>2. CASE ProduceFrame
    <3>1. draining' \in BOOLEAN /\ stopped' \in BOOLEAN
      BY <2>2 DEF ProduceFrame, EndDrain
    <3>2. held' \in Nat
      BY <2>2 DEF ProduceFrame
    <3> QED
      BY <3>1, <3>2
  <2>3. CASE ProduceEmptyLast
    BY <2>3 DEF ProduceEmptyLast, EndDrain
  <2>4. CASE Break
    BY <2>4 DEF Break, firmwareVars
  <2> QED
    BY <1>3, <2>1, <2>2, <2>3, <2>4 DEF DeviceWorks, DeviceBreaks
<1>4. CASE \/ SetControls \/ ConfigureInput \/ ConfigureOutput
           \/ AllocateOutput \/ AllocateInput \/ StartOutput \/ StartInput
           \/ LoopHead \/ QueueOutput \/ SetDynamicControls
           \/ InputAvailable \/ WaitForInput \/ PrepareInput \/ QueueInput
           \/ SetDrain \/ ReclaimInput \/ ReclaimOutput \/ FreeInput
           \/ FreeOutput \/ StopPollThread \/ Join \/ PollLoop \/ OnError
           \/ OnInputDone \/ OnOutputDone \/ DumpOutput \/ OnLastForDrain
           \/ Finished
  <2>1. UNCHANGED firmwareVars
    BY <1>4
    DEF SetControls, ConfigureInput, ConfigureOutput, ConfigurePort,
        AllocateOutput, AllocateInput, AllocatePort, StartOutput, StartInput,
        StartPort, LoopHead, QueueOutput, SetDynamicControls, InputAvailable,
        WaitForInput, PrepareInput, QueueInput, SetDrain, ReclaimInput,
        ReclaimOutput, ReclaimPort, FreeInput, FreeOutput, FreePort,
        StopPollThread, Join, PollLoop, OnError, OnInputDone, OnOutputDone,
        DumpOutput, OnLastForDrain, Finished, hardwareVars, vars
  <2> QED
    BY <2>1, FirmwareUnchanged DEF ListsInv, TypeOK
<1> QED
  BY <1>1, <1>2, <1>3, <1>4
  DEF Next, SessionNext, QueueBuffersNext, PollNext

\* driverVars: VIDIOC_QBUF, stopPollThread and the poll thread.
LEMMA DriverTypeStep ==
  ASSUME ListsInv, Next
  PROVE  DriverTypeOK'
<1>1. CASE StopPollThread
  BY <1>1 DEF StopPollThread, RequestExit, ListsInv, TypeOK, DriverTypeOK
<1>2. CASE QueueOutput
  <2>1. \E S \in SUBSET bufs[OUTPUT_PORT] : QueueBuffers(OUTPUT_PORT, S)
    BY <1>2 DEF QueueOutput, QueueAllOutput, QueueSomeOutput
  <2>2. bufs[OUTPUT_PORT] \subseteq BufsOf(OUTPUT_PORT)
    BY DEF ListsInv, TypeOK, CodecTypeOK, IsPortBufs, Port
  <2> QED
    BY <2>1, <2>2, QueueBuffersType DEF ListsInv, TypeOK, Port
<1>3. CASE QueueInput
  <2>1. CASE UNCHANGED driverVars
    BY <2>1, DriverUnchanged DEF ListsInv, TypeOK
  <2>2. CASE QueueBuffers(INPUT_PORT, {input}) /\ input # None
    <3>1. {input} \in SUBSET BufsOf(INPUT_PORT)
      BY <2>2 DEF ListsInv, TypeOK, EncoderTypeOK, BufsOf
    <3> QED
      BY <2>2, <3>1, QueueBuffersType DEF ListsInv, TypeOK, Port
  <2> QED
    BY <1>3, <2>1, <2>2 DEF QueueInput, ListsInv, InputFilled
<1>4. CASE PollLoop
  <2>1. CASE PollReady
    BY <2>1, HandleType
    DEF PollReady, Ready, ListsInv, TypeOK, DriverTypeOK
  <2>2. CASE PollExit
    BY <2>2 DEF PollExit, PollPc, ListsInv, TypeOK, DriverTypeOK
  <2>3. CASE DequeueOutput
    BY <2>3, DequeueType DEF DequeueOutput, ListsInv, TypeOK, Port, PollPc
  <2>4. CASE DequeueInput
    BY <2>4, DequeueType DEF DequeueInput, ListsInv, TypeOK, Port, PollPc
  <2> QED
    BY <1>4, <2>1, <2>2, <2>3, <2>4 DEF PollLoop
<1>5. CASE \/ OnError \/ OnInputDone \/ OnOutputDone \/ DumpOutput
           \/ OnLastForDrain
  <2>1. \/ CallbackReturns("IN") \/ CallbackReturns("OUT")
        \/ /\ ppc' \in {"dump", "drainFlag", "ended"}
           /\ UNCHANGED <<mBufferQueued, mPollThreadExit, revents, buffer>>
    BY <1>5 DEF OnError, PollError, OnInputDone, OnOutputDone, DumpOutput,
                OnLastForDrain
  <2> QED
    BY <2>1, CallbackReturnsType DEF ListsInv, TypeOK, DriverTypeOK, PollPc
<1>6. CASE \/ SetControls \/ ConfigureInput \/ ConfigureOutput
           \/ AllocateOutput \/ AllocateInput \/ StartOutput \/ StartInput
           \/ LoopHead \/ DrainWait \/ SetDynamicControls
           \/ InputAvailable \/ WaitForInput \/ PrepareInput \/ SetDrain
           \/ DrainStop \/ StopInput \/ ReclaimInput \/ StopOutput
           \/ ReclaimOutput \/ FreeInput \/ FreeOutput \/ Join
           \/ DeviceWorks \/ DeviceBreaks \/ Finished
  <2>1. UNCHANGED driverVars
    BY <1>6
    DEF SetControls, ConfigureInput, ConfigureOutput, ConfigurePort,
        AllocateOutput, AllocateInput, AllocatePort, StartOutput, StartInput,
        StartPort, LoopHead, DrainWait, SetDynamicControls, InputAvailable,
        WaitForInput, PrepareInput, SetDrain, DrainStop, StopInput,
        ReclaimInput, StopOutput, ReclaimOutput, StopPort, ReclaimPort,
        FreeInput, FreeOutput, FreePort, Join, DeviceWorks, DeviceBreaks,
        Finished, vars
  <2> QED
    BY <2>1, DriverUnchanged DEF ListsInv, TypeOK
<1> QED
  BY <1>1, <1>2, <1>3, <1>4, <1>5, <1>6
  DEF Next, SessionNext, QueueBuffersNext, PollNext

\* started and flags.
LEMMA FlagsTypeStep ==
  ASSUME ListsInv, Next
  PROVE  (started \in [Port -> BOOLEAN] /\ flags \subseteq Flag)'
<1>1. CASE \/ StartInput \/ StartOutput \/ ReclaimInput \/ ReclaimOutput
  <2>1. /\ \/ \E p \in Port, on \in BOOLEAN : SetStarted(p, on)
           \/ UNCHANGED started
        /\ UNCHANGED flags
    BY <1>1
    DEF StartInput, StartOutput, StartPort, ReclaimInput, ReclaimOutput,
        ReclaimPort, Port
  <2> QED
    BY <2>1 DEF SetStarted, ListsInv, TypeOK, CodecTypeOK
<1>2. CASE \/ DrainWait \/ SetDrain \/ OnError \/ OnLastForDrain
  <2>1. UNCHANGED started /\ flags' \subseteq flags \cup Flag
    BY <1>2 DEF DrainWait, SetDrain, OnError, OnLastForDrain, Flag
  <2> QED
    BY <2>1 DEF ListsInv, TypeOK, CodecTypeOK
<1>3. CASE \/ SetControls \/ ConfigureInput \/ ConfigureOutput
           \/ AllocateOutput \/ AllocateInput \/ LoopHead \/ QueueOutput
           \/ SetDynamicControls \/ InputAvailable \/ WaitForInput
           \/ PrepareInput \/ QueueInput \/ DrainStop \/ StopInput
           \/ StopOutput \/ FreeInput \/ FreeOutput \/ StopPollThread
           \/ Join \/ PollLoop \/ OnInputDone \/ OnOutputDone \/ DumpOutput
           \/ DeviceWorks \/ DeviceBreaks \/ Finished
  <2>1. UNCHANGED <<started, flags>>
    BY <1>3
    DEF SetControls, ConfigureInput, ConfigureOutput, ConfigurePort,
        AllocateOutput, AllocateInput, AllocatePort, LoopHead, QueueOutput,
        SetDynamicControls, InputAvailable, WaitForInput, PrepareInput,
        QueueInput, DrainStop, StopInput, StopOutput, StopPort, FreeInput,
        FreeOutput, FreePort, StopPollThread, Join, PollLoop, OnInputDone,
        OnOutputDone, DumpOutput, DeviceWorks, DeviceBreaks, Finished,
        codecVars, vars
  <2> QED
    BY <2>1 DEF ListsInv, TypeOK, CodecTypeOK
<1> QED
  BY <1>1, <1>2, <1>3
  DEF Next, SessionNext, QueueBuffersNext, PollNext

\* The lists: a port is allocated when its pool is empty.
LEMMA ListsStep ==
  ASSUME ListsInv, Next
  PROVE  ListsOK'
<1>0. ListsOK
  BY DEF ListsInv, TypeOK, CodecTypeOK, ListsOK
<1>1. CASE \/ AllocateInput \/ AllocateOutput
  <2>1. \E p \in Port : \E S \in SUBSET BufsOf(p) :
           pool[p] = {} /\ AllocateBuffers(p, S)
    BY <1>1
    DEF AllocateInput, AllocateOutput, AllocatePort, ListsInv, AllocatedOnce,
        Port
  <2> QED
    BY <1>0, <2>1, AllocateLists
<1>2. CASE \/ ReclaimOutput \/ ReclaimInput
  <2>1. \E p \in Port : ReclaimPending(p)
    BY <1>2 DEF ReclaimOutput, ReclaimInput, ReclaimPort, Port
  <2> QED
    BY <1>0, <2>1, ReclaimLists
<1>3. CASE \/ FreeOutput \/ FreeInput
  <2>1. \E p \in Port : ClearLists(p)
    BY <1>3 DEF FreeOutput, FreeInput, FreePort, Port
  <2> QED
    BY <1>0, <2>1, ClearListsOK
<1>4. CASE \/ QueueOutput \/ PrepareInput
  <2>1. \E p \in Port : \E S \in SUBSET bufs[p] : TakeBuffers(p, S)
    BY <1>4
    DEF QueueOutput, QueueAllOutput, QueueSomeOutput, PrepareInput, Port
  <2> QED
    BY <1>0, <2>1, TakeLists
<1>5. CASE \/ OnInputDone \/ OnOutputDone
  <2>1. \/ UNCHANGED listVars
        \/ \E p \in Port : \E b \in pendingBufs[p] : PutBuffer(p, b)
    BY <1>5 DEF OnInputDone, OnOutputDone, Port
  <2> QED
    BY <1>0, <2>1, PutLists, ListsUnchanged
<1>6. CASE \/ SetControls \/ ConfigureInput \/ ConfigureOutput
           \/ StartOutput \/ StartInput \/ LoopHead \/ DrainWait
           \/ SetDynamicControls \/ InputAvailable \/ WaitForInput
           \/ QueueInput \/ SetDrain \/ DrainStop \/ StopInput
           \/ StopOutput \/ StopPollThread \/ Join \/ PollLoop \/ OnError
           \/ DumpOutput \/ OnLastForDrain \/ DeviceWorks \/ DeviceBreaks
           \/ Finished
  <2>1. UNCHANGED listVars
    BY <1>6
    DEF SetControls, ConfigureInput, ConfigureOutput, ConfigurePort,
        StartOutput, StartInput, StartPort, LoopHead, DrainWait,
        SetDynamicControls, InputAvailable, WaitForInput, QueueInput, SetDrain,
        DrainStop, StopInput, StopOutput, StopPort, StopPollThread, Join,
        PollLoop, OnError, DumpOutput, OnLastForDrain, DeviceWorks,
        DeviceBreaks, Finished, codecVars, vars
  <2> QED
    BY <1>0, <2>1, ListsUnchanged
<1> QED
  BY <1>1, <1>2, <1>3, <1>4, <1>5, <1>6
  DEF Next, SessionNext, QueueBuffersNext, PollNext

\* The state of the session's thread and the history.
LEMMA EncoderTypeStep ==
  ASSUME ListsInv, Next
  PROVE  EncoderTypeOK'
<1>1. CASE WaitForInput
  BY <1>1
  DEF WaitForInput, ListsInv, TypeOK, EncoderTypeOK, LoopPc, TeardownPc, Ret,
      Goto, ReturnError, Fail, historyVars
<1>2. CASE PrepareInput
  <2>1. bufs[INPUT_PORT] \subseteq InBuf
    BY DEF ListsInv, TypeOK, CodecTypeOK, IsPortBufs, BufsOf, Port
  <2> QED
    BY <1>2, <2>1
    DEF PrepareInput, ListsInv, TypeOK, EncoderTypeOK, LoopPc, TeardownPc, Ret,
        Goto, ReturnError, Fail, historyVars
<1>3. CASE \/ QueueInput \/ DrainStop
  BY <1>3
  DEF QueueInput, DrainStop, NextFrame, ListsInv, TypeOK, EncoderTypeOK,
      LoopPc, TeardownPc, Ret, Goto, ReturnError, Fail, historyVars
<1>4. CASE SetDynamicControls
  <2>1. /\ mDynamicControls' \subseteq mDynamicControls
        /\ applied' \in [DynamicControls -> Nat]
    BY <1>4
    DEF SetDynamicControls, ControlsDue, ApplyControl, ListsInv, TypeOK,
        EncoderTypeOK
  <2>2. /\ UNCHANGED <<frameCounter, retry_count, input, streamPos, fed>>
        /\ UNCHANGED delivered
        /\ pc' \in LoopPc \cup TeardownPc /\ ret' \in Ret \cup {ret}
    BY <1>4
    DEF SetDynamicControls, ReturnError, Fail, Goto, LoopPc, TeardownPc, Ret
  <2> QED
    BY <2>1, <2>2 DEF ListsInv, TypeOK, EncoderTypeOK
<1>5. CASE DumpOutput
  BY <1>5
  DEF DumpOutput, ListsInv, TypeOK, EncoderTypeOK, sessionVars, loopVars
<1>6. CASE \/ PollLoop \/ OnError \/ OnInputDone \/ OnOutputDone
           \/ OnLastForDrain \/ DeviceWorks \/ DeviceBreaks \/ Finished
  <2>1. UNCHANGED <<sessionVars, historyVars>>
    BY <1>6
    DEF PollLoop, OnError, OnInputDone, OnOutputDone, OnLastForDrain,
        DeviceWorks, DeviceBreaks, Finished, vars
  <2> QED
    BY <2>1
    DEF ListsInv, TypeOK, EncoderTypeOK, sessionVars, loopVars, historyVars
<1>7. CASE \/ SetControls \/ ConfigureInput \/ ConfigureOutput
           \/ AllocateOutput \/ AllocateInput \/ StartOutput \/ StartInput
           \/ LoopHead \/ QueueOutput \/ DrainWait \/ InputAvailable
           \/ SetDrain \/ StopInput \/ ReclaimInput \/ StopOutput
           \/ ReclaimOutput \/ FreeInput \/ FreeOutput \/ StopPollThread
           \/ Join
  <2>1. UNCHANGED progressVars /\ ret' \in Ret \cup {ret}
        /\ pc' \in SetupPc \cup LoopPc \cup TeardownPc
    BY <1>7
    DEF SetControls, ConfigureInput, ConfigureOutput, ConfigurePort,
        AllocateOutput, AllocateInput, AllocatePort, StartOutput, StartInput,
        StartPort, LoopHead, QueueOutput, QueueAllOutput, QueueSomeOutput,
        DrainWait, InputAvailable, SetDrain, StopInput, ReclaimInput,
        StopOutput, ReclaimOutput, StopPort, ReclaimPort, FreeInput,
        FreeOutput, FreePort, StopPollThread, Join, Goto, Fail, Return,
        ReturnError, SetupPc, LoopPc, TeardownPc, Ret
  <2> QED
    BY <2>1
    DEF ListsInv, TypeOK, EncoderTypeOK, progressVars, loopVars, historyVars
<1> QED
  BY <1>1, <1>2, <1>3, <1>4, <1>5, <1>6, <1>7
  DEF Next, SessionNext, QueueBuffersNext, PollNext

\* The pools are empty until they are allocated.
LEMMA AllocatedOnceStep ==
  ASSUME ListsInv, Next
  PROVE  AllocatedOnce'
<1>1. CASE \/ PollLoop \/ OnError \/ OnInputDone \/ OnOutputDone
           \/ DumpOutput \/ OnLastForDrain \/ DeviceWorks \/ DeviceBreaks
           \/ Finished
  <2>1. UNCHANGED <<pc, pool>>
    BY <1>1
    DEF PollLoop, OnError, OnInputDone, OnOutputDone, PutBuffer, DumpOutput,
        OnLastForDrain, DeviceWorks, DeviceBreaks, Finished, vars, sessionVars,
        codecVars, listVars
  <2> QED
    BY <2>1 DEF ListsInv, AllocatedOnce
<1>2. CASE \/ SetControls \/ ConfigureInput \/ ConfigureOutput
  <2>1. UNCHANGED pool /\ pc' # "allocateInput"
        /\ pc \in {"setControls", "configureInput", "configureOutput"}
    BY <1>2
    DEF SetControls, ConfigureInput, ConfigureOutput, ConfigurePort, Goto,
        Fail, codecVars, listVars
  <2> QED
    BY <2>1 DEF ListsInv, AllocatedOnce
<1>3. CASE AllocateOutput
  BY <1>3
  DEF AllocateOutput, AllocatePort, AllocateBuffers, Goto, Fail, ListsInv,
      AllocatedOnce, Port, INPUT_PORT, OUTPUT_PORT
<1>4. CASE \/ AllocateInput \/ StartOutput \/ StartInput \/ LoopHead
           \/ QueueOutput \/ DrainWait \/ SetDynamicControls
           \/ InputAvailable \/ WaitForInput \/ PrepareInput \/ QueueInput
           \/ SetDrain \/ DrainStop \/ StopInput \/ ReclaimInput
           \/ StopOutput \/ ReclaimOutput \/ FreeInput \/ FreeOutput
           \/ StopPollThread \/ Join
  <2>1. pc' \notin {"setControls", "configureInput", "configureOutput",
                    "allocateOutput", "allocateInput"}
    BY <1>4
    DEF AllocateInput, AllocatePort, StartOutput, StartInput, StartPort,
        LoopHead, QueueOutput, QueueAllOutput, QueueSomeOutput, DrainWait,
        SetDynamicControls, InputAvailable, WaitForInput, PrepareInput,
        QueueInput, SetDrain, DrainStop, NextFrame, StopInput, ReclaimInput,
        StopOutput, ReclaimOutput, StopPort, ReclaimPort, FreeInput,
        FreeOutput, FreePort, StopPollThread, Join, Goto, Fail, Return,
        ReturnError
  <2> QED
    BY <2>1 DEF AllocatedOnce
<1> QED
  BY <1>1, <1>2, <1>3, <1>4
  DEF Next, SessionNext, QueueBuffersNext, PollNext

\* The buffer to queue is taken in the step before.
LEMMA InputFilledStep ==
  ASSUME ListsInv, Next
  PROVE  InputFilled'
<1>1. CASE PrepareInput
  <2>1. \A b \in bufs[INPUT_PORT] : b # None
    BY BufAssumption
    DEF ListsInv, TypeOK, CodecTypeOK, IsPortBufs, Port, BufsOf
  <2> QED
    BY <1>1, <2>1
    DEF PrepareInput, InputFilled, Goto, ReturnError, Fail
<1>2. CASE \/ PollLoop \/ OnError \/ OnInputDone \/ OnOutputDone
           \/ DumpOutput \/ OnLastForDrain \/ DeviceWorks \/ DeviceBreaks
           \/ Finished
  <2>1. UNCHANGED <<pc, input>>
    BY <1>2
    DEF PollLoop, OnError, OnInputDone, OnOutputDone, DumpOutput,
        OnLastForDrain, DeviceWorks, DeviceBreaks, Finished, vars, sessionVars,
        loopVars
  <2> QED
    BY <2>1 DEF ListsInv, InputFilled
<1>3. CASE \/ SetControls \/ ConfigureInput \/ ConfigureOutput
           \/ AllocateOutput \/ AllocateInput \/ StartOutput \/ StartInput
           \/ LoopHead \/ QueueOutput \/ DrainWait \/ SetDynamicControls
           \/ InputAvailable \/ WaitForInput \/ QueueInput \/ SetDrain
           \/ DrainStop \/ StopInput \/ ReclaimInput \/ StopOutput
           \/ ReclaimOutput \/ FreeInput \/ FreeOutput \/ StopPollThread
           \/ Join
  <2>1. pc' # "queueInput"
    BY <1>3
    DEF SetControls, ConfigureInput, ConfigureOutput, ConfigurePort,
        AllocateOutput, AllocateInput, AllocatePort, StartOutput, StartInput,
        StartPort, LoopHead, QueueOutput, QueueAllOutput, QueueSomeOutput,
        DrainWait, SetDynamicControls, InputAvailable, WaitForInput,
        QueueInput, SetDrain, DrainStop, NextFrame, StopInput, ReclaimInput,
        StopOutput, ReclaimOutput, StopPort, ReclaimPort, FreeInput,
        FreeOutput, FreePort, StopPollThread, Join, Goto, Fail, Return,
        ReturnError
  <2> QED
    BY <2>1 DEF InputFilled
<1> QED
  BY <1>1, <1>2, <1>3
  DEF Next, SessionNext, QueueBuffersNext, PollNext

\* A step that changes nothing.
LEMMA StutterKeepsLists ==
  ASSUME ListsInv, UNCHANGED vars
  PROVE  ListsInv'
<1>1. /\ UNCHANGED <<deviceVars, firmwareVars, driverVars, listVars>>
      /\ UNCHANGED <<started, flags, pc, ret, loopVars, historyVars>>
  BY DEF vars, hardwareVars, codecVars, sessionVars
<1>2. DeviceTypeOK' /\ FirmwareTypeOK' /\ DriverTypeOK' /\ ListsOK'
  BY <1>1, DeviceUnchanged, FirmwareUnchanged, DriverUnchanged, ListsUnchanged
  DEF ListsInv, TypeOK, CodecTypeOK, ListsOK
<1>3. EncoderTypeOK' /\ AllocatedOnce' /\ InputFilled'
  BY <1>1
  DEF ListsInv, TypeOK, EncoderTypeOK, AllocatedOnce, InputFilled, loopVars,
      historyVars, listVars
<1> QED
  BY <1>1, <1>2, <1>3 DEF ListsInv, TypeOK, CodecTypeOK, ListsOK

-----------------------------------------------------------------------------
\* ListsInv is inductive.

\* The invariant holds before the first call ...
LEMMA ListsInvInit == Init => ListsInv
<1> SUFFICES ASSUME Init PROVE ListsInv
  OBVIOUS
<1> USE DEF Init, INPUT_PORT, OUTPUT_PORT
<1>1. DeviceTypeOK
  <2>1. <<>> \in Seq(Completion)
    OBVIOUS
  <2>2. done \in [Port -> Seq(Completion)]
    BY <2>1 DEF DeviceInit
  <2> QED
    BY <2>2, PortBufsEmpty DEF DeviceInit, DeviceTypeOK
<1>2. FirmwareTypeOK
  BY DEF FirmwareInit, FirmwareTypeOK
<1>3. DriverTypeOK
  BY DEF DriverInit, DriverTypeOK, PollPc
<1>4. CodecTypeOK
  BY PortBufsEmpty DEF CodecInit, CodecTypeOK
<1>5. EncoderTypeOK
  BY DEF EncoderInit, EncoderTypeOK, SetupPc, Ret
<1>6. ListsPartition
  BY DEF CodecInit, ListsPartition
<1>7. AllocatedOnce /\ InputFilled
  BY DEF CodecInit, EncoderInit, AllocatedOnce, InputFilled, Port
<1> QED
  BY <1>1, <1>2, <1>3, <1>4, <1>5, <1>6, <1>7 DEF ListsInv, TypeOK

\* ... and every step keeps it ...
LEMMA ListsInvStep == ListsInv /\ [Next]_vars => ListsInv'
<1> SUFFICES ASSUME ListsInv, Next PROVE ListsInv'
  BY StutterKeepsLists
<1>1. DeviceTypeOK' /\ FirmwareTypeOK' /\ DriverTypeOK' /\ EncoderTypeOK'
  BY DeviceTypeStep, FirmwareTypeStep, DriverTypeStep, EncoderTypeStep
<1>2. (started \in [Port -> BOOLEAN] /\ flags \subseteq Flag)'
  BY FlagsTypeStep
<1>3. ListsOK'
  BY ListsStep
<1>4. AllocatedOnce' /\ InputFilled'
  BY AllocatedOnceStep, InputFilledStep
<1> QED
  BY <1>1, <1>2, <1>3, <1>4 DEF ListsInv, TypeOK, CodecTypeOK, ListsOK

\* ... so it always holds.
LEMMA ListsInvAlways == Spec => []ListsInv
BY ListsInvInit, ListsInvStep, PTL DEF Spec

-----------------------------------------------------------------------------
\* Every step keeps the ownership of the buffers.

\* The poll thread gives a buffer out of its hands or keeps it.
LEMMA HandKept ==
  ASSUME UNCHANGED <<ppc, buffer>> \/ ppc' \notin {"inputDone", "outputDone"}
  PROVE  \A p \in Port : InHand(p)' \subseteq InHand(p)
BY DEF InHand

\* A callback returns, or goes on without the buffer.
LEMMA CallbackEmptiesHand ==
  ASSUME NEW r, CallbackReturns(r)
  PROVE  ppc' \notin {"inputDone", "outputDone"}
BY DEF CallbackReturns, Handle, NextHandler

\* A step that touches neither queues nor lists and takes no buffer in hand.
LEMMA QuietStep ==
  ASSUME OwnershipInv, UNCHANGED <<queued, done, bufs, pendingBufs>>,
         UNCHANGED <<ppc, buffer>> \/ ppc' \notin {"inputDone", "outputDone"},
         Running' => Running,
         pc' = "queueInput" => pc = "queueInput" /\ UNCHANGED input,
         pc' = "reclaimInput" => pc = "reclaimInput",
         pc' = "reclaimOutput" => pc = "reclaimOutput"
  PROVE  Ownership'
<1>1. \A p \in Port : DeviceOwns(p)' = DeviceOwns(p) /\ OwnedOnce(p)'
  BY OwnsUnchanged DEF OwnershipInv, Ownership, Owned
<1>2. \A p \in Port : InHand(p)' \subseteq InHand(p)
  BY HandKept
<1>3. \A p \in Port : OwnedApart(p)'
  BY <1>1, <1>2 DEF OwnershipInv, Ownership, OwnedApart
<1>4. Running' => \A p \in Port : OwnedPending(p)'
  BY <1>1, <1>2 DEF OwnershipInv, Ownership, OwnedPending
<1>5. InputTaken' /\ Stopped'
  BY <1>1, <1>2 DEF OwnershipInv, Ownership, InputTaken, Stopped, Port
<1> QED
  BY <1>1, <1>3, <1>4, <1>5 DEF Ownership

\* The calls, the turns of the loop and the ioctls that move no buffer.
LEMMA QuietSession ==
  ASSUME OwnershipInv,
         \/ SetControls \/ ConfigureInput \/ ConfigureOutput
         \/ StartOutput \/ StartInput \/ LoopHead \/ DrainWait
         \/ SetDynamicControls \/ InputAvailable \/ WaitForInput
         \/ SetDrain \/ DrainStop \/ StopPollThread \/ Join
  PROVE  Ownership'
<1>1. UNCHANGED <<queued, done, bufs, pendingBufs, ppc, buffer>>
  BY DEF SetControls, ConfigureInput, ConfigureOutput, ConfigurePort, ReqBufs,
         StartOutput, StartInput, StartPort, StreamOn, LoopHead, DrainWait,
         SetDynamicControls, InputAvailable, WaitForInput, SetDrain, DrainStop,
         StopPollThread, RequestExit, Join, hardwareVars, deviceVars,
         driverVars, codecVars, listVars
<1>2. /\ Running \/ pc' \in {"join", "done"}
      /\ pc' \notin {"queueInput", "reclaimInput", "reclaimOutput"}
  BY DEF SetControls, ConfigureInput, ConfigureOutput, ConfigurePort,
         StartOutput, StartInput, StartPort, LoopHead, DrainWait,
         SetDynamicControls, InputAvailable, WaitForInput, SetDrain, DrainStop,
         StopPollThread, Join, NextFrame, Goto, Fail, Return, ReturnError,
         Running, SetupPc, LoopPc
<1>3. Running' => Running
  BY <1>2 DEF Running, SetupPc, LoopPc
<1> QED
  BY <1>1, <1>2, <1>3, QuietStep

\* The steps of the poll thread that take no buffer and put none back.
LEMMA QuietPoll ==
  ASSUME OwnershipInv,
         UNCHANGED <<queued, done, bufs, pendingBufs, pc, input>>,
         UNCHANGED <<ppc, buffer>> \/ ppc' \notin {"inputDone", "outputDone"}
  PROVE  Ownership'
BY QuietStep DEF Running

\* allocateBuffers: a port that is not allocated owns and lends nothing.
LEMMA AllocateOwnership ==
  ASSUME OwnershipInv, AllocateInput \/ AllocateOutput
  PROVE  Ownership'
<1>1. PICK p \in Port :
        /\ pool[p] = {}
        /\ \E S \in SUBSET BufsOf(p) : AllocateBuffers(p, S)
  BY DEF AllocateInput, AllocateOutput, AllocatePort, Port, OwnershipInv,
         ListsInv, AllocatedOnce
<1>2. /\ UNCHANGED <<queued, done, ppc, buffer, pendingBufs>>
      /\ Running
      /\ pc' \notin {"queueInput", "reclaimInput", "reclaimOutput"}
  BY DEF AllocateInput, AllocateOutput, AllocatePort, AllocateBuffers,
         hardwareVars, deviceVars, driverVars, Running, SetupPc, Goto, Fail
<1>3. /\ \A q \in Port : DeviceOwns(q)' = DeviceOwns(q) /\ OwnedOnce(q)'
      /\ \A q \in Port : InHand(q)' \subseteq InHand(q)
  BY <1>2, OwnsUnchanged, HandKept DEF OwnershipInv, Ownership, Owned
<1>4. DeviceOwns(p) = {}
  BY <1>1, <1>2
  DEF OwnershipInv, ListsInv, ListsPartition, Ownership, OwnedPending
<1>5. \A q \in Port \ {p} : bufs'[q] = bufs[q]
  BY <1>1 DEF AllocateBuffers, OwnershipInv, ListsInv, TypeOK, CodecTypeOK,
              IsPortBufs
<1>6. \A q \in Port : OwnedApart(q)'
  BY <1>3, <1>4, <1>5 DEF OwnershipInv, Ownership, OwnedApart
<1>7. \A q \in Port : OwnedPending(q)'
  BY <1>2, <1>3 DEF OwnershipInv, Ownership, OwnedPending
<1>8. InputTaken' /\ Stopped'
  BY <1>2 DEF InputTaken, Stopped
<1> QED
  BY <1>3, <1>6, <1>7, <1>8 DEF Ownership

\* queueAvailableOutputBuffers: what was free is queued and pending.
LEMMA QueueOutputOwnership ==
  ASSUME OwnershipInv, QueueOutput
  PROVE  Ownership'
<1>1. PICK T \in SUBSET bufs[OUTPUT_PORT] : \E S \in SUBSET T :
        TakeBuffers(OUTPUT_PORT, T) /\ QueueBuffers(OUTPUT_PORT, S)
  BY DEF QueueOutput, QueueAllOutput, QueueSomeOutput
<1>2. PICK S \in SUBSET T :
        TakeBuffers(OUTPUT_PORT, T) /\ QueueBuffers(OUTPUT_PORT, S)
  BY <1>1
<1>3. /\ Running
      /\ pc' \notin {"queueInput", "reclaimInput", "reclaimOutput"}
  BY DEF QueueOutput, QueueAllOutput, QueueSomeOutput, Goto, ReturnError, Fail,
         Running, LoopPc
<1>4. S \cap DeviceOwns(OUTPUT_PORT) = {} /\ S \cap InHand(OUTPUT_PORT) = {}
  BY <1>3
  DEF OwnershipInv, ListsInv, ListsPartition, Ownership, OwnedApart,
      OwnedPending, Port
<1>5. /\ \A q \in Port : OwnedOnce(q)'
      /\ DeviceOwns(OUTPUT_PORT)' = DeviceOwns(OUTPUT_PORT) \cup S
      /\ \A q \in Port \ {OUTPUT_PORT} : DeviceOwns(q)' = DeviceOwns(q)
  BY <1>2, <1>4, QueueOwns
  DEF OwnershipInv, ListsInv, TypeOK, Ownership, Owned, Port
<1>6. \A q \in Port : InHand(q)' \subseteq InHand(q)
  BY <1>2, HandKept DEF QueueBuffers
<1>7. /\ bufs'[OUTPUT_PORT] = bufs[OUTPUT_PORT] \ T
      /\ pendingBufs'[OUTPUT_PORT] = pendingBufs[OUTPUT_PORT] \cup T
      /\ \A q \in Port \ {OUTPUT_PORT} :
            bufs'[q] = bufs[q] /\ pendingBufs'[q] = pendingBufs[q]
  BY <1>2 DEF TakeBuffers, OwnershipInv, ListsInv, TypeOK, CodecTypeOK,
              IsPortBufs, Port
<1>8. \A q \in Port : OwnedApart(q)'
  BY <1>4, <1>5, <1>6, <1>7 DEF OwnershipInv, Ownership, OwnedApart
<1>9. \A q \in Port : OwnedPending(q)'
  BY <1>3, <1>5, <1>6, <1>7 DEF OwnershipInv, Ownership, OwnedPending
<1>10. InputTaken' /\ Stopped'
  BY <1>3 DEF InputTaken, Stopped
<1> QED
  BY <1>5, <1>8, <1>9, <1>10 DEF Ownership

\* getInputBuffer: a free buffer becomes the loop's own.
LEMMA PrepareInputOwnership ==
  ASSUME OwnershipInv, PrepareInput
  PROVE  Ownership'
<1>1. PICK b \in bufs[INPUT_PORT] :
        /\ TakeBuffers(INPUT_PORT, {b})
        /\ pc' = "queueInput" => input' = b
  BY DEF PrepareInput, Goto, ReturnError, Fail
<1>2. /\ UNCHANGED <<queued, done, ppc, buffer>>
      /\ Running
      /\ pc' \notin {"reclaimInput", "reclaimOutput"}
  BY DEF PrepareInput, Goto, ReturnError, Fail, hardwareVars, deviceVars,
         driverVars, Running, LoopPc
<1>3. /\ \A q \in Port : DeviceOwns(q)' = DeviceOwns(q) /\ OwnedOnce(q)'
      /\ \A q \in Port : InHand(q)' \subseteq InHand(q)
  BY <1>2, OwnsUnchanged, HandKept DEF OwnershipInv, Ownership, Owned
<1>4. /\ bufs'[INPUT_PORT] = bufs[INPUT_PORT] \ {b}
      /\ pendingBufs'[INPUT_PORT] = pendingBufs[INPUT_PORT] \cup {b}
      /\ \A q \in Port \ {INPUT_PORT} :
            bufs'[q] = bufs[q] /\ pendingBufs'[q] = pendingBufs[q]
  BY <1>1 DEF TakeBuffers, OwnershipInv, ListsInv, TypeOK, CodecTypeOK,
              IsPortBufs, Port
<1>5. b \notin DeviceOwns(INPUT_PORT) \cup InHand(INPUT_PORT)
  BY <1>2
  DEF OwnershipInv, ListsInv, ListsPartition, Ownership, OwnedPending, Port
<1>6. \A q \in Port : OwnedApart(q)'
  BY <1>3, <1>4 DEF OwnershipInv, Ownership, OwnedApart
<1>7. \A q \in Port : OwnedPending(q)'
  BY <1>2, <1>3, <1>4 DEF OwnershipInv, Ownership, OwnedPending
<1>8. InputTaken'
  BY <1>1, <1>3, <1>4, <1>5 DEF InputTaken, Port
<1> QED
  BY <1>2, <1>3, <1>6, <1>7, <1>8 DEF Ownership, Stopped

\* The filled buffer is queued, or refused.
LEMMA QueueInputOwnership ==
  ASSUME OwnershipInv, QueueInput
  PROVE  Ownership'
<1>1. /\ UNCHANGED <<bufs, pendingBufs>>
      /\ Running
      /\ pc = "queueInput"
      /\ pc' \notin {"queueInput", "reclaimInput", "reclaimOutput"}
  BY DEF QueueInput, NextFrame, Goto, ReturnError, Fail, codecVars, listVars,
         Running, LoopPc
<1>2. CASE UNCHANGED <<deviceVars, driverVars>>
  BY <1>1, <1>2, QuietStep DEF deviceVars, driverVars
<1>3. CASE QueueBuffers(INPUT_PORT, {input})
  <2>1. {input} \cap DeviceOwns(INPUT_PORT) = {}
    BY <1>1 DEF OwnershipInv, Ownership, InputTaken
  <2>2. /\ \A q \in Port : OwnedOnce(q)'
        /\ DeviceOwns(INPUT_PORT)' = DeviceOwns(INPUT_PORT) \cup {input}
        /\ \A q \in Port \ {INPUT_PORT} : DeviceOwns(q)' = DeviceOwns(q)
    BY <1>3, <2>1, QueueOwns
    DEF OwnershipInv, ListsInv, TypeOK, Ownership, Owned, Port
  <2>3. \A q \in Port : InHand(q)' \subseteq InHand(q)
    BY <1>3, HandKept DEF QueueBuffers
  <2>4. /\ input \in pendingBufs[INPUT_PORT]
        /\ input \notin bufs[INPUT_PORT] \cup InHand(INPUT_PORT)
    BY <1>1
    DEF OwnershipInv, ListsInv, ListsPartition, Ownership, InputTaken, Port
  <2>5. \A q \in Port : OwnedApart(q)'
    BY <1>1, <2>2, <2>3, <2>4 DEF OwnershipInv, Ownership, OwnedApart
  <2>6. \A q \in Port : OwnedPending(q)'
    BY <1>1, <2>2, <2>3, <2>4 DEF OwnershipInv, Ownership, OwnedPending
  <2> QED
    BY <1>1, <2>2, <2>5, <2>6 DEF Ownership, InputTaken, Stopped
<1> QED
  BY <1>2, <1>3 DEF QueueInput

\* VIDIOC_STREAMOFF, when it succeeds.
LEMMA StopOwnership ==
  ASSUME OwnershipInv, StopInput \/ StopOutput
  PROVE  Ownership'
<1>1. /\ UNCHANGED <<bufs, pendingBufs, ppc, buffer>>
      /\ ~Running'
      /\ pc' # "queueInput"
  BY DEF StopInput, StopOutput, StopPort, Goto, codecVars, listVars,
         driverVars, Running, SetupPc, LoopPc
<1>2. CASE /\ UNCHANGED hardwareVars
           /\ pc' \notin {"reclaimInput", "reclaimOutput"}
  BY <1>1, <1>2, QuietStep DEF hardwareVars, deviceVars
<1>3. CASE \E p \in Port :
             /\ StreamOff(p)
             /\ pc' = "reclaimInput" => p = INPUT_PORT
             /\ pc' = "reclaimOutput" => p = OUTPUT_PORT
  <2>1. PICK p \in Port :
             /\ StreamOff(p)
             /\ pc' = "reclaimInput" => p = INPUT_PORT
             /\ pc' = "reclaimOutput" => p = OUTPUT_PORT
    BY <1>3
  <2>2. /\ \A q \in Port : OwnedOnce(q)'
        /\ DeviceOwns(p)' = {}
        /\ \A q \in Port \ {p} : DeviceOwns(q)' = DeviceOwns(q)
    BY <2>1, StreamOffOwns DEF OwnershipInv, ListsInv, TypeOK, Ownership, Owned
  <2>3. \A q \in Port : InHand(q)' \subseteq InHand(q)
    BY <1>1, HandKept
  <2>4. \A q \in Port : OwnedApart(q)'
    BY <1>1, <2>2, <2>3 DEF OwnershipInv, Ownership, OwnedApart
  <2>5. InputTaken' /\ Stopped'
    BY <1>1, <2>1, <2>2 DEF InputTaken, Stopped
  <2> QED
    BY <1>1, <2>2, <2>4, <2>5 DEF Ownership
<1> QED
  BY <1>2, <1>3 DEF StopInput, StopOutput, StopPort, Goto, Port

\* The lists of a stopped port are reclaimed and freed.
LEMMA ReclaimOwnership ==
  ASSUME OwnershipInv,
         ReclaimInput \/ ReclaimOutput \/ FreeInput \/ FreeOutput
  PROVE  Ownership'
<1>1. /\ UNCHANGED <<queued, done, ppc, buffer>>
      /\ ~Running'
      /\ pc' \notin {"queueInput", "reclaimInput", "reclaimOutput"}
  BY DEF ReclaimInput, ReclaimOutput, ReclaimPort, FreeInput, FreeOutput,
         FreePort, ReqBufs, Goto, hardwareVars, deviceVars, driverVars,
         Running, SetupPc, LoopPc
<1>2. /\ \A q \in Port : DeviceOwns(q)' = DeviceOwns(q) /\ OwnedOnce(q)'
      /\ \A q \in Port : InHand(q)' \subseteq InHand(q)
  BY <1>1, OwnsUnchanged, HandKept DEF OwnershipInv, Ownership, Owned
<1>3. PICK p \in Port : \/ ReclaimPending(p) /\ DeviceOwns(p) = {}
                        \/ ClearLists(p)
  BY DEF ReclaimInput, ReclaimOutput, ReclaimPort, FreeInput, FreeOutput,
         FreePort, Port, OwnershipInv, Ownership, Stopped
<1>4. /\ bufs'[p] = {} \/ DeviceOwns(p) = {}
      /\ \A q \in Port \ {p} : bufs'[q] = bufs[q]
  BY <1>3 DEF ReclaimPending, ClearLists, OwnershipInv, ListsInv, TypeOK,
              CodecTypeOK, IsPortBufs
<1>5. \A q \in Port : OwnedApart(q)'
  BY <1>2, <1>4 DEF OwnershipInv, Ownership, OwnedApart
<1> QED
  BY <1>1, <1>2, <1>5 DEF Ownership, InputTaken, Stopped

\* VIDIOC_DQBUF: the buffer passes from the device into the thread's hands.
LEMMA DequeueOwnership ==
  ASSUME OwnershipInv, UNCHANGED <<pc, input, bufs, pendingBufs>>,
         NEW p \in Port, DqBuf(p), buffer' = Head(done[p]),
         ppc' = IF p = INPUT_PORT THEN "inputDone" ELSE "outputDone"
  PROVE  Ownership'
<1> DEFINE h == Head(done[p]).buf
<1>1. /\ \A q \in Port : OwnedOnce(q)'
      /\ DeviceOwns(p)' = DeviceOwns(p) \ {h}
      /\ h \in DeviceOwns(p)
      /\ \A q \in Port \ {p} : DeviceOwns(q)' = DeviceOwns(q)
  BY DqBufOwns DEF OwnershipInv, ListsInv, TypeOK, Ownership, Owned
<1>2. /\ InHand(p)' = {h}
      /\ \A q \in Port \ {p} : InHand(q)' = {}
  BY DEF InHand, Port, INPUT_PORT, OUTPUT_PORT
<1> HIDE DEF h
<1>3. \A q \in Port : OwnedApart(q)'
  BY <1>1, <1>2 DEF OwnershipInv, Ownership, OwnedApart
<1>4. Running' => \A q \in Port : OwnedPending(q)'
  BY <1>1, <1>2 DEF OwnershipInv, Ownership, OwnedPending, Running
<1>5. InputTaken'
  <2>1. DeviceOwns(INPUT_PORT)' \cup InHand(INPUT_PORT)'
          \subseteq DeviceOwns(INPUT_PORT)
    BY <1>1, <1>2 DEF Port
  <2> QED
    BY <2>1 DEF OwnershipInv, Ownership, InputTaken
<1>6. Stopped'
  BY <1>1 DEF OwnershipInv, Ownership, Stopped, Port
<1> QED
  BY <1>1, <1>3, <1>4, <1>5, <1>6 DEF Ownership

\* A callback puts the buffer in hand back on the free list.
LEMMA PutOwnership ==
  ASSUME OwnershipInv,
         UNCHANGED <<queued, done, pc, input>>,
         NEW p \in Port, InHand(p) = {buffer.buf}, PutBuffer(p, buffer.buf),
         ppc' \notin {"inputDone", "outputDone"}
  PROVE  Ownership'
<1> DEFINE b == buffer.buf
<1>1. \A q \in Port : DeviceOwns(q)' = DeviceOwns(q) /\ OwnedOnce(q)'
  BY OwnsUnchanged DEF OwnershipInv, Ownership, Owned
<1>2. \A q \in Port : InHand(q)' = {}
  BY DEF InHand
<1>3. /\ bufs'[p] = bufs[p] \cup {b}
      /\ pendingBufs'[p] = pendingBufs[p] \ {b}
      /\ \A q \in Port \ {p} :
            bufs'[q] = bufs[q] /\ pendingBufs'[q] = pendingBufs[q]
  BY DEF PutBuffer, OwnershipInv, ListsInv, TypeOK, CodecTypeOK, IsPortBufs
<1>4. b \in InHand(p)
  OBVIOUS
<1> HIDE DEF b
<1>5. \A q \in Port : OwnedApart(q)'
  BY <1>1, <1>2, <1>3, <1>4 DEF OwnershipInv, Ownership, OwnedApart
<1>6. Running' => \A q \in Port : OwnedPending(q)'
  <2>1. b \notin DeviceOwns(p)
    BY <1>4 DEF OwnershipInv, Ownership, OwnedApart
  <2> QED
    BY <1>1, <1>2, <1>3, <2>1
    DEF OwnershipInv, Ownership, OwnedPending, Running
<1>7. InputTaken'
  BY <1>1, <1>2, <1>3, <1>4 DEF OwnershipInv, Ownership, InputTaken, Port
<1>8. Stopped'
  BY <1>1 DEF OwnershipInv, Ownership, Stopped, Port
<1> QED
  BY <1>1, <1>5, <1>6, <1>7, <1>8 DEF Ownership

\* The device finishes with a buffer.
LEMMA DeviceOwnership ==
  ASSUME OwnershipInv, DeviceWorks
  PROVE  Ownership'
<1>1. UNCHANGED <<ppc, buffer, pc, input, bufs, pendingBufs>>
  BY DEF DeviceWorks, driverVars, codecVars, listVars, sessionVars, loopVars
<1>2. \E p \in Port : \E b \in queued[p], frame, last \in BOOLEAN :
         Complete(p, b, frame, last)
  BY DEF DeviceWorks, ConsumeFrame, ProduceFrame, ProduceEmptyLast, Port
<1>3. \A q \in Port : DeviceOwns(q)' = DeviceOwns(q) /\ OwnedOnce(q)'
  BY <1>2, CompleteOwns DEF OwnershipInv, ListsInv, TypeOK, Ownership, Owned
<1>4. \A q \in Port : InHand(q)' \subseteq InHand(q)
  BY <1>1, HandKept
<1>5. \A q \in Port : OwnedApart(q)'
  BY <1>1, <1>3, <1>4 DEF OwnershipInv, Ownership, OwnedApart
<1>6. Running' => \A q \in Port : OwnedPending(q)'
  BY <1>1, <1>3, <1>4 DEF OwnershipInv, Ownership, OwnedPending, Running
<1>7. InputTaken' /\ Stopped'
  BY <1>1, <1>3, <1>4 DEF OwnershipInv, Ownership, InputTaken, Stopped, Port
<1> QED
  BY <1>3, <1>5, <1>6, <1>7 DEF Ownership

-----------------------------------------------------------------------------
\* OwnershipInv is inductive.

\* Every step keeps it.
LEMMA OwnershipStep ==
  ASSUME OwnershipInv, Next
  PROVE  Ownership'
<1>1. CASE \/ SetControls \/ ConfigureInput \/ ConfigureOutput
           \/ StartOutput \/ StartInput \/ LoopHead \/ DrainWait
           \/ SetDynamicControls \/ InputAvailable \/ WaitForInput
           \/ SetDrain \/ DrainStop \/ StopPollThread \/ Join
  BY <1>1, QuietSession
<1>2. CASE \/ AllocateOutput \/ AllocateInput \/ QueueOutput \/ PrepareInput
           \/ QueueInput \/ StopInput \/ StopOutput \/ ReclaimInput
           \/ ReclaimOutput \/ FreeInput \/ FreeOutput
  BY <1>2, AllocateOwnership, QueueOutputOwnership, PrepareInputOwnership,
     QueueInputOwnership, StopOwnership, ReclaimOwnership
<1>3. CASE PollLoop
  <2>1. UNCHANGED <<pc, input, bufs, pendingBufs>>
    BY <1>3 DEF PollLoop, codecVars, listVars, sessionVars, loopVars
  <2>2. CASE PollReady \/ PollExit
    <3>1. /\ UNCHANGED <<queued, done>>
          /\ ppc' \notin {"inputDone", "outputDone"}
      BY <2>2 DEF PollReady, PollExit, Handle, NextHandler, deviceVars
    <3> QED
      BY <2>1, <3>1, QuietPoll
  <2>3. CASE DequeueOutput \/ DequeueInput
    <3>1. CASE /\ UNCHANGED <<queued, done>>
               /\ ppc' \notin {"inputDone", "outputDone"}
      BY <2>1, <3>1, QuietPoll
    <3>2. CASE \E p \in Port :
                 /\ DqBuf(p)
                 /\ buffer' = Head(done[p])
                 /\ ppc' = IF p = INPUT_PORT THEN "inputDone" ELSE "outputDone"
      BY <2>1, <3>2, DequeueOwnership
    <3> QED
      BY <2>3, <3>1, <3>2
      DEF DequeueOutput, DequeueInput, DequeueBuffer, Handle, NextHandler,
          deviceVars, Port, INPUT_PORT, OUTPUT_PORT
  <2> QED
    BY <1>3, <2>2, <2>3 DEF PollLoop
<1>4. CASE OnInputDone \/ OnOutputDone
  <2>1. /\ UNCHANGED <<queued, done, pc, input>>
        /\ ppc' \notin {"inputDone", "outputDone"}
    BY <1>4, CallbackEmptiesHand
    DEF OnInputDone, OnOutputDone, hardwareVars, deviceVars, sessionVars,
        loopVars
  <2>2. CASE UNCHANGED listVars
    BY <2>1, <2>2, QuietPoll DEF listVars
  <2>3. CASE \E p \in Port :
               InHand(p) = {buffer.buf} /\ PutBuffer(p, buffer.buf)
    BY <2>1, <2>3, PutOwnership
  <2> QED
    BY <1>4, <2>2, <2>3
    DEF OnInputDone, OnOutputDone, InHand, Port, INPUT_PORT, OUTPUT_PORT
<1>5. CASE OnError \/ DumpOutput \/ OnLastForDrain \/ DeviceBreaks \/ Finished
  <2>1. UNCHANGED <<queued, done, bufs, pendingBufs, pc, input>>
    BY <1>5
    DEF OnError, PollError, DumpOutput, OnLastForDrain, DeviceBreaks, Break,
        Finished, hardwareVars, deviceVars, codecVars, listVars, sessionVars,
        loopVars, vars
  <2>2. UNCHANGED <<ppc, buffer>> \/ ppc' \notin {"inputDone", "outputDone"}
    BY <1>5, CallbackEmptiesHand
    DEF OnError, PollError, DumpOutput, OnLastForDrain, DeviceBreaks, Finished,
        driverVars, vars
  <2> QED
    BY <2>1, <2>2, QuietPoll
<1>6. CASE DeviceWorks
  BY <1>6, DeviceOwnership
<1> QED
  BY <1>1, <1>2, <1>3, <1>4, <1>5, <1>6
  DEF Next, SessionNext, QueueBuffersNext, PollNext

\* Who has a buffer - a free list, the device, or a callback that puts it back
\* - is never in doubt, from the first call through the teardown and whatever
\* fails on the way (V4l2Encoder::queueBuffers, V4l2EncoderCB::onBufferDone).
THEOREM OwnershipAlways == Spec => []OwnershipInv
<1>1. Init => OwnershipInv
  <2> SUFFICES ASSUME Init PROVE OwnershipInv
    OBVIOUS
  <2>1. ListsInv
    BY ListsInvInit
  <2>2. \A p \in Port : DeviceOwns(p) = {} /\ InHand(p) = {} /\ OwnedOnce(p)
    BY DEF Init, DeviceInit, DriverInit, DeviceOwns, DoneBufs, InHand,
           OwnedOnce
  <2>3. pc = "setControls"
    BY DEF Init, EncoderInit
  <2>4. \A p \in Port : OwnedApart(p) /\ OwnedPending(p)
    BY <2>2 DEF OwnedApart, OwnedPending
  <2> QED
    BY <2>1, <2>2, <2>3, <2>4
    DEF OwnershipInv, Ownership, InputTaken, Stopped
<1>2. OwnershipInv /\ [Next]_vars => OwnershipInv'
  <2> SUFFICES ASSUME OwnershipInv, [Next]_vars PROVE OwnershipInv'
    OBVIOUS
  <2>1. ListsInv'
    BY ListsInvStep DEF OwnershipInv
  <2>2. CASE UNCHANGED vars
    <3>1. /\ UNCHANGED <<queued, done, bufs, pendingBufs, pc, input>>
          /\ UNCHANGED <<ppc, buffer>>
      BY <2>2 DEF vars, hardwareVars, deviceVars, driverVars, codecVars,
                  listVars, sessionVars, loopVars
    <3> QED
      BY <2>1, <3>1, QuietPoll DEF OwnershipInv
  <2> QED
    BY <2>1, <2>2, OwnershipStep DEF OwnershipInv
<1> QED
  BY <1>1, <1>2, PTL DEF Spec

\* A buffer the device owns is never on a free list, and the one the loop is
\* about to queue is not in the device: whatever fails, and wherever the
\* callbacks run between two steps of queueBuffers or of the teardown.
THEOREM OwnershipCorrect == Spec => []DeviceBuffersNotFree
<1>1. OwnershipInv => DeviceBuffersNotFree
  BY DEF OwnershipInv, Ownership, OwnedApart, InputTaken, DeviceBuffersNotFree
<1> QED
  BY <1>1, OwnershipAlways, PTL

-----------------------------------------------------------------------------
\* Every step keeps the controls on time.

\* The counters and the list are left alone, and the loop does not move to
\* where it would have to know more about them.
LEMMA ControlsQuiet ==
  ASSUME ControlsInv,
         UNCHANGED <<mDynamicControls, applied, fed, frameCounter>>,
         \/ UNCHANGED pc /\ (isDrainSent' <=> isDrainSent)
         \/ /\ pc' \notin {"dynamicControls", "inputAvailable",
                           "waitForInput", "prepareInput", "queueInput",
                           "drainStop"}
            /\ Running' => Running /\ (isDrainSent => isDrainSent')
  PROVE  SetOnce' /\ SetInTime' /\ FramesCounted'
<1>1. SetOnce'
  BY DEF ControlsInv, SetOnce
<1>2. SetInTime'
  BY DEF ControlsInv, SetInTime
<1>3. FramesCounted'
  BY DEF ControlsInv, FramesCounted, Running
<1> QED
  BY <1>1, <1>2, <1>3

\* setDynamicControls: a control of this frame, or all of them are set.
LEMMA ControlsSetControls ==
  ASSUME ControlsInv, SetDynamicControls
  PROVE  SetOnce' /\ SetInTime' /\ FramesCounted'
<1>1. /\ UNCHANGED <<fed, frameCounter, flags>>
      /\ pc = "dynamicControls"
  BY DEF SetDynamicControls, codecVars
<1>2. frameCounter = fed /\ ~isDrainSent /\ Running
  BY <1>1 DEF ControlsInv, FramesCounted, Running, LoopPc
<1>3. /\ fed \in Nat
      /\ applied \in [DynamicControls -> Nat]
      /\ mDynamicControls \subseteq DynamicControls
      /\ \A c \in DynamicControls : c.fnum \in Nat
  BY EncoderAssumption DEF ControlsInv, TypeOK, EncoderTypeOK
<1>4. CASE UNCHANGED <<mDynamicControls, applied>>
  <2>1. \/ pc' = "inputAvailable" /\ ControlsDue = {}
        \/ pc' \in {"dynamicControls", "returned"}
    BY <1>1, <1>4 DEF SetDynamicControls, Goto, ReturnError, Fail
  <2>2. SetOnce'
    BY <1>4 DEF ControlsInv, SetOnce
  <2>3. SetInTime'
    BY <1>1, <1>2, <1>4, <2>1 DEF ControlsInv, SetInTime, ControlsDue
  <2>4. FramesCounted'
    BY <1>1, <1>2, <2>1
    DEF FramesCounted, isDrainSent, Running, LoopPc, SetupPc
  <2> QED
    BY <2>2, <2>3, <2>4
<1>5. CASE (\E c \in ControlsDue : ApplyControl(c)) /\ UNCHANGED pc
  <2>1. PICK c \in mDynamicControls : c.fnum = fed /\ ApplyControl(c)
    BY <1>2, <1>5 DEF ControlsDue
  <2>2. SetOnce'
    BY <1>3, <2>1 DEF ControlsInv, SetOnce, ApplyControl
  <2>3. SetInTime'
    BY <1>1, <1>3, <1>5, <2>1 DEF ControlsInv, SetInTime, ApplyControl
  <2>4. FramesCounted'
    BY <1>1, <1>2, <1>5 DEF FramesCounted, isDrainSent, Running, LoopPc
  <2> QED
    BY <2>2, <2>3, <2>4
<1> QED
  BY <1>4, <1>5 DEF SetDynamicControls, Goto

\* The loop goes on to the input side when nothing is left to set.
LEMMA ControlsInput ==
  ASSUME ControlsInv, InputAvailable \/ PrepareInput \/ DrainWait
  PROVE  SetOnce' /\ SetInTime' /\ FramesCounted'
<1>1. UNCHANGED <<mDynamicControls, applied, fed, frameCounter>>
  BY DEF InputAvailable, PrepareInput, DrainWait, progressVars, loopVars,
         historyVars
<1>2. SetOnce'
  BY <1>1 DEF ControlsInv, SetOnce
<1>3. CASE ~isDrainSent /\ Running /\ UNCHANGED flags
           /\ pc' \notin {"inputAvailable", "prepareInput", "queueInput",
                         "drainStop"}
  <2>1. SetInTime'
    BY <1>1, <1>3 DEF ControlsInv, SetInTime
  <2>2. FramesCounted'
    BY <1>1, <1>3
    DEF ControlsInv, FramesCounted, isDrainSent, Running, LoopPc, SetupPc
  <2> QED
    BY <1>2, <2>1, <2>2
<1>4. CASE /\ pc \in {"inputAvailable", "prepareInput"} /\ UNCHANGED flags
           /\ pc' \in {"prepareInput", "queueInput"}
  <2>1. SetInTime'
    BY <1>1, <1>4 DEF ControlsInv, SetInTime
  <2>2. FramesCounted'
    BY <1>1, <1>4
    DEF ControlsInv, FramesCounted, isDrainSent, Running, LoopPc, SetupPc
  <2> QED
    BY <1>2, <2>1, <2>2
<1>5. CASE \/ isDrainSent /\ pc' = "loop" /\ UNCHANGED flags
           \/ pc' = "returned"
  <2>1. Running' => Running /\ (isDrainSent => isDrainSent')
    BY <1>5
    DEF Running, SetupPc, LoopPc, isDrainSent, InputAvailable, PrepareInput,
        DrainWait
  <2> QED
    BY <1>1, <1>5, <2>1, ControlsQuiet
<1>6. CASE InputAvailable \/ PrepareInput
  <2>1. pc \in {"inputAvailable", "prepareInput"} /\ UNCHANGED flags
    BY <1>6 DEF InputAvailable, PrepareInput, codecVars
  <2>2. ~isDrainSent /\ Running
    BY <2>1 DEF ControlsInv, FramesCounted, Running, LoopPc
  <2>3. pc' \in {"waitForInput", "setDrain", "prepareInput", "queueInput",
                 "returned"}
    BY <1>6 DEF InputAvailable, PrepareInput, Goto, ReturnError, Fail
  <2> QED
    BY <1>3, <1>4, <1>5, <2>1, <2>2, <2>3
<1>7. CASE DrainWait
  <2>1. \/ ~isDrainSent /\ pc' = "dynamicControls" /\ UNCHANGED flags
        \/ isDrainSent /\ pc' = "loop" /\ UNCHANGED flags
        \/ pc' = "returned"
    BY <1>7 DEF DrainWait, Goto, Return, ReturnError, Fail
  <2>2. Running
    BY <1>7 DEF DrainWait, Running, LoopPc
  <2> QED
    BY <1>3, <1>5, <2>1, <2>2
<1> QED
  BY <1>6, <1>7

\* A frame is queued: the next controls are the ones of the next frame.
LEMMA ControlsQueueInput ==
  ASSUME ControlsInv, QueueInput
  PROVE  SetOnce' /\ SetInTime' /\ FramesCounted'
<1>1. /\ pc = "queueInput"
      /\ UNCHANGED <<mDynamicControls, applied, flags>>
  BY DEF QueueInput, codecVars
<1>2. frameCounter = fed /\ ~isDrainSent
  BY <1>1 DEF ControlsInv, FramesCounted, Running, LoopPc
<1>3. SetOnce'
  BY <1>1 DEF ControlsInv, SetOnce
<1>4. CASE fed' = fed + 1 /\ NextFrame
  <2>1. /\ fed \in Nat
        /\ mDynamicControls \subseteq DynamicControls
        /\ \A c \in DynamicControls : c.fnum \in Nat
    BY EncoderAssumption DEF ControlsInv, TypeOK, EncoderTypeOK
  <2>2. \A c \in mDynamicControls : c.fnum >= fed + 1
    BY <1>1, <2>1 DEF ControlsInv, SetInTime
  <2>3. \A c \in DynamicControls \ mDynamicControls : c.fnum <= fed + 1
    BY <2>1 DEF ControlsInv, SetInTime
  <2>4. pc' = "loop" /\ frameCounter' = fed'
    BY <1>2, <1>4 DEF NextFrame, Goto
  <2>5. SetInTime'
    BY <1>1, <1>4, <2>2, <2>3, <2>4 DEF SetInTime
  <2> QED
    BY <1>3, <2>4, <2>5 DEF FramesCounted
<1>5. CASE ReturnError("EINVAL") /\ UNCHANGED <<frameCounter, fed>>
  <2>1. pc' = "returned"
    BY <1>5 DEF ReturnError, Fail
  <2> QED
    BY <1>1, <1>5, <2>1, ControlsQuiet DEF Running, SetupPc, LoopPc
<1> QED
  BY <1>4, <1>5 DEF QueueInput

\* V4L2_ENC_CMD_STOP: from here on the frame counter means nothing.
LEMMA ControlsDrain ==
  ASSUME ControlsInv, SetDrain \/ DrainStop
  PROVE  SetOnce' /\ SetInTime' /\ FramesCounted'
<1>1. UNCHANGED <<mDynamicControls, applied, fed>>
  BY DEF SetDrain, DrainStop, progressVars, loopVars, historyVars
<1>2. pc' \in {"drainStop", "loop", "returned"}
  BY DEF SetDrain, DrainStop, NextFrame, Goto, ReturnError, Fail
<1>3. SetOnce' /\ SetInTime'
  BY <1>1, <1>2 DEF ControlsInv, SetOnce, SetInTime
<1>4. Running' => isDrainSent'
  BY DEF SetDrain, DrainStop, isDrainSent, codecVars, ControlsInv,
         FramesCounted
<1> QED
  BY <1>2, <1>3, <1>4 DEF FramesCounted, Running, LoopPc

\* Every step keeps them.
LEMMA ControlsStep ==
  ASSUME ControlsInv, Next
  PROVE  SetOnce' /\ SetInTime' /\ FramesCounted'
<1>1. CASE \/ PollLoop \/ OnError \/ OnInputDone \/ OnOutputDone
           \/ DumpOutput \/ OnLastForDrain \/ DeviceWorks \/ DeviceBreaks
           \/ Finished
  <2>1. UNCHANGED <<mDynamicControls, applied, fed, frameCounter, pc>>
    BY <1>1
    DEF PollLoop, OnError, OnInputDone, OnOutputDone, DumpOutput,
        OnLastForDrain, DeviceWorks, DeviceBreaks, Finished, vars, sessionVars,
        loopVars, historyVars
  <2>2. isDrainSent' <=> isDrainSent
    BY <1>1
    DEF PollLoop, OnError, OnInputDone, OnOutputDone, DumpOutput,
        OnLastForDrain, DeviceWorks, DeviceBreaks, Finished, vars, codecVars,
        isDrainSent
  <2> QED
    BY <2>1, <2>2, ControlsQuiet
<1>2. CASE \/ SetControls \/ ConfigureInput \/ ConfigureOutput
           \/ AllocateOutput \/ AllocateInput \/ StartOutput \/ StartInput
           \/ LoopHead \/ QueueOutput \/ WaitForInput
           \/ StopInput \/ ReclaimInput \/ StopOutput \/ ReclaimOutput
           \/ FreeInput \/ FreeOutput \/ StopPollThread \/ Join
  <2>1. UNCHANGED <<mDynamicControls, applied, fed, frameCounter, flags>>
    BY <1>2
    DEF SetControls, ConfigureInput, ConfigureOutput, ConfigurePort,
        AllocateOutput, AllocateInput, AllocatePort, StartOutput, StartInput,
        StartPort, LoopHead, QueueOutput, WaitForInput, StopInput,
        ReclaimInput, StopOutput, ReclaimOutput, StopPort, ReclaimPort,
        FreeInput, FreeOutput, FreePort, StopPollThread, Join, progressVars,
        loopVars, historyVars, codecVars
  <2>2. /\ pc' \notin {"dynamicControls", "inputAvailable", "waitForInput",
                      "prepareInput", "queueInput", "drainStop"}
        /\ Running \/ pc' \in TeardownPc
    BY <1>2
    DEF SetControls, ConfigureInput, ConfigureOutput, ConfigurePort,
        AllocateOutput, AllocateInput, AllocatePort, StartOutput, StartInput,
        StartPort, LoopHead, QueueOutput, QueueAllOutput, QueueSomeOutput,
        WaitForInput, StopInput, ReclaimInput, StopOutput, ReclaimOutput,
        StopPort, ReclaimPort, FreeInput, FreeOutput, FreePort, StopPollThread,
        Join, Goto, Fail, Return, ReturnError, Running, SetupPc, LoopPc,
        TeardownPc
  <2>3. Running' => Running /\ (isDrainSent => isDrainSent')
    BY <2>1, <2>2 DEF Running, SetupPc, LoopPc, TeardownPc, isDrainSent
  <2> QED
    BY <2>1, <2>2, <2>3, ControlsQuiet
<1>3. CASE \/ SetDynamicControls \/ InputAvailable \/ PrepareInput
           \/ DrainWait \/ QueueInput \/ SetDrain \/ DrainStop
  BY <1>3, ControlsSetControls, ControlsInput, ControlsQueueInput,
     ControlsDrain
<1> QED
  BY <1>1, <1>2, <1>3
  DEF Next, SessionNext, QueueBuffersNext, PollNext

\* The controls still to come are those of frames not yet queued, whatever
\* ioctl fails and however often the loop turns before a buffer is free
\* (V4l2Codec::setDynamicControls).
THEOREM ControlsAlways == Spec => []ControlsInv
<1>1. Init => SetOnce /\ SetInTime /\ FramesCounted
  BY EncoderAssumption
  DEF Init, EncoderInit, SetOnce, SetInTime, FramesCounted
<1>2. /\ TypeOK /\ SetOnce /\ SetInTime /\ FramesCounted
      /\ [Next]_vars
      => (SetOnce /\ SetInTime /\ FramesCounted)'
  <2> SUFFICES ASSUME TypeOK, SetOnce, SetInTime, FramesCounted, [Next]_vars
               PROVE  (SetOnce /\ SetInTime /\ FramesCounted)'
    OBVIOUS
  <2>1. ControlsInv
    BY DEF ControlsInv
  <2>2. CASE UNCHANGED vars
    <3>1. UNCHANGED <<mDynamicControls, applied, fed, frameCounter, pc, flags>>
      BY <2>2 DEF vars, sessionVars, loopVars, historyVars, codecVars
    <3> QED
      BY <2>1, <3>1, ControlsQuiet DEF isDrainSent
  <2> QED
    BY <2>1, <2>2, ControlsStep
<1>3. Spec => []TypeOK
  <2>1. ListsInv => TypeOK
    BY DEF ListsInv
  <2> QED
    BY <2>1, ListsInvAlways, PTL
<1> QED
  BY <1>1, <1>2, <1>3, PTL DEF Spec, ControlsInv

\* A dynamic control for frame n is set exactly once, after the n frames
\* before it have been queued and before frame n is, however often the turns
\* of the loop that call setDynamicControls have to wait for a buffer.
THEOREM ControlsCorrect == Spec => []ControlsOnTime
<1>1. ControlsInv => ControlsOnTime
  <2> SUFFICES ASSUME ControlsInv, NEW c \in DynamicControls
               PROVE  /\ applied[c] <= 1
                      /\ applied[c] = 1 => fed >= c.fnum
                      /\ fed > c.fnum => applied[c] = 1
    BY DEF ControlsOnTime
  <2>1. fed \in Nat /\ c.fnum \in Nat
    BY EncoderAssumption DEF ControlsInv, TypeOK, EncoderTypeOK
  <2>2. applied[c] = IF c \in mDynamicControls THEN 0 ELSE 1
    BY DEF ControlsInv, SetOnce
  <2>3. IF c \in mDynamicControls THEN c.fnum >= fed ELSE c.fnum <= fed
    BY DEF ControlsInv, SetInTime
  <2> QED
    BY <2>1, <2>2, <2>3
<1> QED
  BY <1>1, ControlsAlways, PTL

-----------------------------------------------------------------------------
(***************************************************************************)
(* What is fed and what comes back: ServiceInv, and the refinement.        *)
(***************************************************************************)

\* Every step keeps the frames accounted for.

\* The parts of InFlight are numbers, before and after a step.
LEMMA InFlightTypes ==
  ASSUME TypeOK
  PROVE  /\ Cardinality(queued[INPUT_PORT]) \in Nat
         /\ Cardinality(FramesIn(done[OUTPUT_PORT])) \in Nat
         /\ held \in Nat
         /\ FrameInHand \in {0, 1}
         /\ fed \in Nat /\ delivered \in Nat
<1>1. done[OUTPUT_PORT] \in Seq(Completion) /\ IsPortBufs(queued)
  BY DEF TypeOK, DeviceTypeOK, Port
<1> QED
  BY <1>1, CountTypes
  DEF TypeOK, FirmwareTypeOK, EncoderTypeOK, FrameInHand

\* The step neither feeds nor delivers, and moves no frame.
LEMMA AccountedQuiet ==
  ASSUME ServiceInv,
         UNCHANGED <<queued, held, done, fed, delivered>>,
         \/ UNCHANGED <<ppc, buffer>>
         \/ ~Handling /\ ~Handling',
         Running' => Running
  PROVE  FramesAccounted'
<1>1. FrameInHand' = FrameInHand
  BY DEF FrameInHand, Handling
<1>2. InFlight' = InFlight
  BY <1>1 DEF InFlight
<1> QED
  BY <1>2 DEF ServiceInv, FramesAccounted

\* The session's own steps, but for VIDIOC_QBUF and VIDIOC_STREAMOFF.
LEMMA AccountedSession ==
  ASSUME ServiceInv,
         \/ SetControls \/ ConfigureInput \/ ConfigureOutput
         \/ AllocateOutput \/ AllocateInput \/ StartOutput \/ StartInput
         \/ LoopHead \/ DrainWait \/ SetDynamicControls \/ InputAvailable
         \/ WaitForInput \/ PrepareInput \/ SetDrain \/ DrainStop
         \/ ReclaimInput \/ ReclaimOutput \/ FreeInput \/ FreeOutput
         \/ StopPollThread \/ Join
  PROVE  FramesAccounted'
<1>1. UNCHANGED <<queued, done, ppc, buffer>>
  BY DEF SetControls, ConfigureInput, ConfigureOutput, ConfigurePort, ReqBufs,
         AllocateOutput, AllocateInput, AllocatePort, StartOutput, StartInput,
         StartPort, StreamOn, LoopHead, DrainWait, SetDynamicControls,
         InputAvailable, WaitForInput, PrepareInput, SetDrain, DrainStop,
         ReclaimInput, ReclaimOutput, ReclaimPort, FreeInput, FreeOutput,
         FreePort, StopPollThread, RequestExit, Join, hardwareVars,
         deviceVars, driverVars
<1>2. UNCHANGED <<held, fed, delivered>>
  BY DEF SetControls, ConfigureInput, ConfigureOutput, ConfigurePort,
         AllocateOutput, AllocateInput, AllocatePort, StartOutput, StartInput,
         StartPort, LoopHead, DrainWait, SetDynamicControls, FirmwareCmdStart,
         InputAvailable, WaitForInput, PrepareInput, SetDrain, DrainStop,
         FirmwareCmdStop, ReclaimInput, ReclaimOutput, ReclaimPort, FreeInput,
         FreeOutput, FreePort, StopPollThread, Join, hardwareVars,
         firmwareVars, progressVars, historyVars
<1>3. Running' => Running
  BY DEF SetControls, ConfigureInput, ConfigureOutput, ConfigurePort,
         AllocateOutput, AllocateInput, AllocatePort, StartOutput, StartInput,
         StartPort, LoopHead, DrainWait, SetDynamicControls, InputAvailable,
         WaitForInput, PrepareInput, SetDrain, DrainStop, ReclaimInput,
         ReclaimOutput, ReclaimPort, FreeInput, FreeOutput, FreePort,
         StopPollThread, Join, Goto, Fail, Return, ReturnError, NextFrame,
         Running, SetupPc, LoopPc
<1> QED
  BY <1>1, <1>2, <1>3, AccountedQuiet

\* VIDIOC_QBUF on OUTPUT_PORT moves no frame, on INPUT_PORT it feeds one.
LEMMA AccountedQueue ==
  ASSUME ServiceInv, QueueOutput \/ QueueInput
  PROVE  FramesAccounted'
<1>1. TypeOK
  BY DEF ServiceInv, OwnershipInv, ListsInv
<1>2. queued \in [Port -> SUBSET Buf] /\ IsFiniteSet(queued[INPUT_PORT])
  <2>1. done[OUTPUT_PORT] \in Seq(Completion) /\ IsPortBufs(queued)
    BY <1>1 DEF TypeOK, DeviceTypeOK, Port
  <2> QED
    BY <2>1, CountTypes DEF IsPortBufs
<1>3. Running
  BY DEF QueueOutput, QueueInput, Running, LoopPc
<1>4. /\ UNCHANGED <<done, held, ppc, buffer, delivered>>
      /\ FrameInHand' = FrameInHand
  <2>1. UNCHANGED <<done, held, ppc, buffer, delivered>>
    BY DEF QueueOutput, QueueAllOutput, QueueSomeOutput, QueueInput,
           QueueBuffers, firmwareVars, progressVars, historyVars, deviceVars,
           driverVars
  <2> QED
    BY <2>1 DEF FrameInHand, Handling
<1>5. CASE /\ queued'[INPUT_PORT] = queued[INPUT_PORT]
           /\ UNCHANGED fed
  BY <1>3, <1>4, <1>5 DEF ServiceInv, FramesAccounted, InFlight
<1>6. CASE /\ queued'[INPUT_PORT] = queued[INPUT_PORT] \cup {input}
           /\ input \notin queued[INPUT_PORT]
           /\ fed' = fed + 1
  <2>1. Cardinality(queued'[INPUT_PORT]) = Cardinality(queued[INPUT_PORT]) + 1
    BY <1>2, <1>6, FS_AddElement
  <2>2. InFlight' = InFlight + 1
    BY <1>1, <1>4, <2>1, InFlightTypes DEF InFlight
  <2>3. InFlight \in Nat
    BY <1>1, InFlightTypes DEF InFlight
  <2> QED
    BY <1>1, <1>3, <1>4, <1>6, <2>2, <2>3, InFlightTypes
    DEF ServiceInv, FramesAccounted
<1>7. CASE QueueOutput
  <2>1. queued'[INPUT_PORT] = queued[INPUT_PORT] /\ UNCHANGED fed
    BY <1>2, <1>7
    DEF QueueOutput, QueueAllOutput, QueueSomeOutput, QueueBuffers, QBuf,
        Port, INPUT_PORT, OUTPUT_PORT, progressVars, historyVars
  <2> QED
    BY <1>5, <2>1
<1>8. CASE QueueInput
  BY <1>2, <1>5, <1>6, <1>8
  DEF QueueInput, QueueBuffers, QBuf, CanQBuf, DeviceOwns, Port, deviceVars
<1> QED
  BY <1>7, <1>8

\* VIDIOC_STREAMOFF may drop what is in flight: the loop is over.
LEMMA AccountedStop ==
  ASSUME ServiceInv, StopInput \/ StopOutput
  PROVE  FramesAccounted'
<1>1. TypeOK
  BY DEF ServiceInv, OwnershipInv, ListsInv
<1>2. /\ ~Running'
      /\ UNCHANGED <<fed, delivered, ppc, buffer>>
  BY DEF StopInput, StopOutput, StopPort, Goto, Running, SetupPc, LoopPc,
         progressVars, historyVars, driverVars
<1>3. FrameInHand' = FrameInHand
  BY <1>2 DEF FrameInHand, Handling
<1>4. /\ \/ queued'[INPUT_PORT] = {}
         \/ queued'[INPUT_PORT] = queued[INPUT_PORT]
      /\ \/ done'[OUTPUT_PORT] = <<>>
         \/ done'[OUTPUT_PORT] = done[OUTPUT_PORT]
      /\ held' \in {0, held}
  BY <1>1
  DEF StopInput, StopOutput, StopPort, StreamOff, FirmwareStreamOff, TypeOK,
      DeviceTypeOK, IsPortBufs, Port, INPUT_PORT, OUTPUT_PORT, hardwareVars,
      deviceVars, firmwareVars
<1>5. FramesIn(<<>>) = {}
  BY DEF FramesIn
<1>6. Cardinality({}) = 0
  BY FS_EmptySet
<1> DEFINE q == Cardinality(queued[INPUT_PORT])
           f == Cardinality(FramesIn(done[OUTPUT_PORT]))
<1>7. q \in Nat /\ f \in Nat /\ held \in Nat /\ FrameInHand \in {0, 1}
  BY <1>1, InFlightTypes
<1>8. q' \in {0, q} /\ f' \in {0, f} /\ held' \in {0, held}
  BY <1>4, <1>5, <1>6
<1>9. /\ q' \in Nat /\ q' <= q
      /\ f' \in Nat /\ f' <= f
      /\ held' \in Nat /\ held' <= held
  BY <1>7, <1>8
<1>10. InFlight' <= InFlight /\ InFlight' \in Nat /\ InFlight \in Nat
  BY <1>3, <1>7, <1>9 DEF InFlight
<1> QED
  BY <1>1, <1>2, <1>10, InFlightTypes DEF ServiceInv, FramesAccounted

\* The poll thread takes a frame, puts its buffer back and delivers it.
LEMMA AccountedPoll ==
  ASSUME ServiceInv, PollNext
  PROVE  FramesAccounted'
<1>1. TypeOK
  BY DEF ServiceInv, OwnershipInv, ListsInv
<1>2. UNCHANGED <<queued, held, fed, pc>> /\ (Running' <=> Running)
  BY DEF PollNext, PollLoop, PollReady, PollExit, DequeueOutput, DequeueInput,
         DequeueBuffer, DqBuf, OnError, PollError, OnInputDone, OnOutputDone,
         DumpOutput, OnLastForDrain, hardwareVars, deviceVars, firmwareVars,
         sessionVars, historyVars, Running
<1>3. CASE /\ UNCHANGED <<done, delivered>>
           /\ ~Handling /\ ~Handling'
  BY <1>2, <1>3, AccountedQuiet
<1>4. CASE /\ PollReady \/ PollExit \/ DequeueInput
           /\ UNCHANGED delivered
  <2>1. done'[OUTPUT_PORT] = done[OUTPUT_PORT]
    BY <1>1, <1>4
    DEF PollReady, PollExit, DequeueInput, DequeueBuffer, DqBuf, TypeOK,
        DeviceTypeOK, Port, INPUT_PORT, OUTPUT_PORT, deviceVars
  <2>2. ~Handling /\ ~Handling'
    BY <1>4
    DEF PollReady, Polling, PollExit, DequeueInput, DequeueBuffer, Handle,
        NextHandler, Handling
  <2>3. FrameInHand' = FrameInHand
    BY <2>2 DEF FrameInHand
  <2> QED
    BY <1>2, <1>4, <2>1, <2>3 DEF ServiceInv, FramesAccounted, InFlight
<1>5. CASE DequeueOutput /\ UNCHANGED delivered
  <2>1. CASE DqBuf(OUTPUT_PORT) /\ buffer' = Head(done[OUTPUT_PORT])
             /\ ppc' = "outputDone" /\ ppc = "dqOutput"
    <3>1. /\ done[OUTPUT_PORT] \in Seq(Completion)
          /\ done[OUTPUT_PORT] # <<>>
          /\ done'[OUTPUT_PORT] = Tail(done[OUTPUT_PORT])
      BY <1>1, <2>1 DEF TypeOK, DeviceTypeOK, DqBuf, Port
    <3>2. BufsOnce(done[OUTPUT_PORT])
      BY OwnedAlt DEF ServiceInv, OwnershipInv, Ownership, Port
    <3>3. FrameInHand = 0
      BY <2>1 DEF FrameInHand, Handling
    <3>4. FrameInHand' = IF Head(done[OUTPUT_PORT]).frame THEN 1 ELSE 0
      BY <2>1 DEF FrameInHand, Handling
    <3>5. Cardinality(FramesIn(done[OUTPUT_PORT]))
            = Cardinality(FramesIn(done'[OUTPUT_PORT])) + FrameInHand'
      BY <3>1, <3>2, <3>4, TailFrames
    <3>6. Tail(done[OUTPUT_PORT]) \in Seq(Completion)
      BY <3>1
    <3>7. Cardinality(FramesIn(done'[OUTPUT_PORT])) \in Nat
      BY <3>1, <3>6, CountTypes, PortBufsEmpty
    <3>8. InFlight' = InFlight
      BY <1>1, <1>2, <3>3, <3>4, <3>5, <3>7, InFlightTypes DEF InFlight
    <3> QED
      BY <1>2, <1>5, <3>8 DEF ServiceInv, FramesAccounted
  <2>2. CASE UNCHANGED done /\ ~Handling /\ ~Handling'
    BY <1>3, <1>5, <2>2
  <2> QED
    BY <1>5, <2>1, <2>2
    DEF DequeueOutput, DequeueBuffer, Handle, NextHandler, Handling,
        deviceVars
<1>6. CASE PollLoop
  BY <1>4, <1>5, <1>6 DEF PollLoop, historyVars
<1>7. CASE OnError \/ OnInputDone \/ OnLastForDrain
  BY <1>3, <1>7
  DEF OnError, PollError, Polling, OnInputDone, OnLastForDrain,
      CallbackReturns, Handle, NextHandler, Handling, hardwareVars,
      deviceVars, historyVars
<1>8. CASE OnOutputDone
  <2>1. UNCHANGED <<done, delivered>>
    BY <1>8 DEF OnOutputDone, hardwareVars, deviceVars, historyVars
  <2>2. CASE ppc = "outputDone" /\ ppc' = "dump" /\ UNCHANGED buffer
    <3>1. FrameInHand' = FrameInHand
      BY <2>2 DEF FrameInHand, Handling
    <3> QED
      BY <1>2, <2>1, <3>1 DEF ServiceInv, FramesAccounted, InFlight
  <2>3. CASE /\ ppc = "outputDone"
             /\ buffer.buf \notin pendingBufs[OUTPUT_PORT]
             /\ ~Handling'
    <3>1. ~Running
      BY <2>3
      DEF ServiceInv, OwnershipInv, Ownership, OwnedPending, InHand, Port,
          INPUT_PORT, OUTPUT_PORT
    <3>2. FrameInHand' = 0
      BY <2>3 DEF FrameInHand
    <3>3. InFlight' = InFlight - FrameInHand
      BY <1>1, <1>2, <2>1, <3>2, InFlightTypes DEF InFlight
    <3>4. InFlight \in Nat /\ FrameInHand \in Nat
      BY <1>1, InFlightTypes DEF InFlight
    <3>5. delivered' + InFlight' <= fed'
      BY <1>1, <1>2, <2>1, <3>3, <3>4, InFlightTypes
      DEF ServiceInv, FramesAccounted
    <3> QED
      BY <1>2, <3>1, <3>5 DEF FramesAccounted
  <2> QED
    BY <1>8, <2>2, <2>3
    DEF OnOutputDone, CallbackReturns, Handle, NextHandler, Handling
<1>9. CASE DumpOutput
  <2>1. /\ UNCHANGED done /\ ~Handling'
        /\ Handling
        /\ delivered' = IF buffer.frame THEN delivered + 1 ELSE delivered
    BY <1>9 DEF DumpOutput, CallbackReturns, Handle, NextHandler, Handling,
                hardwareVars, deviceVars
  <2>2. FrameInHand' = 0 /\ delivered' = delivered + FrameInHand
    BY <1>1, <2>1, InFlightTypes DEF FrameInHand
  <2>3. InFlight' = InFlight - FrameInHand
    BY <1>1, <1>2, <2>1, <2>2, InFlightTypes DEF InFlight
  <2>4. InFlight \in Nat /\ FrameInHand \in Nat /\ delivered \in Nat
    BY <1>1, InFlightTypes DEF InFlight
  <2>5. delivered' + InFlight' = delivered + InFlight
    BY <2>2, <2>3, <2>4
  <2> QED
    BY <1>2, <2>5 DEF ServiceInv, FramesAccounted
<1> QED
  BY <1>6, <1>7, <1>8, <1>9 DEF PollNext

\* The device moves frames from one queue to the other.
LEMMA AccountedDevice ==
  ASSUME ServiceInv, DeviceWorks
  PROVE  FramesAccounted'
<1>1. TypeOK /\ DeviceTypeOK
  BY DEF ServiceInv, OwnershipInv, ListsInv, TypeOK
<1>2. /\ UNCHANGED <<ppc, buffer, fed, delivered, pc>>
      /\ FrameInHand' = FrameInHand
      /\ (Running' <=> Running)
  BY DEF DeviceWorks, driverVars, sessionVars, historyVars, FrameInHand,
         Handling, Running
<1> DEFINE q == Cardinality(queued[INPUT_PORT])
           f == Cardinality(FramesIn(done[OUTPUT_PORT]))
<1>3. q \in Nat /\ f \in Nat /\ held \in Nat /\ FrameInHand \in {0, 1}
  BY <1>1, InFlightTypes
<1>4. INPUT_PORT # OUTPUT_PORT /\ INPUT_PORT \in Port /\ OUTPUT_PORT \in Port
  BY DEF INPUT_PORT, OUTPUT_PORT, Port
<1>5. CASE ConsumeFrame
  <2>1. PICK b \in queued[INPUT_PORT] : Complete(INPUT_PORT, b, FALSE, FALSE)
    BY <1>5 DEF ConsumeFrame
  <2>2. /\ queued'[INPUT_PORT] = queued[INPUT_PORT] \ {b}
        /\ done'[OUTPUT_PORT] = done[OUTPUT_PORT]
    BY <1>1, <1>4, <2>1, CompleteParts
  <2>3. IsFiniteSet(queued[INPUT_PORT])
    BY <1>1, CountTypes, <<>> \in Seq(Completion) DEF DeviceTypeOK
  <2>4. q' = q - 1
    BY <2>2, <2>3, FS_RemoveElement
  <2>5. f' = f /\ held' = held + 1
    BY <1>5, <2>2 DEF ConsumeFrame
  <2>6. InFlight' = InFlight
    BY <1>2, <1>3, <2>4, <2>5 DEF InFlight
  <2> QED
    BY <1>2, <2>6 DEF ServiceInv, FramesAccounted
<1>6. ASSUME NEW b \in queued[OUTPUT_PORT], NEW frame \in BOOLEAN,
             NEW last \in BOOLEAN, Complete(OUTPUT_PORT, b, frame, last),
             held' = IF frame THEN held - 1 ELSE held
      PROVE  FramesAccounted'
  <2> DEFINE c == [buf |-> b, frame |-> frame, last |-> last]
  <2>1. /\ queued'[INPUT_PORT] = queued[INPUT_PORT]
        /\ done[OUTPUT_PORT] \in Seq(Completion)
        /\ done'[OUTPUT_PORT] = Append(done[OUTPUT_PORT], c)
        /\ c \in Completion
    BY <1>1, <1>4, <1>6, CompleteParts
  <2>2. c.buf = b /\ c.frame = frame
    OBVIOUS
  <2>3. b \notin BufsIn(done[OUTPUT_PORT])
    BY <1>4, OwnedAlt DEF ServiceInv, OwnershipInv, Ownership
  <2> HIDE DEF c
  <2>4. f' = f + (IF frame THEN 1 ELSE 0)
    BY <2>1, <2>2, <2>3, AppendFrames
  <2>5. q' = q
    BY <2>1
  <2>6. InFlight' = InFlight
    BY <1>2, <1>3, <1>6, <2>4, <2>5 DEF InFlight
  <2> QED
    BY <1>2, <2>6 DEF ServiceInv, FramesAccounted
<1>7. CASE ProduceFrame
  BY <1>6, <1>7 DEF ProduceFrame
<1>8. CASE ProduceEmptyLast
  BY <1>6, <1>8 DEF ProduceEmptyLast
<1> QED
  BY <1>5, <1>7, <1>8 DEF DeviceWorks

\* Every step keeps them.
LEMMA AccountedStep ==
  ASSUME ServiceInv, Next
  PROVE  FramesAccounted'
<1>1. CASE DeviceBreaks \/ Finished
  <2>1. UNCHANGED <<queued, held, done, fed, delivered, ppc, buffer, pc>>
    BY <1>1 DEF DeviceBreaks, Break, Finished, vars, hardwareVars, deviceVars,
                firmwareVars, driverVars, sessionVars, historyVars
  <2> QED
    BY <2>1, AccountedQuiet DEF Running
<1> QED
  BY <1>1, AccountedSession, AccountedQueue, AccountedStop, AccountedPoll,
     AccountedDevice
  DEF Next, SessionNext, QueueBuffersNext

-----------------------------------------------------------------------------
\* Every step keeps the parser, the poll thread and the device in step.

\* The parser and the history do not move, nor does the loop move to where it
\* would have to know more about them.
LEMMA FedQuiet ==
  ASSUME ServiceInv,
         UNCHANGED <<fed, streamPos>>,
         \/ UNCHANGED pc
         \/ pc \notin {"queueInput", "setDrain"}
              /\ pc' \notin {"queueInput", "setDrain"},
         Running' => Running /\ (isDrainSent' <=> isDrainSent)
  PROVE  FramesFed'
BY DEF ServiceInv, FramesFed, FramesAsked, Running, LoopPc

\* The parser hands out the next frame, or the drain is due.
LEMMA FedPrepare ==
  ASSUME ServiceInv, PrepareInput
  PROVE  FramesFed'
<1>1. /\ pc = "prepareInput" /\ Running
      /\ UNCHANGED <<fed, flags>>
      /\ \/ pc' = "queueInput" /\ ~isEndReached
         \/ pc' = "setDrain" /\ isEndReached
         \/ pc' = "returned"
      /\ streamPos' = IF EosReached THEN streamPos ELSE streamPos + 1
  BY DEF PrepareInput, historyVars, Goto, ReturnError, Fail, Running, LoopPc
<1>2. streamPos = fed /\ frameCounter = fed /\ fed <= FramesAsked
      /\ ~isDrainSent
  BY <1>1 DEF ServiceInv, FramesFed, FramesCounted
<1>3. ~isDrainSent'
  BY <1>1, <1>2 DEF isDrainSent
<1>4. fed \in Nat
  BY DEF ServiceInv, OwnershipInv, ListsInv, TypeOK, EncoderTypeOK
<1>5. pc' = "queueInput" => streamPos' = fed + 1 /\ fed < FramesAsked
  BY <1>1, <1>2, <1>4, EncoderAssumption
  DEF isEndReached, EosReached, FramesAsked
<1>6. pc' = "setDrain" => fed = FramesAsked
  BY <1>1, <1>2, <1>4, EncoderAssumption
  DEF isEndReached, EosReached, FramesAsked
<1> QED
  BY <1>1, <1>2, <1>3, <1>5, <1>6
  DEF FramesFed, FramesAsked, Running, SetupPc, LoopPc

\* The frame is queued, and the parser is at the next one.
LEMMA FedQueue ==
  ASSUME ServiceInv, QueueInput
  PROVE  FramesFed'
<1>1. /\ pc = "queueInput"
      /\ UNCHANGED <<streamPos, flags>>
      /\ \/ fed' = fed + 1 /\ pc' = "loop"
         \/ fed' = fed /\ pc' = "returned"
  BY DEF QueueInput, NextFrame, Goto, ReturnError, Fail, codecVars
<1>2. streamPos = fed + 1 /\ fed < FramesAsked /\ ~isDrainSent
  BY <1>1 DEF ServiceInv, FramesFed, FramesCounted
<1>3. ~isDrainSent'
  BY <1>1, <1>2 DEF isDrainSent
<1>4. fed \in Nat /\ FramesAsked \in Nat
  BY EncoderAssumption
  DEF ServiceInv, OwnershipInv, ListsInv, TypeOK, EncoderTypeOK, FramesAsked
<1>5. fed' <= FramesAsked
  BY <1>1, <1>2, <1>4
<1> QED
  BY <1>1, <1>2, <1>3, <1>5
  DEF FramesFed, FramesAsked, Running, SetupPc, LoopPc

\* Every step keeps what is fed below what is asked for.
LEMMA FedStep ==
  ASSUME ServiceInv, Next
  PROVE  FramesFed'
<1>1. CASE \/ PollNext \/ DeviceWorks \/ DeviceBreaks \/ Finished
  <2>1. UNCHANGED <<fed, streamPos, pc>>
    BY <1>1
    DEF PollNext, PollLoop, OnError, OnInputDone, OnOutputDone, DumpOutput,
        OnLastForDrain, DeviceWorks, DeviceBreaks, Finished, vars, sessionVars,
        loopVars, historyVars
  <2>2. isDrainSent' <=> isDrainSent
    BY <1>1
    DEF PollNext, PollLoop, OnError, OnInputDone, OnOutputDone, DumpOutput,
        OnLastForDrain, DeviceWorks, DeviceBreaks, Finished, vars, codecVars,
        isDrainSent
  <2> QED
    BY <2>1, <2>2, FedQuiet DEF Running
<1>2. CASE \/ SetControls \/ ConfigureInput \/ ConfigureOutput
           \/ AllocateOutput \/ AllocateInput \/ StartOutput \/ StartInput
           \/ LoopHead \/ QueueOutput \/ DrainWait \/ SetDynamicControls
           \/ InputAvailable \/ WaitForInput
           \/ StopInput \/ ReclaimInput \/ StopOutput \/ ReclaimOutput
           \/ FreeInput \/ FreeOutput \/ StopPollThread \/ Join
  <2>1. UNCHANGED <<fed, streamPos>>
    BY <1>2
    DEF SetControls, ConfigureInput, ConfigureOutput, ConfigurePort,
        AllocateOutput, AllocateInput, AllocatePort, StartOutput, StartInput,
        StartPort, LoopHead, QueueOutput, DrainWait, SetDynamicControls,
        InputAvailable, WaitForInput, StopInput, ReclaimInput, StopOutput,
        ReclaimOutput, StopPort, ReclaimPort, FreeInput, FreeOutput, FreePort,
        StopPollThread, Join, progressVars, loopVars, historyVars
  <2>2. /\ pc \notin {"queueInput", "setDrain"}
        /\ pc' \notin {"queueInput", "setDrain"}
        /\ Running' => Running
    BY <1>2
    DEF SetControls, ConfigureInput, ConfigureOutput, ConfigurePort,
        AllocateOutput, AllocateInput, AllocatePort, StartOutput, StartInput,
        StartPort, LoopHead, QueueOutput, QueueAllOutput, QueueSomeOutput,
        DrainWait, SetDynamicControls, InputAvailable, WaitForInput,
        StopInput, ReclaimInput, StopOutput, ReclaimOutput, StopPort,
        ReclaimPort, FreeInput, FreeOutput, FreePort, StopPollThread, Join,
        Goto, Fail, Return, ReturnError, Running, SetupPc, LoopPc
  <2>3. flags' = flags \/ pc' = "returned"
    BY <1>2
    DEF SetControls, ConfigureInput, ConfigureOutput, ConfigurePort,
        AllocateOutput, AllocateInput, AllocatePort, StartOutput, StartInput,
        StartPort, LoopHead, QueueOutput, DrainWait, SetDynamicControls,
        InputAvailable, WaitForInput, StopInput, ReclaimInput, StopOutput,
        ReclaimOutput, StopPort, ReclaimPort, FreeInput, FreeOutput, FreePort,
        StopPollThread, Join, codecVars, Return, Goto, ReturnError, Fail
  <2>4. Running' => (isDrainSent' <=> isDrainSent)
    BY <2>3 DEF isDrainSent, Running, SetupPc, LoopPc
  <2> QED
    BY <2>1, <2>2, <2>4, FedQuiet
<1>3. CASE SetDrain \/ DrainStop
  <2>1. /\ UNCHANGED <<fed, streamPos>>
        /\ pc \in {"setDrain", "drainStop"}
        /\ pc' \notin {"queueInput", "setDrain"}
        /\ isDrainSent'
    BY <1>3 DEF SetDrain, DrainStop, progressVars, loopVars, historyVars,
                codecVars, NextFrame, Goto, ReturnError, Fail, isDrainSent,
                ServiceInv, FramesCounted
  <2>2. fed = FramesAsked
    BY <2>1 DEF ServiceInv, FramesFed, FramesCounted, Running, LoopPc
  <2> QED
    BY <2>1, <2>2 DEF ServiceInv, FramesFed, FramesAsked
<1> QED
  BY <1>1, <1>2, <1>3, FedPrepare, FedQueue
  DEF Next, SessionNext, QueueBuffersNext

\* Every step keeps the poll thread's buffer and its end.
LEMMA ThreadStep ==
  ASSUME ServiceInv, Next
  PROVE  ThreadInStep'
<1>1. CASE UNCHANGED <<ppc, buffer>> /\ (pc' = "done" => pc = "done")
  BY <1>1 DEF ServiceInv, ThreadInStep, Handling
<1>2. CASE \/ SetControls \/ ConfigureInput \/ ConfigureOutput
           \/ AllocateOutput \/ AllocateInput \/ StartOutput \/ StartInput
           \/ StopInput \/ ReclaimInput \/ StopOutput \/ ReclaimOutput
           \/ FreeInput \/ FreeOutput \/ StopPollThread
  <2>1. UNCHANGED <<ppc, buffer>>
    BY <1>2
    DEF SetControls, ConfigureInput, ConfigureOutput, ConfigurePort,
        AllocateOutput, AllocateInput, AllocatePort, StartOutput, StartInput,
        StartPort, StopInput, ReclaimInput, StopOutput, ReclaimOutput,
        StopPort, ReclaimPort, FreeInput, FreeOutput, FreePort,
        StopPollThread, RequestExit, driverVars
  <2>2. pc' # "done"
    BY <1>2
    DEF SetControls, ConfigureInput, ConfigureOutput, ConfigurePort,
        AllocateOutput, AllocateInput, AllocatePort, StartOutput, StartInput,
        StartPort, StopInput, ReclaimInput, StopOutput, ReclaimOutput,
        StopPort, ReclaimPort, FreeInput, FreeOutput, FreePort,
        StopPollThread, Goto, Fail
  <2> QED
    BY <1>1, <2>1, <2>2
<1>3. CASE QueueBuffersNext
  <2>1. UNCHANGED <<ppc, buffer>>
    BY <1>3
    DEF QueueBuffersNext, LoopHead, QueueOutput, QueueAllOutput,
        QueueSomeOutput, QueueBuffers, DrainWait, SetDynamicControls,
        InputAvailable, WaitForInput, PrepareInput, QueueInput, SetDrain,
        DrainStop, driverVars
  <2>2. pc' # "done"
    BY <1>3
    DEF QueueBuffersNext, LoopHead, QueueOutput, QueueAllOutput,
        QueueSomeOutput, DrainWait, SetDynamicControls, InputAvailable,
        WaitForInput, PrepareInput, QueueInput, SetDrain, DrainStop,
        NextFrame, Goto, Fail, Return, ReturnError
  <2> QED
    BY <1>1, <2>1, <2>2
<1>4. CASE Join
  BY <1>4 DEF Join, PollThreadEnded, driverVars, ThreadInStep, Handling
<1>5. CASE DeviceWorks \/ DeviceBreaks \/ Finished
  BY <1>1, <1>5
  DEF DeviceWorks, DeviceBreaks, Finished, vars, driverVars, sessionVars
<1>6. CASE PollNext
  <2>1. UNCHANGED pc /\ pc # "done"
    BY <1>6
    DEF PollNext, PollLoop, PollReady, Polling, PollExit, DequeueOutput,
        DequeueInput, DequeueBuffer, OnError, PollError, OnInputDone,
        OnOutputDone, DumpOutput, OnLastForDrain, sessionVars, ServiceInv,
        ThreadInStep
  <2>2. CASE ~Handling' /\ ppc' # "drainFlag"
    BY <2>1, <2>2 DEF ThreadInStep
  <2>3. CASE ppc' = "outputDone" /\ DqBuf(OUTPUT_PORT)
             /\ buffer' = Head(done[OUTPUT_PORT])
    <3>1. buffer' \in Completion
      BY <2>3, DqBufType
      DEF ServiceInv, OwnershipInv, ListsInv, TypeOK, Port
    <3> QED
      BY <2>1, <2>3, <3>1 DEF ThreadInStep
  <2>4. CASE /\ UNCHANGED buffer
             /\ \/ ppc = "outputDone" /\ ppc' = "dump"
                \/ ppc = "dump" /\ ppc' = "drainFlag" /\ buffer.last
    BY <2>1, <2>4 DEF ServiceInv, ThreadInStep, Handling
  <2> QED
    BY <1>6, <2>2, <2>3, <2>4
    DEF PollNext, PollLoop, PollReady, PollExit, DequeueOutput, DequeueInput,
        DequeueBuffer, OnError, PollError, OnInputDone, OnOutputDone,
        DumpOutput, OnLastForDrain, CallbackReturns, Handle, NextHandler,
        Handling
<1> QED
  BY <1>2, <1>3, <1>4, <1>5, <1>6 DEF Next, SessionNext

\* A device that does not fail raises no error.
LEMMA DeviceFineStep ==
  ASSUME ~DeviceErrors, ServiceInv, Next
  PROVE  DeviceFine'
<1>1. ~broken /\ ~isErrorReceived
  BY DEF ServiceInv, DeviceFine
<1>2. ~OnError /\ ~DeviceBreaks
  BY <1>1 DEF OnError, PollError, DeviceBreaks, Break
<1>3. broken' = broken
  BY <1>2
  DEF Next, SessionNext, SetControls, ConfigureInput, ConfigureOutput,
      ConfigurePort, ReqBufs, AllocateOutput, AllocateInput, AllocatePort,
      StartOutput, StartInput, StartPort, StreamOn, StopInput, StopOutput,
      StopPort, StreamOff, ReclaimInput, ReclaimOutput, ReclaimPort, FreeInput,
      FreeOutput, FreePort, StopPollThread, Join, QueueBuffersNext, LoopHead,
      QueueOutput, QueueAllOutput, QueueSomeOutput, QueueBuffers, DrainWait,
      SetDynamicControls, InputAvailable, WaitForInput, PrepareInput,
      QueueInput, SetDrain, DrainStop, PollNext, PollLoop, PollReady, PollExit,
      DequeueOutput, DequeueInput, DequeueBuffer, DqBuf, OnInputDone,
      OnOutputDone, DumpOutput, OnLastForDrain, DeviceWorks, ConsumeFrame,
      ProduceFrame, ProduceEmptyLast, Finished, vars, hardwareVars, deviceVars
<1>4. flags' \subseteq flags \cup {"mDrainSent", "mDrainLastFlagReceived"}
  BY <1>2
  DEF Next, SessionNext, SetControls, ConfigureInput, ConfigureOutput,
      ConfigurePort, AllocateOutput, AllocateInput, AllocatePort, StartOutput,
      StartInput, StartPort, StopInput, StopOutput, StopPort, ReclaimInput,
      ReclaimOutput, ReclaimPort, FreeInput, FreeOutput, FreePort,
      StopPollThread, Join, QueueBuffersNext, LoopHead, QueueOutput,
      DrainWait, SetDynamicControls, InputAvailable, WaitForInput,
      PrepareInput, QueueInput, SetDrain, DrainStop, PollNext, PollLoop,
      OnInputDone, OnOutputDone, DumpOutput, OnLastForDrain, DeviceWorks,
      Finished, vars, codecVars
<1> QED
  BY <1>1, <1>3, <1>4 DEF DeviceFine, isErrorReceived

-----------------------------------------------------------------------------
\* Every step keeps the LAST buffer the last one.

\* Nothing moves that the LAST buffer depends on, or the loop is over.
LEMMA LastQuiet ==
  ASSUME ServiceInv,
         Running' =>
             /\ Running
             /\ UNCHANGED <<draining, stopped, held, flags>>
             /\ queued'[INPUT_PORT] = queued[INPUT_PORT]
             /\ done'[OUTPUT_PORT] = done[OUTPUT_PORT]
             /\ \/ ~Handling' /\ ppc' # "drainFlag"
                \/ UNCHANGED <<ppc, buffer>>
             /\ pc' \in {"setDrain", "drainStop"} =>
                    pc \in {"setDrain", "drainStop"} \/ ~isDrainSent
  PROVE  LastIsLast'
BY DEF ServiceInv, LastIsLast, LastInHand, Handling, isDrainSent,
       isDrainLastFlagReceived

\* The session's own steps.
LEMMA LastSession ==
  ASSUME ServiceInv, SessionNext
  PROVE  LastIsLast'
<1>1. CASE ~Running'
  BY <1>1 DEF LastIsLast
<1>2. CASE \/ StopInput \/ ReclaimInput \/ StopOutput \/ ReclaimOutput
           \/ FreeInput \/ FreeOutput \/ StopPollThread \/ Join
  BY <1>1, <1>2
  DEF StopInput, StopOutput, StopPort, ReclaimInput, ReclaimOutput,
      ReclaimPort, FreeInput, FreeOutput, FreePort, StopPollThread, Join,
      Goto, Running, SetupPc, LoopPc
<1>3. CASE \/ SetControls \/ ConfigureInput \/ ConfigureOutput
           \/ AllocateOutput \/ AllocateInput \/ StartOutput \/ StartInput
           \/ LoopHead \/ SetDynamicControls \/ InputAvailable
           \/ WaitForInput \/ PrepareInput \/ DrainWait
  <2>1. UNCHANGED <<queued, done, ppc, buffer>>
    BY <1>3
    DEF SetControls, ConfigureInput, ConfigureOutput, ConfigurePort, ReqBufs,
        AllocateOutput, AllocateInput, AllocatePort, StartOutput, StartInput,
        StartPort, StreamOn, LoopHead, DrainWait, SetDynamicControls,
        InputAvailable, WaitForInput, PrepareInput, hardwareVars, deviceVars,
        driverVars
  <2>2. pc' # "returned" => UNCHANGED <<draining, stopped, held, flags>>
    BY <1>3
    DEF SetControls, ConfigureInput, ConfigureOutput, ConfigurePort,
        AllocateOutput, AllocateInput, AllocatePort, StartOutput, StartInput,
        StartPort, LoopHead, DrainWait, SetDynamicControls, InputAvailable,
        WaitForInput, PrepareInput, hardwareVars, firmwareVars, codecVars,
        Return, ReturnError, Goto, Fail
  <2>3. /\ Running
        /\ pc' \in {"setDrain", "drainStop"} => pc = "prepareInput"
    BY <1>3
    DEF SetControls, ConfigureInput, ConfigureOutput, ConfigurePort,
        AllocateOutput, AllocateInput, AllocatePort, StartOutput, StartInput,
        StartPort, LoopHead, DrainWait, SetDynamicControls, InputAvailable,
        WaitForInput, PrepareInput, Return, ReturnError, Goto, Fail, Running,
        SetupPc, LoopPc
  <2>4. pc = "prepareInput" => ~isDrainSent
    BY DEF ServiceInv, FramesCounted
  <2>5. CASE pc' = "returned"
    BY <1>1, <2>5 DEF Running, SetupPc, LoopPc
  <2> QED
    BY <2>1, <2>2, <2>3, <2>4, <2>5, LastQuiet
<1>4. CASE QueueOutput
  <2>1. queued'[INPUT_PORT] = queued[INPUT_PORT]
    BY <1>4
    DEF QueueOutput, QueueAllOutput, QueueSomeOutput, QueueBuffers, QBuf,
        Port, INPUT_PORT, OUTPUT_PORT, ServiceInv, OwnershipInv, ListsInv,
        TypeOK, DeviceTypeOK, IsPortBufs
  <2>2. /\ UNCHANGED <<done, ppc, buffer, draining, stopped, held, flags>>
        /\ Running /\ pc' \notin {"setDrain", "drainStop"}
    BY <1>4
    DEF QueueOutput, QueueAllOutput, QueueSomeOutput, QueueBuffers,
        firmwareVars, Goto, ReturnError, Fail, Running, LoopPc
  <2> QED
    BY <2>1, <2>2, LastQuiet
<1>5. CASE QueueInput
  <2>1. /\ UNCHANGED <<done, ppc, buffer, draining, stopped, held, flags>>
        /\ Running /\ pc = "queueInput"
    BY <1>5
    DEF QueueInput, QueueBuffers, firmwareVars, codecVars, deviceVars,
        driverVars, Running, LoopPc
  <2>2. ~isDrainSent
    BY <2>1 DEF ServiceInv, FramesCounted
  <2>3. ~stopped /\ ~draining
    BY <2>1, <2>2 DEF ServiceInv, LastIsLast
  <2> QED
    BY <2>1, <2>3
    DEF ServiceInv, LastIsLast, LastInHand, Handling, isDrainLastFlagReceived
<1>6. CASE SetDrain
  <2>1. /\ UNCHANGED <<queued, done, ppc, buffer, draining, stopped, held>>
        /\ Running /\ pc = "setDrain"
        /\ flags' = flags \cup {"mDrainSent"}
    BY <1>6 DEF SetDrain, hardwareVars, deviceVars, firmwareVars, driverVars,
                Running, LoopPc
  <2>2. ~stopped /\ ~draining
    BY <2>1 DEF ServiceInv, LastIsLast
  <2> QED
    BY <2>1, <2>2
    DEF ServiceInv, LastIsLast, LastInHand, Handling, isDrainLastFlagReceived
<1>7. CASE DrainStop
  <2>1. /\ UNCHANGED <<queued, done, ppc, buffer, stopped, held, flags>>
        /\ Running /\ pc = "drainStop"
        /\ pc' \in {"loop", "returned"}
    BY <1>7 DEF DrainStop, FirmwareCmdStop, NextFrame, ReturnError, Fail, Goto,
                deviceVars, firmwareVars, driverVars, codecVars, Running,
                LoopPc
  <2>2. ~stopped /\ isDrainSent /\ isDrainSent'
    BY <2>1 DEF ServiceInv, LastIsLast, FramesCounted, isDrainSent
  <2> QED
    BY <2>1, <2>2
    DEF ServiceInv, LastIsLast, LastInHand, Handling, isDrainLastFlagReceived
<1> QED
  BY <1>2, <1>3, <1>4, <1>5, <1>6, <1>7 DEF SessionNext, QueueBuffersNext

\* VIDIOC_DQBUF itself changes no flag of the codec.
LEMMA PollLoopKeepsFlags ==
  ASSUME PollLoop
  PROVE  UNCHANGED flags
BY DEF PollLoop, codecVars

\* The poll thread takes the LAST buffer when nothing is left behind it.
LEMMA LastPoll ==
  ASSUME ServiceInv, PollNext
  PROVE  LastIsLast'
<1>1. DeviceTypeOK
  BY DEF ServiceInv, OwnershipInv, ListsInv, TypeOK
<1>2. /\ UNCHANGED <<queued, draining, stopped, held, pc>>
      /\ (Running' <=> Running)
  BY DEF PollNext, PollLoop, PollReady, PollExit, DequeueOutput, DequeueInput,
         DequeueBuffer, DqBuf, OnError, PollError, OnInputDone, OnOutputDone,
         DumpOutput, OnLastForDrain, hardwareVars, deviceVars, firmwareVars,
         sessionVars, Running
<1>3. CASE /\ UNCHANGED flags
           /\ done'[OUTPUT_PORT] = done[OUTPUT_PORT]
           /\ ~Handling' /\ ppc' # "drainFlag"
  BY <1>2, <1>3, LastQuiet
<1>4. CASE DequeueOutput /\ UNCHANGED flags
  <2>1. CASE DqBuf(OUTPUT_PORT) /\ buffer' = Head(done[OUTPUT_PORT])
             /\ ppc' = "outputDone"
    <3> DEFINE s == done[OUTPUT_PORT]
    <3>1. /\ s \in Seq(Completion) /\ s # <<>>
          /\ done'[OUTPUT_PORT] = Tail(s)
      BY <1>1, <2>1 DEF DeviceTypeOK, DqBuf, Port
    <3>2. /\ Head(s) = s[1] /\ 1 \in DOMAIN s
          /\ Len(s) = 1 => Tail(s) = <<>>
          /\ Len(s) \in Nat
      <4>1. /\ Head(s) = s[1]
            /\ DOMAIN s = 1 .. Len(s)
            /\ Len(s) \in Nat \ {0}
            /\ DOMAIN Tail(s) = 1 .. Len(s) - 1
            /\ Tail(s) \in Seq(Completion)
        BY <3>1
      <4>2. Len(s) = 1 => Len(Tail(s)) = 0
        BY <3>1
      <4>3. \A t \in Seq(Completion) : Len(t) = 0 => t = <<>>
        OBVIOUS
      <4>4. Len(s) = 1 => Tail(s) = <<>>
        BY <4>1, <4>2, <4>3
      <4>5. 1 \in DOMAIN s
        BY <4>1
      <4> QED
        BY <4>1, <4>4, <4>5
    <3>3. \A i \in DOMAIN Tail(s) : /\ i \in Nat
                                    /\ i + 1 \in DOMAIN s
                                    /\ Tail(s)[i] = s[i + 1]
                                    /\ Len(Tail(s)) = Len(s) - 1
      <4>1. /\ DOMAIN s = 1 .. Len(s)
            /\ Len(s) \in Nat \ {0}
            /\ DOMAIN Tail(s) = 1 .. Len(s) - 1
            /\ Len(Tail(s)) = Len(s) - 1
            /\ \A i \in DOMAIN Tail(s) : Tail(s)[i] = s[i + 1]
        BY <3>1
      <4> QED
        BY <4>1
    <3>4. CASE Running
      <4> HIDE DEF s
      <4>1. \A i \in DOMAIN s : s[i].last => stopped /\ i = Len(s)
        BY <3>4 DEF ServiceInv, LastIsLast, s
      <4>2. \A i \in DOMAIN Tail(s) :
               Tail(s)[i].last => stopped /\ i = Len(Tail(s))
        BY <3>2, <3>3, <4>1
      <4>3. Head(s).last => stopped /\ Tail(s) = <<>>
        BY <3>2, <4>1
      <4>4. ~isDrainLastFlagReceived
        BY <3>1, <3>4 DEF ServiceInv, LastIsLast, s
      <4>5. LastInHand' => Head(s).last
        BY <2>1 DEF LastInHand, s
      <4>6. ~isDrainLastFlagReceived'
        BY <1>4, <4>4 DEF isDrainLastFlagReceived
      <4>7. isDrainSent' <=> isDrainSent
        BY <1>4 DEF isDrainSent
      <4>8. /\ ~isDrainSent \/ pc \in {"setDrain", "drainStop"} =>
                   ~draining /\ ~stopped
            /\ stopped => queued[INPUT_PORT] = {} /\ held = 0
        BY <3>4 DEF ServiceInv, LastIsLast
      <4> QED
        BY <1>2, <3>1, <4>2, <4>3, <4>5, <4>6, <4>7, <4>8 DEF LastIsLast
    <3> QED
      BY <1>2, <3>4 DEF LastIsLast
  <2>2. CASE UNCHANGED done /\ ~Handling' /\ ppc' # "drainFlag"
    BY <1>3, <1>4, <2>2
  <2> QED
    BY <1>4, <2>1, <2>2
    DEF DequeueOutput, DequeueBuffer, Handle, NextHandler, Handling,
        deviceVars
<1>5. CASE (PollReady \/ PollExit \/ DequeueInput) /\ UNCHANGED flags
  <2>1. done'[OUTPUT_PORT] = done[OUTPUT_PORT]
    BY <1>1, <1>5
    DEF PollReady, PollExit, DequeueInput, DequeueBuffer, DqBuf,
        DeviceTypeOK, Port, INPUT_PORT, OUTPUT_PORT, deviceVars
  <2>2. ~Handling' /\ ppc' # "drainFlag"
    BY <1>5
    DEF PollReady, PollExit, DequeueInput, DequeueBuffer, Handle, NextHandler,
        Handling
  <2> QED
    BY <1>3, <1>5, <2>1, <2>2
<1>6. CASE PollLoop
  BY <1>4, <1>5, <1>6, PollLoopKeepsFlags DEF PollLoop
<1>7. CASE OnError
  BY <1>7 DEF OnError, PollError, ServiceInv, DeviceFine
<1>8. CASE OnInputDone
  BY <1>3, <1>8
  DEF OnInputDone, CallbackReturns, Handle, NextHandler, Handling,
      hardwareVars, deviceVars
<1>9. CASE OnOutputDone \/ DumpOutput
  <2>1. UNCHANGED <<done, flags>>
    BY <1>9 DEF OnOutputDone, DumpOutput, hardwareVars, deviceVars, codecVars
  <2>2. CASE ~Handling' /\ ppc' # "drainFlag"
    BY <1>3, <2>1, <2>2
  <2>3. CASE UNCHANGED buffer /\ Handling /\ (Handling' \/ ppc' = "drainFlag")
    <3>1. LastInHand' <=> LastInHand
      BY <2>3 DEF LastInHand
    <3> QED
      BY <1>2, <2>1, <2>3, <3>1
      DEF ServiceInv, LastIsLast, isDrainSent, isDrainLastFlagReceived
  <2> QED
    BY <1>9, <2>2, <2>3
    DEF OnOutputDone, DumpOutput, CallbackReturns, Handle, NextHandler,
        Handling
<1>10. CASE OnLastForDrain
  <2>1. /\ UNCHANGED done
        /\ ppc = "drainFlag"
        /\ ~Handling' /\ ppc' # "drainFlag"
        /\ isDrainSent' <=> isDrainSent
    BY <1>10 DEF OnLastForDrain, CallbackReturns, Handle, NextHandler,
                 Handling, hardwareVars, deviceVars, isDrainSent
  <2>2. LastInHand /\ ~LastInHand'
    BY <2>1 DEF ServiceInv, ThreadInStep, LastInHand
  <2> QED
    BY <1>2, <2>1, <2>2 DEF ServiceInv, LastIsLast
<1> QED
  BY <1>6, <1>7, <1>8, <1>9, <1>10 DEF PollNext

\* The device produces nothing after the LAST buffer, which it produces when
\* it holds no other frame.
LEMMA LastDevice ==
  ASSUME ServiceInv, DeviceWorks
  PROVE  LastIsLast'
<1>1. DeviceTypeOK
  BY DEF ServiceInv, OwnershipInv, ListsInv, TypeOK
<1>2. /\ UNCHANGED <<ppc, buffer, flags, pc>>
      /\ ~stopped
      /\ (Running' <=> Running)
      /\ (isDrainSent' <=> isDrainSent)
      /\ (LastInHand' <=> LastInHand)
      /\ (Handling' <=> Handling)
      /\ (isDrainLastFlagReceived' <=> isDrainLastFlagReceived)
  BY DEF DeviceWorks, driverVars, codecVars, sessionVars, Running, LastInHand,
         Handling, ConsumeFrame, ProduceFrame, ProduceEmptyLast, Encoding,
         isDrainSent, isDrainLastFlagReceived
<1>3. INPUT_PORT # OUTPUT_PORT /\ INPUT_PORT \in Port /\ OUTPUT_PORT \in Port
  BY DEF INPUT_PORT, OUTPUT_PORT, Port
<1>4. SUFFICES ASSUME Running PROVE LastIsLast'
  BY <1>2 DEF LastIsLast
<1>5. /\ ~isDrainSent \/ pc \in {"setDrain", "drainStop"} => ~draining
      /\ \A i \in DOMAIN done[OUTPUT_PORT] : ~done[OUTPUT_PORT][i].last
      /\ ~LastInHand /\ ~isDrainLastFlagReceived
  BY <1>2, <1>4 DEF ServiceInv, LastIsLast
<1>6. CASE ConsumeFrame
  <2>1. done'[OUTPUT_PORT] = done[OUTPUT_PORT]
    BY <1>1, <1>3, <1>6, CompleteParts DEF ConsumeFrame
  <2>2. UNCHANGED <<draining, stopped>>
    BY <1>6 DEF ConsumeFrame
  <2> QED
    BY <1>2, <1>5, <2>1, <2>2 DEF LastIsLast
<1>7. ASSUME NEW b \in queued[OUTPUT_PORT], NEW frame \in BOOLEAN,
             NEW last \in BOOLEAN, Complete(OUTPUT_PORT, b, frame, last),
             \/ ~last /\ UNCHANGED <<draining, stopped>>
             \/ last /\ LastIsDue /\ held' = 0 /\ EndDrain
      PROVE  LastIsLast'
  <2> DEFINE c == [buf |-> b, frame |-> frame, last |-> last]
             s == done[OUTPUT_PORT]
  <2>1. /\ queued'[INPUT_PORT] = queued[INPUT_PORT]
        /\ s \in Seq(Completion)
        /\ done'[OUTPUT_PORT] = Append(s, c)
        /\ c.last = last
    BY <1>1, <1>3, <1>7, CompleteParts
  <2>2. /\ DOMAIN Append(s, c) = DOMAIN s \cup {Len(s) + 1}
        /\ Len(Append(s, c)) = Len(s) + 1
        /\ Append(s, c)[Len(s) + 1] = c
        /\ \A i \in DOMAIN s : Append(s, c)[i] = s[i]
    BY <2>1
  <2> HIDE DEF c, s
  <2>3. \A i \in DOMAIN Append(s, c) :
           Append(s, c)[i].last => last /\ i = Len(Append(s, c))
    BY <1>5, <2>1, <2>2 DEF s
  <2>4. CASE ~last /\ UNCHANGED <<draining, stopped>>
    BY <1>2, <1>5, <2>1, <2>3, <2>4 DEF LastIsLast
  <2>5. CASE last /\ LastIsDue /\ held' = 0 /\ EndDrain
    <3>1. /\ stopped' /\ ~draining' /\ held' = 0
          /\ queued'[INPUT_PORT] = {} /\ draining
      BY <2>1, <2>5 DEF LastIsDue, EndDrain
    <3> QED
      BY <1>2, <1>5, <2>1, <2>3, <3>1 DEF LastIsLast
  <2> QED
    BY <1>7, <2>4, <2>5
<1>8. CASE ProduceFrame
  <2>1. PICK b \in queued[OUTPUT_PORT], last \in BOOLEAN :
          /\ Complete(OUTPUT_PORT, b, TRUE, last)
          /\ \/ last /\ LastIsDue /\ held = 1 /\ EndDrain
             \/ ~last /\ UNCHANGED <<draining, stopped>>
    BY <1>8 DEF ProduceFrame
  <2>2. held = 1 => held' = 0
    BY <1>8 DEF ProduceFrame
  <2> QED
    BY <1>7, <2>1, <2>2
<1>9. CASE ProduceEmptyLast
  BY <1>7, <1>9 DEF ProduceEmptyLast
<1> QED
  BY <1>6, <1>8, <1>9 DEF DeviceWorks

\* Every step keeps it.
LEMMA LastStep ==
  ASSUME ServiceInv, Next
  PROVE  LastIsLast'
<1>1. CASE DeviceBreaks \/ Finished
  <2>1. UNCHANGED <<queued, held, done, ppc, buffer, pc, flags>>
    BY <1>1 DEF DeviceBreaks, Break, Finished, vars, hardwareVars, deviceVars,
                firmwareVars, driverVars, sessionVars, codecVars
  <2>2. UNCHANGED <<draining, stopped>>
    BY <1>1 DEF DeviceBreaks, Break, Finished, vars, hardwareVars,
                firmwareVars
  <2> QED
    BY <2>1, <2>2, LastQuiet DEF Running
<1> QED
  BY <1>1, LastSession, LastPoll, LastDevice DEF Next

-----------------------------------------------------------------------------
\* A success is earned.

\* The LAST buffer of the drain has been handled: nothing is in flight.
LEMMA DrainedDelivered ==
  ASSUME ServiceInv, Running, isDrainSent, isDrainLastFlagReceived
  PROVE  fed = FramesAsked /\ delivered = fed
<1>1. TypeOK
  BY DEF ServiceInv, OwnershipInv, ListsInv
<1>2. /\ queued[INPUT_PORT] = {} /\ held = 0
      /\ done[OUTPUT_PORT] = <<>> /\ ~Handling
  BY DEF ServiceInv, LastIsLast
<1>3. FramesIn(<<>>) = {} /\ Cardinality({}) = 0
  BY FS_EmptySet DEF FramesIn
<1>4. InFlight = 0
  <2>1. /\ Cardinality(queued[INPUT_PORT]) = 0
        /\ Cardinality(FramesIn(done[OUTPUT_PORT])) = 0
    BY <1>2, <1>3
  <2>2. FrameInHand = 0
    BY <1>2 DEF FrameInHand
  <2> QED
    BY <1>2, <2>1, <2>2 DEF InFlight
<1>5. delivered = fed
  BY <1>1, <1>4, InFlightTypes DEF ServiceInv, FramesAccounted
<1> QED
  BY <1>5 DEF ServiceInv, FramesFed

\* Nothing is delivered any more when all has been.
LEMMA DumpDelivers ==
  ASSUME ServiceInv, DumpOutput, delivered' # delivered
  PROVE  delivered' = delivered + 1 /\ delivered < fed
<1>1. TypeOK
  BY DEF ServiceInv, OwnershipInv, ListsInv
<1>2. buffer.frame /\ delivered' = delivered + 1 /\ ppc = "dump"
  BY DEF DumpOutput
<1>3. FrameInHand = 1
  BY <1>2 DEF FrameInHand, Handling
<1>4. delivered + InFlight <= fed
  BY DEF ServiceInv, FramesAccounted
<1> QED
  BY <1>1, <1>2, <1>3, <1>4, InFlightTypes DEF InFlight

\* What a step other than a dump leaves of the history.
LEMMA OnlyDumpDelivers ==
  ASSUME Next, ~DumpOutput
  PROVE  UNCHANGED delivered
BY DEF Next, SessionNext, SetControls, ConfigureInput, ConfigureOutput,
       ConfigurePort, AllocateOutput, AllocateInput, AllocatePort,
       StartOutput, StartInput, StartPort, StopInput, StopOutput, StopPort,
       ReclaimInput, ReclaimOutput, ReclaimPort, FreeInput, FreeOutput,
       FreePort, StopPollThread, Join, QueueBuffersNext, LoopHead, QueueOutput,
       DrainWait, SetDynamicControls, InputAvailable, WaitForInput,
       PrepareInput, QueueInput, SetDrain, DrainStop, PollNext, PollLoop,
       OnError, OnInputDone, OnOutputDone, OnLastForDrain, DeviceWorks,
       DeviceBreaks, Finished, vars, progressVars, historyVars

\* The steps of the poll thread and of the device leave the session where it
\* is.
LEMMA OthersKeepSession ==
  ASSUME PollNext \/ DeviceWorks \/ DeviceBreaks \/ Finished
  PROVE  UNCHANGED <<pc, ret, fed>>
BY DEF PollNext, PollLoop, OnError, OnInputDone, OnOutputDone, DumpOutput,
       OnLastForDrain, DeviceWorks, DeviceBreaks, Finished, vars, sessionVars,
       historyVars

\* Every step keeps it.
LEMMA EarnedStep ==
  ASSUME ServiceInv, Next
  PROVE  SuccessEarned'
<1>1. CASE PollNext \/ DeviceWorks \/ DeviceBreaks \/ Finished
  <2>1. UNCHANGED <<pc, ret, fed>>
    BY <1>1, OthersKeepSession
  <2>2. CASE UNCHANGED delivered
    BY <2>1, <2>2 DEF ServiceInv, SuccessEarned, FramesAsked
  <2>3. CASE DumpOutput /\ delivered' # delivered
    <3>1. delivered < fed /\ delivered \in Nat /\ fed \in Nat
      BY <2>3, DumpDelivers, InFlightTypes
      DEF ServiceInv, OwnershipInv, ListsInv
    <3>2. ~(ret = "OK" /\ pc \in TeardownPc)
      BY <3>1 DEF ServiceInv, SuccessEarned
    <3> QED
      BY <2>1, <3>2 DEF SuccessEarned
  <2> QED
    BY <2>2, <2>3, OnlyDumpDelivers
<1>2. CASE \/ StopInput \/ ReclaimInput \/ StopOutput \/ ReclaimOutput
           \/ FreeInput \/ FreeOutput \/ StopPollThread \/ Join
  <2>1. UNCHANGED <<ret, fed, delivered>> /\ pc \in TeardownPc
    BY <1>2
    DEF StopInput, StopOutput, StopPort, ReclaimInput, ReclaimOutput,
        ReclaimPort, FreeInput, FreeOutput, FreePort, StopPollThread, Join,
        Goto, progressVars, historyVars, TeardownPc
  <2> QED
    BY <2>1 DEF ServiceInv, SuccessEarned, FramesAsked
<1>3. CASE \/ SetControls \/ ConfigureInput \/ ConfigureOutput
           \/ AllocateOutput \/ AllocateInput \/ StartOutput \/ StartInput
  <2>1. pc' \notin TeardownPc
    BY <1>3
    DEF SetControls, ConfigureInput, ConfigureOutput, ConfigurePort,
        AllocateOutput, AllocateInput, AllocatePort, StartOutput, StartInput,
        StartPort, Goto, Fail, TeardownPc
  <2> QED
    BY <2>1 DEF SuccessEarned
<1>4. CASE DrainWait
  <2>1. CASE isDrainSent /\ isDrainLastFlagReceived
    <3>1. UNCHANGED <<fed, delivered>> /\ Running
      BY <1>4 DEF DrainWait, progressVars, historyVars, Running, LoopPc
    <3> QED
      BY <2>1, <3>1, DrainedDelivered DEF SuccessEarned, FramesAsked
  <2>2. CASE pc' \notin TeardownPc
    BY <2>2 DEF SuccessEarned
  <2> QED
    BY <1>4, <2>1, <2>2 DEF DrainWait, Goto, TeardownPc
<1>5. CASE \/ LoopHead \/ QueueOutput \/ SetDynamicControls \/ InputAvailable
           \/ WaitForInput \/ PrepareInput \/ QueueInput \/ SetDrain
           \/ DrainStop
  <2>1. pc' \notin TeardownPc \/ ret' # "OK"
    BY <1>5
    DEF LoopHead, QueueOutput, QueueAllOutput, QueueSomeOutput,
        SetDynamicControls, InputAvailable, WaitForInput, PrepareInput,
        QueueInput, SetDrain, DrainStop, NextFrame, Goto, Return, ReturnError,
        Fail, TeardownPc, ServiceInv, DeviceFine
  <2> QED
    BY <2>1 DEF SuccessEarned
<1> QED
  BY <1>1, <1>2, <1>3, <1>4, <1>5 DEF Next, SessionNext, QueueBuffersNext

-----------------------------------------------------------------------------
\* ServiceInv is inductive.

\* What it adds to the ownership of the buffers holds at the start.
LEMMA ServiceInvInit ==
  ASSUME Init
  PROVE  /\ FramesAccounted /\ FramesFed /\ LastIsLast /\ ThreadInStep
         /\ SuccessEarned /\ DeviceFine
<1>1. /\ queued[INPUT_PORT] = {} /\ done[OUTPUT_PORT] = <<>> /\ held = 0
      /\ fed = 0 /\ delivered = 0 /\ streamPos = 0
      /\ pc = "setControls" /\ ppc = "poll" /\ flags = {} /\ ~broken
      /\ ~stopped /\ ~draining
  BY DEF Init, DeviceInit, FirmwareInit, DriverInit, CodecInit, EncoderInit,
         Port
<1>2. FramesIn(<<>>) = {} /\ Cardinality({}) = 0
  BY FS_EmptySet DEF FramesIn
<1>3. FramesAccounted
  <2>1. /\ Cardinality(queued[INPUT_PORT]) = 0
        /\ Cardinality(FramesIn(done[OUTPUT_PORT])) = 0
    BY <1>1, <1>2
  <2>2. FrameInHand = 0
    BY <1>1 DEF FrameInHand, Handling
  <2> QED
    BY <1>1, <2>1, <2>2 DEF FramesAccounted, InFlight
<1>4. FramesFed
  BY <1>1, EncoderAssumption DEF FramesFed, FramesAsked, isDrainSent
<1>5. LastIsLast
  BY <1>1 DEF LastIsLast, LastInHand, Handling, isDrainLastFlagReceived
<1>6. ThreadInStep /\ SuccessEarned /\ DeviceFine
  BY <1>1 DEF ThreadInStep, Handling, SuccessEarned, TeardownPc, DeviceFine,
              isErrorReceived
<1> QED
  BY <1>3, <1>4, <1>5, <1>6

\* A stuttering step keeps it.
LEMMA ServiceInvStutter ==
  ASSUME ServiceInv, UNCHANGED vars
  PROVE  /\ FramesAccounted' /\ FramesFed' /\ LastIsLast' /\ ThreadInStep'
         /\ SuccessEarned' /\ DeviceFine'
<1>1. UNCHANGED <<queued, done, held, draining, stopped, broken>>
  BY DEF vars, hardwareVars, deviceVars, firmwareVars
<1>2. UNCHANGED <<ppc, buffer, flags, pc, ret, streamPos, fed, delivered>>
  BY DEF vars, driverVars, codecVars, sessionVars, loopVars, historyVars
<1>3. FramesAccounted' /\ FramesFed' /\ LastIsLast'
  BY <1>1, <1>2, AccountedQuiet, FedQuiet, LastQuiet
  DEF Running, isDrainSent
<1>4. ThreadInStep' /\ SuccessEarned' /\ DeviceFine'
  BY <1>1, <1>2 DEF ServiceInv, ThreadInStep, Handling, SuccessEarned,
                    FramesAsked, DeviceFine, isErrorReceived
<1> QED
  BY <1>3, <1>4

\* On a device that does not fail every frame fed is in one place until it is
\* delivered, nothing follows the LAST buffer of the drain, and a session that
\* has had no error when its loop returns has delivered every frame it was
\* asked for (V4l2Encoder::queueBuffers, V4l2EncoderCB::onBufferDone).
THEOREM ServiceInvAlways == ~DeviceErrors => (Spec => []ServiceInv)
<1> SUFFICES ASSUME ~DeviceErrors PROVE Spec => []ServiceInv
  OBVIOUS
<1>1. Init /\ OwnershipInv /\ ControlsInv => ServiceInv
  BY ServiceInvInit DEF ServiceInv, ControlsInv
<1>2. ServiceInv /\ [Next]_vars /\ OwnershipInv' /\ ControlsInv'
        => ServiceInv'
  <2> SUFFICES ASSUME ServiceInv, [Next]_vars, OwnershipInv', ControlsInv'
               PROVE  ServiceInv'
    OBVIOUS
  <2>1. CASE Next
    BY <2>1, AccountedStep, FedStep, LastStep, ThreadStep, EarnedStep,
       DeviceFineStep
    DEF ServiceInv, ControlsInv
  <2>2. CASE UNCHANGED vars
    BY <2>2, ServiceInvStutter DEF ServiceInv, ControlsInv
  <2> QED
    BY <2>1, <2>2
<1> QED
  BY <1>1, <1>2, OwnershipAlways, ControlsAlways, PTL DEF Spec

-----------------------------------------------------------------------------
\* The refinement.

\* Every step of the session is one of the service, or none.
LEMMA StepRefines ==
  ASSUME ServiceInv, [Next]_vars
  PROVE  [Service!Next]_Service!vars
<1> USE DEF Service!vars
<1>1. /\ fed \in Nat /\ delivered \in Nat
      /\ pc = "done" => ppc = "ended"
  BY InFlightTypes
  DEF ServiceInv, OwnershipInv, ListsInv, ThreadInStep
<1>2. CASE UNCHANGED <<pc, ret, fed, delivered>>
  BY <1>2 DEF Outcome
<1>3. CASE DumpOutput
  <2>1. UNCHANGED <<pc, ret, fed>> /\ pc # "done"
    BY <1>1, <1>3 DEF DumpOutput, sessionVars
  <2>2. CASE delivered' # delivered
    <3>1. delivered' = delivered + 1 /\ delivered < fed
      BY <1>3, <2>2, DumpDelivers
    <3> QED
      BY <2>1, <3>1 DEF Service!Next, Service!Deliver, Outcome
  <2> QED
    BY <1>2, <2>1, <2>2
<1>4. CASE QueueInput
  <2>1. /\ UNCHANGED delivered
        /\ pc = "queueInput" /\ pc' \in {"loop", "returned"}
        /\ fed' \in {fed, fed + 1}
    BY <1>4 DEF QueueInput, NextFrame, Goto, ReturnError, Fail
  <2>2. fed < FramesAsked
    BY <2>1 DEF ServiceInv, FramesFed
  <2> QED
    BY <2>1, <2>2 DEF Service!Next, Service!Feed, Outcome
<1>5. CASE Join
  <2>1. /\ UNCHANGED <<fed, delivered, ret>>
        /\ pc = "join" /\ pc' = "done"
    BY <1>5 DEF Join, Goto, progressVars, historyVars
  <2>2. ret = "OK" => fed = FramesAsked /\ delivered = fed
    BY <2>1 DEF ServiceInv, SuccessEarned, TeardownPc
  <2> QED
    BY <2>1, <2>2 DEF Service!Next, Service!Report, Outcome
<1>6. CASE \/ SetControls \/ ConfigureInput \/ ConfigureOutput
           \/ AllocateOutput \/ AllocateInput \/ StartOutput \/ StartInput
           \/ LoopHead \/ QueueOutput \/ DrainWait \/ SetDynamicControls
           \/ InputAvailable \/ WaitForInput \/ PrepareInput \/ SetDrain
           \/ DrainStop
           \/ StopInput \/ ReclaimInput \/ StopOutput \/ ReclaimOutput
           \/ FreeInput \/ FreeOutput \/ StopPollThread
  <2>1. UNCHANGED <<fed, delivered>>
    BY <1>6
    DEF SetControls, ConfigureInput, ConfigureOutput, ConfigurePort,
        AllocateOutput, AllocateInput, AllocatePort, StartOutput, StartInput,
        StartPort, LoopHead, QueueOutput, DrainWait, SetDynamicControls,
        InputAvailable, WaitForInput, PrepareInput, SetDrain, DrainStop,
        StopInput, ReclaimInput, StopOutput, ReclaimOutput, StopPort,
        ReclaimPort, FreeInput, FreeOutput, FreePort, StopPollThread,
        progressVars, historyVars
  <2>2. pc # "done" /\ pc' # "done"
    BY <1>6
    DEF SetControls, ConfigureInput, ConfigureOutput, ConfigurePort,
        AllocateOutput, AllocateInput, AllocatePort, StartOutput, StartInput,
        StartPort, LoopHead, QueueOutput, QueueAllOutput, QueueSomeOutput,
        DrainWait, SetDynamicControls, InputAvailable, WaitForInput,
        PrepareInput, SetDrain, DrainStop, NextFrame, StopInput, ReclaimInput,
        StopOutput, ReclaimOutput, StopPort, ReclaimPort, FreeInput,
        FreeOutput, FreePort, StopPollThread, Goto, Fail, Return, ReturnError
  <2> QED
    BY <2>1, <2>2 DEF Outcome
<1>7. CASE PollNext \/ DeviceWorks \/ DeviceBreaks \/ Finished
  <2>1. UNCHANGED <<pc, ret, fed>>
    BY <1>7, OthersKeepSession
  <2>2. Next
    BY <1>7 DEF Next
  <2> QED
    BY <1>2, <1>3, <2>1, <2>2, OnlyDumpDelivers
<1>8. CASE UNCHANGED vars
  BY <1>2, <1>8 DEF vars, sessionVars, historyVars
<1> QED
  BY <1>4, <1>5, <1>6, <1>7, <1>8 DEF Next, SessionNext, QueueBuffersNext

\* An encoding session on a device that does not fail implements CodecService,
\* whatever ioctls and allocations fail: no frame is delivered that has not
\* been fed, none is fed beyond what was asked for, success is reported only
\* when every one has been delivered, and nothing is delivered after a report
\* (TestingEncoder in IrisTestApp.cpp, V4l2Encoder.cpp).
THEOREM ImplementsService ==
  ~DeviceErrors => (Spec => Service!Init /\ [][Service!Next]_Service!vars)
<1>1. Init => Service!Init
  BY DEF Init, EncoderInit, Service!Init, Outcome
<1>2. ServiceInv /\ [Next]_vars => [Service!Next]_Service!vars
  BY StepRefines
<1> QED
  BY <1>1, <1>2, ServiceInvAlways, PTL DEF Spec
=============================================================================
