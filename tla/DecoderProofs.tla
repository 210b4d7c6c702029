---------------------------- MODULE DecoderProofs ---------------------------
(***************************************************************************)
(* A decoding session, for every value of the constants: any number of     *)
(* buffers, any stream and any seeks, with or without faults, device errors*)
(* and resolution changes.                                                 *)
(*                                                                         *)
(* ListsInv: the types, and the partition of the buffer lists.             *)
(*                                                                         *)
(* LastInv: a resolution change loses no frame.  What moves a LAST buffer  *)
(* are the device, the poll thread and the steps of handleReconfigEvent;   *)
(* the other steps of the loop leave OUTPUT_PORT alone, and once the loop  *)
(* has returned nothing is promised any more.                              *)
(*                                                                         *)
(* RememberedInv: no resolution change is forgotten.                       *)
(*                                                                         *)
(* OwnershipInv: no buffer the device owns is on a free list, as long as   *)
(* nobody seeks: with a seek the code does let it happen.  That a          *)
(* resolution change finds OUTPUT_PORT idle is LastInv.                    *)
(***************************************************************************)
EXTENDS DecoderInvariants, V4l2CodecProofs, SequenceTheorems

-----------------------------------------------------------------------------
\* The decoder's own reactions keep its type.

\* Nothing happens to the decoder.
LEMMA FirmwareUnchanged ==
  ASSUME FirmwareTypeOK, UNCHANGED firmwareVars
  PROVE  FirmwareTypeOK'
BY DEF FirmwareTypeOK, firmwareVars

\* The decoder is told of VIDIOC_STREAMOFF.
LEMMA StreamOffFirmware ==
  ASSUME FirmwareTypeOK, NEW p \in Port, FirmwareStreamOff(p)
  PROVE  FirmwareTypeOK'
<1>1. draining' \in BOOLEAN
  BY DEF FirmwareStreamOff
<1> QED
  BY <1>1 DEF FirmwareTypeOK, FirmwareStreamOff

-----------------------------------------------------------------------------
\* Every step keeps the type of each component.

\* deviceVars: the ioctls of either thread, and the device itself.
LEMMA DeviceTypeStep ==
  ASSUME ListsInv, Next
  PROVE  DeviceTypeOK'
<1>1. CASE ConfigureInput
  BY <1>1, DeviceUnchanged, ReqBufsType
  DEF ConfigureInput, ListsInv, TypeOK, Port
<1>2. CASE StartInput
  BY <1>2, DeviceUnchanged, StreamOnType
  DEF StartInput, ListsInv, TypeOK, Port, hardwareVars
<1>3. CASE \/ StopOutput \/ StopInput
  BY <1>3, DeviceUnchanged, StreamOffType
  DEF StopOutput, StopInput, StopPort, ListsInv, TypeOK, Port, hardwareVars
<1>4. CASE \/ FreeOutput \/ FreeInput
  BY <1>4, DeviceUnchanged, ReqBufsType
  DEF FreeOutput, FreeInput, FreePort, ListsInv, TypeOK, Port
<1>5. CASE SeekStopInput
  BY <1>5, DeviceUnchanged, StreamOffType
  DEF SeekStopInput, ListsInv, TypeOK, Port, hardwareVars
<1>6. CASE SeekStartInput
  BY <1>6, DeviceUnchanged, StreamOnType
  DEF SeekStartInput, ListsInv, TypeOK, Port, hardwareVars
<1>7. CASE DrcStopOutput
  BY <1>7, DeviceUnchanged, StreamOffType
  DEF DrcStopOutput, ListsInv, TypeOK, Port, hardwareVars
<1>8. CASE DrcFreeBuffers
  BY <1>8, DeviceUnchanged, ReqBufsType
  DEF DrcFreeBuffers, ListsInv, TypeOK, Port
<1>9. CASE ConfigureOutput
  BY <1>9, DeviceUnchanged, ReqBufsType
  DEF ConfigureOutput, ListsInv, TypeOK, Port
<1>10. CASE StartOutput
  BY <1>10, DeviceUnchanged, StreamOnType
  DEF StartOutput, ListsInv, TypeOK, Port, hardwareVars
<1>11. CASE QueueOutput
  <2>1. \A S \in SUBSET bufs[OUTPUT_PORT] :
           QueueBuffers(OUTPUT_PORT, S) => DeviceTypeOK'
    BY QueueBuffersType DEF ListsInv, TypeOK, CodecTypeOK, IsPortBufs, Port
  <2> QED
    BY <1>11, <2>1, DeviceUnchanged
    DEF QueueOutput, QueueAllOutput, QueueSomeOutput, ListsInv, TypeOK
<1>12. CASE QueueInput
  <2>1. CASE UNCHANGED deviceVars
    BY <2>1, DeviceUnchanged DEF ListsInv, TypeOK
  <2>2. CASE QueueBuffers(INPUT_PORT, {input}) /\ input # None
    <3>1. {input} \in SUBSET BufsOf(INPUT_PORT)
      BY <2>2 DEF ListsInv, TypeOK, DecoderTypeOK, BufsOf
    <3> QED
      BY <2>2, <3>1, QueueBuffersType DEF ListsInv, TypeOK, Port
  <2> QED
    BY <1>12, <2>1, <2>2 DEF QueueInput, ListsInv, InputFilled
<1>13. CASE PollLoop
  <2>1. DqBuf(INPUT_PORT) \/ DqBuf(OUTPUT_PORT) \/ UNCHANGED deviceVars
    BY <1>13 DEF PollLoop, PollReady, PollExit, DequeueOutput, DequeueInput,
             DequeueBuffer
  <2> QED
    BY <2>1, DqBufType, DeviceUnchanged DEF ListsInv, TypeOK, Port
<1>14. CASE OnEventDone
  BY <1>14
  DEF OnEventDone, DequeueEvent, ListsInv, TypeOK, DeviceTypeOK, IsPortBufs
<1>15. CASE \/ DeviceWorks \/ DeviceBreaks
  <2>1. CASE ParseHeader \/ ChangeResolution \/ Break
    <3>1. /\ UNCHANGED <<requested, streaming, queued, done>>
          /\ events' = events \/ events' = events + 1
      BY <2>1 DEF ParseHeader, ChangeResolution, Break
    <3>2. broken' \in BOOLEAN
      BY <2>1 DEF ParseHeader, ChangeResolution, Break, ListsInv, TypeOK,
                  DeviceTypeOK
    <3> QED
      BY <3>1, <3>2 DEF ListsInv, TypeOK, DeviceTypeOK, IsPortBufs
  <2>2. CASE ConsumeInput
    BY <2>2, CompleteType, INPUT_PORT \in Port, FALSE \in BOOLEAN
    DEF ConsumeInput, ListsInv, TypeOK, Port
  <2>3. CASE ProduceFrame
    BY <2>3, CompleteType DEF ProduceFrame, ListsInv, TypeOK, Port
  <2>4. CASE ProduceEmptyLast
    BY <2>4, CompleteType DEF ProduceEmptyLast, ListsInv, TypeOK, Port
  <2> QED
    BY <1>15, <2>1, <2>2, <2>3, <2>4 DEF DeviceWorks, DeviceBreaks
<1>16. CASE \/ AllocateInput \/ ReclaimOutput \/ ReclaimInput
            \/ StopPollThread \/ Join \/ LoopHead \/ SeekWait \/ SeekReclaim
            \/ Reconfig \/ ReconfigureOutput \/ DrcReclaim \/ AllocateOutput
            \/ PostponedDrain \/ PostponedStop \/ DrainWait
            \/ InputAvailable \/ WaitForInput \/ PrepareInput \/ SetDrain
            \/ DrainStop \/ OnError \/ OnInputDone \/ OnOutputDone
            \/ DumpOutput \/ OnLastForReconfig \/ OnLastForDrain \/ Finished
  <2>1. UNCHANGED deviceVars
    BY <1>16
    DEF AllocateInput, ReclaimOutput, ReclaimInput, StopPollThread, Join,
        LoopHead, SeekWait, SeekReclaim, Reconfig, ReconfigureOutput,
        DrcReclaim, AllocateOutput, PostponedDrain, PostponedStop, DrainWait,
        InputAvailable, WaitForInput, PrepareInput, SetDrain, DrainStop,
        OnError, OnInputDone, OnOutputDone, DumpOutput, OnLastForReconfig,
        OnLastForDrain, Finished, ReclaimPort, OnError, PollError,
        hardwareVars, vars
  <2> QED
    BY <2>1, DeviceUnchanged
    DEF ListsInv, TypeOK
<1> QED
  BY <1>1, <1>2, <1>3, <1>4, <1>5, <1>6, <1>7, <1>8, <1>9, <1>10, <1>11, <1>12,
     <1>13, <1>14, <1>15, <1>16
  DEF Next, SessionNext, QueueBuffersNext, PollNext

\* firmwareVars: what the decoder does, alone or told by an ioctl.
LEMMA FirmwareTypeStep ==
  ASSUME ListsInv, Next
  PROVE  FirmwareTypeOK'
<1>1. CASE \/ StartInput \/ StartOutput \/ SeekStartInput
  <2>1. \/ \E p \in Port : FirmwareStreamOn(p)
        \/ UNCHANGED firmwareVars
    BY <1>1 DEF StartInput, StartOutput, SeekStartInput, hardwareVars, Port
  <2> QED
    BY <2>1, FirmwareUnchanged
    DEF ListsInv, TypeOK, FirmwareTypeOK, FirmwareStreamOn, Phase
<1>2. CASE \/ StopOutput \/ StopInput \/ SeekStopInput \/ DrcStopOutput
  <2>1. \/ \E p \in Port : FirmwareStreamOff(p)
        \/ UNCHANGED firmwareVars
    BY <1>2 DEF StopOutput, StopInput, StopPort, SeekStopInput, DrcStopOutput,
             hardwareVars, Port
  <2> QED
    BY <2>1, FirmwareUnchanged, StreamOffFirmware DEF ListsInv, TypeOK
<1>3. CASE \/ ReconfigureOutput \/ DrainWait \/ PostponedStop \/ DrainStop
  <2>1. FirmwareCmdStart \/ FirmwareCmdStop \/ UNCHANGED firmwareVars
    BY <1>3 DEF ReconfigureOutput, DrainWait, PostponedStop, DrainStop
  <2> QED
    BY <2>1, FirmwareUnchanged
    DEF ListsInv, TypeOK, FirmwareTypeOK, FirmwareCmdStart, FirmwareCmdStop,
        Phase
<1>4. CASE \/ DeviceWorks \/ DeviceBreaks
  <2> USE DEF ListsInv, TypeOK, FirmwareTypeOK
  <2>1. CASE ParseHeader
    BY <2>1 DEF ParseHeader, Phase
  <2>2. CASE ConsumeInput
    BY <2>2 DEF ConsumeInput
  <2>3. CASE ChangeResolution
    BY <2>3 DEF ChangeResolution, Phase
  <2>4. CASE ProduceFrame
    <3>1. phase' \in Phase
      BY <2>4 DEF ProduceFrame, StopAfterLast, Phase
    <3>2. draining' \in BOOLEAN
      BY <2>4 DEF ProduceFrame, StopAfterLast
    <3>3. held' \in Nat /\ changes' \in Nat
      BY <2>4 DEF ProduceFrame
    <3> QED
      BY <3>1, <3>2, <3>3
  <2>5. CASE ProduceEmptyLast
    BY <2>5 DEF ProduceEmptyLast, StopAfterLast, Phase
  <2>6. CASE Break
    BY <2>6 DEF Break, firmwareVars
  <2> QED
    BY <1>4, <2>1, <2>2, <2>3, <2>4, <2>5, <2>6
    DEF DeviceWorks, DeviceBreaks
<1>5. CASE \/ ConfigureInput \/ AllocateInput \/ ReclaimOutput
           \/ ReclaimInput \/ FreeOutput \/ FreeInput \/ StopPollThread
           \/ Join \/ LoopHead \/ SeekWait \/ SeekReclaim \/ Reconfig
           \/ DrcReclaim \/ DrcFreeBuffers \/ ConfigureOutput
           \/ AllocateOutput \/ QueueOutput \/ PostponedDrain
           \/ InputAvailable \/ WaitForInput \/ PrepareInput \/ QueueInput
           \/ SetDrain \/ PollLoop \/ OnEventDone \/ OnError \/ OnInputDone
           \/ OnOutputDone \/ DumpOutput \/ OnLastForReconfig
           \/ OnLastForDrain \/ Finished
  <2>1. UNCHANGED firmwareVars
    BY <1>5
    DEF ConfigureInput, AllocateInput, ReclaimOutput, ReclaimInput, FreeOutput,
        FreeInput, StopPollThread, Join, LoopHead, SeekWait, SeekReclaim,
        Reconfig, DrcReclaim, DrcFreeBuffers, ConfigureOutput, AllocateOutput,
        QueueOutput, PostponedDrain, InputAvailable, WaitForInput,
        PrepareInput, QueueInput, SetDrain, PollLoop, OnEventDone, OnError,
        OnInputDone, OnOutputDone, DumpOutput, OnLastForReconfig,
        OnLastForDrain, Finished, ReclaimPort, FreePort, hardwareVars, vars
  <2> QED
    BY <2>1, FirmwareUnchanged
    DEF ListsInv, TypeOK
<1> QED
  BY <1>1, <1>2, <1>3, <1>4, <1>5
  DEF Next, SessionNext, QueueBuffersNext, PollNext

\* driverVars: VIDIOC_QBUF, stopPollThread and the poll thread.
LEMMA DriverTypeStep ==
  ASSUME ListsInv, Next
  PROVE  DriverTypeOK'
<1>1. CASE StopPollThread
  BY <1>1
  DEF StopPollThread, RequestExit, ListsInv, TypeOK, DriverTypeOK
<1>2. CASE QueueOutput
  <2>1. \A S \in SUBSET bufs[OUTPUT_PORT] :
           QueueBuffers(OUTPUT_PORT, S) => DriverTypeOK'
    BY QueueBuffersType DEF ListsInv, TypeOK, CodecTypeOK, IsPortBufs, Port
  <2> QED
    BY <1>2, <2>1, DriverUnchanged
    DEF QueueOutput, QueueAllOutput, QueueSomeOutput, ListsInv, TypeOK
<1>3. CASE QueueInput
  <2>1. CASE UNCHANGED driverVars
    BY <2>1, DriverUnchanged DEF ListsInv, TypeOK
  <2>2. CASE QueueBuffers(INPUT_PORT, {input}) /\ input # None
    <3>1. {input} \in SUBSET BufsOf(INPUT_PORT)
      BY <2>2 DEF ListsInv, TypeOK, DecoderTypeOK, BufsOf
    <3> QED
      BY <2>2, <3>1, QueueBuffersType DEF ListsInv, TypeOK, Port
  <2> QED
    BY <1>3, <2>1, <2>2 DEF QueueInput, ListsInv, InputFilled
<1>4. CASE PollLoop
  <2>1. CASE PollReady
    BY <2>1, HandleType
    DEF PollReady, Ready, ListsInv, TypeOK, DriverTypeOK
  <2>2. CASE PollExit
    BY <2>2 DEF PollExit, PollPc, ListsInv, TypeOK, DriverTypeOK
  <2>3. CASE DequeueOutput
    BY <2>3, DequeueType DEF DequeueOutput, ListsInv, TypeOK, Port, PollPc
  <2>4. CASE DequeueInput
    BY <2>4, DequeueType DEF DequeueInput, ListsInv, TypeOK, Port, PollPc
  <2> QED
    BY <1>4, <2>1, <2>2, <2>3, <2>4 DEF PollLoop
<1>5. CASE OnEventDone
  BY <1>5, HandleType
  DEF OnEventDone, DequeueEvent, ListsInv, TypeOK, DriverTypeOK
<1>6. CASE OnError
  BY <1>6
  DEF OnError, PollError, PollPc, ListsInv, TypeOK, DriverTypeOK
<1>7. CASE OnInputDone
  BY <1>7, CallbackReturnsType
  DEF OnInputDone, ListsInv, TypeOK
<1>8. CASE \/ OnOutputDone \/ DumpOutput
  <2>1. \/ CallbackReturns("IN")
        \/ /\ ppc' \in {"dump", "drcFlag"}
           /\ UNCHANGED <<mBufferQueued, mPollThreadExit, revents, buffer>>
    BY <1>8 DEF OnOutputDone, DumpOutput
  <2> QED
    BY <2>1, CallbackReturnsType DEF ListsInv, TypeOK, DriverTypeOK, PollPc
<1>9. CASE OnLastForReconfig
  BY <1>9
  DEF OnLastForReconfig, PollPc, ListsInv, TypeOK, DriverTypeOK
<1>10. CASE OnLastForDrain
  BY <1>10, CallbackReturnsType
  DEF OnLastForDrain, ListsInv, TypeOK
<1>11. CASE \/ ConfigureInput \/ AllocateInput \/ StartInput \/ StopOutput
            \/ ReclaimOutput \/ StopInput \/ ReclaimInput \/ FreeOutput
            \/ FreeInput \/ Join \/ LoopHead \/ SeekWait \/ SeekStopInput
            \/ SeekReclaim \/ SeekStartInput \/ Reconfig
            \/ ReconfigureOutput \/ DrcStopOutput \/ DrcReclaim
            \/ DrcFreeBuffers \/ ConfigureOutput \/ AllocateOutput
            \/ StartOutput \/ PostponedDrain \/ PostponedStop \/ DrainWait
            \/ InputAvailable \/ WaitForInput \/ PrepareInput \/ SetDrain
            \/ DrainStop \/ DeviceWorks \/ DeviceBreaks \/ Finished
  <2>1. UNCHANGED driverVars
    BY <1>11
    DEF ConfigureInput, AllocateInput, StartInput, StopOutput, ReclaimOutput,
        StopInput, ReclaimInput, FreeOutput, FreeInput, Join, LoopHead,
        SeekWait, SeekStopInput, SeekReclaim, SeekStartInput, Reconfig,
        ReconfigureOutput, DrcStopOutput, DrcReclaim, DrcFreeBuffers,
        ConfigureOutput, AllocateOutput, StartOutput, PostponedDrain,
        PostponedStop, DrainWait, InputAvailable, WaitForInput, PrepareInput,
        SetDrain, DrainStop, DeviceWorks, DeviceBreaks, Finished, StopPort,
        ReclaimPort, FreePort, vars
  <2> QED
    BY <2>1, DriverUnchanged
    DEF ListsInv, TypeOK
<1> QED
  BY <1>1, <1>2, <1>3, <1>4, <1>5, <1>6, <1>7, <1>8, <1>9, <1>10, <1>11
  DEF Next, SessionNext, QueueBuffersNext, PollNext

\* started and flags.
LEMMA FlagsTypeStep ==
  ASSUME ListsInv, Next
  PROVE  (started \in [Port -> BOOLEAN] /\ flags \subseteq Flag)'
<1>1. CASE \/ StartInput \/ SeekStartInput \/ StartOutput \/ ReclaimOutput
           \/ ReclaimInput \/ SeekReclaim \/ DrcReclaim
  <2>1. /\ \/ \E p \in Port, on \in BOOLEAN : SetStarted(p, on)
           \/ UNCHANGED started
        /\ UNCHANGED flags
    BY <1>1
    DEF StartInput, SeekStartInput, StartOutput, ReclaimOutput, ReclaimInput,
        ReclaimPort, SeekReclaim, DrcReclaim, Port
  <2> QED
    BY <2>1 DEF SetStarted, ListsInv, TypeOK, CodecTypeOK
<1>2. CASE \/ Reconfig \/ PostponedDrain \/ DrainWait \/ PrepareInput
           \/ SetDrain \/ OnEventDone \/ OnError \/ OnLastForReconfig
           \/ OnLastForDrain
  <2>1. UNCHANGED started /\ flags' \subseteq flags \cup Flag
    BY <1>2
    DEF Reconfig, PostponedDrain, DrainWait, PrepareInput, SetDrain,
        MarkDrainSent, OnEventDone, OnError, OnLastForReconfig,
        OnLastForDrain, NextFrame, Flag
  <2> QED
    BY <2>1 DEF ListsInv, TypeOK, CodecTypeOK
<1>3. CASE \/ ConfigureInput \/ AllocateInput \/ StopOutput \/ StopInput
           \/ FreeOutput \/ FreeInput \/ StopPollThread \/ Join \/ LoopHead
           \/ SeekWait \/ SeekStopInput \/ ReconfigureOutput
           \/ DrcStopOutput \/ DrcFreeBuffers \/ ConfigureOutput
           \/ AllocateOutput \/ QueueOutput \/ PostponedStop
           \/ InputAvailable \/ WaitForInput \/ QueueInput \/ DrainStop
           \/ PollLoop \/ OnInputDone \/ OnOutputDone \/ DumpOutput
           \/ DeviceWorks \/ DeviceBreaks \/ Finished
  <2>1. UNCHANGED <<started, flags>>
    BY <1>3
    DEF ConfigureInput, AllocateInput, StopOutput, StopInput, FreeOutput,
        FreeInput, StopPollThread, Join, LoopHead, SeekWait, SeekStopInput,
        ReconfigureOutput, DrcStopOutput, DrcFreeBuffers, ConfigureOutput,
        AllocateOutput, QueueOutput, PostponedStop, InputAvailable,
        WaitForInput, QueueInput, DrainStop, PollLoop, OnInputDone,
        OnOutputDone, DumpOutput, DeviceWorks, DeviceBreaks, Finished,
        StopPort, FreePort, codecVars, vars
  <2> QED
    BY <2>1
    DEF ListsInv, TypeOK, CodecTypeOK
<1> QED
  BY <1>1, <1>2, <1>3
  DEF Next, SessionNext, QueueBuffersNext, PollNext

\* The lists: a port is allocated when its pool is empty.
LEMMA ListsStep ==
  ASSUME ListsInv, Next
  PROVE  ListsOK'
<1>1. CASE \/ AllocateInput \/ AllocateOutput
  <2>1. \E p \in Port, S \in SUBSET Buf :
          S \subseteq BufsOf(p) /\ pool[p] = {} /\ AllocateBuffers(p, S)
    BY <1>1
    DEF AllocateInput, AllocateOutput, ListsInv, AllocatedOnce, Running,
        LoopPc, Port, Buf, BufsOf, INPUT_PORT, OUTPUT_PORT
  <2> QED
    BY <2>1, AllocateLists DEF ListsInv, TypeOK, CodecTypeOK, ListsOK
<1>2. CASE \/ ReclaimOutput \/ ReclaimInput \/ SeekReclaim \/ DrcReclaim
  <2>1. \E p \in Port : ReclaimPending(p)
    BY <1>2
    DEF ReclaimOutput, ReclaimInput, ReclaimPort, SeekReclaim, DrcReclaim, Port
  <2> QED
    BY <2>1, ReclaimLists DEF ListsInv, TypeOK, CodecTypeOK, ListsOK
<1>3. CASE \/ FreeOutput \/ FreeInput \/ DrcFreeBuffers
  <2>1. \E p \in Port : ClearLists(p)
    BY <1>3 DEF FreeOutput, FreeInput, FreePort, DrcFreeBuffers, Port
  <2> QED
    BY <2>1, ClearListsOK DEF ListsInv, TypeOK, CodecTypeOK, ListsOK
<1>4. CASE \/ QueueOutput \/ PrepareInput
  <2>1. \/ UNCHANGED listVars
        \/ \E p \in Port : \E S \in SUBSET bufs[p] : TakeBuffers(p, S)
    BY <1>4
    DEF QueueOutput, QueueAllOutput, QueueSomeOutput, PrepareInput, Port
  <2> QED
    BY <2>1, TakeLists, ListsUnchanged
    DEF ListsInv, TypeOK, CodecTypeOK, ListsOK
<1>5. CASE \/ OnInputDone \/ OnOutputDone
  <2>1. \/ UNCHANGED listVars
        \/ \E p \in Port : \E b \in pendingBufs[p] : PutBuffer(p, b)
    BY <1>5 DEF OnInputDone, OnOutputDone, Port
  <2> QED
    BY <2>1, PutLists, ListsUnchanged
    DEF ListsInv, TypeOK, CodecTypeOK, ListsOK
<1>6. CASE \/ ConfigureInput \/ StartInput \/ StopOutput \/ StopInput
           \/ StopPollThread \/ Join \/ LoopHead \/ SeekWait
           \/ SeekStopInput \/ SeekStartInput \/ Reconfig
           \/ ReconfigureOutput \/ DrcStopOutput \/ ConfigureOutput
           \/ StartOutput \/ PostponedDrain \/ PostponedStop \/ DrainWait
           \/ InputAvailable \/ WaitForInput \/ QueueInput \/ SetDrain
           \/ DrainStop \/ PollLoop \/ OnEventDone \/ OnError \/ DumpOutput
           \/ OnLastForReconfig \/ OnLastForDrain \/ DeviceWorks
           \/ DeviceBreaks \/ Finished
  <2>1. UNCHANGED listVars
    BY <1>6
    DEF ConfigureInput, StartInput, StopOutput, StopInput, StopPollThread,
        Join, LoopHead, SeekWait, SeekStopInput, SeekStartInput, Reconfig,
        ReconfigureOutput, DrcStopOutput, ConfigureOutput, StartOutput,
        PostponedDrain, PostponedStop, DrainWait, InputAvailable, WaitForInput,
        QueueInput, SetDrain, DrainStop, PollLoop, OnEventDone, OnError,
        DumpOutput, OnLastForReconfig, OnLastForDrain, DeviceWorks,
        DeviceBreaks, Finished, StopPort, codecVars, vars
  <2> QED
    BY <2>1, ListsUnchanged
    DEF ListsInv, TypeOK, CodecTypeOK, ListsOK
<1> QED
  BY <1>1, <1>2, <1>3, <1>4, <1>5, <1>6
  DEF Next, SessionNext, QueueBuffersNext, PollNext

\* The state of the session's thread and the history.
LEMMA DecoderTypeStep ==
  ASSUME ListsInv, Next
  PROVE  DecoderTypeOK'
<1>1. CASE \/ SeekStopInput \/ SeekStartInput
  <2>1. \/ SeekDone(TRUE) \/ SeekDone(FALSE)
        \/ UNCHANGED loopVars /\ Goto("seekReclaim")
    BY <1>1 DEF SeekStopInput, SeekStartInput
  <2>2. UNCHANGED historyVars
    BY <1>1 DEF SeekStopInput, SeekStartInput
  <2>3. \A c \in mDynamicCommands : c.to \in Nat
    BY DecoderAssumption DEF ListsInv, TypeOK, DecoderTypeOK
  <2> QED
    BY <2>1, <2>2, <2>3
    DEF ListsInv, TypeOK, DecoderTypeOK, SeekDone, SeekHere, Goto, LoopPc,
        loopVars, historyVars
<1>2. CASE WaitForInput
  BY <1>2
  DEF WaitForInput, ListsInv, TypeOK, DecoderTypeOK, LoopPc, TeardownPc, Ret,
      Goto, ReturnError, Fail, historyVars
<1>3. CASE PrepareInput
  <2>1. bufs[INPUT_PORT] \subseteq InBuf
    BY DEF ListsInv, TypeOK, CodecTypeOK, IsPortBufs, BufsOf, Port
  <2> QED
    BY <1>3, <2>1
    DEF PrepareInput, ListsInv, TypeOK, DecoderTypeOK, LoopPc, TeardownPc, Ret,
        Goto, ReturnError, Fail, NextFrame, historyVars
<1>4. CASE \/ QueueInput \/ DrainStop
  BY <1>4
  DEF QueueInput, DrainStop, NextFrame, ListsInv, TypeOK, DecoderTypeOK,
      LoopPc, TeardownPc, Ret, Goto, ReturnError, Fail, historyVars
<1>5. CASE \/ PollLoop \/ OnEventDone \/ OnError \/ OnInputDone
           \/ OnOutputDone \/ OnLastForReconfig \/ OnLastForDrain
           \/ DeviceWorks \/ DeviceBreaks \/ Finished
  <2>1. UNCHANGED <<sessionVars, historyVars>>
    BY <1>5
    DEF PollLoop, OnEventDone, OnError, OnInputDone, OnOutputDone,
        OnLastForReconfig, OnLastForDrain, DeviceWorks, DeviceBreaks, Finished,
        vars
  <2> QED
    BY <2>1
    DEF ListsInv, TypeOK, DecoderTypeOK, sessionVars, loopVars, historyVars
<1>6. CASE DumpOutput
  BY <1>6
  DEF DumpOutput, ListsInv, TypeOK, DecoderTypeOK, sessionVars, loopVars
<1>7. CASE \/ ConfigureInput \/ AllocateInput \/ StartInput \/ StopOutput
           \/ ReclaimOutput \/ StopInput \/ ReclaimInput \/ FreeOutput
           \/ FreeInput \/ StopPollThread \/ Join \/ LoopHead \/ SeekWait
           \/ SeekReclaim \/ Reconfig \/ ReconfigureOutput \/ DrcStopOutput
           \/ DrcReclaim \/ DrcFreeBuffers \/ ConfigureOutput
           \/ AllocateOutput \/ StartOutput \/ QueueOutput \/ PostponedDrain
           \/ PostponedStop \/ DrainWait \/ InputAvailable \/ SetDrain
  <2>1. UNCHANGED progressVars /\ ret' \in Ret \cup {ret}
        /\ pc' \in SetupPc \cup LoopPc \cup TeardownPc
    BY <1>7
    DEF ConfigureInput, AllocateInput, StartInput, StopOutput, ReclaimOutput,
        StopInput, ReclaimInput, FreeOutput, FreeInput, StopPollThread, Join,
        LoopHead, SeekWait, SeekReclaim, Reconfig, ReconfigureOutput,
        DrcStopOutput, DrcReclaim, DrcFreeBuffers, ConfigureOutput,
        AllocateOutput, StartOutput, QueueOutput, PostponedDrain,
        PostponedStop, DrainWait, InputAvailable, SetDrain, StopPort,
        ReclaimPort, FreePort, QueueAllOutput, QueueSomeOutput, Goto, Fail,
        Return, ReturnError, SetupPc, LoopPc, TeardownPc, Ret
  <2> QED
    BY <2>1
    DEF ListsInv, TypeOK, DecoderTypeOK, progressVars, loopVars, historyVars
<1> QED
  BY <1>1, <1>2, <1>3, <1>4, <1>5, <1>6, <1>7
  DEF Next, SessionNext, QueueBuffersNext, PollNext

\* Where the loop may be while OUTPUT_PORT has no buffers.
LEMMA AllocatedOnceStep ==
  ASSUME ListsInv, Next
  PROVE  AllocatedOnce'
<1>1. CASE \/ PollLoop \/ OnEventDone \/ OnError \/ OnInputDone
           \/ OnOutputDone \/ OnLastForReconfig \/ OnLastForDrain
           \/ DeviceWorks \/ DeviceBreaks \/ Finished \/ DumpOutput
  <2>1. UNCHANGED <<pc, started, pool>>
    BY <1>1
    DEF PollLoop, OnEventDone, OnError, OnInputDone, OnOutputDone, PutBuffer,
        DumpOutput, OnLastForReconfig, OnLastForDrain, DeviceWorks,
        DeviceBreaks, Finished, vars, sessionVars, codecVars, listVars
  <2> QED
    BY <2>1 DEF ListsInv, AllocatedOnce, Running
<1>2. CASE \/ StopOutput \/ ReclaimOutput \/ StopInput \/ ReclaimInput
           \/ FreeOutput \/ FreeInput \/ StopPollThread \/ Join
  <2>1. pc' \in TeardownPc
    BY <1>2
    DEF StopOutput, ReclaimOutput, StopInput, ReclaimInput, FreeOutput,
        FreeInput, StopPollThread, Join, StopPort, ReclaimPort, FreePort, Goto,
        TeardownPc
  <2> QED
    BY <2>1 DEF AllocatedOnce, Running, SetupPc, LoopPc, TeardownPc
<1>3. CASE \/ AllocateInput \/ AllocateOutput
  <2>1. /\ pc' \in {"startInput", "startOutput", "returned"}
        /\ pc = "allocateInput" => pc' = "startInput"
        /\ pc = "allocateOutput" => pc' \in {"startOutput", "returned"}
    BY <1>3 DEF AllocateInput, AllocateOutput, Goto, Fail, ReturnError
  <2>2. CASE AllocateInput
    <3>1. pool'[OUTPUT_PORT] = pool[OUTPUT_PORT] /\ UNCHANGED started
      BY <2>2
      DEF AllocateInput, AllocateBuffers, ListsInv, TypeOK, CodecTypeOK,
          IsPortBufs, Port, INPUT_PORT, OUTPUT_PORT
    <3> QED
      BY <2>1, <2>2, <3>1
      DEF AllocateInput, ListsInv, AllocatedOnce, Running, SetupPc
  <2>3. CASE AllocateOutput
    BY <2>1, <2>3 DEF AllocateOutput, AllocatedOnce, Running, SetupPc, LoopPc
  <2> QED
    BY <1>3, <2>2, <2>3
<1>4. CASE \/ StartInput \/ SeekReclaim \/ SeekStartInput
  <2>1. started'[OUTPUT_PORT] = started[OUTPUT_PORT] /\ UNCHANGED pool
    BY <1>4
    DEF StartInput, SeekReclaim, SeekStartInput, SetStarted, ReclaimPending,
        listVars, ListsInv, TypeOK, CodecTypeOK, Port, INPUT_PORT, OUTPUT_PORT
  <2>2. /\ pc' \in {"loop", "seekStartInput", "reconfig"}
        /\ Running /\ pc \notin {"drcFreeBuffers", "startOutput"}
    BY <1>4
    DEF StartInput, SeekReclaim, SeekStartInput, SeekDone, Goto, Fail, Running,
        SetupPc, LoopPc
  <2> QED
    BY <2>1, <2>2 DEF ListsInv, AllocatedOnce
<1>5. CASE DrcReclaim
  BY <1>5
  DEF DrcReclaim, SetStarted, ListsInv, TypeOK, CodecTypeOK, AllocatedOnce,
      Goto, Port
<1>6. CASE DrcFreeBuffers
  BY <1>6
  DEF DrcFreeBuffers, ClearLists, ListsInv, TypeOK, CodecTypeOK, IsPortBufs,
      AllocatedOnce, Goto, Port, codecVars
<1>7. CASE StartOutput
  BY <1>7
  DEF StartOutput, SetStarted, ListsInv, TypeOK, CodecTypeOK, AllocatedOnce,
      Goto, ReturnError, Fail, Port, Running, SetupPc, LoopPc
<1>8. CASE \/ ConfigureInput \/ ConfigureOutput
  BY <1>8
  DEF ConfigureInput, ConfigureOutput, ListsInv, AllocatedOnce, Goto,
      ReturnError, Fail, Running, SetupPc, LoopPc, codecVars, listVars
<1>9. CASE Reconfig
  BY <1>9
  DEF Reconfig, ListsInv, AllocatedOnce, Goto, Running, SetupPc, LoopPc,
      listVars
<1>10. CASE \/ LoopHead \/ SeekWait \/ SeekStopInput \/ ReconfigureOutput
            \/ DrcStopOutput \/ QueueOutput \/ PostponedDrain
            \/ PostponedStop \/ DrainWait \/ InputAvailable \/ WaitForInput
            \/ PrepareInput \/ QueueInput \/ SetDrain \/ DrainStop
  <2>1. /\ UNCHANGED <<started, pool>>
        /\ Running /\ pc \notin {"drcFreeBuffers", "startOutput"}
        /\ pc' \notin {"configureInput", "allocateInput", "drcFreeBuffers",
                     "configureOutput", "allocateOutput", "startOutput"}
    BY <1>10
    DEF LoopHead, SeekWait, SeekStopInput, ReconfigureOutput, DrcStopOutput,
        QueueOutput, PostponedDrain, PostponedStop, DrainWait, InputAvailable,
        WaitForInput, PrepareInput, QueueInput, SetDrain, DrainStop,
        QueueAllOutput, QueueSomeOutput, TakeBuffers, Goto, Fail, Return,
        ReturnError, NextFrame, SeekDone, Running, SetupPc, LoopPc, codecVars,
        listVars
  <2> QED
    BY <2>1
    DEF ListsInv, AllocatedOnce
<1> QED
  BY <1>1, <1>2, <1>3, <1>4, <1>5, <1>6, <1>7, <1>8, <1>9, <1>10
  DEF Next, SessionNext, QueueBuffersNext, PollNext

\* The buffer to queue is taken in the step before.
LEMMA InputFilledStep ==
  ASSUME ListsInv, Next
  PROVE  InputFilled'
<1>1. CASE PrepareInput
  <2>1. \A b \in bufs[INPUT_PORT] : b # None
    BY BufAssumption
    DEF ListsInv, TypeOK, CodecTypeOK, IsPortBufs, Port, BufsOf
  <2> QED
    BY <1>1, <2>1
    DEF PrepareInput, InputFilled, Goto, ReturnError, Fail, NextFrame
<1>2. CASE \/ PollLoop \/ OnEventDone \/ OnError \/ OnInputDone
           \/ OnOutputDone \/ OnLastForReconfig \/ OnLastForDrain
           \/ DeviceWorks \/ DeviceBreaks \/ Finished \/ DumpOutput
  <2>1. UNCHANGED <<pc, input>>
    BY <1>2
    DEF PollLoop, OnEventDone, OnError, OnInputDone, OnOutputDone, DumpOutput,
        OnLastForReconfig, OnLastForDrain, DeviceWorks, DeviceBreaks, Finished,
        vars, sessionVars, loopVars
  <2> QED
    BY <2>1 DEF ListsInv, InputFilled
<1>3. CASE \/ ConfigureInput \/ AllocateInput \/ StartInput \/ StopOutput
           \/ ReclaimOutput \/ StopInput \/ ReclaimInput \/ FreeOutput
           \/ FreeInput \/ StopPollThread \/ Join \/ LoopHead \/ SeekWait
           \/ SeekStopInput \/ SeekReclaim \/ SeekStartInput \/ Reconfig
           \/ ReconfigureOutput \/ DrcStopOutput \/ DrcReclaim
           \/ DrcFreeBuffers \/ ConfigureOutput \/ AllocateOutput
           \/ StartOutput \/ QueueOutput \/ PostponedDrain \/ PostponedStop
           \/ DrainWait \/ InputAvailable \/ WaitForInput \/ QueueInput
           \/ SetDrain \/ DrainStop
  <2>1. pc' # "queueInput"
    BY <1>3
    DEF ConfigureInput, AllocateInput, StartInput, StopOutput, ReclaimOutput,
        StopInput, ReclaimInput, FreeOutput, FreeInput, StopPollThread, Join,
        LoopHead, SeekWait, SeekStopInput, SeekReclaim, SeekStartInput,
        Reconfig, ReconfigureOutput, DrcStopOutput, DrcReclaim, DrcFreeBuffers,
        ConfigureOutput, AllocateOutput, StartOutput, QueueOutput,
        PostponedDrain, PostponedStop, DrainWait, InputAvailable, WaitForInput,
        QueueInput, SetDrain, DrainStop, StopPort, ReclaimPort, FreePort,
        QueueAllOutput, QueueSomeOutput, Goto, Fail, Return, ReturnError,
        NextFrame, SeekDone
  <2> QED
    BY <2>1
    DEF InputFilled
<1> QED
  BY <1>1, <1>2, <1>3
  DEF Next, SessionNext, QueueBuffersNext, PollNext

\* A step that changes nothing.
LEMMA StutterKeepsLists ==
  ASSUME ListsInv, UNCHANGED vars
  PROVE  ListsInv'
<1>1. /\ UNCHANGED <<deviceVars, firmwareVars, driverVars, listVars>>
      /\ UNCHANGED <<started, flags, pc, ret, loopVars, historyVars>>
  BY DEF vars, hardwareVars, codecVars, sessionVars
<1>2. DeviceTypeOK' /\ FirmwareTypeOK' /\ DriverTypeOK' /\ ListsOK'
  BY <1>1, DeviceUnchanged, FirmwareUnchanged, DriverUnchanged, ListsUnchanged
  DEF ListsInv, TypeOK, CodecTypeOK, ListsOK
<1>3. DecoderTypeOK' /\ AllocatedOnce' /\ InputFilled'
  BY <1>1
  DEF ListsInv, TypeOK, DecoderTypeOK, AllocatedOnce, Running, InputFilled,
      loopVars, historyVars, listVars
<1> QED
  BY <1>1, <1>2, <1>3 DEF ListsInv, TypeOK, CodecTypeOK, ListsOK

-----------------------------------------------------------------------------
\* ListsInv is inductive.

\* The invariant holds before configureInput ...
LEMMA ListsInvInit == Init => ListsInv
<1> SUFFICES ASSUME Init PROVE ListsInv
  OBVIOUS
<1> USE DEF Init, INPUT_PORT, OUTPUT_PORT
<1>1. DeviceTypeOK
  <2>1. <<>> \in Seq(Completion)
    OBVIOUS
  <2>2. done \in [Port -> Seq(Completion)]
    BY <2>1 DEF DeviceInit
  <2> QED
    BY <2>2, PortBufsEmpty DEF DeviceInit, DeviceTypeOK
<1>2. FirmwareTypeOK
  BY DEF FirmwareInit, FirmwareTypeOK, Phase
<1>3. DriverTypeOK
  BY DEF DriverInit, DriverTypeOK, PollPc
<1>4. CodecTypeOK
  BY PortBufsEmpty DEF CodecInit, CodecTypeOK
<1>5. DecoderTypeOK
  BY DEF DecoderInit, DecoderTypeOK, SetupPc, Ret
<1>6. ListsPartition
  BY DEF CodecInit, ListsPartition
<1>7. AllocatedOnce /\ InputFilled
  BY DEF CodecInit, DecoderInit, AllocatedOnce, InputFilled, Port
<1> QED
  BY <1>1, <1>2, <1>3, <1>4, <1>5, <1>6, <1>7 DEF ListsInv, TypeOK

\* ... and every step keeps it ...
LEMMA ListsInvStep == ListsInv /\ [Next]_vars => ListsInv'
<1> SUFFICES ASSUME ListsInv, Next PROVE ListsInv'
  BY StutterKeepsLists
<1>1. DeviceTypeOK' /\ FirmwareTypeOK' /\ DriverTypeOK' /\ DecoderTypeOK'
  BY DeviceTypeStep, FirmwareTypeStep, DriverTypeStep, DecoderTypeStep
<1>2. (started \in [Port -> BOOLEAN] /\ flags \subseteq Flag)'
  BY FlagsTypeStep
<1>3. ListsOK'
  BY ListsStep
<1>4. AllocatedOnce' /\ InputFilled'
  BY AllocatedOnceStep, InputFilledStep
<1> QED
  BY <1>1, <1>2, <1>3, <1>4 DEF ListsInv, TypeOK, CodecTypeOK, ListsOK

\* What the session keeps through every call, callback and fault: the lists
\* partition the pools, a pool is filled once before it is freed, and an input
\* buffer is queued only after it has been filled (V4l2Codec.h, 136-142).
THEOREM ListsInvAlways == Spec => []ListsInv
BY ListsInvInit, ListsInvStep, PTL DEF Spec

\* Type correctness: every variable keeps its type, in particular no queue or
\* list of a port ever holds a buffer of the other (V4l2Codec.h, 136-142).
THEOREM TypeCorrect == Spec => []TypeOK
<1>1. ListsInv => TypeOK
  BY DEF ListsInv
<1> QED
  BY <1>1, ListsInvAlways, PTL

\* The lists of free and pending buffers of a port always partition its pool:
\* neither queueBuffers nor a callback nor the teardown loses a buffer or
\* lists one twice, whatever fails and wherever the threads interleave.
THEOREM ListsCorrect == Spec => []ListsPartition
<1>1. ListsInv => ListsPartition
  BY DEF ListsInv
<1> QED
  BY <1>1, ListsInvAlways, PTL

-----------------------------------------------------------------------------
(***************************************************************************)
(* LastInv, RememberedInv and OwnershipInv.                                *)
(***************************************************************************)

\* The part of LastInv that is about the running loop.
LastOK == LastIsLast /\ IdleUntilStarted

ReconfigPc == StillStartedPc \cup StartingPc

\* The calls before the loop and its steps that reconfigure nothing.
QuietLoop ==
    \/ ConfigureInput \/ AllocateInput \/ StartInput \/ LoopHead
    \/ SeekWait \/ SeekStopInput \/ SeekReclaim \/ SeekStartInput
    \/ PostponedDrain \/ PostponedStop \/ DrainWait \/ InputAvailable
    \/ WaitForInput \/ PrepareInput \/ QueueInput \/ SetDrain \/ DrainStop

-----------------------------------------------------------------------------
\* A decoder that has delivered its LAST buffer holds no frame.

LEMMA HeldStep ==
  ASSUME LastInv, Next
  PROVE  phase' = "stopped" => held' = 0
<1>1. CASE DeviceWorks \/ DeviceBreaks
  <2>1. CASE \/ ParseHeader \/ ConsumeInput \/ ChangeResolution
             \/ ProduceEmptyLast \/ Break
    BY <2>1
    DEF ParseHeader, ConsumeInput, ChangeResolution, ProduceEmptyLast, Break,
        firmwareVars, LastInv
  <2>2. CASE ProduceFrame
    <3>1. (held = 1 /\ phase' = "stopped") \/ phase' = phase
      BY <2>2 DEF ProduceFrame, StopAfterLast
    <3> QED
      BY <2>2, <3>1 DEF ProduceFrame
  <2> QED
    BY <1>1, <2>1, <2>2 DEF DeviceWorks, DeviceBreaks
<1>2. CASE SessionNext \/ PollNext \/ Finished
  <2>1. \/ UNCHANGED firmwareVars
        \/ \E p \in Port : FirmwareStreamOn(p) \/ FirmwareStreamOff(p)
        \/ FirmwareCmdStart \/ FirmwareCmdStop
    BY <1>2
    DEF SessionNext, QueueBuffersNext, PollNext, ConfigureInput, AllocateInput,
        StartInput, StopOutput, ReclaimOutput, StopInput, ReclaimInput,
        FreeOutput, FreeInput, StopPort, ReclaimPort, FreePort, StopPollThread,
        Join, LoopHead, SeekWait, SeekStopInput, SeekReclaim, SeekStartInput,
        Reconfig, ReconfigureOutput, DrcStopOutput, DrcReclaim, DrcFreeBuffers,
        ConfigureOutput, AllocateOutput, StartOutput, QueueOutput,
        PostponedDrain, PostponedStop, DrainWait, InputAvailable, WaitForInput,
        PrepareInput, QueueInput, SetDrain, DrainStop, PollLoop, OnEventDone,
        OnError, OnInputDone, OnOutputDone, DumpOutput, OnLastForReconfig,
        OnLastForDrain, Finished, vars, hardwareVars, Port
  <2> QED
    BY <2>1
    DEF LastInv, firmwareVars, FirmwareStreamOn, FirmwareStreamOff,
        FirmwareCmdStart, FirmwareCmdStop
<1> QED
  BY <1>1, <1>2 DEF Next

-----------------------------------------------------------------------------
\* The loop outside handleReconfigEvent, and the poll thread where it has no
\* output buffer to account for.

LEMMA LastQuiet ==
  ASSUME LastInv, Running,
         phase' = phase,
         done'[OUTPUT_PORT] = done[OUTPUT_PORT],
         DeviceOwns(OUTPUT_PORT)' = DeviceOwns(OUTPUT_PORT),
         HandlingOutput' => HandlingOutput,
         HandlingLast' => HandlingLast,
         isDrcLastFlagReceived' => isDrcLastFlagReceived,
         started'[OUTPUT_PORT] = started[OUTPUT_PORT],
         pc' = pc \/ pc' \notin ReconfigPc
  PROVE  LastOK'
<1>1. LastNoted' => LastNoted
  BY DEF LastNoted, ReconfigPc, StillStartedPc
<1>2. OutputQuiet' <=> OutputQuiet
  BY DEF OutputQuiet
<1>3. LastIsLast'
  BY <1>1, <1>2 DEF LastInv, LastIsLast, LastEndsQueue
<1>4. IdleUntilStarted'
  BY <1>1
  DEF LastInv, IdleUntilStarted, OutputIdle, ReconfigPc, StillStartedPc
<1> QED
  BY <1>3, <1>4 DEF LastOK

\* The steps before the loop and the turns of the loop that reconfigure
\* nothing leave OUTPUT_PORT started or stopped and the decoder in its phase.
LEMMA QuietLoopPhase ==
  ASSUME TypeOK, Running', QuietLoop
  PROVE  /\ pc' \notin ReconfigPc
         /\ started'[OUTPUT_PORT] = started[OUTPUT_PORT]
         /\ phase' = phase
<1>1. pc' \notin ReconfigPc
  BY DEF QuietLoop, ConfigureInput, AllocateInput, StartInput, LoopHead,
         SeekWait, SeekStopInput, SeekReclaim, SeekStartInput, SeekDone,
         PostponedDrain, PostponedStop, DrainWait, InputAvailable,
         WaitForInput, PrepareInput, QueueInput, SetDrain, DrainStop,
         NextFrame, Goto, Fail, Return, ReturnError, ReconfigPc,
         StillStartedPc, StartingPc
<1>2. started'[OUTPUT_PORT] = started[OUTPUT_PORT]
  BY DEF QuietLoop, ConfigureInput, AllocateInput, StartInput, LoopHead,
         SeekWait, SeekStopInput, SeekReclaim, SeekStartInput, SetStarted,
         PostponedDrain, PostponedStop, DrainWait, InputAvailable,
         WaitForInput, PrepareInput, QueueInput, SetDrain, DrainStop,
         codecVars, TypeOK, CodecTypeOK, Port, INPUT_PORT,
         OUTPUT_PORT
<1>3. phase' = phase
  BY DEF QuietLoop, ConfigureInput, AllocateInput, StartInput, LoopHead,
         SeekWait, SeekStopInput, SeekReclaim, SeekStartInput,
         FirmwareStreamOn, FirmwareStreamOff, PostponedDrain, PostponedStop,
         FirmwareCmdStop, DrainWait, Return, ReturnError, Goto, Fail, Running,
         SetupPc, LoopPc, InputAvailable, WaitForInput, PrepareInput,
         QueueInput, SetDrain, DrainStop, hardwareVars, firmwareVars,
         INPUT_PORT, OUTPUT_PORT
<1> QED
  BY <1>1, <1>2, <1>3

\* The steps of the session's thread.
LEMMA LastQuietLoop ==
  ASSUME LastInv, Running, Running',
         QuietLoop
  PROVE  LastOK'
<1>1. UNCHANGED <<ppc, buffer>>
  BY DEF QuietLoop, ConfigureInput, AllocateInput, StartInput, LoopHead,
         SeekWait, SeekStopInput, SeekReclaim, SeekStartInput, PostponedDrain,
         PostponedStop, DrainWait, InputAvailable, WaitForInput, PrepareInput,
         QueueInput, QueueBuffers, SetDrain, DrainStop, driverVars
<1>2. /\ pc' \notin ReconfigPc
      /\ started'[OUTPUT_PORT] = started[OUTPUT_PORT]
      /\ phase' = phase
  BY QuietLoopPhase DEF LastInv
<1>3. isDrcLastFlagReceived' <=> isDrcLastFlagReceived
  BY DEF QuietLoop, ConfigureInput, AllocateInput, StartInput, LoopHead,
         SeekWait, SeekStopInput, SeekReclaim, SeekStartInput, PostponedDrain,
         PostponedStop, DrainWait, InputAvailable, WaitForInput, PrepareInput,
         QueueInput, SetDrain, DrainStop, MarkDrainSent, codecVars,
         isDrcLastFlagReceived
<1>4. /\ done'[OUTPUT_PORT] = done[OUTPUT_PORT]
      /\ queued'[OUTPUT_PORT] = queued[OUTPUT_PORT]
  <2>1. \/ UNCHANGED <<queued, done>>
        \/ StreamOff(INPUT_PORT)
        \/ QBuf(INPUT_PORT, {input}) /\ UNCHANGED done
    BY DEF QuietLoop, ConfigureInput, ReqBufs, AllocateInput, StartInput,
           StreamOn, LoopHead, SeekWait, SeekStopInput, SeekReclaim,
           SeekStartInput, PostponedDrain, PostponedStop, DrainWait,
           InputAvailable, WaitForInput, PrepareInput, QueueInput,
           QueueBuffers, SetDrain, DrainStop, hardwareVars, deviceVars
  <2> QED
    BY <2>1 DEF StreamOff, QBuf, LastInv, TypeOK, DeviceTypeOK, IsPortBufs,
                Port, INPUT_PORT, OUTPUT_PORT
<1> QED
  BY <1>1, <1>2, <1>3, <1>4, LastQuiet
  DEF DeviceOwns, DoneBufs, HandlingOutput, HandlingLast

\* The steps of the poll thread.
LEMMA LastQuietPoll ==
  ASSUME LastInv, Running,
         UNCHANGED <<phase, started, pc>>,
         done'[OUTPUT_PORT] = done[OUTPUT_PORT],
         queued'[OUTPUT_PORT] = queued[OUTPUT_PORT],
         HandlingOutput' => HandlingOutput,
         HandlingLast' => HandlingLast,
         isDrcLastFlagReceived' <=> isDrcLastFlagReceived
  PROVE  LastOK'
BY LastQuiet DEF DeviceOwns, DoneBufs

-----------------------------------------------------------------------------
\* The poll thread.

\* A callback returns: nothing is left to account for.
LEMMA CallbackDone ==
  ASSUME NEW r, CallbackReturns(r)
  PROVE  ~HandlingOutput' /\ ~HandlingLast'
BY DEF CallbackReturns, Handle, NextHandler, HandlingOutput, HandlingLast

\* VIDIOC_DQBUF on OUTPUT_PORT: a LAST buffer is the only one left.
LEMMA LastDequeue ==
  ASSUME LastInv, Running, DqBuf(OUTPUT_PORT),
         buffer' = Head(done[OUTPUT_PORT]), ppc' = "outputDone",
         UNCHANGED <<phase, started, flags, pc>>
  PROVE  LastOK'
<1> DEFINE s == done[OUTPUT_PORT]
<1>1. /\ s \in Seq(Completion) /\ s # <<>>
      /\ done'[OUTPUT_PORT] = Tail(s)
  BY DEF DqBuf, LastInv, TypeOK, DeviceTypeOK, Port
<1>2. LastEndsQueue /\ ~LastNoted /\ started[OUTPUT_PORT] /\ pc # "drcReclaim"
  <2>1. 1 \in DOMAIN s
    BY <1>1
  <2>2. DoneBufs(OUTPUT_PORT) # {}
    BY <2>1 DEF DoneBufs
  <2> QED
    BY <1>1, <2>2
    DEF LastInv, LastIsLast, IdleUntilStarted, OutputIdle, OutputQuiet,
        DeviceOwns
<1>3. ~LastNoted' /\ pc \notin {"reconfigureOutput", "drcStopOutput"}
  BY <1>2 DEF LastNoted, isDrcLastFlagReceived
<1>4. HandlingLast' => Tail(s) = <<>> /\ phase = "stopped"
  <2> SUFFICES ASSUME Head(s).last PROVE Tail(s) = <<>> /\ phase = "stopped"
    BY DEF HandlingLast
  <2>1. 1 \in DOMAIN s /\ Head(s) = s[1] /\ Len(s) \in Nat
    BY <1>1
  <2>2. Len(s) = 1 /\ phase = "stopped"
    BY <1>2, <2>1 DEF LastEndsQueue
  <2>3. Tail(s) \in Seq(Completion) /\ Len(Tail(s)) = 0
    BY <1>1, <2>2
  <2>4. Tail(s) = <<>>
    BY <2>3, EmptySeq
  <2> QED
    BY <2>2, <2>4
<1>5. LastEndsQueue'
  <2> SUFFICES ASSUME NEW i \in DOMAIN Tail(s), Tail(s)[i].last
               PROVE  i = Len(Tail(s)) /\ phase = "stopped"
    BY <1>1 DEF LastEndsQueue
  <2>1. /\ i + 1 \in DOMAIN s /\ Tail(s)[i] = s[i + 1]
        /\ i \in Nat /\ Len(s) \in Nat /\ Len(Tail(s)) = Len(s) - 1
    BY <1>1
  <2>2. i + 1 = Len(s) /\ phase = "stopped"
    BY <1>2, <2>1 DEF LastEndsQueue
  <2> QED
    BY <2>1, <2>2
<1>6. LastIsLast'
  BY <1>1, <1>3, <1>4, <1>5 DEF LastIsLast, OutputQuiet
<1>7. IdleUntilStarted'
  BY <1>2, <1>3
  DEF LastInv, IdleUntilStarted, LastNoted, StillStartedPc
<1> QED
  BY <1>6, <1>7 DEF LastOK

\* onBufferDone notes the LAST buffer of a resolution change.
LEMMA LastIsNoted ==
  ASSUME LastInv, Running, OnLastForReconfig
  PROVE  LastOK'
<1>1. /\ HandlingLast /\ HandlingOutput
      /\ ~HandlingLast' /\ ~HandlingOutput'
      /\ UNCHANGED <<phase, done, queued, started, pc>>
  BY DEF OnLastForReconfig, HandlingLast, HandlingOutput, hardwareVars,
         deviceVars, firmwareVars, sessionVars
<1>2. OutputQuiet /\ ~LastNoted /\ started[OUTPUT_PORT] /\ pc # "drcReclaim"
  BY <1>1 DEF LastInv, LastIsLast, IdleUntilStarted, OutputIdle
<1>3. pc \notin StillStartedPc
  BY <1>2 DEF LastNoted, StillStartedPc
<1>4. LastIsLast'
  BY <1>1, <1>2 DEF LastInv, LastIsLast, LastEndsQueue, OutputQuiet
<1>5. IdleUntilStarted'
  BY <1>1, <1>2, <1>3 DEF LastInv, IdleUntilStarted
<1> QED
  BY <1>4, <1>5 DEF LastOK

\* Every step of the poll thread.
LEMMA LastPoll ==
  ASSUME LastInv, Running, PollNext
  PROVE  LastOK'
<1>1. CASE PollLoop
  <2>1. UNCHANGED <<phase, started, flags, pc>>
    BY <1>1 DEF PollLoop, firmwareVars, codecVars, sessionVars
  <2>2. CASE /\ done'[OUTPUT_PORT] = done[OUTPUT_PORT]
             /\ queued'[OUTPUT_PORT] = queued[OUTPUT_PORT]
             /\ ppc' \notin {"outputDone", "dump", "drcFlag"}
    BY <2>1, <2>2, LastQuietPoll
    DEF HandlingOutput, HandlingLast, isDrcLastFlagReceived
  <2>3. CASE /\ DqBuf(OUTPUT_PORT)
             /\ buffer' = Head(done[OUTPUT_PORT])
             /\ ppc' = "outputDone"
    BY <2>1, <2>3, LastDequeue
  <2>4. CASE DqBuf(INPUT_PORT) /\ ppc' = "inputDone"
    <3>1. /\ done'[OUTPUT_PORT] = done[OUTPUT_PORT]
          /\ queued'[OUTPUT_PORT] = queued[OUTPUT_PORT]
      BY <2>4 DEF DqBuf, LastInv, TypeOK, DeviceTypeOK, Port, INPUT_PORT,
                  OUTPUT_PORT
    <3> QED
      BY <2>2, <2>4, <3>1
  <2> QED
    BY <1>1, <2>2, <2>3, <2>4
    DEF PollLoop, PollReady, PollExit, DequeueOutput, DequeueInput,
        DequeueBuffer, Handle, NextHandler, deviceVars
<1>2. CASE \/ OnEventDone \/ OnError \/ OnInputDone \/ OnOutputDone
           \/ DumpOutput \/ OnLastForDrain
  <2>1. UNCHANGED <<phase, started, pc, queued, done>>
    BY <1>2
    DEF OnEventDone, DequeueEvent, OnError, PollError, OnInputDone,
        OnOutputDone, DumpOutput, OnLastForDrain, hardwareVars, deviceVars,
        firmwareVars, codecVars, sessionVars
  <2>2. isDrcLastFlagReceived' <=> isDrcLastFlagReceived
    BY <1>2
    DEF OnEventDone, OnError, OnInputDone, OnOutputDone, DumpOutput,
        OnLastForDrain, codecVars, isDrcLastFlagReceived
  <2>3. (HandlingOutput' => HandlingOutput) /\ (HandlingLast' => HandlingLast)
    <3>1. CASE OnEventDone \/ OnError
      BY <3>1 DEF OnEventDone, DequeueEvent, Handle, NextHandler, OnError,
                  PollError, HandlingOutput, HandlingLast
    <3>2. CASE OnInputDone \/ OnLastForDrain
      BY <3>2, CallbackDone DEF OnInputDone, OnLastForDrain
    <3>3. CASE OnOutputDone
      BY <3>3, CallbackDone DEF OnOutputDone, HandlingOutput, HandlingLast
    <3>4. CASE DumpOutput
      BY <3>4, CallbackDone DEF DumpOutput, HandlingOutput, HandlingLast
    <3> QED
      BY <1>2, <3>1, <3>2, <3>3, <3>4
  <2> QED
    BY <2>1, <2>2, <2>3, LastQuietPoll
<1>3. CASE OnLastForReconfig
  BY <1>3, LastIsNoted
<1> QED
  BY <1>1, <1>2, <1>3 DEF PollNext

-----------------------------------------------------------------------------
\* The device.

\* It delivers a buffer on OUTPUT_PORT while it has not stopped, so no LAST
\* buffer is anywhere; if this one is, the decoder stops with it.
LEMMA LastProduce ==
  ASSUME LastInv, Running, UNCHANGED <<ppc, buffer, flags, started, pc>>,
         phase \in {"run", "flush"},
         NEW b \in queued[OUTPUT_PORT], NEW frame \in BOOLEAN,
         NEW last \in BOOLEAN, Complete(OUTPUT_PORT, b, frame, last),
         last => phase' = "stopped"
  PROVE  LastOK'
<1> DEFINE s == done[OUTPUT_PORT]
           c == [buf |-> b, frame |-> frame, last |-> last]
<1>1. /\ s \in Seq(Completion)
      /\ done'[OUTPUT_PORT] = Append(s, c)
  BY DEF Complete, LastInv, TypeOK, DeviceTypeOK, Port
<1>2. ~LastNoted /\ ~HandlingLast
  BY DEF LastInv, LastIsLast, OutputQuiet
<1>3. ~LastNoted' /\ ~HandlingLast'
  BY <1>2 DEF LastNoted, isDrcLastFlagReceived, HandlingLast
<1>4. LastEndsQueue'
  <2>1. \A i \in DOMAIN s : ~s[i].last
    BY DEF LastInv, LastIsLast, LastEndsQueue
  <2> SUFFICES ASSUME NEW i \in DOMAIN Append(s, c), Append(s, c)[i].last
               PROVE  i = Len(Append(s, c)) /\ phase' = "stopped"
    BY <1>1 DEF LastEndsQueue
  <2>2. \/ i \in DOMAIN s /\ Append(s, c)[i] = s[i]
        \/ i = Len(Append(s, c)) /\ Append(s, c)[i] = c
    BY <1>1
  <2> QED
    BY <2>1, <2>2
<1>5. started[OUTPUT_PORT] /\ pc # "drcReclaim"
  BY DEF LastInv, IdleUntilStarted, OutputIdle, DeviceOwns
<1>6. IdleUntilStarted'
  BY <1>5 DEF LastInv, IdleUntilStarted, isDrcLastFlagReceived
<1> QED
  BY <1>3, <1>4, <1>6 DEF LastOK, LastIsLast

\* Every step of the device.
LEMMA LastDevice ==
  ASSUME LastInv, Running, DeviceWorks \/ DeviceBreaks
  PROVE  LastOK'
<1>1. UNCHANGED <<ppc, buffer, flags, started, pc>>
  BY DEF DeviceWorks, DeviceBreaks, driverVars, codecVars, sessionVars
<1>2. CASE ConsumeInput \/ Break
  <2>1. phase' = phase
    BY <1>2 DEF ConsumeInput, Break, firmwareVars
  <2>2. /\ done'[OUTPUT_PORT] = done[OUTPUT_PORT]
        /\ queued'[OUTPUT_PORT] = queued[OUTPUT_PORT]
    BY <1>2 DEF ConsumeInput, Complete, Break, LastInv, TypeOK, DeviceTypeOK,
                IsPortBufs, Port, INPUT_PORT, OUTPUT_PORT
  <2> QED
    BY <1>1, <2>1, <2>2, LastQuietPoll
    DEF HandlingOutput, HandlingLast, isDrcLastFlagReceived
<1>3. CASE ParseHeader \/ ChangeResolution
  <2>1. /\ UNCHANGED <<queued, done>>
        /\ phase \in {"header", "run"}
    BY <1>3 DEF ParseHeader, ChangeResolution
  <2>2. ~LastNoted /\ ~HandlingLast
    BY <2>1 DEF LastInv, LastIsLast, OutputQuiet
  <2>3. LastEndsQueue'
    BY <2>1 DEF LastInv, LastIsLast, LastEndsQueue
  <2>4. ~LastNoted' /\ ~HandlingLast'
    BY <1>1, <2>2 DEF LastNoted, isDrcLastFlagReceived, HandlingLast
  <2>5. IdleUntilStarted'
    BY <1>1, <2>1, <2>4
    DEF LastInv, IdleUntilStarted, OutputIdle, DeviceOwns, DoneBufs,
        HandlingOutput, isDrcLastFlagReceived
  <2> QED
    BY <2>3, <2>4, <2>5 DEF LastOK, LastIsLast
<1>4. CASE ProduceFrame \/ ProduceEmptyLast
  <2>1. /\ phase \in {"run", "flush"}
        /\ \E b \in queued[OUTPUT_PORT], frame, last \in BOOLEAN :
              /\ Complete(OUTPUT_PORT, b, frame, last)
              /\ last => phase' = "stopped"
    BY <1>4 DEF ProduceFrame, ProduceEmptyLast, LastIsDue, StopAfterLast
  <2> QED
    BY <1>1, <2>1, LastProduce
<1> QED
  BY <1>2, <1>3, <1>4 DEF DeviceWorks, DeviceBreaks

-----------------------------------------------------------------------------
\* handleReconfigEvent and reconfigureOutput.

\* While OUTPUT_PORT is idle it may be freed, configured and allocated.
LEMMA LastIdle ==
  ASSUME LastInv, Running, OutputIdle,
         UNCHANGED <<queued, done, ppc, buffer>>,
         isDrcLastFlagReceived' <=> isDrcLastFlagReceived,
         ~started'[OUTPUT_PORT],
         pc' \in StartingPc
  PROVE  LastOK'
<1>1. OutputIdle'
  BY DEF OutputIdle, DeviceOwns, DoneBufs, HandlingOutput, LastNoted,
         StartingPc
<1>2. done[OUTPUT_PORT] = <<>>
  <2>1. done[OUTPUT_PORT] \in Seq(Completion)
    BY DEF LastInv, TypeOK, DeviceTypeOK, Port
  <2>2. DOMAIN done[OUTPUT_PORT] = {}
    BY DEF OutputIdle, DeviceOwns, DoneBufs
  <2>3. done[OUTPUT_PORT] # <<>> => 1 \in DOMAIN done[OUTPUT_PORT]
    BY <2>1, EmptySeq
  <2> QED
    BY <2>2, <2>3
<1>3. LastEndsQueue'
  BY <1>2 DEF LastEndsQueue
<1>4. ~HandlingLast'
  BY <1>1 DEF OutputIdle, HandlingOutput, HandlingLast
<1> QED
  BY <1>1, <1>3, <1>4
  DEF LastOK, LastIsLast, OutputIdle, IdleUntilStarted, StartingPc,
      StillStartedPc

\* The event is handled: at once, later, or now that the LAST buffer is here.
LEMMA LastReconfig ==
  ASSUME LastInv, Running, Reconfig
  PROVE  LastOK'
<1>1. UNCHANGED <<phase, queued, done, ppc, buffer, started>>
  BY DEF Reconfig, hardwareVars, deviceVars, firmwareVars, driverVars
<1>2. CASE pc' = "queueOutput" /\ UNCHANGED flags
  BY <1>1, <1>2, LastQuiet
  DEF DeviceOwns, DoneBufs, HandlingOutput, HandlingLast,
      isDrcLastFlagReceived, ReconfigPc, StillStartedPc, StartingPc
<1>3. CASE /\ pc' = "configureOutput" /\ ~started[OUTPUT_PORT]
           /\ flags' = flags \ {"mReconfigEventReceived"}
  <2>1. OutputIdle
    BY <1>3 DEF LastInv, IdleUntilStarted
  <2> QED
    BY <1>1, <1>3, <2>1, LastIdle DEF isDrcLastFlagReceived, StartingPc
<1>4. CASE /\ pc' = "reconfigureOutput" /\ started[OUTPUT_PORT]
           /\ isDrcLastFlagReceived
           /\ flags' = flags \ {"mReconfigEventReceived",
                                "mDrcLastFlagReceived"}
  <2>1. LastNoted /\ ~isDrcLastFlagReceived'
    BY <1>4 DEF LastNoted, isDrcLastFlagReceived
  <2>2. OutputQuiet /\ ~HandlingOutput
    BY <2>1 DEF LastInv, LastIsLast
  <2>3. OutputQuiet' /\ ~HandlingOutput' /\ ~HandlingLast'
    BY <1>1, <2>2 DEF OutputQuiet, HandlingOutput, HandlingLast
  <2>4. LastEndsQueue'
    BY <1>1 DEF LastInv, LastIsLast, LastEndsQueue
  <2> QED
    BY <1>1, <1>4, <2>1, <2>3, <2>4
    DEF LastOK, LastIsLast, IdleUntilStarted, StillStartedPc, StartingPc
<1> QED
  BY <1>2, <1>3, <1>4 DEF Reconfig, Goto

\* V4L2_DEC_CMD_START, or the decision to stop OUTPUT_PORT.
LEMMA LastReconfigure ==
  ASSUME LastInv, Running, Running', ReconfigureOutput
  PROVE  LastOK'
<1>1. /\ UNCHANGED <<queued, done, ppc, buffer, started, flags>>
      /\ pc = "reconfigureOutput"
      /\ \/ pc' = "queueOutput"
         \/ pc' = "drcStopOutput" /\ UNCHANGED phase
  BY DEF ReconfigureOutput, Goto, ReturnError, Fail, deviceVars, firmwareVars,
         driverVars, codecVars, Running, SetupPc, LoopPc
<1>2. /\ LastNoted /\ ~isDrcLastFlagReceived /\ started[OUTPUT_PORT]
      /\ ~isDrcLastFlagReceived'
  BY <1>1 DEF LastInv, IdleUntilStarted, StillStartedPc, LastNoted,
              isDrcLastFlagReceived
<1>3. OutputQuiet /\ ~HandlingOutput
  BY <1>2 DEF LastInv, LastIsLast
<1>4. /\ ~HandlingOutput' /\ ~HandlingLast'
      /\ done'[OUTPUT_PORT] = <<>>
  BY <1>1, <1>3 DEF OutputQuiet, HandlingOutput, HandlingLast
<1>5. LastEndsQueue'
  BY <1>4 DEF LastEndsQueue
<1>6. LastNoted' => OutputQuiet'
  BY <1>1, <1>2, <1>3 DEF LastNoted, OutputQuiet
<1> QED
  BY <1>1, <1>2, <1>4, <1>5, <1>6
  DEF LastOK, LastIsLast, IdleUntilStarted, StillStartedPc, StartingPc

\* stopOutput: VIDIOC_STREAMOFF leaves OUTPUT_PORT idle.
LEMMA LastStopOutput ==
  ASSUME LastInv, Running, Running', DrcStopOutput
  PROVE  LastOK'
<1>1. /\ UNCHANGED <<ppc, buffer, started, flags>>
      /\ pc = "drcStopOutput" /\ pc' = "drcReclaim"
      /\ StreamOff(OUTPUT_PORT)
  BY DEF DrcStopOutput, Goto, ReturnError, Fail, driverVars, codecVars,
         Running, SetupPc, LoopPc
<1>2. /\ LastNoted /\ ~isDrcLastFlagReceived /\ started[OUTPUT_PORT]
      /\ ~isDrcLastFlagReceived'
  BY <1>1 DEF LastInv, IdleUntilStarted, StillStartedPc, LastNoted,
              isDrcLastFlagReceived
<1>3. ~HandlingOutput' /\ ~HandlingLast' /\ ~LastNoted'
  BY <1>1, <1>2
  DEF LastInv, LastIsLast, HandlingOutput, HandlingLast, LastNoted
<1>4. queued'[OUTPUT_PORT] = {} /\ done'[OUTPUT_PORT] = <<>>
  BY <1>1 DEF StreamOff, LastInv, TypeOK, DeviceTypeOK, IsPortBufs, Port
<1>5. LastEndsQueue' /\ OutputIdle'
  BY <1>3, <1>4 DEF LastEndsQueue, OutputIdle, DeviceOwns, DoneBufs
<1> QED
  BY <1>1, <1>2, <1>3, <1>5
  DEF LastOK, LastIsLast, IdleUntilStarted, StillStartedPc, StartingPc

\* The rest of stopOutput, freeBuffers, configureOutput and allocateBuffers.
LEMMA LastRebuild ==
  ASSUME LastInv, Running, Running',
         DrcReclaim \/ DrcFreeBuffers \/ ConfigureOutput \/ AllocateOutput
  PROVE  LastOK'
<1>1. /\ UNCHANGED <<queued, done, ppc, buffer, flags>>
      /\ pc \in {"drcReclaim", "drcFreeBuffers", "configureOutput",
                 "allocateOutput"}
      /\ pc' \in StartingPc
  BY DEF DrcReclaim, DrcFreeBuffers, ConfigureOutput, AllocateOutput, ReqBufs,
         Goto, ReturnError, Fail, hardwareVars, deviceVars, driverVars,
         codecVars, Running, SetupPc, LoopPc, StartingPc
<1>2. ~started'[OUTPUT_PORT]
  <2>1. CASE DrcReclaim
    BY <2>1 DEF DrcReclaim, SetStarted, LastInv, TypeOK, CodecTypeOK, Port
  <2>2. CASE DrcFreeBuffers \/ ConfigureOutput \/ AllocateOutput
    BY <2>2
    DEF DrcFreeBuffers, ConfigureOutput, AllocateOutput, codecVars, LastInv,
        IdleUntilStarted, StartingPc
  <2> QED
    BY <2>1, <2>2
<1>3. OutputIdle
  BY <1>1 DEF LastInv, IdleUntilStarted, StartingPc
<1> QED
  BY <1>1, <1>2, <1>3, LastIdle DEF isDrcLastFlagReceived

\* startOutput, and the buffers queued on a started port.
LEMMA LastStart ==
  ASSUME LastInv, Running, Running', StartOutput \/ QueueOutput
  PROVE  LastOK'
<1>1. /\ UNCHANGED <<done, ppc, buffer, flags>>
      /\ pc \in {"startOutput", "queueOutput"}
      /\ pc' \in {"queueOutput", "postponedDrain", "drainWait"}
  BY DEF StartOutput, StreamOn, QueueOutput, QueueAllOutput, QueueSomeOutput,
         QueueBuffers, Goto, ReturnError, Fail, deviceVars, driverVars,
         codecVars, Running, SetupPc, LoopPc
<1>2. CASE StartOutput
  <2>1. started'[OUTPUT_PORT]
    BY <1>1, <1>2
    DEF StartOutput, SetStarted, ReturnError, Fail, Running, SetupPc, LoopPc,
        LastInv, TypeOK, CodecTypeOK, Port
  <2>2. OutputIdle
    BY <1>2 DEF StartOutput, LastInv, IdleUntilStarted, StartingPc
  <2>3. ~HandlingOutput' /\ ~HandlingLast' /\ ~LastNoted'
    BY <1>1, <2>2
    DEF OutputIdle, HandlingOutput, HandlingLast, LastNoted,
        isDrcLastFlagReceived
  <2>4. LastEndsQueue'
    BY <1>1, <2>2 DEF OutputIdle, DeviceOwns, DoneBufs, LastEndsQueue
  <2> QED
    BY <1>1, <2>1, <2>3, <2>4
    DEF LastOK, LastIsLast, IdleUntilStarted, StillStartedPc, StartingPc
<1>3. CASE QueueOutput
  <2>1. UNCHANGED <<phase, started>>
    BY <1>3 DEF QueueOutput, firmwareVars
  <2>2. CASE UNCHANGED queued
    BY <1>1, <2>1, <2>2, LastQuiet
    DEF DeviceOwns, DoneBufs, HandlingOutput, HandlingLast,
        isDrcLastFlagReceived, ReconfigPc, StillStartedPc, StartingPc
  <2>3. CASE started[OUTPUT_PORT]
    <3>1. LastNoted' => LastNoted
      BY <1>1 DEF LastNoted, isDrcLastFlagReceived
    <3>2. LastIsLast'
      BY <1>1, <2>1, <3>1
      DEF LastInv, LastIsLast, LastEndsQueue, HandlingLast, HandlingOutput,
          OutputQuiet
    <3>3. IdleUntilStarted'
      BY <1>1, <2>1, <2>3 DEF IdleUntilStarted, StillStartedPc, StartingPc
    <3> QED
      BY <3>2, <3>3 DEF LastOK
  <2> QED
    BY <1>3, <2>2, <2>3 DEF QueueOutput, deviceVars
<1> QED
  BY <1>2, <1>3

-----------------------------------------------------------------------------
\* LastInv is inductive.

\* A step after which the loop is still running starts in the loop.
LEMMA StillRunning ==
  ASSUME Next, Running'
  PROVE  Running
<1>1. CASE SessionNext
  <2>1. CASE \/ StopOutput \/ ReclaimOutput \/ StopInput \/ ReclaimInput
             \/ FreeOutput \/ FreeInput \/ StopPollThread \/ Join
    <3>1. pc' \in TeardownPc
      BY <2>1
      DEF StopOutput, ReclaimOutput, StopInput, ReclaimInput, FreeOutput,
          FreeInput, StopPort, ReclaimPort, FreePort, StopPollThread, Join,
          Goto, TeardownPc
    <3> QED
      BY <3>1 DEF Running, SetupPc, LoopPc, TeardownPc
  <2>2. CASE ConfigureInput \/ AllocateInput \/ StartInput
    BY <2>2 DEF ConfigureInput, AllocateInput, StartInput, Running, SetupPc
  <2>3. CASE QueueBuffersNext
    <3>1. pc \in LoopPc
      BY <2>3
      DEF QueueBuffersNext, LoopHead, SeekWait, SeekStopInput, SeekReclaim,
          SeekStartInput, Reconfig, ReconfigureOutput, DrcStopOutput,
          DrcReclaim, DrcFreeBuffers, ConfigureOutput, AllocateOutput,
          StartOutput, QueueOutput, PostponedDrain, PostponedStop, DrainWait,
          InputAvailable, WaitForInput, PrepareInput, QueueInput, SetDrain,
          DrainStop, LoopPc
    <3> QED
      BY <3>1 DEF Running
  <2> QED
    BY <1>1, <2>1, <2>2, <2>3 DEF SessionNext
<1>2. CASE PollNext \/ DeviceWorks \/ DeviceBreaks \/ Finished
  <2>1. UNCHANGED pc
    BY <1>2
    DEF PollNext, PollLoop, OnEventDone, OnError, OnInputDone, OnOutputDone,
        DumpOutput, OnLastForReconfig, OnLastForDrain, DeviceWorks,
        DeviceBreaks, Finished, vars, sessionVars
  <2> QED
    BY <2>1 DEF Running
<1> QED
  BY <1>1, <1>2 DEF Next

\* Every step keeps it.
LEMMA LastStep ==
  ASSUME LastInv, Next, Running'
  PROVE  LastOK'
<1>0. Running
  BY StillRunning
<1>1. CASE QuietLoop
  BY <1>0, <1>1, LastQuietLoop
<1>2. CASE \/ Reconfig \/ ReconfigureOutput \/ DrcStopOutput \/ DrcReclaim
           \/ DrcFreeBuffers \/ ConfigureOutput \/ AllocateOutput
           \/ StartOutput \/ QueueOutput
  BY <1>0, <1>2, LastReconfig, LastReconfigure, LastStopOutput, LastRebuild,
     LastStart
<1>3. CASE PollNext \/ DeviceWorks \/ DeviceBreaks
  BY <1>0, <1>3, LastPoll, LastDevice
<1>4. CASE \/ StopOutput \/ ReclaimOutput \/ StopInput \/ ReclaimInput
           \/ FreeOutput \/ FreeInput \/ StopPollThread \/ Join \/ Finished
  <2>1. pc \in TeardownPc
    BY <1>4
    DEF StopOutput, ReclaimOutput, StopInput, ReclaimInput, FreeOutput,
        FreeInput, StopPort, ReclaimPort, FreePort, StopPollThread, Join,
        Finished, TeardownPc
  <2> QED
    BY <1>0, <2>1 DEF Running, SetupPc, LoopPc, TeardownPc
<1> QED
  BY <1>1, <1>2, <1>3, <1>4
  DEF Next, SessionNext, QueueBuffersNext, QuietLoop

\* A step that changes nothing.
LEMMA LastStutter ==
  ASSUME LastInv, UNCHANGED vars
  PROVE  /\ phase' = "stopped" => held' = 0
         /\ Running' => LastOK'
<1>1. UNCHANGED <<phase, held, queued, done, ppc, buffer, flags, started, pc>>
  BY DEF vars, hardwareVars, deviceVars, firmwareVars, driverVars, codecVars,
         sessionVars
<1>2. phase' = "stopped" => held' = 0
  BY <1>1 DEF LastInv
<1>3. Running' => Running
  BY <1>1 DEF Running
<1>4. Running => LastOK'
  BY <1>1, LastQuietPoll
  DEF HandlingOutput, HandlingLast, isDrcLastFlagReceived
<1> QED
  BY <1>2, <1>3, <1>4

LEMMA LastInvAlways == Spec => []LastInv
<1>1. Init => LastInv
  <2> SUFFICES ASSUME Init PROVE LastInv
    OBVIOUS
  <2>1. TypeOK
    BY ListsInvInit DEF ListsInv
  <2>2. /\ phase = "header" /\ ppc = "poll" /\ pc = "configureInput"
        /\ flags = {}
        /\ queued[OUTPUT_PORT] = {} /\ done[OUTPUT_PORT] = <<>>
    BY DEF Init, DeviceInit, FirmwareInit, DriverInit, CodecInit, DecoderInit,
           Port
  <2>3. ~HandlingOutput /\ ~HandlingLast /\ ~LastNoted /\ LastEndsQueue
    BY <2>2 DEF HandlingOutput, HandlingLast, LastNoted,
                isDrcLastFlagReceived, LastEndsQueue
  <2>4. OutputIdle
    BY <2>2, <2>3 DEF OutputIdle, DeviceOwns, DoneBufs
  <2> QED
    BY <2>1, <2>2, <2>3, <2>4
    DEF LastInv, LastIsLast, IdleUntilStarted, StillStartedPc, StartingPc
<1>2. LastInv /\ TypeOK' /\ [Next]_vars => LastInv'
  BY HeldStep, LastStep, LastStutter DEF LastInv, LastOK
<1>3. Spec => []TypeOK
  BY TypeCorrect
<1> QED
  BY <1>1, <1>2, <1>3, PTL DEF Spec

\* When handleReconfigEvent stops OUTPUT_PORT for a resolution change, the
\* device holds no frame of the old resolution, none waits to be dequeued and
\* none is in the poll thread's hands: the LAST buffer is noted only when it
\* is behind everything else, with seeks, drains and faults at any moment.
THEOREM ReconfigCorrect == Spec => []ReconfigLosesNoFrame
<1>1. LastInv => ReconfigLosesNoFrame
  <2> SUFFICES ASSUME LastInv, pc = "drcStopOutput"
               PROVE  /\ held = 0 /\ done[OUTPUT_PORT] = <<>>
                      /\ ppc \notin {"outputDone", "dump"}
    BY DEF ReconfigLosesNoFrame
  <2>1. Running /\ LastNoted
    BY DEF Running, LoopPc, LastNoted
  <2>2. OutputQuiet /\ ~HandlingOutput
    BY <2>1 DEF LastInv, LastIsLast
  <2> QED
    BY <2>2 DEF LastInv, OutputQuiet, HandlingOutput
<1> QED
  BY <1>1, LastInvAlways, PTL

-----------------------------------------------------------------------------
\* RememberedInv: the flag of a resolution change is not cleared too early.

\* OUTPUT_PORT is not started and the device is not decoding, until it is.
LEMMA NotDecodingStep ==
  ASSUME LastInv, NotDecoding, Next, Running'
  PROVE  NotDecoding'
<1>0. Running
  BY StillRunning
<1>1. CASE QuietLoop
  <2>1. /\ pc' # "drcReclaim"
        /\ started'[OUTPUT_PORT] = started[OUTPUT_PORT]
        /\ phase' = phase
    BY <1>1, QuietLoopPhase DEF LastInv, ReconfigPc, StillStartedPc
  <2> QED
    BY <1>0, <2>1 DEF NotDecoding
<1>2. CASE Reconfig \/ QueueOutput
  <2>1. UNCHANGED <<phase, started>> /\ pc' # "drcReclaim"
    BY <1>2 DEF Reconfig, QueueOutput, QueueAllOutput, QueueSomeOutput, Goto,
                ReturnError, Fail, hardwareVars, firmwareVars
  <2> QED
    BY <1>0, <2>1 DEF NotDecoding
<1>3. CASE ReconfigureOutput
  <2>1. UNCHANGED started /\ started[OUTPUT_PORT] /\ pc' # "drcReclaim"
    BY <1>0, <1>3
    DEF ReconfigureOutput, Goto, ReturnError, Fail, codecVars, LastInv,
        IdleUntilStarted, StillStartedPc
  <2> QED
    BY <2>1 DEF NotDecoding
<1>4. CASE DrcStopOutput
  <2>1. phase' = phase /\ LastNoted
    BY <1>4 DEF DrcStopOutput, FirmwareStreamOff, hardwareVars, firmwareVars,
                LastNoted
  <2> QED
    BY <1>0, <2>1 DEF LastInv, LastIsLast, OutputQuiet, NotDecoding
<1>5. CASE DrcReclaim \/ DrcFreeBuffers \/ ConfigureOutput \/ AllocateOutput
  <2>1. phase' = phase /\ (pc = "drcReclaim" \/ pc \in StartingPc)
    BY <1>5 DEF DrcReclaim, DrcFreeBuffers, ConfigureOutput, AllocateOutput,
                hardwareVars, firmwareVars, StartingPc
  <2> QED
    BY <1>0, <2>1 DEF LastInv, IdleUntilStarted, NotDecoding
<1>6. CASE StartOutput
  <2>1. started'[OUTPUT_PORT] /\ pc' # "drcReclaim"
    BY <1>6 DEF StartOutput, SetStarted, Goto, ReturnError, Fail, Running,
                SetupPc, LoopPc, LastInv, TypeOK, CodecTypeOK, Port
  <2> QED
    BY <2>1 DEF NotDecoding
<1>7. CASE PollNext \/ DeviceBreaks \/ Finished
  <2>1. UNCHANGED <<phase, started, pc>>
    BY <1>7
    DEF PollNext, PollLoop, OnEventDone, OnError, OnInputDone, OnOutputDone,
        DumpOutput, OnLastForReconfig, OnLastForDrain, DeviceBreaks, Break,
        Finished, vars, hardwareVars, firmwareVars, codecVars, sessionVars
  <2> QED
    BY <1>0, <2>1 DEF NotDecoding
<1>8. CASE DeviceWorks
  <2>1. UNCHANGED <<started, pc>>
    BY <1>8 DEF DeviceWorks, codecVars, sessionVars
  <2>2. phase' \in {"run", "flush"} => phase \in {"run", "flush"}
    BY <1>8
    DEF DeviceWorks, ParseHeader, ConsumeInput, ChangeResolution,
        ProduceFrame, ProduceEmptyLast, StopAfterLast
  <2> QED
    BY <1>0, <2>1, <2>2 DEF NotDecoding
<1>9. CASE \/ StopOutput \/ ReclaimOutput \/ StopInput \/ ReclaimInput
           \/ FreeOutput \/ FreeInput \/ StopPollThread \/ Join
  <2>1. pc' \in TeardownPc
    BY <1>9
    DEF StopOutput, ReclaimOutput, StopInput, ReclaimInput, FreeOutput,
        FreeInput, StopPort, ReclaimPort, FreePort, StopPollThread, Join,
        Goto, TeardownPc
  <2> QED
    BY <2>1 DEF Running, SetupPc, LoopPc, TeardownPc
<1> QED
  BY <1>1, <1>2, <1>3, <1>4, <1>5, <1>6, <1>7, <1>8, <1>9
  DEF Next, SessionNext, QueueBuffersNext, QuietLoop

\* Only handleReconfigEvent clears the flag.
LEMMA FlagKept ==
  ASSUME SessionNext, ~Reconfig
  PROVE  isReconfigEventReceived' <=> isReconfigEventReceived
BY DEF SessionNext, QueueBuffersNext, ConfigureInput, AllocateInput,
       StartInput, StopOutput, ReclaimOutput, StopInput, ReclaimInput,
       FreeOutput, FreeInput, StopPort, ReclaimPort, FreePort, StopPollThread,
       Join, LoopHead, SeekWait, SeekStopInput, SeekReclaim, SeekStartInput,
       ReconfigureOutput, DrcStopOutput, DrcReclaim, DrcFreeBuffers,
       ConfigureOutput, AllocateOutput, StartOutput, QueueOutput,
       PostponedDrain, PostponedStop, DrainWait, InputAvailable, WaitForInput,
       PrepareInput, QueueInput, SetDrain, DrainStop, MarkDrainSent,
       codecVars, isReconfigEventReceived

\* The session's thread takes no event away and starts no resolution change.
LEMMA EventsKept ==
  ASSUME SessionNext
  PROVE  events' = events /\ (phase' = "flush" => phase = "flush")
<1>1. events' = events
  BY DEF SessionNext, QueueBuffersNext, ConfigureInput, AllocateInput,
         StartInput, StopOutput, ReclaimOutput, StopInput, ReclaimInput,
         FreeOutput, FreeInput, StopPort, ReclaimPort, FreePort,
         StopPollThread, Join, LoopHead, SeekWait, SeekStopInput, SeekReclaim,
         SeekStartInput, Reconfig, ReconfigureOutput, DrcStopOutput,
         DrcReclaim, DrcFreeBuffers, ConfigureOutput, AllocateOutput,
         StartOutput, QueueOutput, QueueAllOutput, QueueSomeOutput,
         QueueBuffers, PostponedDrain, PostponedStop, DrainWait,
         InputAvailable, WaitForInput, PrepareInput, QueueInput, SetDrain,
         DrainStop, ReqBufs, StreamOn, StreamOff, hardwareVars, deviceVars
<1>2. phase' = "flush" => phase = "flush"
  BY DEF SessionNext, QueueBuffersNext, ConfigureInput, AllocateInput,
         StartInput, StopOutput, ReclaimOutput, StopInput, ReclaimInput,
         FreeOutput, FreeInput, StopPort, ReclaimPort, FreePort,
         StopPollThread, Join, LoopHead, SeekWait, SeekStopInput, SeekReclaim,
         SeekStartInput, Reconfig, ReconfigureOutput, DrcStopOutput,
         DrcReclaim, DrcFreeBuffers, ConfigureOutput, AllocateOutput,
         StartOutput, QueueOutput, PostponedDrain, PostponedStop, DrainWait,
         InputAvailable, WaitForInput, PrepareInput, QueueInput, SetDrain,
         DrainStop, FirmwareStreamOn, FirmwareStreamOff, FirmwareCmdStart,
         FirmwareCmdStop, hardwareVars, firmwareVars
<1> QED
  BY <1>1, <1>2

\* Every step keeps the event or the flag.
LEMMA RememberedStep ==
  ASSUME RememberedInv, Next
  PROVE  ResolutionChangeRemembered'
<1>0. events \in Nat
  BY DEF RememberedInv, LastInv, TypeOK, DeviceTypeOK
<1>1. CASE SessionNext /\ ~Reconfig
  BY <1>1, FlagKept, EventsKept DEF RememberedInv, ResolutionChangeRemembered
<1>2. CASE Reconfig
  <2>1. /\ Running
        /\ UNCHANGED <<phase, events>>
        /\ \/ UNCHANGED flags
           \/ ~started[OUTPUT_PORT]
           \/ isDrcLastFlagReceived
    BY <1>2 DEF Reconfig, Running, LoopPc, hardwareVars, deviceVars,
                firmwareVars
  <2>2. CASE UNCHANGED flags
    BY <2>1, <2>2 DEF RememberedInv, ResolutionChangeRemembered,
                      isReconfigEventReceived
  <2>3. CASE ~started[OUTPUT_PORT]
    BY <2>1, <2>3
    DEF RememberedInv, NotDecoding, ResolutionChangeRemembered
  <2>4. CASE isDrcLastFlagReceived
    BY <2>1, <2>4
    DEF RememberedInv, LastInv, LastIsLast, LastNoted, OutputQuiet,
        ResolutionChangeRemembered
  <2> QED
    BY <2>1, <2>2, <2>3, <2>4
<1>3. CASE PollNext
  <2>1. phase' = phase
    BY <1>3 DEF PollNext, PollLoop, OnEventDone, OnError, OnInputDone,
                OnOutputDone, DumpOutput, OnLastForReconfig, OnLastForDrain,
                hardwareVars, firmwareVars
  <2>2. CASE OnEventDone
    BY <2>2 DEF OnEventDone, isReconfigEventReceived,
                ResolutionChangeRemembered
  <2>3. CASE ~OnEventDone
    <3>1. events' = events
      BY <1>3, <2>3
      DEF PollNext, PollLoop, PollReady, PollExit, DequeueOutput,
          DequeueInput, DequeueBuffer, DqBuf, OnError, PollError, OnInputDone,
          OnOutputDone, DumpOutput, OnLastForReconfig, OnLastForDrain,
          hardwareVars, deviceVars
    <3>2. isReconfigEventReceived => isReconfigEventReceived'
      BY <1>3, <2>3
      DEF PollNext, PollLoop, OnError, OnInputDone, OnOutputDone, DumpOutput,
          OnLastForReconfig, OnLastForDrain, codecVars,
          isReconfigEventReceived
    <3> QED
      BY <2>1, <3>1, <3>2 DEF RememberedInv, ResolutionChangeRemembered
  <2> QED
    BY <2>2, <2>3
<1>4. CASE DeviceWorks \/ DeviceBreaks
  <2>1. UNCHANGED flags
    BY <1>4 DEF DeviceWorks, DeviceBreaks, codecVars
  <2>2. CASE ChangeResolution
    BY <1>0, <2>2 DEF ChangeResolution, ResolutionChangeRemembered
  <2>3. CASE ParseHeader
    BY <2>3 DEF ParseHeader, ResolutionChangeRemembered
  <2>4. CASE ConsumeInput \/ ProduceFrame \/ ProduceEmptyLast \/ Break
    <3>1. events' = events /\ (phase' = "flush" => phase = "flush")
      BY <2>4 DEF ConsumeInput, ProduceFrame, ProduceEmptyLast, StopAfterLast,
                  Break, firmwareVars
    <3> QED
      BY <2>1, <3>1 DEF RememberedInv, ResolutionChangeRemembered,
                        isReconfigEventReceived
  <2> QED
    BY <1>4, <2>2, <2>3, <2>4 DEF DeviceWorks, DeviceBreaks
<1>5. CASE Finished
  BY <1>5 DEF Finished, vars, hardwareVars, deviceVars, firmwareVars,
              codecVars, RememberedInv, ResolutionChangeRemembered,
              isReconfigEventReceived
<1> QED
  BY <1>1, <1>2, <1>3, <1>4, <1>5 DEF Next

\* A resolution change the device waits for is not forgotten, however its
\* event is timed against handleReconfigEvent, seeks, drains and faults: its
\* event is still to be dequeued or mReconfigEventReceived is set.
THEOREM ChangeRemembered == Spec => []ResolutionChangeRemembered
<1>1. Init /\ LastInv => RememberedInv
  <2> SUFFICES ASSUME Init, LastInv PROVE RememberedInv
    OBVIOUS
  <2>1. phase = "header"
    BY DEF Init, FirmwareInit
  <2> QED
    BY <2>1 DEF RememberedInv, NotDecoding, ResolutionChangeRemembered
<1>2. RememberedInv /\ LastInv' /\ [Next]_vars => RememberedInv'
  <2> SUFFICES ASSUME RememberedInv, LastInv', [Next]_vars
               PROVE  NotDecoding' /\ ResolutionChangeRemembered'
    BY DEF RememberedInv
  <2>1. CASE UNCHANGED vars
    BY <2>1 DEF vars, hardwareVars, deviceVars, firmwareVars, codecVars,
                sessionVars, RememberedInv, NotDecoding, Running,
                ResolutionChangeRemembered, isReconfigEventReceived
  <2>2. CASE Next
    <3>1. Running' => NotDecoding'
      BY <2>2, NotDecodingStep DEF RememberedInv
    <3>2. NotDecoding'
      BY <3>1 DEF NotDecoding
    <3> QED
      BY <2>2, <3>2, RememberedStep
  <2> QED
    BY <2>1, <2>2
<1>3. RememberedInv => ResolutionChangeRemembered
  BY DEF RememberedInv
<1> QED
  BY <1>1, <1>2, <1>3, LastInvAlways, PTL DEF Spec

-----------------------------------------------------------------------------
\* Every step keeps the ownership of the buffers.

\* The poll thread gives a buffer out of its hands or keeps it.
LEMMA HandKept ==
  ASSUME UNCHANGED <<ppc, buffer>> \/ ppc' \notin {"inputDone", "outputDone"}
  PROVE  \A p \in Port : InHand(p)' \subseteq InHand(p)
BY DEF InHand

\* A callback returns, or goes on without the buffer.
LEMMA CallbackEmptiesHand ==
  ASSUME NEW r, CallbackReturns(r)
  PROVE  ppc' \notin {"inputDone", "outputDone"}
BY DEF CallbackReturns, Handle, NextHandler

\* A step that touches neither queues nor lists and takes no buffer in hand.
LEMMA QuietStep ==
  ASSUME OwnershipInv, UNCHANGED <<queued, done, bufs, pendingBufs>>,
         UNCHANGED <<ppc, buffer>> \/ ppc' \notin {"inputDone", "outputDone"},
         Running' => Running,
         pc' = "queueInput" => pc = "queueInput" /\ UNCHANGED input,
         pc' = "reclaimInput" => pc = "reclaimInput",
         pc' = "reclaimOutput" => pc = "reclaimOutput"
  PROVE  Ownership'
<1>1. \A p \in Port : DeviceOwns(p)' = DeviceOwns(p) /\ OwnedOnce(p)'
  BY OwnsUnchanged DEF OwnershipInv, Ownership, Owned
<1>2. \A p \in Port : InHand(p)' \subseteq InHand(p)
  BY HandKept
<1>3. \A p \in Port : OwnedApart(p)'
  BY <1>1, <1>2 DEF OwnershipInv, Ownership, OwnedApart
<1>4. Running' => \A p \in Port : OwnedPending(p)'
  BY <1>1, <1>2 DEF OwnershipInv, Ownership, OwnedPending
<1>5. InputTaken' /\ Stopped'
  BY <1>1, <1>2 DEF OwnershipInv, Ownership, InputTaken, Stopped, Port
<1> QED
  BY <1>1, <1>3, <1>4, <1>5 DEF Ownership

\* The calls, the turns of the loop and the ioctls that move no buffer.
LEMMA QuietSession ==
  ASSUME OwnershipInv,
         \/ ConfigureInput \/ StartInput \/ LoopHead \/ Reconfig
         \/ ReconfigureOutput \/ ConfigureOutput \/ StartOutput
         \/ PostponedDrain \/ PostponedStop \/ DrainWait \/ InputAvailable
         \/ WaitForInput \/ SetDrain \/ DrainStop \/ StopPollThread \/ Join
  PROVE  Ownership'
<1>1. UNCHANGED <<queued, done, bufs, pendingBufs, ppc, buffer>>
  BY DEF ConfigureInput, StartInput, LoopHead, Reconfig, ReconfigureOutput,
         ConfigureOutput, StartOutput, ReqBufs, StreamOn, PostponedDrain,
         PostponedStop, DrainWait, InputAvailable, WaitForInput, SetDrain,
         DrainStop, StopPollThread, RequestExit, Join, hardwareVars,
         deviceVars, driverVars, codecVars, listVars
<1>2. /\ Running \/ pc' \in {"join", "done"}
      /\ pc' \notin {"queueInput", "reclaimInput", "reclaimOutput"}
  BY DEF ConfigureInput, StartInput, LoopHead, Reconfig, ReconfigureOutput,
         ConfigureOutput, StartOutput, PostponedDrain, PostponedStop,
         DrainWait, InputAvailable, WaitForInput, SetDrain, DrainStop,
         StopPollThread, Join, NextFrame, Goto, Fail, Return, ReturnError,
         Running, SetupPc, LoopPc
<1>3. Running' => Running
  BY <1>2 DEF Running, SetupPc, LoopPc
<1> QED
  BY <1>1, <1>2, <1>3, QuietStep

\* The steps of the poll thread that take no buffer and put none back.
LEMMA QuietPoll ==
  ASSUME OwnershipInv,
         UNCHANGED <<queued, done, bufs, pendingBufs, pc, input>>,
         UNCHANGED <<ppc, buffer>> \/ ppc' \notin {"inputDone", "outputDone"}
  PROVE  Ownership'
BY QuietStep DEF Running

\* allocateBuffers: a port that is not allocated owns and lends nothing.
LEMMA AllocateOwnership ==
  ASSUME OwnershipInv, AllocateInput \/ AllocateOutput
  PROVE  Ownership'
<1>1. PICK p \in Port :
        /\ pool[p] = {}
        /\ \E S \in SUBSET BufsOf(p) : AllocateBuffers(p, S)
  <2>1. CASE AllocateInput
    <3>1. pool[INPUT_PORT] = {}
      BY <2>1 DEF AllocateInput, OwnershipInv, ListsInv, AllocatedOnce
    <3>2. \E S \in SUBSET BufsOf(INPUT_PORT) : AllocateBuffers(INPUT_PORT, S)
      BY <2>1 DEF AllocateInput, BufsOf
    <3> QED
      BY <3>1, <3>2 DEF Port
  <2>2. CASE AllocateOutput
    <3>1. pool[OUTPUT_PORT] = {}
      BY <2>2 DEF AllocateOutput, OwnershipInv, ListsInv, AllocatedOnce,
                  Running, LoopPc
    <3>2. \E S \in SUBSET BufsOf(OUTPUT_PORT) : AllocateBuffers(OUTPUT_PORT, S)
      BY <2>2 DEF AllocateOutput, BufsOf, INPUT_PORT, OUTPUT_PORT
    <3> QED
      BY <3>1, <3>2 DEF Port
  <2> QED
    BY <2>1, <2>2
<1>2. /\ UNCHANGED <<queued, done, ppc, buffer, pendingBufs>>
      /\ Running
      /\ pc' \notin {"queueInput", "reclaimInput", "reclaimOutput"}
  BY DEF AllocateInput, AllocateOutput, AllocateBuffers, hardwareVars,
         deviceVars, driverVars, Running, SetupPc, LoopPc, Goto, ReturnError,
         Fail
<1>3. /\ \A q \in Port : DeviceOwns(q)' = DeviceOwns(q) /\ OwnedOnce(q)'
      /\ \A q \in Port : InHand(q)' \subseteq InHand(q)
  BY <1>2, OwnsUnchanged, HandKept DEF OwnershipInv, Ownership, Owned
<1>4. DeviceOwns(p) = {}
  BY <1>1, <1>2
  DEF OwnershipInv, ListsInv, ListsPartition, Ownership, OwnedPending
<1>5. \A q \in Port \ {p} : bufs'[q] = bufs[q]
  BY <1>1 DEF AllocateBuffers, OwnershipInv, ListsInv, TypeOK, CodecTypeOK,
              IsPortBufs
<1>6. \A q \in Port : OwnedApart(q)'
  BY <1>3, <1>4, <1>5 DEF OwnershipInv, Ownership, OwnedApart
<1>7. \A q \in Port : OwnedPending(q)'
  BY <1>2, <1>3 DEF OwnershipInv, Ownership, OwnedPending
<1>8. InputTaken' /\ Stopped'
  BY <1>2 DEF InputTaken, Stopped
<1> QED
  BY <1>3, <1>6, <1>7, <1>8 DEF Ownership

\* queueAvailableOutputBuffers: what was free is queued and pending.
LEMMA QueueAvailableOwnership ==
  ASSUME OwnershipInv, pc = "queueOutput", QueueAllOutput \/ QueueSomeOutput
  PROVE  Ownership'
<1>1. PICK T \in SUBSET bufs[OUTPUT_PORT] : \E S \in SUBSET T :
        TakeBuffers(OUTPUT_PORT, T) /\ QueueBuffers(OUTPUT_PORT, S)
  BY DEF QueueAllOutput, QueueSomeOutput
<1>2. PICK S \in SUBSET T :
        TakeBuffers(OUTPUT_PORT, T) /\ QueueBuffers(OUTPUT_PORT, S)
  BY <1>1
<1>3. /\ Running
      /\ pc' \notin {"queueInput", "reclaimInput", "reclaimOutput"}
  BY DEF QueueAllOutput, QueueSomeOutput, Goto, ReturnError, Fail, Running,
         LoopPc
<1>4. S \cap DeviceOwns(OUTPUT_PORT) = {} /\ S \cap InHand(OUTPUT_PORT) = {}
  BY <1>3
  DEF OwnershipInv, ListsInv, ListsPartition, Ownership, OwnedApart,
      OwnedPending, Port
<1>5. /\ \A q \in Port : OwnedOnce(q)'
      /\ DeviceOwns(OUTPUT_PORT)' = DeviceOwns(OUTPUT_PORT) \cup S
      /\ \A q \in Port \ {OUTPUT_PORT} : DeviceOwns(q)' = DeviceOwns(q)
  BY <1>2, <1>4, QueueOwns
  DEF OwnershipInv, ListsInv, TypeOK, Ownership, Owned, Port
<1>6. \A q \in Port : InHand(q)' \subseteq InHand(q)
  BY <1>2, HandKept DEF QueueBuffers
<1>7. /\ bufs'[OUTPUT_PORT] = bufs[OUTPUT_PORT] \ T
      /\ pendingBufs'[OUTPUT_PORT] = pendingBufs[OUTPUT_PORT] \cup T
      /\ \A q \in Port \ {OUTPUT_PORT} :
            bufs'[q] = bufs[q] /\ pendingBufs'[q] = pendingBufs[q]
  BY <1>2 DEF TakeBuffers, OwnershipInv, ListsInv, TypeOK, CodecTypeOK,
              IsPortBufs, Port
<1>8. \A q \in Port : OwnedApart(q)'
  BY <1>4, <1>5, <1>6, <1>7 DEF OwnershipInv, Ownership, OwnedApart
<1>9. \A q \in Port : OwnedPending(q)'
  BY <1>3, <1>5, <1>6, <1>7 DEF OwnershipInv, Ownership, OwnedPending
<1>10. InputTaken' /\ Stopped'
  BY <1>3 DEF InputTaken, Stopped
<1> QED
  BY <1>5, <1>8, <1>9, <1>10 DEF Ownership

LEMMA QueueOutputOwnership ==
  ASSUME OwnershipInv, QueueOutput
  PROVE  Ownership'
<1>1. Running
  BY DEF QueueOutput, Running, LoopPc
<1>2. CASE /\ UNCHANGED <<deviceVars, driverVars, listVars>>
           /\ pc' \in {"drainWait", "postponedDrain"}
  BY <1>1, <1>2, QuietStep DEF deviceVars, driverVars, listVars
<1>3. CASE pc = "queueOutput" /\ (QueueAllOutput \/ QueueSomeOutput)
  BY <1>3, QueueAvailableOwnership
<1> QED
  BY <1>2, <1>3 DEF QueueOutput, Goto

\* getInputBuffer: a free buffer becomes the loop's own.
LEMMA PrepareInputOwnership ==
  ASSUME OwnershipInv, PrepareInput
  PROVE  Ownership'
<1>1. PICK b \in bufs[INPUT_PORT] :
        /\ TakeBuffers(INPUT_PORT, {b})
        /\ pc' = "queueInput" => input' = b
  BY DEF PrepareInput, NextFrame, Goto, ReturnError, Fail
<1>2. /\ UNCHANGED <<queued, done, ppc, buffer>>
      /\ Running
      /\ pc' \notin {"reclaimInput", "reclaimOutput"}
  BY DEF PrepareInput, NextFrame, Goto, ReturnError, Fail, hardwareVars,
         deviceVars, driverVars, Running, LoopPc
<1>3. /\ \A q \in Port : DeviceOwns(q)' = DeviceOwns(q) /\ OwnedOnce(q)'
      /\ \A q \in Port : InHand(q)' \subseteq InHand(q)
  BY <1>2, OwnsUnchanged, HandKept DEF OwnershipInv, Ownership, Owned
<1>4. /\ bufs'[INPUT_PORT] = bufs[INPUT_PORT] \ {b}
      /\ pendingBufs'[INPUT_PORT] = pendingBufs[INPUT_PORT] \cup {b}
      /\ \A q \in Port \ {INPUT_PORT} :
            bufs'[q] = bufs[q] /\ pendingBufs'[q] = pendingBufs[q]
  BY <1>1 DEF TakeBuffers, OwnershipInv, ListsInv, TypeOK, CodecTypeOK,
              IsPortBufs, Port
<1>5. b \notin DeviceOwns(INPUT_PORT) \cup InHand(INPUT_PORT)
  BY <1>2
  DEF OwnershipInv, ListsInv, ListsPartition, Ownership, OwnedPending, Port
<1>6. \A q \in Port : OwnedApart(q)'
  BY <1>3, <1>4 DEF OwnershipInv, Ownership, OwnedApart
<1>7. \A q \in Port : OwnedPending(q)'
  BY <1>2, <1>3, <1>4 DEF OwnershipInv, Ownership, OwnedPending
<1>8. InputTaken'
  BY <1>1, <1>3, <1>4, <1>5 DEF InputTaken, Port
<1> QED
  BY <1>2, <1>3, <1>6, <1>7, <1>8 DEF Ownership, Stopped

\* The filled buffer is queued, or refused.
LEMMA QueueInputOwnership ==
  ASSUME OwnershipInv, QueueInput
  PROVE  Ownership'
<1>1. /\ UNCHANGED <<bufs, pendingBufs>>
      /\ Running
      /\ pc = "queueInput"
      /\ pc' \notin {"queueInput", "reclaimInput", "reclaimOutput"}
  BY DEF QueueInput, NextFrame, Goto, ReturnError, Fail, codecVars, listVars,
         Running, LoopPc
<1>2. CASE UNCHANGED <<deviceVars, driverVars>>
  BY <1>1, <1>2, QuietStep DEF deviceVars, driverVars
<1>3. CASE QueueBuffers(INPUT_PORT, {input})
  <2>1. {input} \cap DeviceOwns(INPUT_PORT) = {}
    BY <1>1 DEF OwnershipInv, Ownership, InputTaken
  <2>2. /\ \A q \in Port : OwnedOnce(q)'
        /\ DeviceOwns(INPUT_PORT)' = DeviceOwns(INPUT_PORT) \cup {input}
        /\ \A q \in Port \ {INPUT_PORT} : DeviceOwns(q)' = DeviceOwns(q)
    BY <1>3, <2>1, QueueOwns
    DEF OwnershipInv, ListsInv, TypeOK, Ownership, Owned, Port
  <2>3. \A q \in Port : InHand(q)' \subseteq InHand(q)
    BY <1>3, HandKept DEF QueueBuffers
  <2>4. /\ input \in pendingBufs[INPUT_PORT]
        /\ input \notin bufs[INPUT_PORT] \cup InHand(INPUT_PORT)
    BY <1>1
    DEF OwnershipInv, ListsInv, ListsPartition, Ownership, InputTaken, Port
  <2>5. \A q \in Port : OwnedApart(q)'
    BY <1>1, <2>2, <2>3, <2>4 DEF OwnershipInv, Ownership, OwnedApart
  <2>6. \A q \in Port : OwnedPending(q)'
    BY <1>1, <2>2, <2>3, <2>4 DEF OwnershipInv, Ownership, OwnedPending
  <2> QED
    BY <1>1, <2>2, <2>5, <2>6 DEF Ownership, InputTaken, Stopped
<1> QED
  BY <1>2, <1>3 DEF QueueInput

\* VIDIOC_STREAMOFF, when it succeeds: the loop's or the teardown's.
LEMMA StopOwnership ==
  ASSUME OwnershipInv, StopInput \/ StopOutput \/ DrcStopOutput
  PROVE  Ownership'
<1>1. /\ UNCHANGED <<bufs, pendingBufs, ppc, buffer>>
      /\ Running' => Running
      /\ pc' # "queueInput"
  BY DEF StopInput, StopOutput, StopPort, DrcStopOutput, Goto, ReturnError,
         Fail, codecVars, listVars, driverVars, Running, SetupPc, LoopPc
<1>2. CASE /\ UNCHANGED hardwareVars
           /\ pc' \notin {"reclaimInput", "reclaimOutput"}
  BY <1>1, <1>2, QuietStep DEF hardwareVars, deviceVars
<1>3. CASE \E p \in Port :
             /\ StreamOff(p)
             /\ pc' = "reclaimInput" => p = INPUT_PORT
             /\ pc' = "reclaimOutput" => p = OUTPUT_PORT
  <2>1. PICK p \in Port :
             /\ StreamOff(p)
             /\ pc' = "reclaimInput" => p = INPUT_PORT
             /\ pc' = "reclaimOutput" => p = OUTPUT_PORT
    BY <1>3
  <2>2. /\ \A q \in Port : OwnedOnce(q)'
        /\ DeviceOwns(p)' = {}
        /\ \A q \in Port \ {p} : DeviceOwns(q)' = DeviceOwns(q)
    BY <2>1, StreamOffOwns DEF OwnershipInv, ListsInv, TypeOK, Ownership, Owned
  <2>3. \A q \in Port : InHand(q)' \subseteq InHand(q)
    BY <1>1, HandKept
  <2>4. \A q \in Port : OwnedApart(q)'
    BY <1>1, <2>2, <2>3 DEF OwnershipInv, Ownership, OwnedApart
  <2>5. Running' => \A q \in Port : OwnedPending(q)'
    BY <1>1, <2>2, <2>3 DEF OwnershipInv, Ownership, OwnedPending
  <2>6. InputTaken' /\ Stopped'
    BY <1>1, <2>1, <2>2 DEF InputTaken, Stopped
  <2> QED
    BY <2>2, <2>4, <2>5, <2>6 DEF Ownership
<1> QED
  BY <1>2, <1>3
  DEF StopInput, StopOutput, StopPort, DrcStopOutput, Goto, ReturnError, Fail,
      Port

\* drcReclaim and drcFreeBuffers: OUTPUT_PORT is idle while its lists are
\* rebuilt (LastInv), so neither the device nor the callback has a buffer.
LEMMA RebuildOwnership ==
  ASSUME OwnershipInv, DrcReclaim \/ DrcFreeBuffers
  PROVE  Ownership'
<1>1. /\ UNCHANGED <<queued, done, ppc, buffer>>
      /\ Running
      /\ pc' \notin {"queueInput", "reclaimInput", "reclaimOutput"}
  BY DEF DrcReclaim, DrcFreeBuffers, ReqBufs, Goto, hardwareVars, deviceVars,
         driverVars, Running, LoopPc
<1>2. OutputIdle
  BY <1>1
  DEF DrcReclaim, DrcFreeBuffers, OwnershipInv, LastInv, IdleUntilStarted,
      StartingPc
<1>3. DeviceOwns(OUTPUT_PORT) = {} /\ InHand(OUTPUT_PORT) = {}
  BY <1>2 DEF OutputIdle, HandlingOutput, InHand, INPUT_PORT, OUTPUT_PORT
<1>4. /\ \A q \in Port : DeviceOwns(q)' = DeviceOwns(q) /\ OwnedOnce(q)'
      /\ \A q \in Port : InHand(q)' \subseteq InHand(q)
  BY <1>1, OwnsUnchanged, HandKept DEF OwnershipInv, Ownership, Owned
<1>5. \A q \in Port \ {OUTPUT_PORT} :
         bufs'[q] = bufs[q] /\ pendingBufs'[q] = pendingBufs[q]
  BY DEF DrcReclaim, DrcFreeBuffers, ReclaimPending, ClearLists, OwnershipInv,
         ListsInv, TypeOK, CodecTypeOK, IsPortBufs
<1>6. \A q \in Port : OwnedApart(q)'
  BY <1>3, <1>4, <1>5 DEF OwnershipInv, Ownership, OwnedApart
<1>7. \A q \in Port : OwnedPending(q)'
  BY <1>1, <1>3, <1>4, <1>5 DEF OwnershipInv, Ownership, OwnedPending
<1> QED
  BY <1>1, <1>4, <1>6, <1>7 DEF Ownership, InputTaken, Stopped

\* The lists of a stopped port are reclaimed and freed.
LEMMA ReclaimOwnership ==
  ASSUME OwnershipInv,
         ReclaimInput \/ ReclaimOutput \/ FreeInput \/ FreeOutput
  PROVE  Ownership'
<1>1. /\ UNCHANGED <<queued, done, ppc, buffer>>
      /\ ~Running'
      /\ pc' \notin {"queueInput", "reclaimInput", "reclaimOutput"}
  BY DEF ReclaimInput, ReclaimOutput, ReclaimPort, FreeInput, FreeOutput,
         FreePort, ReqBufs, Goto, hardwareVars, deviceVars, driverVars,
         Running, SetupPc, LoopPc
<1>2. /\ \A q \in Port : DeviceOwns(q)' = DeviceOwns(q) /\ OwnedOnce(q)'
      /\ \A q \in Port : InHand(q)' \subseteq InHand(q)
  BY <1>1, OwnsUnchanged, HandKept DEF OwnershipInv, Ownership, Owned
<1>3. PICK p \in Port : \/ ReclaimPending(p) /\ DeviceOwns(p) = {}
                        \/ ClearLists(p)
  BY DEF ReclaimInput, ReclaimOutput, ReclaimPort, FreeInput, FreeOutput,
         FreePort, Port, OwnershipInv, Ownership, Stopped
<1>4. /\ bufs'[p] = {} \/ DeviceOwns(p) = {}
      /\ \A q \in Port \ {p} : bufs'[q] = bufs[q]
  BY <1>3 DEF ReclaimPending, ClearLists, OwnershipInv, ListsInv, TypeOK,
              CodecTypeOK, IsPortBufs
<1>5. \A q \in Port : OwnedApart(q)'
  BY <1>2, <1>4 DEF OwnershipInv, Ownership, OwnedApart
<1> QED
  BY <1>1, <1>2, <1>5 DEF Ownership, InputTaken, Stopped

\* VIDIOC_DQBUF: the buffer passes from the device into the thread's hands.
LEMMA DequeueOwnership ==
  ASSUME OwnershipInv, UNCHANGED <<pc, input, bufs, pendingBufs>>,
         NEW p \in Port, DqBuf(p), buffer' = Head(done[p]),
         ppc' = IF p = INPUT_PORT THEN "inputDone" ELSE "outputDone"
  PROVE  Ownership'
<1> DEFINE h == Head(done[p]).buf
<1>1. /\ \A q \in Port : OwnedOnce(q)'
      /\ DeviceOwns(p)' = DeviceOwns(p) \ {h}
      /\ h \in DeviceOwns(p)
      /\ \A q \in Port \ {p} : DeviceOwns(q)' = DeviceOwns(q)
  BY DqBufOwns DEF OwnershipInv, ListsInv, TypeOK, Ownership, Owned
<1>2. /\ InHand(p)' = {h}
      /\ \A q \in Port \ {p} : InHand(q)' = {}
  BY DEF InHand, Port, INPUT_PORT, OUTPUT_PORT
<1> HIDE DEF h
<1>3. \A q \in Port : OwnedApart(q)'
  BY <1>1, <1>2 DEF OwnershipInv, Ownership, OwnedApart
<1>4. Running' => \A q \in Port : OwnedPending(q)'
  BY <1>1, <1>2 DEF OwnershipInv, Ownership, OwnedPending, Running
<1>5. InputTaken'
  <2>1. DeviceOwns(INPUT_PORT)' \cup InHand(INPUT_PORT)'
          \subseteq DeviceOwns(INPUT_PORT)
    BY <1>1, <1>2 DEF Port
  <2> QED
    BY <2>1 DEF OwnershipInv, Ownership, InputTaken
<1>6. Stopped'
  BY <1>1 DEF OwnershipInv, Ownership, Stopped, Port
<1> QED
  BY <1>1, <1>3, <1>4, <1>5, <1>6 DEF Ownership

\* A callback puts the buffer in hand back on the free list.
LEMMA PutOwnership ==
  ASSUME OwnershipInv,
         UNCHANGED <<queued, done, pc, input>>,
         NEW p \in Port, InHand(p) = {buffer.buf}, PutBuffer(p, buffer.buf),
         ppc' \notin {"inputDone", "outputDone"}
  PROVE  Ownership'
<1> DEFINE b == buffer.buf
<1>1. \A q \in Port : DeviceOwns(q)' = DeviceOwns(q) /\ OwnedOnce(q)'
  BY OwnsUnchanged DEF OwnershipInv, Ownership, Owned
<1>2. \A q \in Port : InHand(q)' = {}
  BY DEF InHand
<1>3. /\ bufs'[p] = bufs[p] \cup {b}
      /\ pendingBufs'[p] = pendingBufs[p] \ {b}
      /\ \A q \in Port \ {p} :
            bufs'[q] = bufs[q] /\ pendingBufs'[q] = pendingBufs[q]
  BY DEF PutBuffer, OwnershipInv, ListsInv, TypeOK, CodecTypeOK, IsPortBufs
<1>4. b \in InHand(p)
  OBVIOUS
<1> HIDE DEF b
<1>5. \A q \in Port : OwnedApart(q)'
  BY <1>1, <1>2, <1>3, <1>4 DEF OwnershipInv, Ownership, OwnedApart
<1>6. Running' => \A q \in Port : OwnedPending(q)'
  <2>1. b \notin DeviceOwns(p)
    BY <1>4 DEF OwnershipInv, Ownership, OwnedApart
  <2> QED
    BY <1>1, <1>2, <1>3, <2>1
    DEF OwnershipInv, Ownership, OwnedPending, Running
<1>7. InputTaken'
  BY <1>1, <1>2, <1>3, <1>4 DEF OwnershipInv, Ownership, InputTaken, Port
<1>8. Stopped'
  BY <1>1 DEF OwnershipInv, Ownership, Stopped, Port
<1> QED
  BY <1>1, <1>5, <1>6, <1>7, <1>8 DEF Ownership

\* The device finishes with a buffer.
LEMMA DeviceOwnership ==
  ASSUME OwnershipInv, DeviceWorks
  PROVE  Ownership'
<1>1. UNCHANGED <<ppc, buffer, pc, input, bufs, pendingBufs>>
  BY DEF DeviceWorks, driverVars, codecVars, listVars, sessionVars, loopVars
<1>2. \/ UNCHANGED <<queued, done>>
      \/ \E p \in Port : \E b \in queued[p], frame, last \in BOOLEAN :
            Complete(p, b, frame, last)
  BY DEF DeviceWorks, ParseHeader, ChangeResolution, ConsumeInput,
         ProduceFrame, ProduceEmptyLast, Port
<1>3. \A q \in Port : DeviceOwns(q)' = DeviceOwns(q) /\ OwnedOnce(q)'
  BY <1>2, OwnsUnchanged, CompleteOwns
  DEF OwnershipInv, ListsInv, TypeOK, Ownership, Owned
<1>4. \A q \in Port : InHand(q)' \subseteq InHand(q)
  BY <1>1, HandKept
<1>5. \A q \in Port : OwnedApart(q)'
  BY <1>1, <1>3, <1>4 DEF OwnershipInv, Ownership, OwnedApart
<1>6. Running' => \A q \in Port : OwnedPending(q)'
  BY <1>1, <1>3, <1>4 DEF OwnershipInv, Ownership, OwnedPending, Running
<1>7. InputTaken' /\ Stopped'
  BY <1>1, <1>3, <1>4 DEF OwnershipInv, Ownership, InputTaken, Stopped, Port
<1> QED
  BY <1>3, <1>5, <1>6, <1>7 DEF Ownership

-----------------------------------------------------------------------------
\* OwnershipInv is inductive.

\* Without seeks there is no command to find at the head of the loop.
LEMMA NeverSeeks ==
  ASSUME SeekCmds = {}, TypeOK, pc \notin SeekPc, Next
  PROVE  pc' \notin SeekPc
<1>1. CASE SessionNext
  <2>1. CASE \/ StopOutput \/ ReclaimOutput \/ StopInput \/ ReclaimInput
             \/ FreeOutput \/ FreeInput \/ StopPollThread \/ Join
    BY <2>1
    DEF StopOutput, ReclaimOutput, StopInput, ReclaimInput, FreeOutput,
        FreeInput, StopPort, ReclaimPort, FreePort, StopPollThread, Join,
        Goto, SeekPc
  <2>2. CASE ConfigureInput \/ AllocateInput \/ StartInput
    BY <2>2
    DEF ConfigureInput, AllocateInput, StartInput, Goto, Fail, SeekPc
  <2>3. CASE LoopHead
    <3>1. SeekHere = {}
      BY DEF SeekHere, TypeOK, DecoderTypeOK
    <3> QED
      BY <2>3, <3>1 DEF LoopHead, Goto, Return, SeekPc
  <2>4. CASE SeekWait \/ SeekStopInput \/ SeekReclaim \/ SeekStartInput
    BY <2>4 DEF SeekWait, SeekStopInput, SeekReclaim, SeekStartInput, SeekPc
  <2>5. CASE \/ Reconfig \/ ReconfigureOutput \/ DrcStopOutput \/ DrcReclaim
             \/ DrcFreeBuffers \/ ConfigureOutput \/ AllocateOutput
             \/ StartOutput
    BY <2>5
    DEF Reconfig, ReconfigureOutput, DrcStopOutput, DrcReclaim,
        DrcFreeBuffers, ConfigureOutput, AllocateOutput, StartOutput, Goto,
        ReturnError, Fail, SeekPc
  <2>6. CASE \/ QueueOutput \/ PostponedDrain \/ PostponedStop \/ DrainWait
             \/ InputAvailable \/ WaitForInput \/ PrepareInput \/ QueueInput
             \/ SetDrain \/ DrainStop
    BY <2>6
    DEF QueueOutput, QueueAllOutput, QueueSomeOutput, PostponedDrain,
        PostponedStop, DrainWait, InputAvailable, WaitForInput, PrepareInput,
        QueueInput, SetDrain, DrainStop, NextFrame, Goto, Return, ReturnError,
        Fail, SeekPc
  <2> QED
    BY <1>1, <2>1, <2>2, <2>3, <2>4, <2>5, <2>6
    DEF SessionNext, QueueBuffersNext
<1>2. CASE PollNext \/ DeviceWorks \/ DeviceBreaks \/ Finished
  BY <1>2
  DEF PollNext, PollLoop, OnEventDone, OnError, OnInputDone, OnOutputDone,
      DumpOutput, OnLastForReconfig, OnLastForDrain, DeviceWorks,
      DeviceBreaks, Finished, vars, sessionVars
<1> QED
  BY <1>1, <1>2 DEF Next

\* Every step keeps it.
LEMMA OwnershipStep ==
  ASSUME OwnershipInv, Next
  PROVE  Ownership'
<1>1. CASE \/ ConfigureInput \/ StartInput \/ LoopHead \/ Reconfig
           \/ ReconfigureOutput \/ ConfigureOutput \/ StartOutput
           \/ PostponedDrain \/ PostponedStop \/ DrainWait \/ InputAvailable
           \/ WaitForInput \/ SetDrain \/ DrainStop \/ StopPollThread \/ Join
  BY <1>1, QuietSession
<1>2. CASE \/ AllocateOutput \/ AllocateInput \/ QueueOutput \/ PrepareInput
           \/ QueueInput \/ StopInput \/ StopOutput \/ DrcStopOutput
           \/ DrcReclaim \/ DrcFreeBuffers \/ ReclaimInput \/ ReclaimOutput
           \/ FreeInput \/ FreeOutput
  BY <1>2, AllocateOwnership, QueueOutputOwnership, PrepareInputOwnership,
     QueueInputOwnership, StopOwnership, RebuildOwnership, ReclaimOwnership
<1>3. CASE PollLoop
  <2>1. UNCHANGED <<pc, input, bufs, pendingBufs>>
    BY <1>3 DEF PollLoop, codecVars, listVars, sessionVars, loopVars
  <2>2. CASE PollReady \/ PollExit
    <3>1. /\ UNCHANGED <<queued, done>>
          /\ ppc' \notin {"inputDone", "outputDone"}
      BY <2>2 DEF PollReady, PollExit, Handle, NextHandler, deviceVars
    <3> QED
      BY <2>1, <3>1, QuietPoll
  <2>3. CASE DequeueOutput \/ DequeueInput
    <3>1. CASE /\ UNCHANGED <<queued, done>>
               /\ ppc' \notin {"inputDone", "outputDone"}
      BY <2>1, <3>1, QuietPoll
    <3>2. CASE \E p \in Port :
                 /\ DqBuf(p)
                 /\ buffer' = Head(done[p])
                 /\ ppc' = IF p = INPUT_PORT THEN "inputDone" ELSE "outputDone"
      BY <2>1, <3>2, DequeueOwnership
    <3> QED
      BY <2>3, <3>1, <3>2
      DEF DequeueOutput, DequeueInput, DequeueBuffer, Handle, NextHandler,
          deviceVars, Port, INPUT_PORT, OUTPUT_PORT
  <2> QED
    BY <1>3, <2>2, <2>3 DEF PollLoop
<1>4. CASE OnInputDone \/ OnOutputDone
  <2>1. /\ UNCHANGED <<queued, done, pc, input>>
        /\ ppc' \notin {"inputDone", "outputDone"}
    BY <1>4, CallbackEmptiesHand
    DEF OnInputDone, OnOutputDone, hardwareVars, deviceVars, sessionVars,
        loopVars
  <2>2. CASE UNCHANGED listVars
    BY <2>1, <2>2, QuietPoll DEF listVars
  <2>3. CASE \E p \in Port :
               InHand(p) = {buffer.buf} /\ PutBuffer(p, buffer.buf)
    BY <2>1, <2>3, PutOwnership
  <2> QED
    BY <1>4, <2>2, <2>3
    DEF OnInputDone, OnOutputDone, InHand, Port, INPUT_PORT, OUTPUT_PORT
<1>5. CASE \/ OnEventDone \/ OnError \/ DumpOutput \/ OnLastForReconfig
           \/ OnLastForDrain \/ DeviceBreaks \/ Finished
  <2>1. UNCHANGED <<queued, done, bufs, pendingBufs, pc, input>>
    BY <1>5
    DEF OnEventDone, DequeueEvent, OnError, PollError, DumpOutput,
        OnLastForReconfig, OnLastForDrain, DeviceBreaks, Break, Finished,
        hardwareVars, deviceVars, codecVars, listVars, sessionVars, loopVars,
        vars
  <2>2. UNCHANGED <<ppc, buffer>> \/ ppc' \notin {"inputDone", "outputDone"}
    BY <1>5, CallbackEmptiesHand
    DEF OnEventDone, DequeueEvent, Handle, NextHandler, OnError, PollError,
        DumpOutput, OnLastForReconfig, OnLastForDrain, DeviceBreaks, Finished,
        driverVars, vars
  <2> QED
    BY <2>1, <2>2, QuietPoll
<1>6. CASE DeviceWorks
  BY <1>6, DeviceOwnership
<1>7. CASE SeekWait \/ SeekStopInput \/ SeekReclaim \/ SeekStartInput
  BY <1>7
  DEF SeekWait, SeekStopInput, SeekReclaim, SeekStartInput, SeekPc,
      OwnershipInv
<1> QED
  BY <1>1, <1>2, <1>3, <1>4, <1>5, <1>6, <1>7
  DEF Next, SessionNext, QueueBuffersNext, PollNext

\* It holds before the first call and always.
LEMMA OwnershipAlways ==
  ASSUME SeekCmds = {}
  PROVE  Spec => []OwnershipInv
<1>1. Init /\ LastInv => OwnershipInv
  <2> SUFFICES ASSUME Init, LastInv PROVE OwnershipInv
    OBVIOUS
  <2>1. ListsInv
    BY ListsInvInit
  <2>2. \A p \in Port : DeviceOwns(p) = {} /\ InHand(p) = {} /\ OwnedOnce(p)
    BY DEF Init, DeviceInit, DriverInit, DeviceOwns, DoneBufs, InHand,
           OwnedOnce
  <2>3. pc = "configureInput"
    BY DEF Init, DecoderInit
  <2>4. \A p \in Port : OwnedApart(p) /\ OwnedPending(p)
    BY <2>2 DEF OwnedApart, OwnedPending
  <2> QED
    BY <2>1, <2>2, <2>3, <2>4
    DEF OwnershipInv, Ownership, InputTaken, Stopped, SeekPc
<1>2. OwnershipInv /\ LastInv' /\ [Next]_vars => OwnershipInv'
  <2> SUFFICES ASSUME OwnershipInv, LastInv', [Next]_vars PROVE OwnershipInv'
    OBVIOUS
  <2>1. ListsInv'
    BY ListsInvStep DEF OwnershipInv
  <2>2. CASE UNCHANGED vars
    <3>1. /\ UNCHANGED <<queued, done, bufs, pendingBufs, pc, input>>
          /\ UNCHANGED <<ppc, buffer>>
      BY <2>2 DEF vars, hardwareVars, deviceVars, driverVars, codecVars,
                  listVars, sessionVars, loopVars
    <3>2. pc' \notin SeekPc
      BY <3>1 DEF OwnershipInv, SeekPc
    <3> QED
      BY <2>1, <3>1, <3>2, QuietPoll DEF OwnershipInv
  <2>3. CASE Next
    <3>1. pc' \notin SeekPc
      BY <2>3, NeverSeeks DEF OwnershipInv, ListsInv
    <3> QED
      BY <2>1, <2>3, <3>1, OwnershipStep DEF OwnershipInv
  <2> QED
    BY <2>2, <2>3
<1> QED
  BY <1>1, <1>2, LastInvAlways, PTL DEF Spec

\* Without seeks a buffer the device owns is never on a free list, and the one
\* the loop is about to queue is not in the device: whatever fails, wherever
\* the resolution changes and wherever the callbacks run between two steps of
\* queueBuffers, of reconfigureOutput or of the teardown.
THEOREM OwnershipCorrect ==
  ASSUME SeekCmds = {}
  PROVE  Spec => []DeviceBuffersNotFree
<1>1. OwnershipInv => DeviceBuffersNotFree
  BY DEF OwnershipInv, Ownership, OwnedApart, InputTaken, DeviceBuffersNotFree
<1> QED
  BY <1>1, OwnershipAlways, PTL
=============================================================================
