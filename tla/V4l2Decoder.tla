----------------------------- MODULE V4l2Decoder -----------------------------
(***************************************************************************)
(* V4l2Decoder (src/V4l2Decoder.cpp): the loop of queueBuffers, which the  *)
(* session's thread runs, and the callbacks of V4l2DecoderCB, which the    *)
(* poll thread runs.                                                       *)
(*                                                                         *)
(* A step of either thread is one ioctl, one section under a port's lock   *)
(* or one access to the flags the two threads share.  Control state "pc"   *)
(* is the place in queueBuffers; its names are those of the functions and  *)
(* lambdas there.  usleep() and the time a retry takes are abstracted      *)
(* away: a wait that may run out in the code may run out at any moment.    *)
(*                                                                         *)
(* A packet of the stream is a frame to decode, and what it holds does not *)
(* matter: fillPacketData either delivers the next one or reports the end. *)
(* Of the dynamic commands IDRSeek is modelled; PauseUSec only delays.     *)
(***************************************************************************)
EXTENDS V4l2Codec, DecoderFirmware

CONSTANTS
    StreamLen,       \* frames in the stream
    MaxFrameCnt,     \* queueBuffers' argument, NumFrames of the test case
    MinInputCount,   \* mMinInputCount
    MinOutputCount,  \* mMinOutputCount
    MaxRetry,        \* waits for an input buffer before -ETIMEDOUT, 100 there
    SeekCmds         \* the IDRSeek commands: records [fnum, to]

\* configureInput and configureOutput raise the number of buffers to the
\* minimum the device asks for.
ASSUME DecoderAssumption ==
    /\ StreamLen \in Nat /\ MaxFrameCnt \in Nat /\ MaxRetry \in Nat
    /\ MinInputCount \in Nat \ {0} /\ MinInputCount <= Cardinality(InBuf)
    /\ MinOutputCount \in Nat \ {0} /\ MinOutputCount <= Cardinality(OutBuf)
    /\ SeekCmds \subseteq [fnum : Nat, to : Nat]
    /\ \A c, d \in SeekCmds : c.fnum = d.fnum => c = d

VARIABLES
    pc,                \* where the session's thread is
    ret,               \* what the calls so far have returned, OR-ed together
    frameCounter, retry_count,
    input,             \* the buffer prepareAndQueueInputBuffer works on
    streamPos,         \* the parser's position: the next frame
    mDynamicCommands,  \* the seeks not done yet
    fed,               \* history: frames queued on INPUT_PORT
    delivered          \* history: frames handed to the output dump

loopVars == <<frameCounter, retry_count, input, streamPos, mDynamicCommands>>
historyVars == <<fed, delivered>>
progressVars == <<loopVars, historyVars>>
sessionVars == <<pc, ret, loopVars>>
hardwareVars == <<deviceVars, firmwareVars>>

SetupPc == {"configureInput", "allocateInput", "startInput"}
LoopPc == {"loop", "seek", "seekStopInput", "seekReclaim", "seekStartInput",
           "reconfig", "reconfigureOutput", "drcStopOutput", "drcReclaim",
           "drcFreeBuffers", "configureOutput", "allocateOutput",
           "startOutput", "queueOutput", "postponedDrain", "postponedStop",
           "drainWait", "inputAvailable", "waitForInput", "prepareInput",
           "queueInput", "setDrain", "drainStop"}
TeardownPc == {"returned", "reclaimOutput", "stopInput", "reclaimInput",
               "freeOutput", "freeInput", "stopPollThread", "join", "done"}

Ret == {"OK", "EINVAL", "ENOMEM", "ETIMEDOUT"}

DecoderTypeOK ==
    /\ pc \in SetupPc \cup LoopPc \cup TeardownPc
    /\ ret \in Ret
    /\ frameCounter \in Nat
    /\ retry_count \in Nat
    /\ input \in InBuf \cup {None}
    /\ streamPos \in Nat
    /\ mDynamicCommands \subseteq SeekCmds
    /\ fed \in Nat
    /\ delivered \in Nat

DecoderInit ==
    /\ pc = "configureInput"
    /\ ret = "OK"
    /\ frameCounter = 0
    /\ retry_count = 0
    /\ input = None
    /\ streamPos = 0
    /\ mDynamicCommands = SeekCmds
    /\ fed = 0
    /\ delivered = 0

\* The thread goes on at l, with r OR-ed to ret.
Goto(l) == pc' = l /\ UNCHANGED ret
Fail(l, r) == pc' = l /\ ret' = r

\* queueBuffers returns.
Return == Goto("returned")
ReturnError(r) == Fail("returned", r)

-----------------------------------------------------------------------------
\* The head of the loop: the error flag, then the dynamic commands.

SeekHere == {c \in mDynamicCommands : c.fnum = frameCounter}

LoopHead ==
    /\ pc = "loop"
    /\ \/ isErrorReceived /\ Return
       \/ ~isErrorReceived /\ SeekHere # {} /\ Goto("seek")
       \/ ~isErrorReceived /\ SeekHere = {} /\ Goto("reconfig")
    /\ UNCHANGED <<hardwareVars, driverVars, codecVars, progressVars>>

-----------------------------------------------------------------------------
\* handleSeekIfNeeded and handleSeek.  The command is spent and frameCounter
\* moves whatever handleSeek returns; the parser moves only if all goes well.

\* waitForCondition(10, 5, isFirstReconfigReceived)
SeekWait ==
    /\ pc = "seek"
    /\ \/ isFirstReconfigReceived /\ Goto("seekStopInput")
       \/ ~isFirstReconfigReceived /\ ReturnError("EINVAL")
    /\ UNCHANGED <<hardwareVars, driverVars, codecVars, progressVars>>

\* Mutant: frameCounter is one short.
SeekOneShort(moved) ==
    /\ Goto("reconfig")
    /\ \E c \in SeekHere :
        /\ frameCounter' = c.to - 1
        /\ streamPos' = IF moved THEN c.to ELSE streamPos
        /\ mDynamicCommands' = mDynamicCommands \ {c}
    /\ UNCHANGED <<retry_count, input>>

SeekDone(moved) ==
    /\ Goto("reconfig")
    /\ \E c \in SeekHere :
        /\ frameCounter' = c.to
        /\ streamPos' = IF moved THEN c.to ELSE streamPos
        /\ mDynamicCommands' = mDynamicCommands \ {c}
    /\ UNCHANGED <<retry_count, input>>

\* stopInput: VIDIOC_STREAMOFF ...
SeekStopInput ==
    /\ pc = "seekStopInput"
    /\ \/ /\ StreamOff(INPUT_PORT)
          /\ FirmwareStreamOff(INPUT_PORT)
          /\ Goto("seekReclaim")
          /\ UNCHANGED loopVars
       \/ /\ Faults
          /\ SeekDone(FALSE)
          /\ UNCHANGED hardwareVars
    /\ UNCHANGED <<driverVars, codecVars, historyVars>>

\* ... and then, under the lock, the pending buffers.
SeekReclaim ==
    /\ pc = "seekReclaim"
    /\ ReclaimPending(INPUT_PORT)
    /\ SetStarted(INPUT_PORT, FALSE)
    /\ Goto("seekStartInput")
    /\ UNCHANGED <<hardwareVars, driverVars, flags, progressVars>>

\* startInput and seekToFrame.
SeekStartInput ==
    /\ pc = "seekStartInput"
    /\ \/ /\ CanStreamOn(INPUT_PORT)
          /\ StreamOn(INPUT_PORT)
          /\ FirmwareStreamOn(INPUT_PORT)
          /\ SetStarted(INPUT_PORT, TRUE)
          /\ \/ SeekDone(TRUE)
             \/ Faults /\ SeekDone(FALSE)
       \/ /\ MayFail(CanStreamOn(INPUT_PORT))
          /\ SeekDone(FALSE)
          /\ UNCHANGED <<hardwareVars, started>>
    /\ UNCHANGED <<driverVars, listVars, flags, historyVars>>

-----------------------------------------------------------------------------
\* handleReconfigEvent and reconfigureOutput.

\* The one step that reads and clears several flags.  The poll thread only
\* sets them, so one that was read as true is still true when it is cleared;
\* and between the two clears it has nothing to set, as with the LAST buffer
\* noted the device has stopped: no event and no LAST buffer is on its way.
Reconfig ==
    /\ pc = "reconfig"
    /\ \/ /\ ~isReconfigEventReceived
          /\ Goto("queueOutput")
          /\ UNCHANGED flags
       \/ /\ isReconfigEventReceived /\ ~started[OUTPUT_PORT]
          /\ flags' = flags \ {"mReconfigEventReceived"}
          /\ Goto("configureOutput")
       \/ /\ isReconfigEventReceived /\ started[OUTPUT_PORT]
          /\ ~isDrcLastFlagReceived
          /\ Goto("queueOutput")
          /\ UNCHANGED flags
       \/ /\ isReconfigEventReceived /\ started[OUTPUT_PORT]
          /\ isDrcLastFlagReceived
          /\ flags' = flags \ {"mReconfigEventReceived",
                               "mDrcLastFlagReceived"}
          /\ Goto("reconfigureOutput")
    /\ UNCHANGED <<hardwareVars, driverVars, listVars, started, progressVars>>

\* The new format either fits the buffers, and the decoder is told to go on,
\* or OUTPUT_PORT is stopped, freed, configured, allocated and started again.
ReconfigureOutput ==
    /\ pc = "reconfigureOutput"
    /\ \/ FirmwareCmdStart /\ Goto("queueOutput")
       \/ Goto("drcStopOutput") /\ UNCHANGED firmwareVars
       \/ Faults /\ ReturnError("EINVAL") /\ UNCHANGED firmwareVars
    /\ UNCHANGED <<deviceVars, driverVars, codecVars, progressVars>>

DrcStopOutput ==
    /\ pc = "drcStopOutput"
    /\ \/ /\ StreamOff(OUTPUT_PORT)
          /\ FirmwareStreamOff(OUTPUT_PORT)
          /\ Goto("drcReclaim")
       \/ /\ Faults
          /\ ReturnError("EINVAL")
          /\ UNCHANGED hardwareVars
    /\ UNCHANGED <<driverVars, codecVars, progressVars>>

DrcReclaim ==
    /\ pc = "drcReclaim"
    /\ ReclaimPending(OUTPUT_PORT)
    /\ SetStarted(OUTPUT_PORT, FALSE)
    /\ Goto("drcFreeBuffers")
    /\ UNCHANGED <<hardwareVars, driverVars, flags, progressVars>>

\* reconfigureOutput does not look at what freeBuffers returns.
DrcFreeBuffers ==
    /\ pc = "drcFreeBuffers"
    /\ ClearLists(OUTPUT_PORT)
    /\ \/ CanReqBufs(OUTPUT_PORT) /\ ReqBufs(OUTPUT_PORT, FALSE)
       \/ MayFail(CanReqBufs(OUTPUT_PORT)) /\ UNCHANGED deviceVars
    /\ Goto("configureOutput")
    /\ UNCHANGED <<firmwareVars, driverVars, started, flags, progressVars>>

ConfigureOutput ==
    /\ pc = "configureOutput"
    /\ \/ /\ CanReqBufs(OUTPUT_PORT)
          /\ ReqBufs(OUTPUT_PORT, TRUE)
          /\ Goto("allocateOutput")
       \/ /\ MayFail(CanReqBufs(OUTPUT_PORT))
          /\ ReturnError("EINVAL")
          /\ UNCHANGED deviceVars
    /\ UNCHANGED <<firmwareVars, driverVars, codecVars, progressVars>>

AllocateOutput ==
    /\ pc = "allocateOutput"
    /\ \/ AllocateBuffers(OUTPUT_PORT, OutBuf) /\ Goto("startOutput")
       \/ /\ Faults
          /\ \E S \in SUBSET OutBuf : AllocateBuffers(OUTPUT_PORT, S)
          /\ ReturnError("EINVAL")
    /\ UNCHANGED <<hardwareVars, driverVars, started, flags, progressVars>>

StartOutput ==
    /\ pc = "startOutput"
    /\ \/ /\ CanStreamOn(OUTPUT_PORT)
          /\ StreamOn(OUTPUT_PORT)
          /\ FirmwareStreamOn(OUTPUT_PORT)
          /\ SetStarted(OUTPUT_PORT, TRUE)
          /\ Goto("queueOutput")
       \/ /\ MayFail(CanStreamOn(OUTPUT_PORT))
          /\ ReturnError("EINVAL")
          /\ UNCHANGED <<hardwareVars, started>>
    /\ UNCHANGED <<driverVars, listVars, flags, progressVars>>

-----------------------------------------------------------------------------
\* queueAvailableOutputBuffers.  It holds the port's lock throughout, so it is
\* one step: the device may finish with a buffer meanwhile, but no thread can
\* take notice.  It stops at the first buffer that is refused.

EnoughOutputQueued == Cardinality(pendingBufs[OUTPUT_PORT]) >= MinOutputCount

QueueAllOutput ==
    /\ \A b \in bufs[OUTPUT_PORT] : CanQBuf(OUTPUT_PORT, b)
    /\ TakeBuffers(OUTPUT_PORT, bufs[OUTPUT_PORT])
    /\ QueueBuffers(OUTPUT_PORT, bufs[OUTPUT_PORT])
    /\ Goto("postponedDrain")

QueueSomeOutput ==
    /\ \E b \in bufs[OUTPUT_PORT] :
        \E S \in SUBSET (bufs[OUTPUT_PORT] \ {b}) :
            /\ MayFail(CanQBuf(OUTPUT_PORT, b))
            /\ \A s \in S : CanQBuf(OUTPUT_PORT, s)
            /\ TakeBuffers(OUTPUT_PORT, S \cup {b})
            /\ QueueBuffers(OUTPUT_PORT, S)
    /\ ReturnError("EINVAL")

QueueOutput ==
    /\ pc = "queueOutput"
    /\ \/ /\ ~started[OUTPUT_PORT]
          /\ Goto("drainWait")
          /\ UNCHANGED <<deviceVars, driverVars, listVars>>
       \/ /\ started[OUTPUT_PORT] /\ EnoughOutputQueued
          /\ Goto("postponedDrain")
          /\ UNCHANGED <<deviceVars, driverVars, listVars>>
       \/ /\ started[OUTPUT_PORT] /\ ~EnoughOutputQueued
          /\ QueueAllOutput \/ QueueSomeOutput
    /\ UNCHANGED <<firmwareVars, started, flags, progressVars>>

-----------------------------------------------------------------------------
\* Draining: V4L2_DEC_CMD_STOP, at once or when OUTPUT_PORT has been started,
\* then the wait for the LAST buffer and V4L2_DEC_CMD_START.

MarkDrainSent == flags' = (flags \ {"mDrainPending"}) \cup {"mDrainSent"}

PostponedDrain ==
    /\ pc = "postponedDrain"
    /\ \/ isDrainPending /\ MarkDrainSent /\ Goto("postponedStop")
       \/ ~isDrainPending /\ Goto("drainWait") /\ UNCHANGED flags
    /\ UNCHANGED <<hardwareVars, driverVars, listVars, started, progressVars>>

PostponedStop ==
    /\ pc = "postponedStop"
    /\ \/ FirmwareCmdStop /\ Goto("drainWait")
       \/ Faults /\ ReturnError("EINVAL") /\ UNCHANGED firmwareVars
    /\ UNCHANGED <<deviceVars, driverVars, codecVars, progressVars>>

DrainWait ==
    /\ pc = "drainWait"
    /\ \/ /\ ~isDrainSent
          /\ Goto("inputAvailable")
          /\ UNCHANGED <<firmwareVars, flags>>
       \/ /\ isDrainSent /\ ~isDrainLastFlagReceived
          /\ Goto("loop")
          /\ UNCHANGED <<firmwareVars, flags>>
       \/ /\ isDrainSent /\ isDrainLastFlagReceived
          /\ flags' = flags \ {"mDrainLastFlagReceived", "mDrainSent"}
          /\ \/ FirmwareCmdStart /\ Return
             \/ Faults /\ ReturnError("EINVAL") /\ UNCHANGED firmwareVars
    /\ UNCHANGED <<deviceVars, driverVars, listVars, started, progressVars>>

-----------------------------------------------------------------------------
\* The input side of the loop.  isInputAvailable and needWaitForInput take
\* the lock one after the other, not together.

InputAvailable ==
    /\ pc = "inputAvailable"
    /\ \/ bufs[INPUT_PORT] # {} /\ Goto("prepareInput")
       \/ /\ bufs[INPUT_PORT] = {} /\ retry_count < MaxRetry
          /\ Goto("waitForInput")
       \/ /\ bufs[INPUT_PORT] = {} /\ retry_count >= MaxRetry
          /\ ReturnError("ETIMEDOUT")
    /\ UNCHANGED <<hardwareVars, driverVars, codecVars, progressVars>>

needWaitForInput == Cardinality(pendingBufs[INPUT_PORT]) >= MinInputCount

WaitForInput ==
    /\ pc = "waitForInput"
    /\ \/ /\ needWaitForInput
          /\ retry_count' = retry_count + 1
          /\ Goto("loop")
       \/ /\ ~needWaitForInput
          /\ ReturnError("ENOMEM")
          /\ UNCHANGED retry_count
    /\ UNCHANGED <<frameCounter, input, streamPos, mDynamicCommands>>
    /\ UNCHANGED <<hardwareVars, driverVars, codecVars, historyVars>>

\* frameCounter++ and the rest of an iteration that went through.
NextFrame ==
    /\ frameCounter' = frameCounter + 1
    /\ retry_count' = 0
    /\ input' = None
    /\ Goto("loop")

EosReached == streamPos >= StreamLen
\* Mutant: one frame too many.
EndReachedLate == EosReached \/ frameCounter > MaxFrameCnt
isEndReached == EosReached \/ frameCounter >= MaxFrameCnt

\* getInputBuffer and feedInputDataToV4l2Buffer: the buffer becomes pending
\* and its memory is written.
PrepareInput ==
    /\ pc = "prepareInput"
    /\ \E b \in bufs[INPUT_PORT] :
        /\ TakeBuffers(INPUT_PORT, {b})
        /\ \/ /\ ~isEndReached
              /\ input' = b
              /\ Goto("queueInput")
              /\ UNCHANGED <<flags, frameCounter, retry_count>>
           \/ /\ isEndReached /\ started[OUTPUT_PORT]
              /\ input' = None
              /\ Goto("setDrain")
              /\ UNCHANGED <<flags, frameCounter, retry_count>>
           \/ /\ isEndReached /\ ~started[OUTPUT_PORT]
              /\ flags' = flags \cup {"mDrainPending"}
              /\ NextFrame
           \/ /\ Faults
              /\ input' = None
              /\ ReturnError("EINVAL")
              /\ UNCHANGED <<flags, frameCounter, retry_count>>
    /\ streamPos' = IF EosReached THEN streamPos ELSE streamPos + 1
    /\ UNCHANGED <<started, mDynamicCommands>>
    /\ UNCHANGED <<hardwareVars, driverVars, historyVars>>

QueueInput ==
    /\ pc = "queueInput"
    /\ \/ /\ CanQBuf(INPUT_PORT, input)
          /\ QueueBuffers(INPUT_PORT, {input})
          /\ fed' = fed + 1
          /\ NextFrame
       \/ /\ MayFail(CanQBuf(INPUT_PORT, input))
          /\ ReturnError("EINVAL")
          /\ input' = None
          /\ UNCHANGED <<frameCounter, retry_count, fed>>
          /\ UNCHANGED <<deviceVars, driverVars>>
    /\ UNCHANGED <<streamPos, mDynamicCommands, delivered>>
    /\ UNCHANGED <<firmwareVars, codecVars>>

SetDrain ==
    /\ pc = "setDrain"
    /\ MarkDrainSent
    /\ Goto("drainStop")
    /\ UNCHANGED <<hardwareVars, driverVars, listVars, started, progressVars>>

DrainStop ==
    /\ pc = "drainStop"
    /\ \/ FirmwareCmdStop /\ NextFrame
       \/ /\ Faults
          /\ ReturnError("EINVAL")
          /\ UNCHANGED <<firmwareVars, frameCounter, retry_count, input>>
    /\ UNCHANGED <<streamPos, mDynamicCommands>>
    /\ UNCHANGED <<deviceVars, driverVars, codecVars, historyVars>>

QueueBuffersNext ==
    \/ LoopHead \/ SeekWait \/ SeekStopInput \/ SeekReclaim \/ SeekStartInput
    \/ Reconfig \/ ReconfigureOutput \/ DrcStopOutput \/ DrcReclaim
    \/ DrcFreeBuffers \/ ConfigureOutput \/ AllocateOutput \/ StartOutput
    \/ QueueOutput \/ PostponedDrain \/ PostponedStop \/ DrainWait
    \/ InputAvailable \/ WaitForInput \/ PrepareInput \/ QueueInput
    \/ SetDrain \/ DrainStop

-----------------------------------------------------------------------------
(***************************************************************************)
(* V4l2DecoderCB, on the poll thread.                                      *)
(***************************************************************************)

\* Mutant: only the first event is noticed.
OnFirstEventOnly ==
    /\ DequeueEvent
    /\ flags' = IF isFirstReconfigReceived THEN flags
                ELSE flags \cup {"mReconfigEventReceived",
                                 "mFirstReconfigReceived"}
    /\ UNCHANGED <<firmwareVars, listVars, started, sessionVars, historyVars>>

OnEventDone ==
    /\ DequeueEvent
    /\ flags' = flags \cup {"mReconfigEventReceived", "mFirstReconfigReceived"}
    /\ UNCHANGED <<firmwareVars, listVars, started, sessionVars, historyVars>>

OnError ==
    /\ PollError
    /\ flags' = flags \cup {"mErrorReceived"}
    /\ UNCHANGED <<firmwareVars, listVars, started, sessionVars, historyVars>>

PollLoop ==
    /\ PollReady \/ PollExit \/ DequeueOutput \/ DequeueInput
    /\ UNCHANGED <<firmwareVars, codecVars, sessionVars, historyVars>>

\* putInputBufferLocked; a buffer that is not pending is an error nobody reads.
OnInputDone ==
    /\ ppc = "inputDone"
    /\ \/ /\ buffer.buf \in pendingBufs[INPUT_PORT]
          /\ PutBuffer(INPUT_PORT, buffer.buf)
       \/ /\ buffer.buf \notin pendingBufs[INPUT_PORT]
          /\ UNCHANGED listVars
    /\ CallbackReturns("OUT")
    /\ UNCHANGED <<hardwareVars, started, flags, sessionVars, historyVars>>

\* putOutputBufferLocked, after which the lock is free.
OnOutputDone ==
    /\ ppc = "outputDone"
    /\ \/ /\ buffer.buf \in pendingBufs[OUTPUT_PORT]
          /\ PutBuffer(OUTPUT_PORT, buffer.buf)
          /\ ppc' = "dump"
          /\ UNCHANGED <<mBufferQueued, mPollThreadExit, revents, buffer>>
       \/ /\ buffer.buf \notin pendingBufs[OUTPUT_PORT]
          /\ CallbackReturns("IN")
          /\ UNCHANGED listVars
    /\ UNCHANGED <<hardwareVars, started, flags, sessionVars, historyVars>>

\* writeDumpDataToFile takes the lock again and reads the frame.
DumpOutput ==
    /\ ppc = "dump"
    /\ delivered' = IF buffer.frame THEN delivered + 1 ELSE delivered
    /\ \/ /\ buffer.last
          /\ ppc' = "drcFlag"
          /\ UNCHANGED <<mBufferQueued, mPollThreadExit, revents, buffer>>
       \/ ~buffer.last /\ CallbackReturns("IN")
    /\ UNCHANGED <<hardwareVars, codecVars, sessionVars, fed>>

\* The LAST flag answers whatever the flags say is going on: a resolution
\* change, a drain, or both.
\* Mutant: the resolution change is not told of its LAST buffer.
OnLastForDrainOnly ==
    /\ ppc = "drcFlag"
    /\ ppc' = "drainFlag"
    /\ UNCHANGED <<mBufferQueued, mPollThreadExit, revents, buffer>>
    /\ UNCHANGED <<hardwareVars, codecVars, sessionVars, historyVars>>

OnLastForReconfig ==
    /\ ppc = "drcFlag"
    /\ flags' = IF isReconfigEventReceived
                THEN flags \cup {"mDrcLastFlagReceived"} ELSE flags
    /\ ppc' = "drainFlag"
    /\ UNCHANGED <<mBufferQueued, mPollThreadExit, revents, buffer>>
    /\ UNCHANGED <<hardwareVars, listVars, started, sessionVars, historyVars>>

OnLastForDrain ==
    /\ ppc = "drainFlag"
    /\ flags' = IF isDrainSent
                THEN flags \cup {"mDrainLastFlagReceived"} ELSE flags
    /\ CallbackReturns("IN")
    /\ UNCHANGED <<hardwareVars, listVars, started, sessionVars, historyVars>>

PollNext ==
    \/ PollLoop \/ OnEventDone \/ OnError \/ OnInputDone \/ OnOutputDone
    \/ DumpOutput \/ OnLastForReconfig \/ OnLastForDrain

-----------------------------------------------------------------------------
\* The device runs on its own; only Break is not a sign of progress.
DeviceWorks ==
    /\ \/ ParseHeader \/ ConsumeInput \/ ChangeResolution
       \/ ProduceFrame \/ ProduceEmptyLast
    /\ UNCHANGED <<driverVars, codecVars, sessionVars, historyVars>>

DeviceBreaks ==
    /\ Break
    /\ UNCHANGED <<driverVars, codecVars, sessionVars, historyVars>>
=============================================================================
