----------------------------- MODULE V4l2Encoder -----------------------------
(***************************************************************************)
(* V4l2Encoder (src/V4l2Encoder.cpp): the loop of queueBuffers, which the  *)
(* session's thread runs, and the callbacks of V4l2EncoderCB, which the    *)
(* poll thread runs.  The steps and the names of control state "pc" are    *)
(* chosen as in V4l2Decoder; the raw frame of an input buffer is a frame   *)
(* and nothing more.  The dynamic commands are left out, for PauseUSec     *)
(* only delays and the encoder never reads the seeks it notes down.        *)
(***************************************************************************)
EXTENDS V4l2Codec, EncoderFirmware

CONSTANTS
    StreamLen,       \* raw frames in the input file
    MaxFrameCnt,     \* queueBuffers' argument, NumFrames of the test case
    MinInputCount,   \* mMinInputCount
    MaxRetry,        \* waits for an input buffer before -ETIMEDOUT, 100 there
    DynamicControls  \* the controls to set: records [fnum, id]

\* configureInput raises the number of buffers to the device's minimum.
ASSUME EncoderAssumption ==
    /\ StreamLen \in Nat /\ MaxFrameCnt \in Nat /\ MaxRetry \in Nat
    /\ MinInputCount \in Nat \ {0} /\ MinInputCount <= Cardinality(InBuf)
    /\ \A c \in DynamicControls : c.fnum \in Nat

VARIABLES
    pc,                \* where the session's thread is
    ret,               \* what the calls so far have returned, OR-ed together
    frameCounter, retry_count,
    input,             \* the buffer prepareAndQueueInputBuffer works on
    streamPos,         \* the parser's position: the next frame
    mDynamicControls,  \* the controls not set yet
    fed,               \* history: frames queued on INPUT_PORT
    delivered,         \* history: buffers of bitstream handed to the dump
    applied            \* history: how often each control has been set

loopVars == <<frameCounter, retry_count, input, streamPos, mDynamicControls>>
historyVars == <<fed, delivered, applied>>
progressVars == <<loopVars, historyVars>>
sessionVars == <<pc, ret, loopVars>>
hardwareVars == <<deviceVars, firmwareVars>>

SetupPc == {"setControls", "configureInput", "configureOutput",
            "allocateOutput", "allocateInput", "startOutput", "startInput"}
LoopPc == {"loop", "queueOutput", "drainWait", "dynamicControls",
           "inputAvailable", "waitForInput", "prepareInput", "queueInput",
           "setDrain", "drainStop"}
TeardownPc == {"returned", "reclaimInput", "stopOutput", "reclaimOutput",
               "freeInput", "freeOutput", "stopPollThread", "join", "done"}

Ret == {"OK", "EINVAL", "ENOMEM", "ETIMEDOUT"}

EncoderTypeOK ==
    /\ pc \in SetupPc \cup LoopPc \cup TeardownPc
    /\ ret \in Ret
    /\ frameCounter \in Nat
    /\ retry_count \in Nat
    /\ input \in InBuf \cup {None}
    /\ streamPos \in Nat
    /\ mDynamicControls \subseteq DynamicControls
    /\ fed \in Nat
    /\ delivered \in Nat
    /\ applied \in [DynamicControls -> Nat]

EncoderInit ==
    /\ pc = "setControls"
    /\ ret = "OK"
    /\ frameCounter = 0
    /\ retry_count = 0
    /\ input = None
    /\ streamPos = 0
    /\ mDynamicControls = DynamicControls
    /\ fed = 0
    /\ delivered = 0
    /\ applied = [c \in DynamicControls |-> 0]

\* The thread goes on at l, with r OR-ed to ret.
Goto(l) == pc' = l /\ UNCHANGED ret
Fail(l, r) == pc' = l /\ ret' = r

\* queueBuffers returns.
Return == Goto("returned")
ReturnError(r) == Fail("returned", r)

-----------------------------------------------------------------------------
\* The head of the loop and queueAvailableOutputBuffers, which holds the
\* port's lock throughout and stops at the first buffer that is refused.

LoopHead ==
    /\ pc = "loop"
    /\ \/ isErrorReceived /\ Return
       \/ ~isErrorReceived /\ started[OUTPUT_PORT] /\ Goto("queueOutput")
       \/ ~isErrorReceived /\ ~started[OUTPUT_PORT] /\ Goto("drainWait")
    /\ UNCHANGED <<hardwareVars, driverVars, codecVars, progressVars>>

QueueAllOutput ==
    /\ \A b \in bufs[OUTPUT_PORT] : CanQBuf(OUTPUT_PORT, b)
    /\ TakeBuffers(OUTPUT_PORT, bufs[OUTPUT_PORT])
    /\ QueueBuffers(OUTPUT_PORT, bufs[OUTPUT_PORT])
    /\ Goto("drainWait")

QueueSomeOutput ==
    /\ \E b \in bufs[OUTPUT_PORT] :
        \E S \in SUBSET (bufs[OUTPUT_PORT] \ {b}) :
            /\ MayFail(CanQBuf(OUTPUT_PORT, b))
            /\ \A s \in S : CanQBuf(OUTPUT_PORT, s)
            /\ TakeBuffers(OUTPUT_PORT, S \cup {b})
            /\ QueueBuffers(OUTPUT_PORT, S)
    /\ ReturnError("EINVAL")

QueueOutput ==
    /\ pc = "queueOutput"
    /\ QueueAllOutput \/ QueueSomeOutput
    /\ UNCHANGED <<firmwareVars, started, flags, progressVars>>

-----------------------------------------------------------------------------
\* The wait for the LAST buffer of a drain, without a limit, and then
\* V4L2_ENC_CMD_START.

DrainWait ==
    /\ pc = "drainWait"
    /\ \/ /\ ~isDrainSent
          /\ Goto("dynamicControls")
          /\ UNCHANGED <<firmwareVars, flags>>
       \/ /\ isDrainSent /\ ~isDrainLastFlagReceived
          /\ Goto("loop")
          /\ UNCHANGED <<firmwareVars, flags>>
       \/ /\ isDrainSent /\ isDrainLastFlagReceived
          /\ flags' = flags \ {"mDrainLastFlagReceived", "mDrainSent"}
          /\ \/ FirmwareCmdStart /\ Return
             \/ Faults /\ ReturnError("EINVAL") /\ UNCHANGED firmwareVars
    /\ UNCHANGED <<deviceVars, driverVars, listVars, started, progressVars>>

-----------------------------------------------------------------------------
\* setDynamicControls: VIDIOC_S_CTRL for each control of this frame, in any
\* order here; one that succeeds is taken off the list.

\* Mutant: the controls of the next frame.
ControlsDueEarly == {c \in mDynamicControls : c.fnum = frameCounter + 1}
ControlsDue == {c \in mDynamicControls : c.fnum = frameCounter}

\* Mutant: the control stays on the list.
ApplyAgain(c) ==
    /\ applied' = [applied EXCEPT ![c] = @ + 1]
    /\ UNCHANGED mDynamicControls

ApplyControl(c) ==
    /\ applied' = [applied EXCEPT ![c] = @ + 1]
    /\ mDynamicControls' = mDynamicControls \ {c}

SetDynamicControls ==
    /\ pc = "dynamicControls"
    /\ \/ /\ ControlsDue = {}
          /\ Goto("inputAvailable")
          /\ UNCHANGED <<mDynamicControls, applied>>
       \/ /\ \E c \in ControlsDue : ApplyControl(c)
          /\ UNCHANGED <<pc, ret>>
       \/ /\ Faults /\ ControlsDue # {}
          /\ ReturnError("EINVAL")
          /\ UNCHANGED <<mDynamicControls, applied>>
    /\ UNCHANGED <<frameCounter, retry_count, input, streamPos>>
    /\ UNCHANGED <<fed, delivered>>
    /\ UNCHANGED <<hardwareVars, driverVars, codecVars>>

-----------------------------------------------------------------------------
\* The input side of the loop.  isInputAvailable and needWaitForInput take
\* the lock one after the other, not together.

InputAvailable ==
    /\ pc = "inputAvailable"
    /\ \/ bufs[INPUT_PORT] # {} /\ Goto("prepareInput")
       \/ /\ bufs[INPUT_PORT] = {} /\ retry_count < MaxRetry
          /\ Goto("waitForInput")
       \/ /\ bufs[INPUT_PORT] = {} /\ retry_count >= MaxRetry
          /\ ReturnError("ETIMEDOUT")
    /\ UNCHANGED <<hardwareVars, driverVars, codecVars, progressVars>>

needWaitForInput == Cardinality(pendingBufs[INPUT_PORT]) >= MinInputCount

WaitForInput ==
    /\ pc = "waitForInput"
    /\ \/ /\ needWaitForInput
          /\ retry_count' = retry_count + 1
          /\ Goto("loop")
       \/ /\ ~needWaitForInput
          /\ ReturnError("ENOMEM")
          /\ UNCHANGED retry_count
    /\ UNCHANGED <<frameCounter, input, streamPos, mDynamicControls>>
    /\ UNCHANGED <<hardwareVars, driverVars, codecVars, historyVars>>

\* frameCounter++ and the rest of an iteration that went through.
NextFrame ==
    /\ frameCounter' = frameCounter + 1
    /\ retry_count' = 0
    /\ input' = None
    /\ Goto("loop")

EosReached == streamPos >= StreamLen
\* Mutant: one frame too many.
EndReachedLate == EosReached \/ frameCounter > MaxFrameCnt
isEndReached == EosReached \/ frameCounter >= MaxFrameCnt

\* getInputBuffer and feedInputDataToV4l2Buffer: the buffer becomes pending
\* and its memory is written.
PrepareInput ==
    /\ pc = "prepareInput"
    /\ \E b \in bufs[INPUT_PORT] :
        /\ TakeBuffers(INPUT_PORT, {b})
        /\ \/ ~isEndReached /\ input' = b /\ Goto("queueInput")
           \/ isEndReached /\ input' = None /\ Goto("setDrain")
           \/ Faults /\ input' = None /\ ReturnError("EINVAL")
    /\ streamPos' = IF EosReached THEN streamPos ELSE streamPos + 1
    /\ UNCHANGED <<frameCounter, retry_count, mDynamicControls>>
    /\ UNCHANGED <<hardwareVars, driverVars, started, flags, historyVars>>

QueueInput ==
    /\ pc = "queueInput"
    /\ \/ /\ CanQBuf(INPUT_PORT, input)
          /\ QueueBuffers(INPUT_PORT, {input})
          /\ fed' = fed + 1
          /\ NextFrame
       \/ /\ MayFail(CanQBuf(INPUT_PORT, input))
          /\ ReturnError("EINVAL")
          /\ input' = None
          /\ UNCHANGED <<frameCounter, retry_count, fed>>
          /\ UNCHANGED <<deviceVars, driverVars>>
    /\ UNCHANGED <<streamPos, mDynamicControls, delivered, applied>>
    /\ UNCHANGED <<firmwareVars, codecVars>>

SetDrain ==
    /\ pc = "setDrain"
    /\ flags' = flags \cup {"mDrainSent"}
    /\ Goto("drainStop")
    /\ UNCHANGED <<hardwareVars, driverVars, listVars, started, progressVars>>

\* Mutant: a failed V4L2_ENC_CMD_STOP is ignored.
DrainStopIgnored ==
    /\ pc = "drainStop"
    /\ \/ FirmwareCmdStop
       \/ Faults /\ UNCHANGED firmwareVars
    /\ NextFrame
    /\ UNCHANGED <<streamPos, mDynamicControls>>
    /\ UNCHANGED <<deviceVars, driverVars, codecVars, historyVars>>

DrainStop ==
    /\ pc = "drainStop"
    /\ \/ FirmwareCmdStop /\ NextFrame
       \/ /\ Faults
          /\ ReturnError("EINVAL")
          /\ UNCHANGED <<firmwareVars, frameCounter, retry_count, input>>
    /\ UNCHANGED <<streamPos, mDynamicControls>>
    /\ UNCHANGED <<deviceVars, driverVars, codecVars, historyVars>>

QueueBuffersNext ==
    \/ LoopHead \/ QueueOutput \/ DrainWait \/ SetDynamicControls
    \/ InputAvailable \/ WaitForInput \/ PrepareInput \/ QueueInput
    \/ SetDrain \/ DrainStop

-----------------------------------------------------------------------------
(***************************************************************************)
(* V4l2EncoderCB, on the poll thread.                                      *)
(***************************************************************************)

OnError ==
    /\ PollError
    /\ flags' = flags \cup {"mErrorReceived"}
    /\ UNCHANGED <<firmwareVars, listVars, started, sessionVars, historyVars>>

PollLoop ==
    /\ PollReady \/ PollExit \/ DequeueOutput \/ DequeueInput
    /\ UNCHANGED <<firmwareVars, codecVars, sessionVars, historyVars>>

\* putInputBufferLocked; a buffer that is not pending is an error nobody reads.
OnInputDone ==
    /\ ppc = "inputDone"
    /\ \/ /\ buffer.buf \in pendingBufs[INPUT_PORT]
          /\ PutBuffer(INPUT_PORT, buffer.buf)
       \/ /\ buffer.buf \notin pendingBufs[INPUT_PORT]
          /\ UNCHANGED listVars
    /\ CallbackReturns("OUT")
    /\ UNCHANGED <<hardwareVars, started, flags, sessionVars, historyVars>>

\* putOutputBufferLocked, after which the lock is free.
OnOutputDone ==
    /\ ppc = "outputDone"
    /\ \/ /\ buffer.buf \in pendingBufs[OUTPUT_PORT]
          /\ PutBuffer(OUTPUT_PORT, buffer.buf)
          /\ ppc' = "dump"
          /\ UNCHANGED <<mBufferQueued, mPollThreadExit, revents, buffer>>
       \/ /\ buffer.buf \notin pendingBufs[OUTPUT_PORT]
          /\ CallbackReturns("IN")
          /\ UNCHANGED listVars
    /\ UNCHANGED <<hardwareVars, started, flags, sessionVars, historyVars>>

\* writeDumpDataToFile takes the lock again and reads the bitstream.
DumpOutput ==
    /\ ppc = "dump"
    /\ delivered' = IF buffer.frame THEN delivered + 1 ELSE delivered
    /\ \/ /\ buffer.last
          /\ ppc' = "drainFlag"
          /\ UNCHANGED <<mBufferQueued, mPollThreadExit, revents, buffer>>
       \/ ~buffer.last /\ CallbackReturns("IN")
    /\ UNCHANGED <<hardwareVars, codecVars, sessionVars, fed, applied>>

OnLastForDrain ==
    /\ ppc = "drainFlag"
    /\ flags' = IF isDrainSent
                THEN flags \cup {"mDrainLastFlagReceived"} ELSE flags
    /\ CallbackReturns("IN")
    /\ UNCHANGED <<hardwareVars, listVars, started, sessionVars, historyVars>>

PollNext ==
    \/ PollLoop \/ OnError \/ OnInputDone \/ OnOutputDone \/ DumpOutput
    \/ OnLastForDrain

-----------------------------------------------------------------------------
\* The device runs on its own; only Break is not a sign of progress.
DeviceWorks ==
    /\ ConsumeFrame \/ ProduceFrame \/ ProduceEmptyLast
    /\ UNCHANGED <<driverVars, codecVars, sessionVars, historyVars>>

DeviceBreaks ==
    /\ Break
    /\ UNCHANGED <<driverVars, codecVars, sessionVars, historyVars>>
=============================================================================
