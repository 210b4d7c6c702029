----------------------- MODULE DecoderRefinementProofs -----------------------
(***************************************************************************)
(* A decoding session that nobody seeks in, on a device that does not fail *)
(* and a stream of one resolution, implements CodecService, but for its    *)
(* liveness: for any number of buffers and frames, and whatever ioctls and *)
(* allocations fail.  ServiceInv is inductive, and under it every step     *)
(* maps to a step of CodecService or to none.                              *)
(***************************************************************************)
EXTENDS DecoderRefinement, DecoderProofs

\* The calls before the loop, and its steps that give the device no buffer.
StillSteps ==
    \/ ConfigureInput \/ AllocateInput \/ StartInput \/ LoopHead \/ Reconfig
    \/ ConfigureOutput \/ AllocateOutput \/ StartOutput \/ PostponedDrain
    \/ PostponedStop \/ DrainWait \/ InputAvailable \/ WaitForInput
    \/ PrepareInput \/ SetDrain \/ DrainStop

TeardownSteps ==
    \/ StopOutput \/ ReclaimOutput \/ StopInput \/ ReclaimInput
    \/ FreeOutput \/ FreeInput \/ StopPollThread \/ Join

-----------------------------------------------------------------------------
\* What each group of steps leaves alone.

\* Nobody seeks, and OUTPUT_PORT is not stopped for another resolution.
LEMMA StepsTaken ==
  ASSUME ServiceInv, SessionNext
  PROVE  StillSteps \/ QueueOutput \/ QueueInput \/ TeardownSteps
<1>1. pc \notin SeekPc \cup StillStartedPc \cup {"drcFreeBuffers"}
  BY DEF ServiceInv, OwnershipInv, StartedOnce
<1>2. ~(SeekWait \/ SeekStopInput \/ SeekReclaim \/ SeekStartInput)
  BY <1>1 DEF SeekWait, SeekStopInput, SeekReclaim, SeekStartInput, SeekPc
<1>3. ~(ReconfigureOutput \/ DrcStopOutput \/ DrcReclaim \/ DrcFreeBuffers)
  BY <1>1 DEF ReconfigureOutput, DrcStopOutput, DrcReclaim, DrcFreeBuffers,
              StillStartedPc
<1> QED
  BY <1>2, <1>3 DEF SessionNext, QueueBuffersNext, StillSteps, TeardownSteps

\* The quiet steps of the session.
LEMMA StillFrame ==
  ASSUME StillSteps
  PROVE  /\ UNCHANGED <<queued, done, events, broken, ppc, buffer>>
         /\ UNCHANGED <<held, changes, fed, delivered>>
         /\ Running
<1>1. UNCHANGED <<queued, done, events, broken, ppc, buffer>>
  BY DEF StillSteps, ConfigureInput, AllocateInput, StartInput, LoopHead,
         Reconfig, ConfigureOutput, AllocateOutput, StartOutput, ReqBufs,
         StreamOn, PostponedDrain, PostponedStop, DrainWait, InputAvailable,
         WaitForInput, PrepareInput, SetDrain, DrainStop, hardwareVars,
         deviceVars, driverVars
<1>2. UNCHANGED <<held, changes>>
  BY DEF StillSteps, ConfigureInput, AllocateInput, StartInput, LoopHead,
         Reconfig, ConfigureOutput, AllocateOutput, StartOutput,
         FirmwareStreamOn, PostponedDrain, PostponedStop, FirmwareCmdStop,
         DrainWait, FirmwareCmdStart, InputAvailable, WaitForInput,
         PrepareInput, SetDrain, DrainStop, hardwareVars, firmwareVars
<1>3. UNCHANGED <<fed, delivered>>
  BY DEF StillSteps, ConfigureInput, AllocateInput, StartInput, LoopHead,
         Reconfig, ConfigureOutput, AllocateOutput, StartOutput,
         PostponedDrain, PostponedStop, DrainWait, InputAvailable,
         WaitForInput, PrepareInput, SetDrain, DrainStop, progressVars,
         historyVars
<1>4. Running
  BY DEF StillSteps, ConfigureInput, AllocateInput, StartInput, LoopHead,
         Reconfig, ConfigureOutput, AllocateOutput, StartOutput,
         PostponedDrain, PostponedStop, DrainWait, InputAvailable,
         WaitForInput, PrepareInput, SetDrain, DrainStop, Running, SetupPc,
         LoopPc
<1> QED
  BY <1>1, <1>2, <1>3, <1>4

\* VIDIOC_QBUF, in the loop.
LEMMA QueueFrame ==
  ASSUME QueueOutput \/ QueueInput
  PROVE  /\ UNCHANGED <<done, events, broken, ppc, buffer, firmwareVars>>
         /\ UNCHANGED <<started, flags, streamPos, delivered>>
         /\ Running
BY DEF QueueOutput, QueueAllOutput, QueueSomeOutput, QueueInput, QueueBuffers,
       codecVars, progressVars, loopVars, historyVars, deviceVars, driverVars,
       Running, LoopPc

\* The teardown.
LEMMA TeardownFrame ==
  ASSUME TeardownSteps
  PROVE  /\ UNCHANGED <<ret, flags, events, broken, ppc, buffer>>
         /\ UNCHANGED <<phase, changes, fed, delivered>>
         /\ pc \in TeardownPc /\ pc' \in TeardownPc /\ ~Running'
<1>1. UNCHANGED <<events, broken, ppc, buffer>>
  BY DEF TeardownSteps, StopOutput, StopInput, StopPort, StreamOff,
         ReclaimOutput, ReclaimInput, ReclaimPort, FreeOutput, FreeInput,
         FreePort, ReqBufs, StopPollThread, RequestExit, Join, hardwareVars,
         deviceVars, driverVars
<1>2. UNCHANGED <<ret, flags, phase, changes, fed, delivered>>
  BY DEF TeardownSteps, StopOutput, StopInput, StopPort, FirmwareStreamOff,
         ReclaimOutput, ReclaimInput, ReclaimPort, FreeOutput, FreeInput,
         FreePort, StopPollThread, Join, Goto, hardwareVars, firmwareVars,
         codecVars, progressVars, historyVars
<1>3. pc \in TeardownPc /\ pc' \in TeardownPc /\ ~Running'
  BY DEF TeardownSteps, StopOutput, StopInput, StopPort, ReclaimOutput,
         ReclaimInput, ReclaimPort, FreeOutput, FreeInput, FreePort,
         StopPollThread, Join, Goto, TeardownPc, Running, SetupPc, LoopPc
<1> QED
  BY <1>1, <1>2, <1>3

\* The poll thread.
LEMMA PollFrame ==
  ASSUME PollNext
  PROVE  /\ UNCHANGED <<queued, broken, firmwareVars, sessionVars>>
         /\ UNCHANGED <<started, fed>>
         /\ (Running' <=> Running)
<1>1. UNCHANGED <<queued, broken>>
  BY DEF PollNext, PollLoop, PollReady, PollExit, DequeueOutput, DequeueInput,
         DequeueBuffer, DqBuf, OnEventDone, DequeueEvent, OnError, PollError,
         OnInputDone, OnOutputDone, DumpOutput, OnLastForReconfig,
         OnLastForDrain, hardwareVars, deviceVars
<1>2. UNCHANGED <<firmwareVars, sessionVars, started, fed>>
  BY DEF PollNext, PollLoop, OnEventDone, OnError, OnInputDone, OnOutputDone,
         DumpOutput, OnLastForReconfig, OnLastForDrain, hardwareVars,
         codecVars, historyVars
<1>3. Running' <=> Running
  BY <1>2 DEF sessionVars, Running
<1> QED
  BY <1>1, <1>2, <1>3

\* The device, which does not change the resolution.
LEMMA DeviceFrame ==
  ASSUME ServiceInv, DeviceWorks, MaxChanges = 0
  PROVE  /\ UNCHANGED <<ppc, buffer, codecVars, sessionVars, historyVars>>
         /\ UNCHANGED <<broken, changes>>
         /\ ParseHeader \/ ConsumeInput \/ ProduceFrame \/ ProduceEmptyLast
         /\ (Running' <=> Running)
<1>1. changes = 0
  BY DEF ServiceInv, StartedOnce
<1>2. ~ChangeResolution
  BY <1>1 DEF ChangeResolution
<1>3. UNCHANGED <<ppc, buffer, codecVars, sessionVars, historyVars>>
  BY DEF DeviceWorks, driverVars
<1>4. UNCHANGED <<broken, changes>>
  BY <1>2 DEF DeviceWorks, ParseHeader, ConsumeInput, ProduceFrame,
              ProduceEmptyLast
<1> QED
  BY <1>2, <1>3, <1>4 DEF DeviceWorks, sessionVars, Running


-----------------------------------------------------------------------------
\* Every step keeps the frames accounted for.

\* The parts of InFlight are numbers, before and after a step.
LEMMA InFlightTypes ==
  ASSUME TypeOK
  PROVE  /\ Cardinality(queued[INPUT_PORT]) \in Nat
         /\ Cardinality(FramesIn(done[OUTPUT_PORT])) \in Nat
         /\ held \in Nat
         /\ FrameInHand \in {0, 1}
         /\ fed \in Nat /\ delivered \in Nat
<1>1. done[OUTPUT_PORT] \in Seq(Completion) /\ IsPortBufs(queued)
  BY DEF TypeOK, DeviceTypeOK, Port
<1> QED
  BY <1>1, CountTypes
  DEF TypeOK, FirmwareTypeOK, DecoderTypeOK, FrameInHand

\* The step neither feeds nor delivers, and moves no frame.
LEMMA AccountedQuiet ==
  ASSUME ServiceInv,
         UNCHANGED <<queued, held, done, fed, delivered>>,
         \/ UNCHANGED <<ppc, buffer>>
         \/ ~Handling /\ ~Handling',
         Running' => Running
  PROVE  FramesAccounted'
<1>1. FrameInHand' = FrameInHand
  BY DEF FrameInHand, Handling
<1>2. InFlight' = InFlight
  BY <1>1 DEF InFlight
<1> QED
  BY <1>2 DEF ServiceInv, FramesAccounted

\* VIDIOC_QBUF on OUTPUT_PORT moves no frame, on INPUT_PORT it feeds one.
LEMMA AccountedQueue ==
  ASSUME ServiceInv, QueueOutput \/ QueueInput
  PROVE  FramesAccounted'
<1>1. TypeOK
  BY DEF ServiceInv, OwnershipInv, ListsInv
<1>2. queued \in [Port -> SUBSET Buf] /\ IsFiniteSet(queued[INPUT_PORT])
  <2>1. done[OUTPUT_PORT] \in Seq(Completion) /\ IsPortBufs(queued)
    BY <1>1 DEF TypeOK, DeviceTypeOK, Port
  <2> QED
    BY <2>1, CountTypes DEF IsPortBufs
<1>3. Running /\ UNCHANGED <<done, held, ppc, buffer, delivered>>
  BY QueueFrame DEF firmwareVars
<1>4. FrameInHand' = FrameInHand
  BY <1>3 DEF FrameInHand, Handling
<1>5. CASE /\ queued'[INPUT_PORT] = queued[INPUT_PORT]
           /\ UNCHANGED fed
  BY <1>3, <1>4, <1>5 DEF ServiceInv, FramesAccounted, InFlight
<1>6. CASE /\ queued'[INPUT_PORT] = queued[INPUT_PORT] \cup {input}
           /\ input \notin queued[INPUT_PORT]
           /\ fed' = fed + 1
  <2>1. Cardinality(queued'[INPUT_PORT]) = Cardinality(queued[INPUT_PORT]) + 1
    BY <1>2, <1>6, FS_AddElement
  <2>2. InFlight' = InFlight + 1
    BY <1>1, <1>3, <1>4, <2>1, InFlightTypes DEF InFlight
  <2>3. InFlight \in Nat
    BY <1>1, InFlightTypes DEF InFlight
  <2> QED
    BY <1>1, <1>3, <1>6, <2>2, <2>3, InFlightTypes
    DEF ServiceInv, FramesAccounted
<1>7. CASE QueueOutput
  <2>1. queued'[INPUT_PORT] = queued[INPUT_PORT] /\ UNCHANGED fed
    BY <1>2, <1>7
    DEF QueueOutput, QueueAllOutput, QueueSomeOutput, QueueBuffers, QBuf,
        Port, INPUT_PORT, OUTPUT_PORT, progressVars, historyVars, deviceVars
  <2> QED
    BY <1>5, <2>1
<1>8. CASE QueueInput
  BY <1>2, <1>5, <1>6, <1>8
  DEF QueueInput, QueueBuffers, QBuf, CanQBuf, DeviceOwns, Port, deviceVars
<1> QED
  BY <1>7, <1>8

\* The teardown may drop what is in flight: the loop is over.
LEMMA AccountedTeardown ==
  ASSUME ServiceInv, TeardownSteps
  PROVE  FramesAccounted'
<1>1. TypeOK
  BY DEF ServiceInv, OwnershipInv, ListsInv
<1>2. /\ ~Running'
      /\ UNCHANGED <<fed, delivered, ppc, buffer>>
  BY TeardownFrame
<1>3. FrameInHand' = FrameInHand
  BY <1>2 DEF FrameInHand, Handling
<1>4. CASE UNCHANGED <<queued, done, held>>
  BY <1>2, <1>4, AccountedQuiet
<1>5. CASE StopInput \/ StopOutput
  <2>1. /\ \/ queued'[INPUT_PORT] = {}
           \/ queued'[INPUT_PORT] = queued[INPUT_PORT]
        /\ \/ done'[OUTPUT_PORT] = <<>>
           \/ done'[OUTPUT_PORT] = done[OUTPUT_PORT]
        /\ held' \in {0, held}
    BY <1>1, <1>5
    DEF StopInput, StopOutput, StopPort, StreamOff, FirmwareStreamOff, TypeOK,
        DeviceTypeOK, IsPortBufs, Port, INPUT_PORT, OUTPUT_PORT, hardwareVars,
        deviceVars, firmwareVars
  <2>2. FramesIn(<<>>) = {} /\ Cardinality({}) = 0
    BY FS_EmptySet DEF FramesIn
  <2> DEFINE q == Cardinality(queued[INPUT_PORT])
             f == Cardinality(FramesIn(done[OUTPUT_PORT]))
  <2>3. q \in Nat /\ f \in Nat /\ held \in Nat /\ FrameInHand \in {0, 1}
    BY <1>1, InFlightTypes
  <2>4. q' \in {0, q} /\ f' \in {0, f} /\ held' \in {0, held}
    BY <2>1, <2>2
  <2>5. /\ q' \in Nat /\ q' <= q
        /\ f' \in Nat /\ f' <= f
        /\ held' \in Nat /\ held' <= held
    BY <2>3, <2>4
  <2>6. InFlight' <= InFlight /\ InFlight' \in Nat /\ InFlight \in Nat
    BY <1>3, <2>3, <2>5 DEF InFlight
  <2> QED
    BY <1>1, <1>2, <2>6, InFlightTypes DEF ServiceInv, FramesAccounted
<1> QED
  BY <1>4, <1>5
  DEF TeardownSteps, ReclaimOutput, ReclaimInput, ReclaimPort, FreeOutput,
      FreeInput, FreePort, ReqBufs, StopPollThread, Join, hardwareVars,
      deviceVars, firmwareVars

\* The poll thread takes a frame, puts its buffer back and delivers it.
LEMMA AccountedPoll ==
  ASSUME ServiceInv, PollNext
  PROVE  FramesAccounted'
<1>1. TypeOK
  BY DEF ServiceInv, OwnershipInv, ListsInv
<1>2. UNCHANGED <<queued, held, fed, pc>> /\ (Running' <=> Running)
  BY PollFrame DEF firmwareVars, sessionVars
<1>3. CASE /\ UNCHANGED <<done, delivered>>
           /\ ~Handling /\ ~Handling'
  BY <1>2, <1>3, AccountedQuiet
<1>4. CASE /\ PollReady \/ PollExit \/ DequeueInput
           /\ UNCHANGED delivered
  <2>1. done'[OUTPUT_PORT] = done[OUTPUT_PORT]
    BY <1>1, <1>4
    DEF PollReady, PollExit, DequeueInput, DequeueBuffer, DqBuf, TypeOK,
        DeviceTypeOK, Port, INPUT_PORT, OUTPUT_PORT, deviceVars
  <2>2. ~Handling /\ ~Handling'
    BY <1>4
    DEF PollReady, Polling, PollExit, DequeueInput, DequeueBuffer, Handle,
        NextHandler, Handling
  <2>3. FrameInHand' = FrameInHand
    BY <2>2 DEF FrameInHand
  <2> QED
    BY <1>2, <1>4, <2>1, <2>3 DEF ServiceInv, FramesAccounted, InFlight
<1>5. CASE DequeueOutput /\ UNCHANGED delivered
  <2>1. CASE DqBuf(OUTPUT_PORT) /\ buffer' = Head(done[OUTPUT_PORT])
             /\ ppc' = "outputDone" /\ ppc = "dqOutput"
    <3>1. /\ done[OUTPUT_PORT] \in Seq(Completion)
          /\ done[OUTPUT_PORT] # <<>>
          /\ done'[OUTPUT_PORT] = Tail(done[OUTPUT_PORT])
      BY <1>1, <2>1 DEF TypeOK, DeviceTypeOK, DqBuf, Port
    <3>2. BufsOnce(done[OUTPUT_PORT])
      BY OwnedAlt DEF ServiceInv, OwnershipInv, Ownership, Port
    <3>3. FrameInHand = 0
      BY <2>1 DEF FrameInHand, Handling
    <3>4. FrameInHand' = IF Head(done[OUTPUT_PORT]).frame THEN 1 ELSE 0
      BY <2>1 DEF FrameInHand, Handling
    <3>5. Cardinality(FramesIn(done[OUTPUT_PORT]))
            = Cardinality(FramesIn(done'[OUTPUT_PORT])) + FrameInHand'
      BY <3>1, <3>2, <3>4, TailFrames
    <3>6. Tail(done[OUTPUT_PORT]) \in Seq(Completion)
      BY <3>1
    <3>7. Cardinality(FramesIn(done'[OUTPUT_PORT])) \in Nat
      BY <3>1, <3>6, CountTypes, PortBufsEmpty
    <3>8. InFlight' = InFlight
      BY <1>1, <1>2, <3>3, <3>4, <3>5, <3>7, InFlightTypes DEF InFlight
    <3> QED
      BY <1>2, <1>5, <3>8 DEF ServiceInv, FramesAccounted
  <2>2. CASE UNCHANGED done /\ ~Handling /\ ~Handling'
    BY <1>3, <1>5, <2>2
  <2> QED
    BY <1>5, <2>1, <2>2
    DEF DequeueOutput, DequeueBuffer, Handle, NextHandler, Handling,
        deviceVars
<1>6. CASE PollLoop
  BY <1>4, <1>5, <1>6 DEF PollLoop, historyVars
<1>7. CASE OnEventDone
  BY <1>3, <1>7
  DEF OnEventDone, DequeueEvent, Handle, NextHandler, Handling, historyVars
<1>8. CASE OnError \/ OnInputDone \/ OnLastForReconfig \/ OnLastForDrain
  BY <1>3, <1>8
  DEF OnError, PollError, Polling, OnInputDone, OnLastForReconfig,
      OnLastForDrain, CallbackReturns, Handle, NextHandler, Handling,
      hardwareVars, deviceVars, historyVars
<1>9. CASE OnOutputDone
  <2>1. UNCHANGED <<done, delivered>>
    BY <1>9 DEF OnOutputDone, hardwareVars, deviceVars, historyVars
  <2>2. CASE ppc = "outputDone" /\ ppc' = "dump" /\ UNCHANGED buffer
    <3>1. FrameInHand' = FrameInHand
      BY <2>2 DEF FrameInHand, Handling
    <3> QED
      BY <1>2, <2>1, <3>1 DEF ServiceInv, FramesAccounted, InFlight
  <2>3. CASE /\ ppc = "outputDone"
             /\ buffer.buf \notin pendingBufs[OUTPUT_PORT]
             /\ ~Handling'
    <3>1. ~Running
      BY <2>3
      DEF ServiceInv, OwnershipInv, Ownership, OwnedPending, InHand, Port,
          INPUT_PORT, OUTPUT_PORT
    <3>2. FrameInHand' = 0
      BY <2>3 DEF FrameInHand
    <3>3. InFlight' = InFlight - FrameInHand
      BY <1>1, <1>2, <2>1, <3>2, InFlightTypes DEF InFlight
    <3>4. InFlight \in Nat /\ FrameInHand \in Nat
      BY <1>1, InFlightTypes DEF InFlight
    <3>5. delivered' + InFlight' <= fed'
      BY <1>1, <1>2, <2>1, <3>3, <3>4, InFlightTypes
      DEF ServiceInv, FramesAccounted
    <3> QED
      BY <1>2, <3>1, <3>5 DEF FramesAccounted
  <2> QED
    BY <1>9, <2>2, <2>3
    DEF OnOutputDone, CallbackReturns, Handle, NextHandler, Handling
<1>10. CASE DumpOutput
  <2>1. /\ UNCHANGED done /\ ~Handling'
        /\ Handling
        /\ delivered' = IF buffer.frame THEN delivered + 1 ELSE delivered
    BY <1>10 DEF DumpOutput, CallbackReturns, Handle, NextHandler, Handling,
                 hardwareVars, deviceVars
  <2>2. FrameInHand' = 0 /\ delivered' = delivered + FrameInHand
    BY <1>1, <2>1, InFlightTypes DEF FrameInHand
  <2>3. InFlight' = InFlight - FrameInHand
    BY <1>1, <1>2, <2>1, <2>2, InFlightTypes DEF InFlight
  <2>4. InFlight \in Nat /\ FrameInHand \in Nat /\ delivered \in Nat
    BY <1>1, InFlightTypes DEF InFlight
  <2>5. delivered' + InFlight' = delivered + InFlight
    BY <2>2, <2>3, <2>4
  <2> QED
    BY <1>2, <2>5 DEF ServiceInv, FramesAccounted
<1> QED
  BY <1>6, <1>7, <1>8, <1>9, <1>10 DEF PollNext

\* The device moves frames from one queue to the other.
LEMMA AccountedDevice ==
  ASSUME ServiceInv, DeviceWorks, MaxChanges = 0
  PROVE  FramesAccounted'
<1>1. TypeOK /\ DeviceTypeOK
  BY DEF ServiceInv, OwnershipInv, ListsInv, TypeOK
<1>2. /\ UNCHANGED <<ppc, buffer, fed, delivered>>
      /\ (Running' <=> Running)
      /\ ParseHeader \/ ConsumeInput \/ ProduceFrame \/ ProduceEmptyLast
  BY DeviceFrame DEF historyVars
<1>3. FrameInHand' = FrameInHand
  BY <1>2 DEF FrameInHand, Handling
<1> DEFINE q == Cardinality(queued[INPUT_PORT])
           f == Cardinality(FramesIn(done[OUTPUT_PORT]))
<1>4. q \in Nat /\ f \in Nat /\ held \in Nat /\ FrameInHand \in {0, 1}
  BY <1>1, InFlightTypes
<1>5. INPUT_PORT # OUTPUT_PORT /\ INPUT_PORT \in Port /\ OUTPUT_PORT \in Port
  BY DEF INPUT_PORT, OUTPUT_PORT, Port
<1>6. CASE ConsumeInput
  <2>1. PICK b \in queued[INPUT_PORT] : Complete(INPUT_PORT, b, FALSE, FALSE)
    BY <1>6 DEF ConsumeInput
  <2>2. /\ queued'[INPUT_PORT] = queued[INPUT_PORT] \ {b}
        /\ done'[OUTPUT_PORT] = done[OUTPUT_PORT]
    BY <1>1, <1>5, <2>1, CompleteParts
  <2>3. IsFiniteSet(queued[INPUT_PORT])
    BY <1>1, CountTypes, <<>> \in Seq(Completion) DEF DeviceTypeOK
  <2>4. q' = q - 1
    BY <2>2, <2>3, FS_RemoveElement
  <2>5. f' = f /\ held' = held + 1
    BY <1>6, <2>2 DEF ConsumeInput
  <2>6. InFlight' = InFlight
    BY <1>3, <1>4, <2>4, <2>5 DEF InFlight
  <2> QED
    BY <1>2, <2>6 DEF ServiceInv, FramesAccounted
<1>7. ASSUME NEW b \in queued[OUTPUT_PORT], NEW frame \in BOOLEAN,
             NEW last \in BOOLEAN, Complete(OUTPUT_PORT, b, frame, last),
             held' = IF frame THEN held - 1 ELSE held
      PROVE  FramesAccounted'
  <2> DEFINE c == [buf |-> b, frame |-> frame, last |-> last]
  <2>1. /\ queued'[INPUT_PORT] = queued[INPUT_PORT]
        /\ done[OUTPUT_PORT] \in Seq(Completion)
        /\ done'[OUTPUT_PORT] = Append(done[OUTPUT_PORT], c)
        /\ c \in Completion
    BY <1>1, <1>5, <1>7, CompleteParts
  <2>2. c.buf = b /\ c.frame = frame
    OBVIOUS
  <2>3. b \notin BufsIn(done[OUTPUT_PORT])
    BY <1>5, OwnedAlt DEF ServiceInv, OwnershipInv, Ownership
  <2> HIDE DEF c
  <2>4. f' = f + (IF frame THEN 1 ELSE 0)
    BY <2>1, <2>2, <2>3, AppendFrames
  <2>5. q' = q
    BY <2>1
  <2>6. InFlight' = InFlight
    BY <1>3, <1>4, <1>7, <2>4, <2>5 DEF InFlight
  <2> QED
    BY <1>2, <2>6 DEF ServiceInv, FramesAccounted
<1>8. CASE ProduceFrame
  BY <1>7, <1>8 DEF ProduceFrame
<1>9. CASE ProduceEmptyLast
  BY <1>7, <1>9 DEF ProduceEmptyLast
<1>10. CASE ParseHeader
  BY <1>2, <1>10, AccountedQuiet DEF ParseHeader
<1> QED
  BY <1>2, <1>6, <1>8, <1>9, <1>10

\* Every step keeps them.
LEMMA AccountedStep ==
  ASSUME MaxChanges = 0, ServiceInv, Next
  PROVE  FramesAccounted'
<1>1. CASE DeviceBreaks \/ Finished
  <2>1. UNCHANGED <<queued, held, done, fed, delivered, ppc, buffer, pc>>
    BY <1>1 DEF DeviceBreaks, Break, Finished, vars, hardwareVars, deviceVars,
                firmwareVars, driverVars, sessionVars, historyVars
  <2> QED
    BY <2>1, AccountedQuiet DEF Running
<1>2. CASE StillSteps
  BY <1>2, StillFrame, AccountedQuiet
<1> QED
  BY <1>1, <1>2, StepsTaken, AccountedQueue, AccountedTeardown,
     AccountedPoll, AccountedDevice
  DEF Next


-----------------------------------------------------------------------------
\* Every step keeps the parser and frameCounter at the next frame to feed.

\* Neither moves, and the end is seen or not seen as before.
LEMMA FedQuiet ==
  ASSUME ServiceInv, UNCHANGED fed,
         Running' =>
             /\ Running
             /\ UNCHANGED <<streamPos, frameCounter>>
             /\ EndSeen' <=> EndSeen
             /\ \/ UNCHANGED pc
                \/ pc # "queueInput" /\ pc' # "queueInput"
  PROVE  FramesFed'
<1>1. FramesAsked' = FramesAsked
  BY DEF FramesAsked
<1> QED
  BY <1>1 DEF ServiceInv, FramesFed

\* The parser hands out the next frame, or the drain is due.
LEMMA FedPrepare ==
  ASSUME ServiceInv, PrepareInput
  PROVE  FramesFed'
<1>1. /\ pc = "prepareInput" /\ Running
      /\ UNCHANGED fed
      /\ \/ /\ pc' = "queueInput" /\ ~isEndReached
            /\ UNCHANGED <<flags, frameCounter>>
         \/ pc' = "setDrain" /\ isEndReached /\ UNCHANGED frameCounter
         \/ /\ pc' = "loop" /\ isEndReached /\ isDrainPending'
            /\ frameCounter' = frameCounter + 1
         \/ pc' = "returned"
      /\ streamPos' = IF EosReached THEN streamPos ELSE streamPos + 1
  BY DEF PrepareInput, historyVars, NextFrame, Goto, ReturnError, Fail,
         Running, LoopPc, isDrainPending
<1>2. fed \in Nat /\ streamPos \in Nat /\ frameCounter \in Nat
  BY DEF ServiceInv, OwnershipInv, ListsInv, TypeOK, DecoderTypeOK
<1>3. StreamLen \in Nat /\ MaxFrameCnt \in Nat /\ FramesAsked \in Nat
  BY DecoderAssumption DEF FramesAsked
<1>4. FramesAsked' = FramesAsked
  BY DEF FramesAsked
<1>5. streamPos' \in Nat /\ streamPos' >= streamPos
  BY <1>1, <1>2
<1>6. fed <= FramesAsked /\ ~isDrainSent
  BY <1>1 DEF ServiceInv, FramesFed, DrainedOnce
<1>7. pc' = "returned" => ~Running'
  BY DEF Running, SetupPc, LoopPc
<1>8. CASE EndSeen
  <2>1. fed = FramesAsked /\ streamPos >= fed /\ frameCounter >= fed
    BY <1>1, <1>8 DEF ServiceInv, FramesFed
  <2>2. isEndReached
    BY <1>2, <1>3, <2>1 DEF isEndReached, EosReached, FramesAsked
  <2>3. pc' # "queueInput"
    BY <1>1, <2>2
  <2>4. streamPos' >= fed
    BY <1>2, <1>5, <2>1
  <2>5. CASE pc' = "setDrain"
    BY <1>1, <1>4, <1>6, <2>1, <2>4, <2>5 DEF FramesFed, EndSeen
  <2>6. CASE pc' = "loop"
    <3>1. frameCounter' >= fed /\ EndSeen'
      BY <1>1, <1>2, <2>1, <2>6 DEF EndSeen
    <3> QED
      BY <1>1, <1>4, <1>6, <2>1, <2>4, <2>6, <3>1 DEF FramesFed
  <2> QED
    BY <1>1, <1>4, <1>6, <1>7, <2>3, <2>5, <2>6 DEF FramesFed
<1>9. CASE ~EndSeen
  <2>1. streamPos = fed /\ frameCounter = fed
    BY <1>1, <1>9 DEF ServiceInv, FramesFed
  <2>2. isEndReached => fed = FramesAsked
    BY <1>2, <1>3, <1>6, <2>1 DEF isEndReached, EosReached, FramesAsked
  <2>3. ~isEndReached => fed < FramesAsked /\ streamPos' = fed + 1
    BY <1>1, <1>2, <1>3, <1>6, <2>1 DEF isEndReached, EosReached, FramesAsked
  <2>4. streamPos' >= fed
    BY <1>2, <1>5, <2>1
  <2>5. CASE pc' = "queueInput"
    <3>1. ~EndSeen' /\ frameCounter' = fed
      BY <1>1, <1>9, <2>1, <2>5 DEF EndSeen, isDrainPending, isDrainSent
    <3> QED
      BY <1>1, <1>4, <1>6, <2>3, <2>5, <3>1 DEF FramesFed
  <2>6. CASE pc' = "setDrain"
    <3>1. EndSeen' /\ frameCounter' >= fed
      BY <1>1, <1>2, <2>1, <2>6 DEF EndSeen
    <3> QED
      BY <1>1, <1>4, <1>6, <2>2, <2>4, <2>6, <3>1 DEF FramesFed
  <2>7. CASE pc' = "loop"
    <3>1. EndSeen' /\ frameCounter' >= fed
      BY <1>1, <1>2, <2>1, <2>7 DEF EndSeen
    <3> QED
      BY <1>1, <1>4, <1>6, <2>2, <2>4, <2>7, <3>1 DEF FramesFed
  <2> QED
    BY <1>1, <1>4, <1>6, <1>7, <2>5, <2>6, <2>7 DEF FramesFed
<1> QED
  BY <1>8, <1>9

\* The frame is queued, and the parser is at the next one.
LEMMA FedQueue ==
  ASSUME ServiceInv, QueueInput
  PROVE  FramesFed'
<1>1. /\ pc = "queueInput" /\ Running
      /\ UNCHANGED <<streamPos, flags>>
      /\ \/ fed' = fed + 1 /\ frameCounter' = frameCounter + 1 /\ pc' = "loop"
         \/ fed' = fed /\ pc' = "returned"
  BY DEF QueueInput, NextFrame, Goto, ReturnError, Fail, codecVars, Running,
         LoopPc
<1>2. /\ streamPos = fed + 1 /\ frameCounter = fed /\ fed < FramesAsked
      /\ ~EndSeen
  BY <1>1 DEF ServiceInv, FramesFed
<1>3. fed \in Nat /\ FramesAsked \in Nat /\ FramesAsked' = FramesAsked
  BY DecoderAssumption
  DEF ServiceInv, OwnershipInv, ListsInv, TypeOK, DecoderTypeOK, FramesAsked
<1>4. fed' <= FramesAsked
  BY <1>1, <1>2, <1>3
<1>5. CASE pc' = "loop"
  <2>1. ~EndSeen'
    BY <1>1, <1>2, <1>5 DEF EndSeen, isDrainPending, isDrainSent
  <2>2. frameCounter' = fed' /\ streamPos' = fed'
    BY <1>1, <1>2, <1>5
  <2> QED
    BY <1>3, <1>4, <1>5, <2>1, <2>2 DEF FramesFed
<1>6. CASE pc' = "returned"
  BY <1>3, <1>4, <1>6 DEF FramesFed, Running, SetupPc, LoopPc
<1> QED
  BY <1>1, <1>5, <1>6

\* The drain is sent, at once or when OUTPUT_PORT has been started.
LEMMA FedDrain ==
  ASSUME ServiceInv, PostponedDrain \/ SetDrain \/ DrainStop
  PROVE  FramesFed'
<1>1. CASE PostponedDrain
  <2>1. /\ UNCHANGED <<fed, streamPos, frameCounter>>
        /\ pc = "postponedDrain" /\ pc' \notin {"queueInput", "setDrain"}
        /\ Running
    BY <1>1 DEF PostponedDrain, progressVars, loopVars, historyVars, Goto,
                Running, LoopPc
  <2>2. EndSeen' <=> EndSeen
    BY <1>1, <2>1 DEF PostponedDrain, MarkDrainSent, EndSeen, isDrainPending,
                      isDrainSent
  <2> QED
    BY <2>1, <2>2, FedQuiet
<1>2. CASE SetDrain
  <2>1. /\ UNCHANGED <<fed, streamPos, frameCounter>>
        /\ pc = "setDrain" /\ pc' = "drainStop" /\ Running
    BY <1>2 DEF SetDrain, progressVars, loopVars, historyVars, Goto, Running,
                LoopPc
  <2>2. EndSeen' /\ EndSeen
    BY <1>2, <2>1 DEF SetDrain, MarkDrainSent, EndSeen, isDrainSent
  <2> QED
    BY <2>1, <2>2, FedQuiet
<1>3. CASE DrainStop
  <2>1. /\ UNCHANGED <<fed, streamPos, flags>>
        /\ pc = "drainStop" /\ pc' \in {"loop", "returned"} /\ Running
        /\ frameCounter' \in {frameCounter, frameCounter + 1}
    BY <1>3 DEF DrainStop, historyVars, codecVars, NextFrame, Goto,
                ReturnError, Fail, Running, LoopPc
  <2>2. EndSeen /\ EndSeen'
    BY <2>1 DEF ServiceInv, DrainedOnce, EndSeen, isDrainSent
  <2>3. fed = FramesAsked /\ streamPos >= fed /\ frameCounter >= fed
    BY <2>1, <2>2 DEF ServiceInv, FramesFed
  <2>4. fed \in Nat /\ frameCounter \in Nat
    BY DEF ServiceInv, OwnershipInv, ListsInv, TypeOK, DecoderTypeOK
  <2>5. frameCounter' >= fed
    BY <2>1, <2>3, <2>4
  <2>6. FramesAsked' = FramesAsked
    BY DEF FramesAsked
  <2> QED
    BY <2>1, <2>2, <2>3, <2>4, <2>5, <2>6 DEF FramesFed
<1> QED
  BY <1>1, <1>2, <1>3

\* The callbacks change no flag of the drain but the last one.
LEMMA PollKeepsDrain ==
  ASSUME PollNext
  PROVE  /\ isDrainSent' <=> isDrainSent
         /\ isDrainPending' <=> isDrainPending
BY DEF PollNext, PollLoop, OnEventDone, OnError, OnInputDone, OnOutputDone,
       DumpOutput, OnLastForReconfig, OnLastForDrain, codecVars, isDrainSent,
       isDrainPending

\* The other quiet steps neither move the parser nor see the end.
LEMMA FedStill ==
  ASSUME ServiceInv, StillSteps, ~PrepareInput,
         ~(PostponedDrain \/ SetDrain \/ DrainStop)
  PROVE  FramesFed'
<1>1. UNCHANGED <<fed, streamPos, frameCounter>>
  BY DEF StillSteps, ConfigureInput, AllocateInput, StartInput, LoopHead,
         Reconfig, ConfigureOutput, AllocateOutput, StartOutput,
         PostponedStop, DrainWait, InputAvailable, WaitForInput,
         progressVars, loopVars, historyVars
<1>2. /\ pc \notin {"queueInput", "setDrain"}
      /\ pc' \notin {"queueInput", "setDrain"}
  BY DEF StillSteps, ConfigureInput, AllocateInput, StartInput, LoopHead,
         Reconfig, ConfigureOutput, AllocateOutput, StartOutput,
         PostponedStop, DrainWait, InputAvailable, WaitForInput, Goto, Fail,
         Return, ReturnError
<1>3. \/ pc' = "returned"
      \/ (isDrainSent' <=> isDrainSent) /\ (isDrainPending' <=> isDrainPending)
  BY DEF StillSteps, ConfigureInput, AllocateInput, StartInput, LoopHead,
         Reconfig, ConfigureOutput, AllocateOutput, StartOutput,
         PostponedStop, DrainWait, InputAvailable, WaitForInput, Goto, Fail,
         Return, ReturnError, codecVars, isDrainSent, isDrainPending
<1>4. pc' = "returned" => ~Running'
  BY DEF Running, SetupPc, LoopPc
<1>5. Running
  BY StillFrame
<1> QED
  BY <1>1, <1>2, <1>3, <1>4, <1>5, FedQuiet DEF EndSeen

\* Every step keeps them.
LEMMA FedStep ==
  ASSUME MaxChanges = 0, ServiceInv, Next
  PROVE  FramesFed'
<1>1. CASE PollNext
  <2>1. UNCHANGED <<fed, streamPos, frameCounter, pc>>
        /\ (Running' <=> Running)
    BY <1>1, PollFrame DEF sessionVars, loopVars
  <2>2. EndSeen' <=> EndSeen
    BY <1>1, <2>1, PollKeepsDrain DEF EndSeen
  <2> QED
    BY <2>1, <2>2, FedQuiet
<1>2. CASE DeviceWorks \/ DeviceBreaks \/ Finished
  <2>1. UNCHANGED <<fed, streamPos, frameCounter, pc, flags>>
    BY <1>2 DEF DeviceWorks, DeviceBreaks, Finished, vars, codecVars,
                sessionVars, loopVars, historyVars
  <2>2. (EndSeen' <=> EndSeen) /\ (Running' <=> Running)
    BY <2>1 DEF EndSeen, isDrainSent, isDrainPending, Running
  <2> QED
    BY <2>1, <2>2, FedQuiet
<1>3. CASE TeardownSteps
  BY <1>3, TeardownFrame, FedQuiet
<1>4. CASE QueueOutput
  <2>1. /\ UNCHANGED <<fed, streamPos, frameCounter, flags>>
        /\ pc \notin {"queueInput", "setDrain"}
        /\ pc' \notin {"queueInput", "setDrain"}
    BY <1>4 DEF QueueOutput, QueueAllOutput, QueueSomeOutput, Goto,
                ReturnError, Fail, progressVars, loopVars, historyVars
  <2> QED
    BY <1>4, <2>1, QueueFrame, FedQuiet
    DEF EndSeen, isDrainSent, isDrainPending
<1> QED
  BY <1>1, <1>2, <1>3, <1>4, StepsTaken, FedStill, FedPrepare, FedQueue,
     FedDrain
  DEF Next


-----------------------------------------------------------------------------
\* Every step keeps the one start of OUTPUT_PORT the one.

\* Neither the device nor the loop comes nearer to it.
LEMMA StartedQuiet ==
  ASSUME ServiceInv, UNCHANGED <<phase, changes, events>>,
         isReconfigEventReceived' <=> isReconfigEventReceived,
         pc' \notin StillStartedPc \cup {"drcFreeBuffers"},
         Running' =>
             /\ Running
             /\ started'[OUTPUT_PORT] = started[OUTPUT_PORT]
             /\ pc' \in StartingPc => pc \in StartingPc
  PROVE  StartedOnce'
<1>1. EventSeen' <=> EventSeen
  BY DEF EventSeen
<1> QED
  BY <1>1 DEF ServiceInv, StartedOnce

\* The loop configures, allocates and starts OUTPUT_PORT for the event.
LEMMA StartedStill ==
  ASSUME ServiceInv, StillSteps
  PROVE  StartedOnce'
<1>1. UNCHANGED <<changes, events>> /\ Running
  BY StillFrame
<1>2. CASE Reconfig
  <2>1. UNCHANGED <<phase, started>> /\ pc = "reconfig"
    BY <1>2 DEF Reconfig, hardwareVars, firmwareVars
  <2>2. CASE UNCHANGED flags /\ pc' = "queueOutput"
    BY <1>1, <2>1, <2>2, StartedQuiet
    DEF isReconfigEventReceived, StillStartedPc, StartingPc
  <2>3. CASE /\ isReconfigEventReceived /\ ~started[OUTPUT_PORT]
             /\ flags' = flags \ {"mReconfigEventReceived"}
             /\ pc' = "configureOutput"
    <3>1. events \in Nat
      BY DEF ServiceInv, OwnershipInv, ListsInv, TypeOK, DeviceTypeOK
    <3>2. phase = "ready" /\ ~(events > 0)
      BY <1>1, <2>3 DEF ServiceInv, StartedOnce, EventSeen
    <3>3. ~EventSeen'
      BY <1>1, <2>3, <3>2 DEF EventSeen, isReconfigEventReceived
    <3>4. ~started'[OUTPUT_PORT] /\ pc' \notin StillStartedPc
          /\ pc' # "drcFreeBuffers"
      BY <2>1, <2>3 DEF StillStartedPc
    <3> QED
      BY <1>1, <2>1, <3>1, <3>2, <3>3, <3>4
      DEF StartedOnce, EventSeen, ServiceInv
  <2>4. isReconfigEventReceived => ~started[OUTPUT_PORT]
    BY <1>1 DEF ServiceInv, StartedOnce, EventSeen
  <2> QED
    BY <1>2, <2>2, <2>3, <2>4 DEF Reconfig, Goto
<1>3. CASE ConfigureOutput \/ AllocateOutput
  <2>1. /\ UNCHANGED <<phase, started, flags>>
        /\ pc \in StartingPc
        /\ pc' \in {"allocateOutput", "startOutput", "returned"}
    BY <1>3 DEF ConfigureOutput, AllocateOutput, hardwareVars, firmwareVars,
                codecVars, Goto, ReturnError, Fail, StartingPc
  <2> QED
    BY <1>1, <2>1, StartedQuiet DEF isReconfigEventReceived, StillStartedPc
<1>4. CASE StartOutput
  <2>1. UNCHANGED flags /\ pc \in StartingPc
        /\ pc' \in {"queueOutput", "returned"}
    BY <1>4 DEF StartOutput, Goto, ReturnError, Fail, StartingPc
  <2>2. phase = "ready" /\ ~EventSeen /\ ~EventSeen'
    BY <1>1, <2>1
    DEF ServiceInv, StartedOnce, EventSeen, isReconfigEventReceived
  <2>3. CASE FirmwareStreamOn(OUTPUT_PORT) /\ SetStarted(OUTPUT_PORT, TRUE)
    <3>1. phase' = "run" /\ started'[OUTPUT_PORT]
      BY <2>2, <2>3
      DEF FirmwareStreamOn, SetStarted, Port, ServiceInv, OwnershipInv,
          ListsInv, TypeOK, CodecTypeOK
    <3> QED
      BY <1>1, <2>1, <2>2, <3>1
      DEF ServiceInv, StartedOnce, StillStartedPc, StartingPc, EventSeen,
          isReconfigEventReceived
  <2>4. CASE UNCHANGED <<phase, started>>
    BY <1>1, <2>1, <2>4, StartedQuiet DEF isReconfigEventReceived,
       StillStartedPc, StartingPc
  <2> QED
    BY <1>4, <2>3, <2>4 DEF StartOutput, hardwareVars, firmwareVars
<1>5. CASE \/ ConfigureInput \/ AllocateInput \/ StartInput \/ LoopHead
           \/ PostponedDrain \/ PostponedStop \/ DrainWait \/ InputAvailable
           \/ WaitForInput \/ PrepareInput \/ SetDrain \/ DrainStop
  <2>1. started'[OUTPUT_PORT] = started[OUTPUT_PORT]
    BY <1>5
    DEF ConfigureInput, AllocateInput, StartInput, SetStarted, LoopHead,
        PostponedDrain, PostponedStop, DrainWait, InputAvailable,
        WaitForInput, PrepareInput, SetDrain, DrainStop, codecVars,
        ServiceInv, OwnershipInv, ListsInv, TypeOK, CodecTypeOK, Port,
        INPUT_PORT, OUTPUT_PORT
  <2>2. isReconfigEventReceived' <=> isReconfigEventReceived
    BY <1>5
    DEF ConfigureInput, AllocateInput, StartInput, LoopHead, PostponedDrain,
        PostponedStop, MarkDrainSent, DrainWait, InputAvailable, WaitForInput,
        PrepareInput, SetDrain, DrainStop, codecVars, isReconfigEventReceived
  <2>3. pc' \notin StillStartedPc \cup StartingPc
    BY <1>5
    DEF ConfigureInput, AllocateInput, StartInput, LoopHead, PostponedDrain,
        PostponedStop, DrainWait, InputAvailable, WaitForInput, PrepareInput,
        SetDrain, DrainStop, NextFrame, Goto, Fail, Return, ReturnError,
        StillStartedPc, StartingPc
  <2>4. CASE UNCHANGED phase
    BY <1>1, <2>1, <2>2, <2>3, <2>4, StartedQuiet DEF StartingPc
  <2>5. CASE DrainWait /\ pc' = "returned" /\ FirmwareCmdStart
    <3>1. /\ phase' \in {phase, "run"}
          /\ EventSeen' <=> EventSeen
          /\ ~Running'
      BY <1>1, <2>2, <2>5
      DEF FirmwareCmdStart, EventSeen, Running, SetupPc, LoopPc
    <3> QED
      BY <1>1, <2>2, <2>3, <3>1 DEF ServiceInv, StartedOnce, StartingPc
  <2> QED
    BY <1>5, <2>4, <2>5
    DEF ConfigureInput, AllocateInput, StartInput, FirmwareStreamOn, LoopHead,
        PostponedDrain, PostponedStop, FirmwareCmdStop, DrainWait, Return,
        Goto, InputAvailable, WaitForInput, PrepareInput, SetDrain, DrainStop,
        hardwareVars, firmwareVars, INPUT_PORT, OUTPUT_PORT
<1> QED
  BY <1>2, <1>3, <1>4, <1>5 DEF StillSteps

\* The device sees the header, raises its event and decodes.
LEMMA StartedDevice ==
  ASSUME MaxChanges = 0, ServiceInv, DeviceWorks
  PROVE  StartedOnce'
<1>1. /\ UNCHANGED <<changes, flags, started, pc>> /\ (Running' <=> Running)
      /\ ParseHeader \/ ConsumeInput \/ ProduceFrame \/ ProduceEmptyLast
  BY DeviceFrame DEF codecVars, sessionVars
<1>2. events \in Nat
  BY DEF ServiceInv, OwnershipInv, ListsInv, TypeOK, DeviceTypeOK
<1>3. isReconfigEventReceived' <=> isReconfigEventReceived
  BY <1>1 DEF isReconfigEventReceived
<1>4. phase # "flush" /\ pc \notin StillStartedPc \cup {"drcFreeBuffers"}
  BY DEF ServiceInv, StartedOnce
<1>5. CASE ParseHeader
  <2>1. /\ phase = "header" /\ phase' = "ready" /\ events' = events + 1
    BY <1>5 DEF ParseHeader
  <2>2. ~EventSeen /\ events = 0 /\ events' = 1
    BY <1>2, <2>1 DEF ServiceInv, StartedOnce, EventSeen
  <2> QED
    BY <1>1, <1>3, <2>1, <2>2 DEF ServiceInv, StartedOnce, EventSeen
<1>6. CASE ConsumeInput
  <2>1. UNCHANGED <<phase, events>>
    BY <1>6 DEF ConsumeInput
  <2> QED
    BY <1>1, <1>3, <1>4, <2>1, StartedQuiet
<1>7. CASE ProduceFrame \/ ProduceEmptyLast
  <2>1. /\ phase = "run" /\ phase' \in {"run", "stopped"}
        /\ UNCHANGED events
    BY <1>4, <1>7 DEF ProduceFrame, ProduceEmptyLast, StopAfterLast, LastIsDue
  <2>2. EventSeen' <=> EventSeen
    BY <1>3, <2>1 DEF EventSeen
  <2> QED
    BY <1>1, <1>3, <2>1, <2>2 DEF ServiceInv, StartedOnce
<1> QED
  BY <1>1, <1>5, <1>6, <1>7

\* Every step keeps it.
LEMMA StartedOnceStep ==
  ASSUME MaxChanges = 0, ServiceInv, Next
  PROVE  StartedOnce'
<1>1. pc \notin StillStartedPc \cup {"drcFreeBuffers"}
  BY DEF ServiceInv, StartedOnce
<1>2. CASE PollNext /\ ~OnEventDone
  <2>1. /\ UNCHANGED <<phase, changes, pc, started>> /\ (Running' <=> Running)
    BY <1>2, PollFrame DEF firmwareVars, sessionVars
  <2>2. /\ UNCHANGED events
        /\ isReconfigEventReceived' <=> isReconfigEventReceived
    BY <1>2
    DEF PollNext, PollLoop, PollReady, PollExit, DequeueOutput, DequeueInput,
        DequeueBuffer, DqBuf, OnError, PollError, OnInputDone, OnOutputDone,
        DumpOutput, OnLastForReconfig, OnLastForDrain, hardwareVars,
        deviceVars, codecVars, isReconfigEventReceived
  <2> QED
    BY <1>1, <2>1, <2>2, StartedQuiet
<1>3. CASE OnEventDone
  <2>1. /\ UNCHANGED <<phase, changes, pc, started>> /\ (Running' <=> Running)
    BY <1>3, PollFrame DEF PollNext, firmwareVars, sessionVars
  <2>2. /\ events > 0 /\ events' = events - 1
        /\ isReconfigEventReceived'
    BY <1>3 DEF OnEventDone, DequeueEvent, isReconfigEventReceived
  <2>3. events \in Nat /\ events <= 1
    BY DEF ServiceInv, OwnershipInv, ListsInv, TypeOK, DeviceTypeOK,
           StartedOnce
  <2>4. events' = 0 /\ EventSeen /\ EventSeen'
    BY <2>2, <2>3 DEF EventSeen
  <2> QED
    BY <2>1, <2>4 DEF ServiceInv, StartedOnce
<1>4. CASE DeviceBreaks \/ Finished
  <2>1. UNCHANGED <<phase, changes, events, flags, started, pc>>
    BY <1>4 DEF DeviceBreaks, Break, Finished, vars, hardwareVars, deviceVars,
                firmwareVars, codecVars, sessionVars
  <2> QED
    BY <1>1, <2>1, StartedQuiet DEF isReconfigEventReceived, Running
<1>5. CASE TeardownSteps
  <2>1. /\ UNCHANGED <<phase, changes, events, flags>> /\ ~Running'
        /\ pc' \notin StillStartedPc \cup {"drcFreeBuffers"}
    BY <1>5, TeardownFrame DEF TeardownPc, StillStartedPc
  <2> QED
    BY <2>1, StartedQuiet DEF isReconfigEventReceived
<1>6. CASE QueueOutput \/ QueueInput
  <2>1. UNCHANGED <<phase, changes, events, flags, started>> /\ Running
    BY <1>6, QueueFrame DEF firmwareVars
  <2>2. pc' \notin StillStartedPc \cup StartingPc
    BY <1>6
    DEF QueueOutput, QueueAllOutput, QueueSomeOutput, QueueInput, NextFrame,
        Goto, ReturnError, Fail, StillStartedPc, StartingPc
  <2> QED
    BY <2>1, <2>2, StartedQuiet DEF isReconfigEventReceived, StartingPc
<1> QED
  BY <1>2, <1>3, <1>4, <1>5, <1>6, StepsTaken, StartedStill, StartedDevice
  DEF Next


-----------------------------------------------------------------------------
\* Every step keeps the drain sent once.

BeforeDrainPc == {"inputAvailable", "waitForInput", "prepareInput",
                  "queueInput", "setDrain"}

\* Nothing moves that the drain depends on, but for the loop.
LEMMA DrainedQuiet ==
  ASSUME ServiceInv,
         Running' =>
             /\ Running
             /\ draining' = draining
             /\ phase' = "stopped" => phase = "stopped"
             /\ queued'[INPUT_PORT] \subseteq queued[INPUT_PORT]
             /\ started[OUTPUT_PORT] => started'[OUTPUT_PORT]
             /\ isDrainSent' <=> isDrainSent
             /\ isDrainPending' => isDrainPending \/ ~isDrainSent
             /\ \/ UNCHANGED pc
                \/ /\ pc \notin {"postponedStop", "drainStop"}
                   /\ pc' \notin {"postponedStop", "drainStop"}
                   /\ pc' \in {"postponedDrain", "setDrain"} =>
                          started'[OUTPUT_PORT]
                   /\ pc' \in BeforeDrainPc => ~isDrainSent
  PROVE  DrainedOnce'
<1> SUFFICES ASSUME Running' PROVE DrainedOnce'
  BY DEF DrainedOnce
<1>1. StopSent' <=> StopSent
  BY DEF StopSent
<1> QED
  BY <1>1 DEF ServiceInv, DrainedOnce, BeforeDrainPc

\* The loop marks the drain as sent and tells the device.
LEMMA DrainedSend ==
  ASSUME ServiceInv,
         PostponedDrain \/ PostponedStop \/ SetDrain \/ DrainStop
  PROVE  DrainedOnce'
<1>1. Running /\ UNCHANGED queued
  BY StillFrame DEF StillSteps
<1>2. UNCHANGED <<started, phase>>
  BY DEF PostponedDrain, PostponedStop, SetDrain, DrainStop, FirmwareCmdStop,
         codecVars, hardwareVars, firmwareVars
<1>3. CASE PostponedDrain \/ SetDrain
  <2>1. UNCHANGED draining
    BY <1>3 DEF PostponedDrain, SetDrain, hardwareVars, firmwareVars
  <2>2. started[OUTPUT_PORT]
    BY <1>1, <1>3 DEF PostponedDrain, SetDrain, ServiceInv, DrainedOnce
  <2>3. CASE UNCHANGED flags
    <3>1. pc = "postponedDrain" /\ pc' = "drainWait"
      BY <1>3, <2>3
      DEF PostponedDrain, SetDrain, MarkDrainSent, Goto, isDrainPending,
          isDrainSent, ServiceInv, DrainedOnce, Running, LoopPc
    <3> QED
      BY <1>1, <1>2, <2>1, <2>3, <3>1, DrainedQuiet
      DEF isDrainSent, isDrainPending, BeforeDrainPc
  <2>4. CASE /\ MarkDrainSent
             /\ \/ pc = "postponedDrain" /\ isDrainPending
                \/ pc = "setDrain"
             /\ pc' \in {"postponedStop", "drainStop"}
    <3>1. ~isDrainSent
      BY <1>1, <2>4 DEF ServiceInv, DrainedOnce
    <3>2. ~draining /\ phase # "stopped"
      BY <1>1, <3>1 DEF ServiceInv, DrainedOnce, StopSent
    <3>3. isDrainSent' /\ ~isDrainPending'
      BY <2>4 DEF MarkDrainSent, isDrainSent, isDrainPending
    <3> QED
      BY <1>2, <2>1, <2>2, <2>4, <3>2, <3>3 DEF DrainedOnce
  <2> QED
    BY <1>3, <2>3, <2>4 DEF PostponedDrain, SetDrain, Goto
<1>4. CASE PostponedStop \/ DrainStop
  <2>1. /\ UNCHANGED flags
        /\ pc \in {"postponedStop", "drainStop"}
        /\ pc' \in {"drainWait", "loop", "returned"}
    BY <1>4 DEF PostponedStop, DrainStop, codecVars, NextFrame, Goto,
                ReturnError, Fail
  <2>2. isDrainSent /\ phase # "stopped"
    BY <1>1, <2>1 DEF ServiceInv, DrainedOnce, StopSent
  <2>3. started[OUTPUT_PORT] /\ ~isDrainPending
    BY <1>1, <2>2 DEF ServiceInv, DrainedOnce
  <2>4. StopSent' /\ isDrainSent' /\ ~isDrainPending'
    BY <2>1, <2>2, <2>3 DEF StopSent, isDrainSent, isDrainPending
  <2> QED
    BY <1>2, <2>1, <2>2, <2>3, <2>4 DEF DrainedOnce
<1> QED
  BY <1>3, <1>4

\* The other quiet steps of the session.
LEMMA DrainedStill ==
  ASSUME ServiceInv, StillSteps,
         ~(PostponedDrain \/ PostponedStop \/ SetDrain \/ DrainStop)
  PROVE  DrainedOnce'
<1>1. UNCHANGED queued /\ Running
  BY StillFrame
<1>2. CASE ~Running'
  BY <1>2 DEF DrainedOnce
<1>3. CASE Running'
  <2>1. pc' # "returned"
    BY <1>3 DEF Running, SetupPc, LoopPc
  <2>2. UNCHANGED draining /\ (phase' = "stopped" => phase = "stopped")
    BY <2>1
    DEF StillSteps, ConfigureInput, AllocateInput, StartInput, LoopHead,
        Reconfig, ConfigureOutput, AllocateOutput, StartOutput,
        FirmwareStreamOn, DrainWait, Return, ReturnError, Goto, Fail,
        InputAvailable, WaitForInput, PrepareInput, hardwareVars, firmwareVars
  <2>3. started[OUTPUT_PORT] => started'[OUTPUT_PORT]
    BY DEF StillSteps, ConfigureInput, AllocateInput, StartInput, SetStarted,
           LoopHead, Reconfig, ConfigureOutput, AllocateOutput, StartOutput,
           DrainWait, InputAvailable, WaitForInput, PrepareInput, codecVars,
           ServiceInv, OwnershipInv, ListsInv, TypeOK, CodecTypeOK, Port,
           INPUT_PORT, OUTPUT_PORT
  <2>4. isDrainSent' <=> isDrainSent
    BY <2>1
    DEF StillSteps, ConfigureInput, AllocateInput, StartInput, LoopHead,
        Reconfig, ConfigureOutput, AllocateOutput, StartOutput, DrainWait,
        Return, ReturnError, Goto, Fail, InputAvailable, WaitForInput,
        PrepareInput, codecVars, isDrainSent
  <2>5. isDrainPending' => isDrainPending \/ pc = "prepareInput"
    BY <2>1
    DEF StillSteps, ConfigureInput, AllocateInput, StartInput, LoopHead,
        Reconfig, ConfigureOutput, AllocateOutput, StartOutput, DrainWait,
        Return, ReturnError, Goto, Fail, InputAvailable, WaitForInput,
        PrepareInput, codecVars, isDrainPending
  <2>6. pc \in BeforeDrainPc => ~isDrainSent
    BY <1>1 DEF ServiceInv, DrainedOnce, BeforeDrainPc
  <2>7. /\ pc \notin {"postponedStop", "drainStop"}
        /\ pc' \notin {"postponedStop", "drainStop", "postponedDrain"}
        /\ pc' = "setDrain" => started[OUTPUT_PORT]
        /\ pc' \in BeforeDrainPc => pc \in BeforeDrainPc \/ ~isDrainSent
    BY DEF StillSteps, ConfigureInput, AllocateInput, StartInput, LoopHead,
           Reconfig, ConfigureOutput, AllocateOutput, StartOutput, DrainWait,
           Return, ReturnError, NextFrame, Goto, Fail, InputAvailable,
           WaitForInput, PrepareInput, BeforeDrainPc
  <2>8. pc = "prepareInput" => pc \in BeforeDrainPc
    BY DEF BeforeDrainPc
  <2> QED
    BY <1>1, <2>2, <2>3, <2>4, <2>5, <2>6, <2>7, <2>8, DrainedQuiet
<1> QED
  BY <1>2, <1>3

\* VIDIOC_QBUF: INPUT_PORT gets no frame after the drain has been sent.
LEMMA DrainedQueue ==
  ASSUME ServiceInv, QueueOutput \/ QueueInput
  PROVE  DrainedOnce'
<1>1. UNCHANGED <<phase, draining, started, flags>> /\ Running
  BY QueueFrame DEF firmwareVars
<1>2. CASE QueueOutput
  <2>1. queued'[INPUT_PORT] = queued[INPUT_PORT]
    BY <1>2
    DEF QueueOutput, QueueAllOutput, QueueSomeOutput, QueueBuffers, QBuf,
        Port, INPUT_PORT, OUTPUT_PORT, deviceVars, ServiceInv, OwnershipInv,
        ListsInv, TypeOK, DeviceTypeOK, IsPortBufs
  <2>2. /\ pc = "queueOutput"
        /\ pc' \in {"drainWait", "postponedDrain", "returned"}
        /\ pc' = "postponedDrain" => started[OUTPUT_PORT]
    BY <1>2 DEF QueueOutput, QueueAllOutput, QueueSomeOutput, Goto,
                ReturnError, Fail
  <2> QED
    BY <1>1, <2>1, <2>2, DrainedQuiet
    DEF isDrainSent, isDrainPending, BeforeDrainPc
<1>3. CASE QueueInput
  <2>1. pc = "queueInput" /\ pc' \in {"loop", "returned"}
    BY <1>3 DEF QueueInput, NextFrame, Goto, ReturnError, Fail
  <2>2. ~isDrainSent /\ ~draining /\ phase # "stopped"
    BY <1>1, <2>1 DEF ServiceInv, DrainedOnce, StopSent
  <2>3. ~isDrainSent'
    BY <1>1, <2>2 DEF isDrainSent
  <2> QED
    BY <1>1, <2>1, <2>2, <2>3 DEF DrainedOnce
<1> QED
  BY <1>2, <1>3

\* The device stops when it is told to drain and has no input left.
LEMMA DrainedDevice ==
  ASSUME MaxChanges = 0, ServiceInv, DeviceWorks
  PROVE  DrainedOnce'
<1>1. /\ UNCHANGED <<flags, started, pc>> /\ (Running' <=> Running)
      /\ ParseHeader \/ ConsumeInput \/ ProduceFrame \/ ProduceEmptyLast
  BY DeviceFrame DEF codecVars, sessionVars
<1>2. DeviceTypeOK
  BY DEF ServiceInv, OwnershipInv, ListsInv, TypeOK
<1>3. (isDrainSent' <=> isDrainSent) /\ (isDrainPending' <=> isDrainPending)
  BY <1>1 DEF isDrainSent, isDrainPending
<1>4. INPUT_PORT # OUTPUT_PORT /\ INPUT_PORT \in Port /\ OUTPUT_PORT \in Port
  BY DEF INPUT_PORT, OUTPUT_PORT, Port
<1>5. phase # "flush"
  BY DEF ServiceInv, StartedOnce
<1>6. CASE ParseHeader
  BY <1>1, <1>3, <1>6, DrainedQuiet DEF ParseHeader
<1>7. CASE ConsumeInput
  <2>1. queued'[INPUT_PORT] \subseteq queued[INPUT_PORT]
    BY <1>2, <1>4, <1>7, CompleteParts DEF ConsumeInput
  <2> QED
    BY <1>1, <1>3, <1>7, <2>1, DrainedQuiet DEF ConsumeInput
<1>8. CASE /\ queued'[INPUT_PORT] = queued[INPUT_PORT]
           /\ UNCHANGED <<phase, draining>>
  BY <1>1, <1>3, <1>8, DrainedQuiet
<1>9. CASE /\ queued'[INPUT_PORT] = queued[INPUT_PORT]
           /\ LastIsDue /\ StopAfterLast
  <2>1. /\ draining /\ queued'[INPUT_PORT] = {}
        /\ phase' = "stopped" /\ ~draining'
    BY <1>5, <1>9 DEF LastIsDue, StopAfterLast
  <2>2. Running => StopSent
    BY <2>1 DEF ServiceInv, DrainedOnce
  <2>3. StopSent' <=> StopSent
    BY <1>1, <1>3 DEF StopSent
  <2> QED
    BY <1>1, <1>3, <2>1, <2>2, <2>3 DEF ServiceInv, DrainedOnce
<1>10. CASE ProduceFrame \/ ProduceEmptyLast
  <2>1. \E b \in queued[OUTPUT_PORT], f, l \in BOOLEAN :
            Complete(OUTPUT_PORT, b, f, l)
    BY <1>10 DEF ProduceFrame, ProduceEmptyLast
  <2>2. queued'[INPUT_PORT] = queued[INPUT_PORT]
    <3> PICK b \in queued[OUTPUT_PORT], f, l \in BOOLEAN :
            Complete(OUTPUT_PORT, b, f, l)
      BY <2>1
    <3>1. queued' = [queued EXCEPT ![OUTPUT_PORT] = @ \ {b}]
      BY DEF Complete
    <3>2. INPUT_PORT \in DOMAIN queued
      BY <1>2, <1>4 DEF DeviceTypeOK, IsPortBufs
    <3> QED
      BY <1>4, <3>1, <3>2
  <2> QED
    BY <1>8, <1>9, <1>10, <2>2 DEF ProduceFrame, ProduceEmptyLast
<1> QED
  BY <1>1, <1>6, <1>7, <1>10

\* Every step keeps it.
LEMMA DrainedOnceStep ==
  ASSUME MaxChanges = 0, ServiceInv, Next
  PROVE  DrainedOnce'
<1>1. CASE PollNext
  <2>1. UNCHANGED <<queued, phase, draining, started, pc>>
        /\ (Running' <=> Running)
    BY <1>1, PollFrame DEF firmwareVars, sessionVars
  <2> QED
    BY <1>1, <2>1, PollKeepsDrain, DrainedQuiet
<1>2. CASE DeviceBreaks \/ Finished
  <2>1. UNCHANGED <<queued, phase, draining, started, flags, pc>>
    BY <1>2 DEF DeviceBreaks, Break, Finished, vars, hardwareVars, deviceVars,
                firmwareVars, codecVars, sessionVars
  <2> QED
    BY <2>1, DrainedQuiet DEF isDrainSent, isDrainPending, Running
<1>3. CASE TeardownSteps
  BY <1>3, TeardownFrame DEF DrainedOnce
<1> QED
  BY <1>1, <1>2, <1>3, StepsTaken, DrainedSend, DrainedStill, DrainedQueue,
     DrainedDevice
  DEF Next


-----------------------------------------------------------------------------
\* Every step keeps the LAST buffer of the drain the last one.

\* Nothing moves that it depends on, or the loop is over.
LEMMA LastOfDrainQuiet ==
  ASSUME ServiceInv,
         Running' =>
             /\ Running
             /\ UNCHANGED phase \/ phase # "stopped"
             /\ done'[OUTPUT_PORT] = done[OUTPUT_PORT]
             /\ isDrainLastFlagReceived' => isDrainLastFlagReceived
             /\ Handling' => Handling
             /\ ppc' = "drainFlag" => ppc = "drainFlag"
  PROVE  LastOfDrain'
BY DEF ServiceInv, LastOfDrain, OutputQuiet

\* The session raises no flag but those of the drain it sends.
LEMMA StillFlags ==
  ASSUME StillSteps
  PROVE  flags' \subseteq flags \cup {"mDrainSent", "mDrainPending"}
BY DEF StillSteps, ConfigureInput, AllocateInput, StartInput, LoopHead,
       Reconfig, ConfigureOutput, AllocateOutput, StartOutput, PostponedDrain,
       PostponedStop, MarkDrainSent, DrainWait, InputAvailable, WaitForInput,
       PrepareInput, SetDrain, DrainStop, codecVars

\* The session's steps.
LEMMA LastOfDrainSession ==
  ASSUME ServiceInv, SessionNext
  PROVE  LastOfDrain'
<1>1. CASE TeardownSteps
  BY <1>1, TeardownFrame DEF LastOfDrain
<1>2. CASE QueueOutput \/ QueueInput
  <2>1. UNCHANGED <<phase, done, ppc, buffer, flags>> /\ Running
    BY <1>2, QueueFrame DEF firmwareVars
  <2> QED
    BY <2>1, LastOfDrainQuiet DEF isDrainLastFlagReceived, Handling
<1>3. CASE StillSteps
  <2>1. UNCHANGED <<done, ppc, buffer>> /\ Running
    BY <1>3, StillFrame
  <2>2. CASE StartOutput
    <3>1. phase # "stopped"
      BY <2>1, <2>2
      DEF StartOutput, ServiceInv, StartedOnce, StartingPc
    <3> QED
      BY <2>1, <2>2, <3>1
      DEF StartOutput, ServiceInv, LastOfDrain, OutputQuiet, Handling,
          isDrainLastFlagReceived
  <2>3. CASE ~StartOutput /\ pc' # "returned"
    <3>1. UNCHANGED phase
      BY <1>3, <2>3
      DEF StillSteps, ConfigureInput, AllocateInput, StartInput, LoopHead,
          Reconfig, ConfigureOutput, AllocateOutput, FirmwareStreamOn,
          PostponedDrain, PostponedStop, FirmwareCmdStop, DrainWait, Return,
          ReturnError, Goto, Fail, InputAvailable, WaitForInput, PrepareInput,
          SetDrain, DrainStop, hardwareVars, firmwareVars, INPUT_PORT,
          OUTPUT_PORT
    <3>2. isDrainLastFlagReceived' => isDrainLastFlagReceived
      BY <1>3, StillFlags DEF isDrainLastFlagReceived
    <3> QED
      BY <2>1, <3>1, <3>2, LastOfDrainQuiet DEF Handling
  <2>4. CASE pc' = "returned"
    BY <2>4 DEF LastOfDrain, Running, SetupPc, LoopPc
  <2> QED
    BY <2>2, <2>3, <2>4
<1> QED
  BY <1>1, <1>2, <1>3, StepsTaken

\* The poll thread: nothing is done behind a LAST buffer.
LEMMA LastOfDrainPoll ==
  ASSUME ServiceInv, PollNext
  PROVE  LastOfDrain'
<1>1. UNCHANGED phase /\ (Running' <=> Running)
  BY PollFrame DEF firmwareVars
<1>2. SUFFICES ASSUME Running PROVE LastOfDrain'
  BY <1>1 DEF LastOfDrain
<1>3. HandlingLast => OutputQuiet
  BY <1>2 DEF ServiceInv, OwnershipInv, LastInv, LastIsLast
<1>4. DeviceTypeOK
  BY DEF ServiceInv, OwnershipInv, ListsInv, TypeOK
<1>5. CASE /\ UNCHANGED flags
           /\ done'[OUTPUT_PORT] = done[OUTPUT_PORT]
           /\ Handling' => Handling
           /\ ppc' # "drainFlag"
  BY <1>1, <1>2, <1>5, LastOfDrainQuiet DEF isDrainLastFlagReceived
<1>6. CASE PollLoop
  <2>1. UNCHANGED flags /\ ppc' # "drainFlag"
    BY <1>6
    DEF PollLoop, PollReady, PollExit, DequeueOutput, DequeueInput,
        DequeueBuffer, Handle, NextHandler, codecVars
  <2>2. CASE DqBuf(OUTPUT_PORT)
    <3>1. ~isDrainLastFlagReceived
      BY <1>2, <2>2 DEF DqBuf, ServiceInv, LastOfDrain, OutputQuiet
    <3> QED
      BY <2>1, <3>1 DEF LastOfDrain, isDrainLastFlagReceived
  <2>3. CASE done'[OUTPUT_PORT] = done[OUTPUT_PORT] /\ ~Handling'
    BY <1>5, <2>1, <2>3
  <2> QED
    BY <1>4, <1>6, <2>2, <2>3
    DEF PollLoop, PollReady, PollExit, DequeueOutput, DequeueInput,
        DequeueBuffer, DqBuf, Handle, NextHandler, Handling, deviceVars,
        DeviceTypeOK, Port, INPUT_PORT, OUTPUT_PORT
<1>7. CASE OnEventDone \/ OnError
  <2>1. /\ UNCHANGED done /\ ~Handling' /\ ppc' # "drainFlag"
        /\ isDrainLastFlagReceived' <=> isDrainLastFlagReceived
    BY <1>7
    DEF OnEventDone, DequeueEvent, OnError, PollError, Handle, NextHandler,
        Handling, deviceVars, isDrainLastFlagReceived
  <2> QED
    BY <1>1, <1>2, <2>1, LastOfDrainQuiet
<1>8. CASE OnInputDone \/ OnOutputDone \/ DumpOutput
  <2>1. /\ UNCHANGED <<done, flags>>
        /\ Handling' => Handling
        /\ ppc' # "drainFlag"
    BY <1>8
    DEF OnInputDone, OnOutputDone, DumpOutput, CallbackReturns, Handle,
        NextHandler, Handling, hardwareVars, deviceVars, codecVars
  <2> QED
    BY <1>5, <2>1
<1>9. CASE OnLastForReconfig
  <2>1. UNCHANGED done /\ ppc = "drcFlag" /\ ppc' = "drainFlag"
    BY <1>9 DEF OnLastForReconfig, hardwareVars, deviceVars
  <2>2. OutputQuiet /\ OutputQuiet'
    BY <1>1, <1>3, <2>1 DEF HandlingLast, OutputQuiet
  <2> QED
    BY <2>1, <2>2 DEF LastOfDrain, Handling
<1>10. CASE OnLastForDrain
  <2>1. /\ UNCHANGED done /\ ppc = "drainFlag"
        /\ ppc' # "drainFlag" /\ ~Handling'
    BY <1>10 DEF OnLastForDrain, CallbackReturns, Handle, NextHandler,
                 Handling, hardwareVars, deviceVars
  <2>2. OutputQuiet'
    BY <1>1, <1>2, <2>1 DEF ServiceInv, LastOfDrain, OutputQuiet
  <2> QED
    BY <2>1, <2>2 DEF LastOfDrain
<1> QED
  BY <1>6, <1>7, <1>8, <1>9, <1>10 DEF PollNext

\* Every step keeps it; a device that has stopped does nothing.
LEMMA LastOfDrainStep ==
  ASSUME MaxChanges = 0, ServiceInv, Next
  PROVE  LastOfDrain'
<1>1. CASE DeviceWorks
  <2>1. /\ UNCHANGED <<ppc, flags>> /\ (Running' <=> Running)
        /\ ParseHeader \/ ConsumeInput \/ ProduceFrame \/ ProduceEmptyLast
    BY <1>1, DeviceFrame DEF codecVars
  <2>2. phase # "stopped"
    BY <2>1 DEF ParseHeader, ConsumeInput, ProduceFrame, ProduceEmptyLast,
                LastIsDue
  <2> QED
    BY <2>1, <2>2
    DEF ServiceInv, LastOfDrain, OutputQuiet, isDrainLastFlagReceived
<1>2. CASE DeviceBreaks \/ Finished
  <2>1. UNCHANGED <<phase, done, ppc, flags, pc>>
    BY <1>2 DEF DeviceBreaks, Break, Finished, vars, hardwareVars, deviceVars,
                firmwareVars, driverVars, codecVars, sessionVars
  <2> QED
    BY <2>1, LastOfDrainQuiet DEF Running, Handling, isDrainLastFlagReceived
<1> QED
  BY <1>1, <1>2, LastOfDrainSession, LastOfDrainPoll DEF Next

-----------------------------------------------------------------------------
\* The poll thread ends before the session, and the device raises no error.

\* Only Join ends the session, and an ended thread takes no step.
LEMMA ThreadStep ==
  ASSUME ServiceInv, Next
  PROVE  ThreadInStep'
<1>1. CASE UNCHANGED ppc /\ (pc' = "done" => pc = "done")
  BY <1>1 DEF ServiceInv, ThreadInStep
<1>2. CASE StillSteps \/ QueueOutput \/ QueueInput
  <2>1. pc' # "done"
    BY <1>2
    DEF StillSteps, ConfigureInput, AllocateInput, StartInput, LoopHead,
        Reconfig, ConfigureOutput, AllocateOutput, StartOutput,
        PostponedDrain, PostponedStop, DrainWait, InputAvailable,
        WaitForInput, PrepareInput, SetDrain, DrainStop, QueueOutput,
        QueueAllOutput, QueueSomeOutput, QueueInput, NextFrame, Goto, Fail,
        Return, ReturnError
  <2> QED
    BY <2>1 DEF ThreadInStep
<1>3. CASE Join
  BY <1>3 DEF Join, PollThreadEnded, driverVars, ThreadInStep
<1>4. CASE TeardownSteps /\ ~Join
  <2>1. pc' # "done"
    BY <1>4
    DEF TeardownSteps, StopOutput, ReclaimOutput, StopInput, ReclaimInput,
        FreeOutput, FreeInput, StopPort, ReclaimPort, FreePort,
        StopPollThread, Goto
  <2> QED
    BY <2>1 DEF ThreadInStep
<1>5. CASE DeviceWorks \/ DeviceBreaks \/ Finished
  BY <1>1, <1>5
  DEF DeviceWorks, DeviceBreaks, Finished, vars, driverVars, sessionVars
<1>6. CASE PollNext
  <2>1. UNCHANGED pc
    BY <1>6, PollFrame DEF sessionVars
  <2>2. ppc # "ended"
    BY <1>6
    DEF PollNext, PollLoop, PollReady, Polling, PollExit, DequeueOutput,
        DequeueInput, DequeueBuffer, OnEventDone, DequeueEvent, OnError,
        PollError, OnInputDone, OnOutputDone, DumpOutput, OnLastForReconfig,
        OnLastForDrain
  <2> QED
    BY <2>1, <2>2 DEF ServiceInv, ThreadInStep
<1> QED
  BY <1>2, <1>3, <1>4, <1>5, <1>6, StepsTaken DEF Next

\* A device that does not fail raises no error.
LEMMA DeviceFineStep ==
  ASSUME ~DeviceErrors, MaxChanges = 0, ServiceInv, Next
  PROVE  DeviceFine'
<1>1. ~broken /\ ~isErrorReceived
  BY DEF ServiceInv, DeviceFine
<1>2. CASE StillSteps
  BY <1>1, <1>2, StillFrame, StillFlags DEF DeviceFine, isErrorReceived
<1>3. CASE QueueOutput \/ QueueInput
  BY <1>1, <1>3, QueueFrame DEF DeviceFine, isErrorReceived
<1>4. CASE TeardownSteps
  BY <1>1, <1>4, TeardownFrame DEF DeviceFine, isErrorReceived
<1>5. CASE PollNext
  <2>1. ~OnError
    BY <1>1 DEF OnError, PollError
  <2>2. isErrorReceived' <=> isErrorReceived
    BY <1>5, <2>1
    DEF PollNext, PollLoop, OnEventDone, OnInputDone, OnOutputDone,
        DumpOutput, OnLastForReconfig, OnLastForDrain, codecVars,
        isErrorReceived
  <2> QED
    BY <1>1, <1>5, <2>2, PollFrame DEF DeviceFine
<1>6. CASE DeviceWorks
  BY <1>1, <1>6, DeviceFrame DEF DeviceFine, isErrorReceived, codecVars
<1>7. ~DeviceBreaks
  BY DEF DeviceBreaks, Break
<1>8. CASE Finished
  BY <1>1, <1>8 DEF Finished, vars, hardwareVars, deviceVars, codecVars,
                    DeviceFine, isErrorReceived
<1> QED
  BY <1>2, <1>3, <1>4, <1>5, <1>6, <1>7, <1>8, StepsTaken DEF Next


-----------------------------------------------------------------------------
\* A success is earned.

\* The LAST buffer of the drain has been handled: nothing is in flight.
LEMMA DrainedDelivered ==
  ASSUME ServiceInv, Running, isDrainSent, isDrainLastFlagReceived
  PROVE  fed = FramesAsked /\ delivered = fed
<1>1. TypeOK
  BY DEF ServiceInv, OwnershipInv, ListsInv
<1>2. phase = "stopped" /\ done[OUTPUT_PORT] = <<>> /\ ~Handling
  BY DEF ServiceInv, LastOfDrain, OutputQuiet
<1>3. queued[INPUT_PORT] = {} /\ held = 0
  BY <1>2 DEF ServiceInv, DrainedOnce, OwnershipInv, LastInv
<1>4. FramesIn(<<>>) = {} /\ Cardinality({}) = 0
  BY FS_EmptySet DEF FramesIn
<1>5. InFlight = 0
  <2>1. /\ Cardinality(queued[INPUT_PORT]) = 0
        /\ Cardinality(FramesIn(done[OUTPUT_PORT])) = 0
    BY <1>2, <1>3, <1>4
  <2>2. FrameInHand = 0
    BY <1>2 DEF FrameInHand
  <2> QED
    BY <1>3, <2>1, <2>2 DEF InFlight
<1>6. delivered = fed
  BY <1>1, <1>5, InFlightTypes DEF ServiceInv, FramesAccounted
<1> QED
  BY <1>6 DEF ServiceInv, FramesFed, EndSeen

\* Nothing is delivered any more when all has been.
LEMMA DumpDelivers ==
  ASSUME ServiceInv, DumpOutput, delivered' # delivered
  PROVE  delivered' = delivered + 1 /\ delivered < fed
<1>1. TypeOK
  BY DEF ServiceInv, OwnershipInv, ListsInv
<1>2. buffer.frame /\ delivered' = delivered + 1 /\ ppc = "dump"
  BY DEF DumpOutput
<1>3. FrameInHand = 1
  BY <1>2 DEF FrameInHand, Handling
<1>4. delivered + InFlight <= fed
  BY DEF ServiceInv, FramesAccounted
<1> QED
  BY <1>1, <1>2, <1>3, <1>4, InFlightTypes DEF InFlight

\* The steps of the poll thread and of the device leave the session where it
\* is, and deliver at most in a dump.
LEMMA OthersKeepSession ==
  ASSUME PollNext \/ DeviceWorks \/ DeviceBreaks \/ Finished
  PROVE  /\ UNCHANGED <<pc, ret, fed>>
         /\ UNCHANGED delivered \/ DumpOutput
BY DEF PollNext, PollLoop, OnEventDone, OnError, OnInputDone, OnOutputDone,
       DumpOutput, OnLastForReconfig, OnLastForDrain, DeviceWorks,
       DeviceBreaks, Finished, vars, sessionVars, historyVars

\* Every step keeps it.
LEMMA EarnedStep ==
  ASSUME ServiceInv, Next
  PROVE  SuccessEarned'
<1>1. FramesAsked' = FramesAsked
  BY DEF FramesAsked
<1>2. CASE PollNext \/ DeviceWorks \/ DeviceBreaks \/ Finished
  <2>1. UNCHANGED <<pc, ret, fed>>
    BY <1>2, OthersKeepSession
  <2>2. CASE UNCHANGED delivered
    BY <1>1, <2>1, <2>2 DEF ServiceInv, SuccessEarned
  <2>3. CASE DumpOutput /\ delivered' # delivered
    <3>1. delivered < fed /\ delivered \in Nat /\ fed \in Nat
      BY <2>3, DumpDelivers, InFlightTypes
      DEF ServiceInv, OwnershipInv, ListsInv
    <3>2. ~(ret = "OK" /\ pc \in TeardownPc)
      BY <3>1 DEF ServiceInv, SuccessEarned
    <3> QED
      BY <2>1, <3>2 DEF SuccessEarned
  <2> QED
    BY <1>2, <2>2, <2>3, OthersKeepSession
<1>3. CASE TeardownSteps
  BY <1>1, <1>3, TeardownFrame DEF ServiceInv, SuccessEarned
<1>4. CASE DrainWait
  <2>1. CASE isDrainSent /\ isDrainLastFlagReceived
    <3>1. UNCHANGED <<fed, delivered>> /\ Running
      BY <1>4, StillFrame DEF StillSteps
    <3> QED
      BY <1>1, <2>1, <3>1, DrainedDelivered DEF SuccessEarned
  <2>2. CASE pc' \notin TeardownPc
    BY <2>2 DEF SuccessEarned
  <2> QED
    BY <1>4, <2>1, <2>2 DEF DrainWait, Goto, TeardownPc
<1>5. CASE (StillSteps \/ QueueOutput \/ QueueInput) /\ ~DrainWait
  <2>1. pc' \notin TeardownPc \/ ret' # "OK"
    BY <1>5
    DEF StillSteps, ConfigureInput, AllocateInput, StartInput, LoopHead,
        Reconfig, ConfigureOutput, AllocateOutput, StartOutput,
        PostponedDrain, PostponedStop, InputAvailable, WaitForInput,
        PrepareInput, SetDrain, DrainStop, QueueOutput, QueueAllOutput,
        QueueSomeOutput, QueueInput, NextFrame, Goto, Return, ReturnError,
        Fail, TeardownPc, ServiceInv, DeviceFine
  <2> QED
    BY <2>1 DEF SuccessEarned
<1> QED
  BY <1>2, <1>3, <1>4, <1>5, StepsTaken DEF Next

-----------------------------------------------------------------------------
\* ServiceInv is inductive.

\* What it adds to the ownership of the buffers holds at the start.
LEMMA ServiceInvInit ==
  ASSUME Init
  PROVE  /\ FramesAccounted /\ FramesFed /\ StartedOnce /\ DrainedOnce
         /\ LastOfDrain /\ ThreadInStep /\ SuccessEarned /\ DeviceFine
<1>1. /\ queued[INPUT_PORT] = {} /\ done[OUTPUT_PORT] = <<>>
      /\ ~started[OUTPUT_PORT] /\ events = 0 /\ ~broken
      /\ phase = "header" /\ ~draining /\ held = 0 /\ changes = 0
  BY DEF Init, DeviceInit, FirmwareInit, CodecInit, Port
<1>2. /\ pc = "configureInput" /\ ppc = "poll" /\ flags = {}
      /\ fed = 0 /\ delivered = 0 /\ streamPos = 0 /\ frameCounter = 0
  BY DEF Init, DriverInit, CodecInit, DecoderInit
<1>3. FramesIn(<<>>) = {} /\ Cardinality({}) = 0
  BY FS_EmptySet DEF FramesIn
<1>4. FramesAccounted
  <2>1. /\ Cardinality(queued[INPUT_PORT]) = 0
        /\ Cardinality(FramesIn(done[OUTPUT_PORT])) = 0
    BY <1>1, <1>3
  <2>2. FrameInHand = 0
    BY <1>2 DEF FrameInHand, Handling
  <2> QED
    BY <1>1, <1>2, <2>1, <2>2 DEF FramesAccounted, InFlight
<1>5. FramesFed
  BY <1>2, DecoderAssumption
  DEF FramesFed, FramesAsked, EndSeen, isDrainSent, isDrainPending
<1>6. StartedOnce
  BY <1>1, <1>2 DEF StartedOnce, EventSeen, isReconfigEventReceived,
                    StillStartedPc, StartingPc
<1>7. DrainedOnce /\ LastOfDrain
  BY <1>1, <1>2 DEF DrainedOnce, LastOfDrain, StopSent, isDrainSent,
                    isDrainLastFlagReceived
<1>8. ThreadInStep /\ SuccessEarned /\ DeviceFine
  BY <1>1, <1>2 DEF ThreadInStep, SuccessEarned, TeardownPc, DeviceFine,
                    isErrorReceived
<1> QED
  BY <1>4, <1>5, <1>6, <1>7, <1>8

\* A stuttering step keeps it.
LEMMA ServiceInvStutter ==
  ASSUME ServiceInv, UNCHANGED vars
  PROVE  /\ FramesAccounted' /\ FramesFed' /\ StartedOnce' /\ DrainedOnce'
         /\ LastOfDrain' /\ ThreadInStep' /\ SuccessEarned' /\ DeviceFine'
<1>1. /\ UNCHANGED <<queued, done, events, broken, phase, draining, held>>
      /\ UNCHANGED <<changes, started>>
  BY DEF vars, hardwareVars, deviceVars, firmwareVars, codecVars
<1>2. /\ UNCHANGED <<ppc, buffer, flags, pc, ret, streamPos, frameCounter>>
      /\ UNCHANGED <<fed, delivered>>
  BY DEF vars, driverVars, codecVars, sessionVars, loopVars, historyVars
<1>3. (Running' <=> Running) /\ (EndSeen' <=> EndSeen)
  BY <1>2 DEF Running, EndSeen, isDrainPending, isDrainSent
<1>4. FramesAccounted' /\ FramesFed'
  BY <1>1, <1>2, <1>3, AccountedQuiet, FedQuiet
<1>5. StartedOnce'
  BY <1>1, <1>2, <1>3, StartedQuiet
  DEF isReconfigEventReceived, ServiceInv, StartedOnce
<1>6. DrainedOnce' /\ LastOfDrain'
  BY <1>1, <1>2, <1>3, DrainedQuiet, LastOfDrainQuiet
  DEF isDrainSent, isDrainPending, isDrainLastFlagReceived, Handling
<1>7. ThreadInStep' /\ SuccessEarned' /\ DeviceFine'
  BY <1>1, <1>2 DEF ServiceInv, ThreadInStep, SuccessEarned, FramesAsked,
                    DeviceFine, isErrorReceived
<1> QED
  BY <1>4, <1>5, <1>6, <1>7

\* When nobody seeks, the resolution stays the same and the device does not
\* fail, every frame fed is in one place until it is delivered, OUTPUT_PORT is
\* started once and the drain sent once, nothing follows the LAST buffer, and
\* a session that has had no error when its loop returns has delivered every
\* frame it was asked for (V4l2Decoder::queueBuffers,
\* V4l2DecoderCB::onBufferDone).
THEOREM ServiceInvAlways ==
  ASSUME SeekCmds = {}, MaxChanges = 0, ~DeviceErrors
  PROVE  Spec => []ServiceInv
<1>1. Init /\ OwnershipInv => ServiceInv
  BY ServiceInvInit DEF ServiceInv
<1>2. ServiceInv /\ [Next]_vars /\ OwnershipInv' => ServiceInv'
  <2> SUFFICES ASSUME ServiceInv, [Next]_vars, OwnershipInv'
               PROVE  ServiceInv'
    OBVIOUS
  <2>1. CASE Next
    BY <2>1, AccountedStep, FedStep, StartedOnceStep, DrainedOnceStep,
       LastOfDrainStep, ThreadStep, EarnedStep, DeviceFineStep
    DEF ServiceInv
  <2>2. CASE UNCHANGED vars
    BY <2>2, ServiceInvStutter DEF ServiceInv
  <2> QED
    BY <2>1, <2>2
<1> QED
  BY <1>1, <1>2, OwnershipAlways, PTL DEF Spec

-----------------------------------------------------------------------------
\* The refinement.

\* Every step of the session is one of the service, or none.
LEMMA StepRefines ==
  ASSUME MaxChanges = 0, ServiceInv, [Next]_vars
  PROVE  [Service!Next]_Service!vars
<1> USE DEF Service!vars
<1>1. /\ fed \in Nat /\ delivered \in Nat
      /\ pc = "done" => ppc = "ended"
  BY InFlightTypes
  DEF ServiceInv, OwnershipInv, ListsInv, ThreadInStep
<1>2. CASE UNCHANGED <<pc, ret, fed, delivered>>
  BY <1>2 DEF Outcome
<1>3. CASE DumpOutput
  <2>1. UNCHANGED <<pc, ret, fed>> /\ pc # "done"
    BY <1>1, <1>3 DEF DumpOutput, sessionVars
  <2>2. CASE delivered' # delivered
    <3>1. delivered' = delivered + 1 /\ delivered < fed
      BY <1>3, <2>2, DumpDelivers
    <3> QED
      BY <2>1, <3>1 DEF Service!Next, Service!Deliver, Outcome
  <2> QED
    BY <1>2, <2>1, <2>2
<1>4. CASE QueueInput
  <2>1. /\ UNCHANGED delivered
        /\ pc = "queueInput" /\ pc' \in {"loop", "returned"}
        /\ fed' \in {fed, fed + 1}
    BY <1>4 DEF QueueInput, NextFrame, Goto, ReturnError, Fail
  <2>2. fed < FramesAsked
    BY <2>1 DEF ServiceInv, FramesFed, Running, LoopPc
  <2> QED
    BY <2>1, <2>2 DEF Service!Next, Service!Feed, Outcome
<1>5. CASE Join
  <2>1. /\ UNCHANGED <<fed, delivered, ret>>
        /\ pc = "join" /\ pc' = "done"
    BY <1>5 DEF Join, Goto, progressVars, historyVars
  <2>2. ret = "OK" => fed = FramesAsked /\ delivered = fed
    BY <2>1 DEF ServiceInv, SuccessEarned, TeardownPc
  <2> QED
    BY <2>1, <2>2 DEF Service!Next, Service!Report, Outcome
<1>6. CASE (StillSteps \/ QueueOutput \/ TeardownSteps) /\ ~Join
  <2>1. UNCHANGED <<fed, delivered>>
    BY <1>6, StillFrame, TeardownFrame
    DEF QueueOutput, progressVars, historyVars
  <2>2. pc # "done" /\ pc' # "done"
    BY <1>6
    DEF StillSteps, ConfigureInput, AllocateInput, StartInput, LoopHead,
        Reconfig, ConfigureOutput, AllocateOutput, StartOutput,
        PostponedDrain, PostponedStop, DrainWait, InputAvailable,
        WaitForInput, PrepareInput, SetDrain, DrainStop, QueueOutput,
        QueueAllOutput, QueueSomeOutput, NextFrame, TeardownSteps, StopInput,
        ReclaimInput, StopOutput, ReclaimOutput, StopPort, ReclaimPort,
        FreeInput, FreeOutput, FreePort, StopPollThread, Goto, Fail, Return,
        ReturnError
  <2> QED
    BY <2>1, <2>2 DEF Outcome
<1>7. CASE PollNext \/ DeviceWorks \/ DeviceBreaks \/ Finished
  BY <1>2, <1>3, <1>7, OthersKeepSession
<1>8. CASE UNCHANGED vars
  BY <1>2, <1>8 DEF vars, sessionVars, historyVars
<1> QED
  BY <1>4, <1>5, <1>6, <1>7, <1>8, StepsTaken DEF Next

\* A decoding session that nobody seeks in, of a stream of one resolution, on
\* a device that does not fail implements CodecService, whatever ioctls and
\* allocations fail: no frame is delivered that has not been fed, none is fed
\* beyond what was asked for, success is reported only when every one has been
\* delivered, and nothing is delivered after a report (TestingDecoder in
\* IrisTestApp.cpp, V4l2Decoder.cpp).
THEOREM ImplementsService ==
  ASSUME SeekCmds = {}, MaxChanges = 0, ~DeviceErrors
  PROVE  Spec => Service!Init /\ [][Service!Next]_Service!vars
<1>1. Init => Service!Init
  BY DEF Init, DecoderInit, Service!Init, Outcome
<1>2. ServiceInv /\ [Next]_vars => [Service!Next]_Service!vars
  BY StepRefines
<1> QED
  BY <1>1, <1>2, ServiceInvAlways, PTL DEF Spec


\* So a session that prints SUCCESS has lost no frame, unless the device fails
\* or the resolution changes: both can make the loop return with a success it
\* has not had (V4l2Decoder::queueBuffers).
THEOREM NoFrameLostQuietly ==
  ASSUME SeekCmds = {}, MaxChanges = 0, ~DeviceErrors
  PROVE  Spec => []NoFrameLost
<1>1. ServiceInv => NoFrameLost
  BY DEF ServiceInv, SuccessEarned, NoFrameLost, Success, TeardownPc
<1> QED
  BY <1>1, ServiceInvAlways, PTL
=============================================================================
