---------------------------- MODULE DecoderSession ----------------------------
(***************************************************************************)
(* One decoding session: TestingDecoder (IrisTestApp.cpp) around the loop  *)
(* of V4l2Decoder, with the poll thread and the device beside it.          *)
(*                                                                         *)
(* The session configures, allocates and starts INPUT_PORT, runs           *)
(* queueBuffers and then tears everything down while the poll thread is    *)
(* still running: that thread is stopped last, by deinit.  The results of  *)
(* the calls before the teardown are OR-ed, so queueBuffers runs even      *)
(* after one of them has failed; those of the teardown are ignored.  The   *)
(* model starts when the poll thread is running and polls nothing yet.     *)
(***************************************************************************)
EXTENDS V4l2Decoder

vars == <<hardwareVars, driverVars, codecVars, sessionVars, historyVars>>

TypeOK ==
    /\ DeviceTypeOK
    /\ FirmwareTypeOK
    /\ DriverTypeOK
    /\ CodecTypeOK
    /\ DecoderTypeOK

Init ==
    /\ DeviceInit
    /\ FirmwareInit
    /\ DriverInit
    /\ CodecInit
    /\ DecoderInit

-----------------------------------------------------------------------------
\* The calls before queueBuffers.

ConfigureInput ==
    /\ pc = "configureInput"
    /\ \/ ReqBufs(INPUT_PORT, TRUE) /\ Goto("allocateInput")
       \/ Faults /\ Fail("allocateInput", "EINVAL") /\ UNCHANGED deviceVars
    /\ UNCHANGED <<firmwareVars, driverVars, codecVars, progressVars>>

AllocateInput ==
    /\ pc = "allocateInput"
    /\ \/ AllocateBuffers(INPUT_PORT, InBuf) /\ Goto("startInput")
       \/ /\ Faults
          /\ \E S \in SUBSET InBuf : AllocateBuffers(INPUT_PORT, S)
          /\ Fail("startInput", "EINVAL")
    /\ UNCHANGED <<hardwareVars, driverVars, started, flags, progressVars>>

StartInput ==
    /\ pc = "startInput"
    /\ \/ /\ CanStreamOn(INPUT_PORT)
          /\ StreamOn(INPUT_PORT)
          /\ FirmwareStreamOn(INPUT_PORT)
          /\ SetStarted(INPUT_PORT, TRUE)
          /\ Goto("loop")
       \/ /\ MayFail(CanStreamOn(INPUT_PORT))
          /\ Fail("loop", "EINVAL")
          /\ UNCHANGED <<hardwareVars, started>>
    /\ UNCHANGED <<driverVars, listVars, flags, progressVars>>

-----------------------------------------------------------------------------
\* The teardown.

\* Mutant: a failed VIDIOC_STREAMOFF is ignored.
StopRegardless(p, here, reclaim, next) ==
    /\ pc = here
    /\ Goto(reclaim)
    /\ \/ StreamOff(p) /\ FirmwareStreamOff(p)
       \/ Faults /\ UNCHANGED hardwareVars
    /\ UNCHANGED <<driverVars, codecVars, progressVars>>

\* stopOutput, stopInput: VIDIOC_STREAMOFF, and if it succeeds the lists.
StopPort(p, here, reclaim, next) ==
    /\ pc = here
    /\ \/ /\ StreamOff(p)
          /\ FirmwareStreamOff(p)
          /\ Goto(reclaim)
       \/ Faults /\ Goto(next) /\ UNCHANGED hardwareVars
    /\ UNCHANGED <<driverVars, codecVars, progressVars>>

ReclaimPort(p, here, next) ==
    /\ pc = here
    /\ ReclaimPending(p)
    /\ SetStarted(p, FALSE)
    /\ Goto(next)
    /\ UNCHANGED <<hardwareVars, driverVars, flags, progressVars>>

FreePort(p, here, next) ==
    /\ pc = here
    /\ ClearLists(p)
    /\ \/ CanReqBufs(p) /\ ReqBufs(p, FALSE)
       \/ MayFail(CanReqBufs(p)) /\ UNCHANGED deviceVars
    /\ Goto(next)
    /\ UNCHANGED <<firmwareVars, driverVars, started, flags, progressVars>>

StopOutput ==
    StopPort(OUTPUT_PORT, "returned", "reclaimOutput", "stopInput")
ReclaimOutput ==
    ReclaimPort(OUTPUT_PORT, "reclaimOutput", "stopInput")
StopInput ==
    StopPort(INPUT_PORT, "stopInput", "reclaimInput", "freeOutput")
ReclaimInput ==
    ReclaimPort(INPUT_PORT, "reclaimInput", "freeOutput")
FreeOutput ==
    FreePort(OUTPUT_PORT, "freeOutput", "freeInput")
FreeInput ==
    FreePort(INPUT_PORT, "freeInput", "stopPollThread")

\* deinit: stopPollThread raises the flag and joins the thread.
StopPollThread ==
    /\ pc = "stopPollThread"
    /\ RequestExit
    /\ Goto("join")
    /\ UNCHANGED <<hardwareVars, codecVars, progressVars>>

Join ==
    /\ pc = "join"
    /\ PollThreadEnded
    /\ Goto("done")
    /\ UNCHANGED <<hardwareVars, driverVars, codecVars, progressVars>>

SessionNext ==
    \/ ConfigureInput \/ AllocateInput \/ StartInput
    \/ QueueBuffersNext
    \/ StopOutput \/ ReclaimOutput \/ StopInput \/ ReclaimInput
    \/ FreeOutput \/ FreeInput \/ StopPollThread \/ Join

\* The session is over and its device file closed.
Finished == pc = "done" /\ UNCHANGED vars

Next == SessionNext \/ PollNext \/ DeviceWorks \/ DeviceBreaks \/ Finished

Spec == Init /\ [][Next]_vars

\* Each thread runs whenever it can, and so does a device that has not failed.
Fairness ==
    /\ WF_vars(SessionNext)
    /\ WF_vars(PollNext)
    /\ WF_vars(DeviceWorks)

FairSpec == Spec /\ Fairness

\* What TestingDecoder prints when it is over.
Success == pc = "done" /\ ret = "OK"

-----------------------------------------------------------------------------
\* Safety.

\* A buffer the device owns is never free: the loop cannot fill it, queue it
\* again or take it for its own, and the one it is filling is its own.
DeviceBuffersNotFree ==
    /\ \A p \in Port : DeviceOwns(p) \cap bufs[p] = {}
    /\ pc = "queueInput" => input \notin DeviceOwns(INPUT_PORT)

\* A frame being dumped is not in a buffer the device may be decoding into.
DumpedFrameIsStable ==
    ppc = "dump" => buffer.buf \notin DeviceOwns(OUTPUT_PORT)

\* A session that prints SUCCESS has handed every frame it was asked for to
\* the device and got every one of them back.
FramesAsked == IF StreamLen < MaxFrameCnt THEN StreamLen ELSE MaxFrameCnt
NoFrameLost == Success => fed = FramesAsked /\ delivered = fed

\* When the loop stops OUTPUT_PORT for a resolution change, the last frame of
\* the old resolution has gone through the callback.
ReconfigLosesNoFrame ==
    pc = "drcStopOutput" =>
        /\ held = 0
        /\ \A i \in DOMAIN done[OUTPUT_PORT] : ~done[OUTPUT_PORT][i].frame
        /\ ppc \notin {"outputDone", "dump"}

\* A resolution change the device waits for has not been forgotten: its event
\* is still to be dequeued or its flag is set.
ResolutionChangeRemembered ==
    phase = "flush" => events > 0 \/ isReconfigEventReceived

\* Liveness: the session ends.
Termination == <>(pc = "done")
=============================================================================
