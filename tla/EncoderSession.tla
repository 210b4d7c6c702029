---------------------------- MODULE EncoderSession ----------------------------
(***************************************************************************)
(* One encoding session: TestingEncoder (IrisTestApp.cpp) around the loop  *)
(* of V4l2Encoder, with the poll thread and the device beside it.          *)
(*                                                                         *)
(* Unlike a decoding session it configures, allocates and starts both      *)
(* ports before queueBuffers.  The results of these calls are OR-ed, so    *)
(* each runs whatever has become of the ones before it.  The teardown is   *)
(* that of DecoderSession with the ports in the other order.  The model    *)
(* starts when the poll thread is running and polls nothing yet.           *)
(***************************************************************************)
EXTENDS V4l2Encoder

vars == <<hardwareVars, driverVars, codecVars, sessionVars, historyVars>>

TypeOK ==
    /\ DeviceTypeOK
    /\ FirmwareTypeOK
    /\ DriverTypeOK
    /\ CodecTypeOK
    /\ EncoderTypeOK

Init ==
    /\ DeviceInit
    /\ FirmwareInit
    /\ DriverInit
    /\ CodecInit
    /\ EncoderInit

-----------------------------------------------------------------------------
\* The calls before queueBuffers.

\* setOperatingRate, setFrameRate and setStaticControls: only their results
\* matter here.
SetControls ==
    /\ pc = "setControls"
    /\ \/ Goto("configureInput")
       \/ Faults /\ Fail("configureInput", "EINVAL")
    /\ UNCHANGED <<hardwareVars, driverVars, codecVars, progressVars>>

ConfigurePort(p, here, next) ==
    /\ pc = here
    /\ \/ ReqBufs(p, TRUE) /\ Goto(next)
       \/ Faults /\ Fail(next, "EINVAL") /\ UNCHANGED deviceVars
    /\ UNCHANGED <<firmwareVars, driverVars, codecVars, progressVars>>

AllocatePort(p, here, next) ==
    /\ pc = here
    /\ \/ AllocateBuffers(p, BufsOf(p)) /\ Goto(next)
       \/ /\ Faults
          /\ \E S \in SUBSET BufsOf(p) : AllocateBuffers(p, S)
          /\ Fail(next, "EINVAL")
    /\ UNCHANGED <<hardwareVars, driverVars, started, flags, progressVars>>

StartPort(p, here, next) ==
    /\ pc = here
    /\ \/ /\ CanStreamOn(p)
          /\ StreamOn(p)
          /\ SetStarted(p, TRUE)
          /\ Goto(next)
       \/ /\ MayFail(CanStreamOn(p))
          /\ Fail(next, "EINVAL")
          /\ UNCHANGED <<deviceVars, started>>
    /\ UNCHANGED <<firmwareVars, driverVars, listVars, flags, progressVars>>

ConfigureInput ==
    ConfigurePort(INPUT_PORT, "configureInput", "configureOutput")
ConfigureOutput ==
    ConfigurePort(OUTPUT_PORT, "configureOutput", "allocateOutput")
AllocateOutput ==
    AllocatePort(OUTPUT_PORT, "allocateOutput", "allocateInput")
AllocateInput ==
    AllocatePort(INPUT_PORT, "allocateInput", "startOutput")
StartOutput ==
    StartPort(OUTPUT_PORT, "startOutput", "startInput")
StartInput ==
    StartPort(INPUT_PORT, "startInput", "loop")

-----------------------------------------------------------------------------
\* The teardown.

\* Mutant: a failed VIDIOC_STREAMOFF is ignored.
StopRegardless(p, here, reclaim, next) ==
    /\ pc = here
    /\ Goto(reclaim)
    /\ \/ StreamOff(p) /\ FirmwareStreamOff(p)
       \/ Faults /\ UNCHANGED hardwareVars
    /\ UNCHANGED <<driverVars, codecVars, progressVars>>

\* stopInput, stopOutput: VIDIOC_STREAMOFF, and if it succeeds the lists.
StopPort(p, here, reclaim, next) ==
    /\ pc = here
    /\ \/ /\ StreamOff(p)
          /\ FirmwareStreamOff(p)
          /\ Goto(reclaim)
       \/ Faults /\ Goto(next) /\ UNCHANGED hardwareVars
    /\ UNCHANGED <<driverVars, codecVars, progressVars>>

ReclaimPort(p, here, next) ==
    /\ pc = here
    /\ ReclaimPending(p)
    /\ SetStarted(p, FALSE)
    /\ Goto(next)
    /\ UNCHANGED <<hardwareVars, driverVars, flags, progressVars>>

FreePort(p, here, next) ==
    /\ pc = here
    /\ ClearLists(p)
    /\ \/ CanReqBufs(p) /\ ReqBufs(p, FALSE)
       \/ MayFail(CanReqBufs(p)) /\ UNCHANGED deviceVars
    /\ Goto(next)
    /\ UNCHANGED <<firmwareVars, driverVars, started, flags, progressVars>>

StopInput ==
    StopPort(INPUT_PORT, "returned", "reclaimInput", "stopOutput")
ReclaimInput ==
    ReclaimPort(INPUT_PORT, "reclaimInput", "stopOutput")
StopOutput ==
    StopPort(OUTPUT_PORT, "stopOutput", "reclaimOutput", "freeInput")
ReclaimOutput ==
    ReclaimPort(OUTPUT_PORT, "reclaimOutput", "freeInput")
FreeInput ==
    FreePort(INPUT_PORT, "freeInput", "freeOutput")
FreeOutput ==
    FreePort(OUTPUT_PORT, "freeOutput", "stopPollThread")

\* deinit: stopPollThread raises the flag and joins the thread.
StopPollThread ==
    /\ pc = "stopPollThread"
    /\ RequestExit
    /\ Goto("join")
    /\ UNCHANGED <<hardwareVars, codecVars, progressVars>>

Join ==
    /\ pc = "join"
    /\ PollThreadEnded
    /\ Goto("done")
    /\ UNCHANGED <<hardwareVars, driverVars, codecVars, progressVars>>

SessionNext ==
    \/ SetControls \/ ConfigureInput \/ ConfigureOutput
    \/ AllocateOutput \/ AllocateInput \/ StartOutput \/ StartInput
    \/ QueueBuffersNext
    \/ StopInput \/ ReclaimInput \/ StopOutput \/ ReclaimOutput
    \/ FreeInput \/ FreeOutput \/ StopPollThread \/ Join

\* The session is over and its device file closed.
Finished == pc = "done" /\ UNCHANGED vars

Next == SessionNext \/ PollNext \/ DeviceWorks \/ DeviceBreaks \/ Finished

Spec == Init /\ [][Next]_vars

\* Each thread runs whenever it can, and so does a device that has not failed.
Fairness ==
    /\ WF_vars(SessionNext)
    /\ WF_vars(PollNext)
    /\ WF_vars(DeviceWorks)

FairSpec == Spec /\ Fairness

-----------------------------------------------------------------------------
\* Safety.

\* A buffer the device owns is never free: the loop cannot fill it, queue it
\* again or take it for its own, and the one it is filling is its own.
DeviceBuffersNotFree ==
    /\ \A p \in Port : DeviceOwns(p) \cap bufs[p] = {}
    /\ pc = "queueInput" => input \notin DeviceOwns(INPUT_PORT)

\* setDynamicControls runs again on every turn of the loop, also when the
\* turn has to wait for a buffer: still a control for frame n is set once, not
\* before the n frames that precede it are queued and before frame n is.
ControlsOnTime ==
    \A c \in DynamicControls :
        /\ applied[c] <= 1
        /\ applied[c] = 1 => fed >= c.fnum
        /\ fed > c.fnum => applied[c] = 1

-----------------------------------------------------------------------------
\* Liveness.

\* Once the two ports are set up and stream, a session ends, although it waits
\* for the LAST buffer of its drain without a limit: whichever later call of
\* its thread fails, and wherever the device stops working, the loop is left
\* and the poll thread joined.  After a failed setup, which the loop runs in
\* spite of, this need not be so.
SessionEnds == pc = "loop" /\ ret = "OK" ~> pc = "done"
=============================================================================
