-------------------------- MODULE DecoderRefinement --------------------------
(***************************************************************************)
(* A decoding session implements CodecService as long as nobody seeks,     *)
(* the resolution stays the same and the device raises no error, whatever  *)
(* ioctls and allocations fail: it may fail, but it never reports a        *)
(* success it has not had, and it always reports.                          *)
(***************************************************************************)
EXTENDS DecoderInvariants

\* What TestingDecoder prints when it is over (IrisTestApp.cpp).
Outcome ==
    IF pc # "done" THEN "RUNNING"
    ELSE IF ret = "OK" THEN "SUCCESS" ELSE "FAILED"

Service == INSTANCE CodecService WITH
    Asked     <- FramesAsked,
    fed       <- fed,
    delivered <- delivered,
    outcome   <- Outcome

\* Refinement: every behaviour of the session is one of the service.
ServiceSpec == Service!Spec

-----------------------------------------------------------------------------
(***************************************************************************)
(* The inductive invariant behind the refinement, for a stream of one      *)
(* resolution that nobody seeks in: where every frame is that has been     *)
(* fed and not delivered, and why none is left when the LAST buffer of the *)
(* drain has been seen.                                                    *)
(***************************************************************************)

\* The poll thread has a buffer of OUTPUT_PORT and has not dumped it.
Handling == ppc \in {"outputDone", "dump"}
FrameInHand == IF Handling /\ buffer.frame THEN 1 ELSE 0

\* The frames between VIDIOC_QBUF on INPUT_PORT and the dump.
InFlight ==
    Cardinality(queued[INPUT_PORT]) + held
        + Cardinality(FramesIn(done[OUTPUT_PORT])) + FrameInHand

\* No frame is lost on the way, or delivered twice; the teardown may drop some.
FramesAccounted ==
    /\ delivered + InFlight <= fed
    /\ Running => delivered + InFlight = fed

\* The parser and frameCounter are at the next frame to feed, or past the end:
\* then a drain is due, and all the frames asked for have been fed.
EndSeen == isDrainPending \/ isDrainSent \/ pc = "setDrain"

FramesFed ==
    /\ fed <= FramesAsked
    /\ Running =>
        /\ EndSeen =>
               fed = FramesAsked /\ streamPos >= fed /\ frameCounter >= fed
        /\ ~EndSeen =>
               /\ frameCounter = fed
               /\ streamPos = IF pc = "queueInput" THEN fed + 1 ELSE fed
        /\ pc = "queueInput" => ~EndSeen /\ fed < FramesAsked

\* OUTPUT_PORT is started once, for the event that follows the header.
EventSeen == events > 0 \/ isReconfigEventReceived

StartedOnce ==
    /\ phase # "flush" /\ changes = 0
    /\ events <= 1 /\ (events > 0 => ~isReconfigEventReceived)
    /\ phase = "header" => ~EventSeen
    /\ pc \notin StillStartedPc \cup {"drcFreeBuffers"}
    /\ Running =>
        /\ started[OUTPUT_PORT] <=> phase \in {"run", "stopped"}
        /\ EventSeen \/ pc \in StartingPc => phase = "ready"
        /\ pc \in StartingPc => ~EventSeen

\* The drain is sent once, when OUTPUT_PORT is started, and the device stops
\* only at its end.
StopSent == isDrainSent /\ pc \notin {"postponedStop", "drainStop"}

DrainedOnce ==
    Running =>
        /\ draining \/ phase = "stopped" => StopSent
        /\ phase = "stopped" => ~draining /\ queued[INPUT_PORT] = {}
        /\ isDrainSent => started[OUTPUT_PORT] /\ ~isDrainPending
        /\ pc \in {"postponedDrain", "setDrain"} => started[OUTPUT_PORT]
        /\ pc \in {"postponedStop", "drainStop"} => isDrainSent
        /\ pc \in {"inputAvailable", "waitForInput", "prepareInput",
                   "queueInput", "setDrain"} => ~isDrainSent

\* Nothing follows the LAST buffer: not in the queue of OUTPUT_PORT and not in
\* the poll thread's hands.
LastOfDrain ==
    Running =>
        /\ ppc = "drainFlag" => OutputQuiet
        /\ isDrainLastFlagReceived => OutputQuiet /\ ~Handling

\* The poll thread is over when the session is.
ThreadInStep == pc = "done" => ppc = "ended"

\* A session that has had no error so far has delivered all it was asked for.
SuccessEarned ==
    ret = "OK" /\ pc \in TeardownPc => fed = FramesAsked /\ delivered = fed

\* The device has not failed.
DeviceFine == ~broken /\ ~isErrorReceived

ServiceInv ==
    /\ OwnershipInv
    /\ FramesAccounted
    /\ FramesFed
    /\ StartedOnce
    /\ DrainedOnce
    /\ LastOfDrain
    /\ ThreadInStep
    /\ SuccessEarned
    /\ DeviceFine
=============================================================================
