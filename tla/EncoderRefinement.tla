-------------------------- MODULE EncoderRefinement --------------------------
(***************************************************************************)
(* An encoding session implements CodecService as long as the device       *)
(* works: it may fail, but it never reports a success it has not had, and  *)
(* it always reports.                                                      *)
(***************************************************************************)
EXTENDS EncoderInvariants

\* NumFrames, or the length of the file if that is less.
FramesAsked == IF StreamLen < MaxFrameCnt THEN StreamLen ELSE MaxFrameCnt

\* What TestingEncoder prints when it is over (IrisTestApp.cpp).
Outcome ==
    IF pc # "done" THEN "RUNNING"
    ELSE IF ret = "OK" THEN "SUCCESS" ELSE "FAILED"

Service == INSTANCE CodecService WITH
    Asked     <- FramesAsked,
    fed       <- fed,
    delivered <- delivered,
    outcome   <- Outcome

\* Refinement: every behaviour of the session is one of the service.
ServiceSpec == Service!Spec

-----------------------------------------------------------------------------
(***************************************************************************)
(* The inductive invariant behind the refinement: where every frame is     *)
(* that has been fed and not delivered, and why none is left when the      *)
(* LAST buffer of the drain has been seen.                                 *)
(***************************************************************************)

\* The poll thread has a buffer of OUTPUT_PORT; it has dumped it in the end.
Handling == ppc \in {"outputDone", "dump"}
FrameInHand == IF Handling /\ buffer.frame THEN 1 ELSE 0
LastInHand == (Handling \/ ppc = "drainFlag") /\ buffer.last

\* The frames between VIDIOC_QBUF on INPUT_PORT and the dump.
InFlight ==
    Cardinality(queued[INPUT_PORT]) + held
        + Cardinality(FramesIn(done[OUTPUT_PORT])) + FrameInHand

\* No frame is lost on the way, or delivered twice; the teardown may drop some.
FramesAccounted ==
    /\ delivered + InFlight <= fed
    /\ Running => delivered + InFlight = fed

\* The parser is at the next frame to feed, and the drain starts when all the
\* frames asked for have been fed.
FramesFed ==
    /\ fed <= FramesAsked
    /\ Running /\ pc \notin {"queueInput", "setDrain"} /\ ~isDrainSent =>
           streamPos = fed
    /\ pc = "queueInput" => streamPos = fed + 1 /\ fed < FramesAsked
    /\ pc = "setDrain" => fed = FramesAsked
    /\ Running /\ isDrainSent => fed = FramesAsked

\* Nothing follows the LAST buffer: not in the device, not in the queue of
\* OUTPUT_PORT and not in the poll thread's hands.
LastIsLast ==
    Running =>
        /\ ~isDrainSent \/ pc \in {"setDrain", "drainStop"} =>
               ~draining /\ ~stopped
        /\ stopped => queued[INPUT_PORT] = {} /\ held = 0
        /\ \A i \in DOMAIN done[OUTPUT_PORT] :
               done[OUTPUT_PORT][i].last =>
                   stopped /\ i = Len(done[OUTPUT_PORT])
        /\ LastInHand => stopped /\ done[OUTPUT_PORT] = <<>>
        /\ isDrainLastFlagReceived =>
               stopped /\ done[OUTPUT_PORT] = <<>> /\ ~Handling

\* The thread has what it handles, and it is over when the session is.
ThreadInStep ==
    /\ Handling \/ ppc = "drainFlag" => buffer \in Completion
    /\ ppc = "drainFlag" => buffer.last
    /\ pc = "done" => ppc = "ended"

\* A session that has had no error so far has delivered all it was asked for.
SuccessEarned ==
    ret = "OK" /\ pc \in TeardownPc => fed = FramesAsked /\ delivered = fed

\* The device has not failed.
DeviceFine == ~broken /\ ~isErrorReceived

ServiceInv ==
    /\ OwnershipInv
    /\ FramesCounted
    /\ FramesAccounted
    /\ FramesFed
    /\ LastIsLast
    /\ ThreadInStep
    /\ SuccessEarned
    /\ DeviceFine
=============================================================================
