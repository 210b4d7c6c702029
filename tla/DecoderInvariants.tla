-------------------------- MODULE DecoderInvariants --------------------------
(***************************************************************************)
(* Inductive invariants of DecoderSession: what has to be added to its     *)
(* safety properties for every step to preserve them.                      *)
(***************************************************************************)
EXTENDS DecoderSession

\* queueBuffers has not returned.
Running == pc \in SetupPc \cup LoopPc

-----------------------------------------------------------------------------
\* Lists.  A port is allocated once: its pool is empty when allocateBuffers
\* is about to fill it, and for OUTPUT_PORT whenever it is not started,
\* except between allocateBuffers and startOutput and in reconfigureOutput
\* between stopOutput and freeBuffers.

AllocatedOnce ==
    /\ pc \in {"configureInput", "allocateInput"} => pool[INPUT_PORT] = {}
    /\ pc \in {"drcFreeBuffers", "configureOutput", "allocateOutput"}
        => ~started[OUTPUT_PORT]
    /\ Running /\ ~started[OUTPUT_PORT]
           /\ pc \notin {"drcFreeBuffers", "startOutput"}
        => pool[OUTPUT_PORT] = {}

\* prepareAndQueueInputBuffer queues the buffer it has filled.
InputFilled == pc = "queueInput" => input # None

ListsInv == TypeOK /\ ListsPartition /\ AllocatedOnce /\ InputFilled

-----------------------------------------------------------------------------
\* The LAST buffer of a resolution change.  It is the last thing the device
\* does before it stops, so wherever it is -- done, in the callback's hands or
\* noted in the flag -- there is no frame behind it and none is coming.

\* The poll thread is handling an output buffer it has not accounted for.
HandlingOutput == ppc \in {"outputDone", "dump", "drcFlag"}

HandlingLast ==
    \/ ppc \in {"outputDone", "dump"} /\ buffer.last
    \/ ppc = "drcFlag"

LastNoted ==
    \/ isDrcLastFlagReceived
    \/ pc \in {"reconfigureOutput", "drcStopOutput"}

OutputQuiet == phase = "stopped" /\ done[OUTPUT_PORT] = <<>>

LastEndsQueue ==
    \A i \in DOMAIN done[OUTPUT_PORT] :
        done[OUTPUT_PORT][i].last =>
            i = Len(done[OUTPUT_PORT]) /\ phase = "stopped"

LastIsLast ==
    /\ LastEndsQueue
    /\ HandlingLast => OutputQuiet /\ ~LastNoted
    /\ LastNoted => OutputQuiet /\ ~HandlingOutput

\* Before it is started and while it is being reconfigured OUTPUT_PORT is idle.
OutputIdle ==
    /\ DeviceOwns(OUTPUT_PORT) = {}
    /\ ~HandlingOutput
    /\ ~LastNoted

StillStartedPc == {"reconfigureOutput", "drcStopOutput", "drcReclaim"}
StartingPc == {"drcFreeBuffers", "configureOutput", "allocateOutput",
               "startOutput"}

IdleUntilStarted ==
    /\ ~started[OUTPUT_PORT] \/ pc = "drcReclaim" => OutputIdle
    /\ pc \in StillStartedPc => started[OUTPUT_PORT] /\ ~isDrcLastFlagReceived
    /\ pc \in StartingPc => ~started[OUTPUT_PORT]

LastInv ==
    /\ TypeOK
    /\ phase = "stopped" => held = 0
    /\ Running => LastIsLast /\ IdleUntilStarted

-----------------------------------------------------------------------------
\* A resolution change is remembered.  The loop clears the flag at once when
\* OUTPUT_PORT is not started, and then the device is not decoding.

NotDecoding ==
    Running /\ (~started[OUTPUT_PORT] \/ pc = "drcReclaim")
        => phase \notin {"run", "flush"}

RememberedInv == LastInv /\ NotDecoding /\ ResolutionChangeRemembered

-----------------------------------------------------------------------------
\* Ownership, when nobody seeks.  While the loop runs, what the device owns
\* and what the poll thread holds is pending; afterwards only the lists move.

\* The buffer to queue is the loop's own.
InputTaken ==
    pc = "queueInput" =>
        /\ input \in pendingBufs[INPUT_PORT]
        /\ input \notin DeviceOwns(INPUT_PORT) \cup InHand(INPUT_PORT)

\* After VIDIOC_STREAMOFF, before the pending buffers are reclaimed.
Stopped ==
    /\ pc = "reclaimInput" => DeviceOwns(INPUT_PORT) = {}
    /\ pc = "reclaimOutput" => DeviceOwns(OUTPUT_PORT) = {}

Ownership ==
    /\ \A p \in Port : OwnedOnce(p) /\ OwnedApart(p)
    /\ Running => \A p \in Port : OwnedPending(p)
    /\ InputTaken
    /\ Stopped

SeekPc == {"seek", "seekStopInput", "seekReclaim", "seekStartInput"}

OwnershipInv == ListsInv /\ LastInv /\ pc \notin SeekPc /\ Ownership
=============================================================================
