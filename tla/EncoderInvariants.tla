-------------------------- MODULE EncoderInvariants --------------------------
(***************************************************************************)
(* Inductive invariants of EncoderSession: what has to be added to its     *)
(* safety properties for every step to preserve them.                      *)
(***************************************************************************)
EXTENDS EncoderSession

\* queueBuffers has not returned.
Running == pc \in SetupPc \cup LoopPc

-----------------------------------------------------------------------------
\* Lists.  A port is allocated once: its pool is empty when allocateBuffers
\* is about to fill it.

AllocatedOnce ==
    /\ pc \in {"setControls", "configureInput", "configureOutput",
               "allocateOutput"} => pool = [p \in Port |-> {}]
    /\ pc = "allocateInput" => pool[INPUT_PORT] = {}

\* prepareAndQueueInputBuffer queues the buffer it has filled.
InputFilled == pc = "queueInput" => input # None

ListsInv == TypeOK /\ ListsPartition /\ AllocatedOnce /\ InputFilled

-----------------------------------------------------------------------------
\* Ownership.  While the loop runs, what the device owns and what the poll
\* thread holds is pending; afterwards only the lists move.

\* The buffer to queue is the loop's own.
InputTaken ==
    pc = "queueInput" =>
        /\ input \in pendingBufs[INPUT_PORT]
        /\ input \notin DeviceOwns(INPUT_PORT) \cup InHand(INPUT_PORT)

\* After VIDIOC_STREAMOFF, before the pending buffers are reclaimed.
Stopped ==
    /\ pc = "reclaimInput" => DeviceOwns(INPUT_PORT) = {}
    /\ pc = "reclaimOutput" => DeviceOwns(OUTPUT_PORT) = {}

Ownership ==
    /\ \A p \in Port : OwnedOnce(p) /\ OwnedApart(p)
    /\ Running => \A p \in Port : OwnedPending(p)
    /\ InputTaken
    /\ Stopped

OwnershipInv == ListsInv /\ Ownership

-----------------------------------------------------------------------------
\* Controls.  The frame counter is the number of frames queued until the
\* drain, and the controls set are the ones not on the list any more.

SetOnce ==
    \A c \in DynamicControls :
        applied[c] = IF c \in mDynamicControls THEN 0 ELSE 1

SetInTime ==
    /\ \A c \in DynamicControls \ mDynamicControls : c.fnum <= fed
    /\ \A c \in mDynamicControls : c.fnum >= fed
    /\ pc \in {"inputAvailable", "prepareInput", "queueInput"} =>
           \A c \in mDynamicControls : c.fnum # fed

FramesCounted ==
    /\ Running /\ ~isDrainSent => frameCounter = fed
    /\ pc \in {"dynamicControls", "inputAvailable", "waitForInput",
               "prepareInput", "queueInput"} => ~isDrainSent
    /\ pc = "drainStop" => isDrainSent

ControlsInv == TypeOK /\ SetOnce /\ SetInTime /\ FramesCounted
=============================================================================
