------------------------------ MODULE V4l2Codec ------------------------------
(***************************************************************************)
(* V4l2Codec (src/V4l2Codec.cpp, inc/V4l2Codec.h): what the decoder and    *)
(* the encoder share.  Each port has a list of free buffers, a list of     *)
(* pending buffers (taken by the codec, normally in the device) and a pool *)
(* that holds the memory of each buffer.  The lists are changed under the  *)
(* port's lock, so a change is one step; their order is abstracted away,   *)
(* front() being any member.                                               *)
(*                                                                         *)
(* The operators below are the operations of the class.  One that fails    *)
(* part way has an operator for the failure; the modules that use them     *)
(* decide what happens next, as the callers in the code do.                *)
(***************************************************************************)
EXTENDS V4l2Driver

CONSTANT Faults   \* whether an ioctl or an allocation may fail by itself

ASSUME FaultsAssumption == Faults \in BOOLEAN

VARIABLES
    bufs,          \* mInputBufs, mOutputBufs: the free buffers
    pendingBufs,   \* mPendingInputBufs, mPendingOutputBufs
    pool,          \* mInputBuffersPool, mOutputBuffersPool
    started,       \* mInputStreamonDone, mOutputStreamonDone
    flags          \* the atomic_bools of the class that are true

listVars == <<bufs, pendingBufs, pool>>
codecVars == <<listVars, started, flags>>

Flag == {"mReconfigEventReceived", "mFirstReconfigReceived",
         "mDrcLastFlagReceived", "mDrainSent", "mDrainPending",
         "mDrainLastFlagReceived", "mErrorReceived"}

CodecTypeOK ==
    /\ IsPortBufs(bufs)
    /\ IsPortBufs(pendingBufs)
    /\ IsPortBufs(pool)
    /\ started \in [Port -> BOOLEAN]
    /\ flags \subseteq Flag

CodecInit ==
    /\ bufs = [p \in Port |-> {}]
    /\ pendingBufs = [p \in Port |-> {}]
    /\ pool = [p \in Port |-> {}]
    /\ started = [p \in Port |-> FALSE]
    /\ flags = {}

isReconfigEventReceived == "mReconfigEventReceived" \in flags
isFirstReconfigReceived == "mFirstReconfigReceived" \in flags
\* Mutant: the wrong flag is read.
DrcLastIsReconfigEvent  == isReconfigEventReceived
isDrcLastFlagReceived   == "mDrcLastFlagReceived" \in flags
isDrainSent             == "mDrainSent" \in flags
isDrainPending          == "mDrainPending" \in flags
\* Mutant: the wrong flag is read.
LastFlagIsDrainSent     == isDrainSent
isDrainLastFlagReceived == "mDrainLastFlagReceived" \in flags
isErrorReceived         == "mErrorReceived" \in flags

\* An ioctl fails when the device refuses it, or on a fault.
MayFail(accepted) == Faults \/ ~accepted

-----------------------------------------------------------------------------
\* The lists.

\* allocateBuffers: the buffers S reach the pool and the free list; all of
\* them, or some when an allocation fails.
AllocateBuffers(p, S) ==
    /\ bufs' = [bufs EXCEPT ![p] = @ \cup S]
    /\ pool' = [pool EXCEPT ![p] = @ \cup S]
    /\ UNCHANGED pendingBufs

\* getInputBuffer, getOutputBufferLocked: free buffers become pending.
TakeBuffers(p, S) ==
    /\ bufs' = [bufs EXCEPT ![p] = @ \ S]
    /\ pendingBufs' = [pendingBufs EXCEPT ![p] = @ \cup S]
    /\ UNCHANGED pool

\* putInputBufferLocked, putOutputBufferLocked: a buffer is free again.
PutBuffer(p, b) ==
    /\ bufs' = [bufs EXCEPT ![p] = @ \cup {b}]
    /\ pendingBufs' = [pendingBufs EXCEPT ![p] = @ \ {b}]
    /\ UNCHANGED pool

\* Mutant: the pending list is copied, not emptied.
ReclaimWithoutPop(p) ==
    /\ bufs' = [bufs EXCEPT ![p] = @ \cup pendingBufs[p]]
    /\ UNCHANGED <<pendingBufs, pool>>

\* The second half of stopInput and stopOutput.
ReclaimPending(p) ==
    /\ bufs' = [bufs EXCEPT ![p] = @ \cup pendingBufs[p]]
    /\ pendingBufs' = [pendingBufs EXCEPT ![p] = {}]
    /\ UNCHANGED pool

\* Mutant: bufPool.clear() is missing.
ClearWithoutPool(p) ==
    /\ bufs' = [bufs EXCEPT ![p] = {}]
    /\ pendingBufs' = [pendingBufs EXCEPT ![p] = {}]
    /\ UNCHANGED pool

\* freeBuffers, before its VIDIOC_REQBUFS.
ClearLists(p) ==
    /\ bufs' = [bufs EXCEPT ![p] = {}]
    /\ pendingBufs' = [pendingBufs EXCEPT ![p] = {}]
    /\ pool' = [pool EXCEPT ![p] = {}]

-----------------------------------------------------------------------------
\* The ports.

SetStarted(p, on) == started' = [started EXCEPT ![p] = on]

\* queueBuffer: a success also lets the poll thread start to poll.
QueueBuffers(p, S) ==
    /\ QBuf(p, S)
    /\ mBufferQueued' = (mBufferQueued \/ S # {})
    /\ UNCHANGED <<requested, streaming, done, events, broken>>
    /\ UNCHANGED <<mPollThreadExit, ppc, revents, buffer>>

-----------------------------------------------------------------------------
\* Properties of the lists.

\* Every allocated buffer is on exactly one of the two lists of its port, and
\* on none before it is allocated or after it is freed: no step of the loop,
\* of the callbacks or of the teardown loses a buffer or lists it twice.
ListsPartition ==
    \A p \in Port :
        /\ bufs[p] \cap pendingBufs[p] = {}
        /\ bufs[p] \cup pendingBufs[p] = pool[p]

\* A buffer of port p that onBufferDone has been called for and not put back.
InHand(p) ==
    IF ppc = (IF p = INPUT_PORT THEN "inputDone" ELSE "outputDone")
    THEN {buffer.buf} ELSE {}

\* The device has each buffer of port p once.
OwnedOnce(p) ==
    /\ queued[p] \cap DoneBufs(p) = {}
    /\ \A i, j \in DOMAIN done[p] : done[p][i].buf = done[p][j].buf => i = j

\* What the device owns is neither free nor in the poll thread's hands.
OwnedApart(p) == DeviceOwns(p) \cap (bufs[p] \cup InHand(p)) = {}

OwnedPending(p) == DeviceOwns(p) \cup InHand(p) \subseteq pendingBufs[p]

\* The buffers of the completions s that carry a frame.
FramesIn(s) == {s[i].buf : i \in {j \in DOMAIN s : s[j].frame}}
=============================================================================
