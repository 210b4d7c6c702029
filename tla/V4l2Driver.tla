----------------------------- MODULE V4l2Driver -----------------------------
(***************************************************************************)
(* V4l2Driver (src/V4l2Driver.cpp): the poll thread and the flags it       *)
(* shares with the thread that drives the codec.  The thread takes one     *)
(* snapshot of poll()'s revents and then handles PRI, IN and OUT in that   *)
(* order, without looking at the device again; an ioctl or a callback is   *)
(* one step, so the other thread can run between any two of them.          *)
(*                                                                         *)
(* What the callbacks do with an event or a buffer belongs to the codec:   *)
(* this module stops at the call and gives the thread a control state for  *)
(* it ("event", "outputDone", "inputDone").  poll()'s one-second timeout   *)
(* changes no state and is left out; so is the pause, which the            *)
(* application never asks for.                                             *)
(***************************************************************************)
EXTENDS V4l2Device

VARIABLES
    mBufferQueued,    \* a VIDIOC_QBUF has succeeded: the thread may poll
    mPollThreadExit,  \* stopPollThread has been called
    ppc,              \* where the poll thread is
    revents,          \* what is left of the snapshot to handle
    buffer            \* the completion dequeued and being handled

driverVars == <<mBufferQueued, mPollThreadExit, ppc, revents, buffer>>

PollPc == {"poll", "event", "dqOutput", "outputDone", "dump", "drcFlag",
           "drainFlag", "dqInput", "inputDone", "ended"}

DriverTypeOK ==
    /\ mBufferQueued \in BOOLEAN
    /\ mPollThreadExit \in BOOLEAN
    /\ ppc \in PollPc
    /\ revents \subseteq {"PRI", "IN", "OUT"}
    /\ buffer \in Completion \cup {None}

DriverInit ==
    /\ mBufferQueued = FALSE
    /\ mPollThreadExit = FALSE
    /\ ppc = "poll"
    /\ revents = {}
    /\ buffer = None

-----------------------------------------------------------------------------
\* The handler the snapshot r calls for; with nothing left, the next poll().
NextHandler(r) ==
    IF "PRI" \in r THEN "event"
    ELSE IF "IN" \in r THEN "dqOutput"
    ELSE IF "OUT" \in r THEN "dqInput"
    ELSE "poll"

\* Go on with what the snapshot r asks for.
Handle(r) ==
    /\ revents' = r
    /\ ppc' = NextHandler(r)

\* The head of the loop: the exit flag, then the wait for a first buffer.
Polling ==
    /\ ppc = "poll"
    /\ ~mPollThreadExit
    /\ mBufferQueued

PollReady ==
    /\ Polling
    /\ ~broken
    /\ Ready # {}
    /\ Handle(Ready)
    /\ UNCHANGED <<mBufferQueued, mPollThreadExit, buffer>>
    /\ UNCHANGED deviceVars

\* POLLERR: the thread reports the error (the codec's onError, conjoined by
\* the codec's module) and leaves its loop.
PollError ==
    /\ Polling
    /\ broken
    /\ ppc' = "ended"
    /\ UNCHANGED <<mBufferQueued, mPollThreadExit, revents, buffer>>
    /\ UNCHANGED deviceVars

PollExit ==
    /\ ppc = "poll"
    /\ mPollThreadExit
    /\ ppc' = "ended"
    /\ UNCHANGED <<mBufferQueued, mPollThreadExit, revents, buffer>>
    /\ UNCHANGED deviceVars

\* VIDIOC_DQEVENT (the codec's onEventDone is conjoined by its module).
DequeueEvent ==
    /\ ppc = "event"
    /\ events > 0
    /\ events' = events - 1
    /\ Handle(revents \ {"PRI"})
    /\ UNCHANGED <<requested, streaming, queued, done, broken>>
    /\ UNCHANGED <<mBufferQueued, mPollThreadExit, buffer>>

\* VIDIOC_DQBUF and the call of onV4l2BufferDone; on an error the thread only
\* logs it and goes on.
DequeueBuffer(p, ready, pc, callback) ==
    /\ ppc = pc
    /\ \/ /\ DqBuf(p)
          /\ buffer' = Head(done[p])
          /\ ppc' = callback
          /\ UNCHANGED revents
       \/ /\ DqBufFails(p)
          /\ Handle(revents \ {ready})
          /\ UNCHANGED buffer
          /\ UNCHANGED deviceVars
    /\ UNCHANGED <<mBufferQueued, mPollThreadExit>>

DequeueOutput == DequeueBuffer(OUTPUT_PORT, "IN", "dqOutput", "outputDone")
DequeueInput  == DequeueBuffer(INPUT_PORT, "OUT", "dqInput", "inputDone")

\* The callback for a completion of the snapshot bit "ready" returns.
CallbackReturns(ready) ==
    /\ buffer' = None
    /\ Handle(revents \ {ready})
    /\ UNCHANGED <<mBufferQueued, mPollThreadExit>>

-----------------------------------------------------------------------------
\* What the codec's thread does to the poll thread.

\* stopPollThread raises the flag and then joins the thread.
RequestExit ==
    /\ mPollThreadExit' = TRUE
    /\ UNCHANGED <<mBufferQueued, ppc, revents, buffer>>

PollThreadEnded == ppc = "ended"
=============================================================================
