----------------------------- MODULE V4l2Device -----------------------------
(***************************************************************************)
(* The kernel side of an open video device node, as the program sees it    *)
(* through ioctl() and poll(): two buffer queues, the event queue and the  *)
(* error condition.  EXTERNAL: nothing here is code of the repository; it  *)
(* is modelled from how inc/V4l2Driver.h and src/V4l2Driver.cpp use it.    *)
(*                                                                         *)
(* A queue is a "port", named as in inc/V4l2Codec.h: INPUT_PORT carries    *)
(* the compressed stream of a decoder, OUTPUT_PORT its decoded frames.  A  *)
(* buffer handed over with VIDIOC_QBUF is queued until the device has      *)
(* finished with it, then done until VIDIOC_DQBUF; meanwhile the device    *)
(* owns it.  Buffers are model values: their memory, size and planes are   *)
(* abstracted away, only which buffer it is matters.                       *)
(***************************************************************************)
EXTENDS Naturals, Sequences, FiniteSets

CONSTANTS
    InBuf,   \* the buffers of INPUT_PORT, mActualInputCount of them
    OutBuf,  \* the buffers of OUTPUT_PORT, mActualOutputCount of them
    None     \* no buffer and no completion

ASSUME BufAssumption ==
    /\ InBuf \cap OutBuf = {} /\ None \notin InBuf \cup OutBuf
    /\ IsFiniteSet(InBuf) /\ IsFiniteSet(OutBuf)

INPUT_PORT  == "in"
OUTPUT_PORT == "out"
Port == {INPUT_PORT, OUTPUT_PORT}

Buf == InBuf \cup OutBuf
BufsOf(p) == IF p = INPUT_PORT THEN InBuf ELSE OutBuf

\* What VIDIOC_DQBUF returns: the buffer, whether it carries a frame
\* (bytesused # 0) and whether V4L2_BUF_FLAG_LAST is set.
Completion == [buf : Buf, frame : BOOLEAN, last : BOOLEAN]

\* f gives each port a set of its own buffers.
IsPortBufs(f) ==
    /\ f \in [Port -> SUBSET Buf]
    /\ \A p \in Port : f[p] \subseteq BufsOf(p)

VARIABLES
    requested,  \* per port: VIDIOC_REQBUFS has allocated the buffers
    streaming,  \* per port: between VIDIOC_STREAMON and VIDIOC_STREAMOFF
    queued,     \* per port: buffers queued and not finished
    done,       \* per port: completions not dequeued, in order
    events,     \* number of source-change events not dequeued
    broken      \* the device has failed: poll() reports POLLERR

deviceVars == <<requested, streaming, queued, done, events, broken>>

DeviceTypeOK ==
    /\ requested \in [Port -> BOOLEAN]
    /\ streaming \in [Port -> BOOLEAN]
    /\ IsPortBufs(queued)
    /\ done \in [Port -> Seq(Completion)]
    /\ events \in Nat
    /\ broken \in BOOLEAN

DeviceInit ==
    /\ requested = [p \in Port |-> FALSE]
    /\ streaming = [p \in Port |-> FALSE]
    /\ queued = [p \in Port |-> {}]
    /\ done = [p \in Port |-> <<>>]
    /\ events = 0
    /\ broken = FALSE

DoneBufs(p) == {done[p][i].buf : i \in DOMAIN done[p]}

\* The buffers the device may read or write, or has not given back yet.
DeviceOwns(p) == queued[p] \cup DoneBufs(p)

-----------------------------------------------------------------------------
\* VIDIOC_QBUF is refused for a buffer that was never allocated and for one
\* the device already owns.
CanQBuf(p, b) == requested[p] /\ b \notin DeviceOwns(p)

QBuf(p, S) == queued' = [queued EXCEPT ![p] = @ \cup S]

\* VIDIOC_REQBUFS is refused while the queue streams, VIDIOC_STREAMON while
\* it has no buffers; VIDIOC_STREAMOFF is always legal.
CanReqBufs(p) == ~streaming[p]
CanStreamOn(p) == requested[p]

\* VIDIOC_REQBUFS with count 0 frees the buffers, with another count
\* allocates them.
ReqBufs(p, some) ==
    /\ requested' = [requested EXCEPT ![p] = some]
    /\ UNCHANGED <<streaming, queued, done, events, broken>>

StreamOn(p) ==
    /\ streaming' = [streaming EXCEPT ![p] = TRUE]
    /\ UNCHANGED <<requested, queued, done, events, broken>>

\* VIDIOC_STREAMOFF gives every buffer of the queue back without a completion.
StreamOff(p) ==
    /\ streaming' = [streaming EXCEPT ![p] = FALSE]
    /\ queued' = [queued EXCEPT ![p] = {}]
    /\ done' = [done EXCEPT ![p] = <<>>]
    /\ UNCHANGED <<requested, events, broken>>

\* VIDIOC_DQBUF fails when the queue does not stream or the device has failed,
\* and otherwise blocks (the file is opened O_RDWR, without O_NONBLOCK) until
\* a buffer is done.
DqBufFails(p) == ~streaming[p] \/ broken
DqBuf(p) ==
    /\ ~DqBufFails(p)
    /\ done[p] # <<>>
    /\ done' = [done EXCEPT ![p] = Tail(@)]
    /\ UNCHANGED <<requested, streaming, queued, events, broken>>

\* The device finishes with a queued buffer.
Complete(p, b, frame, last) ==
    /\ queued' = [queued EXCEPT ![p] = @ \ {b}]
    /\ done' = [done EXCEPT ![p] =
                    Append(@, [buf |-> b, frame |-> frame, last |-> last])]

\* What poll() reports of the file: POLLPRI, POLLIN and POLLOUT.
Ready ==
    {r \in {"PRI", "IN", "OUT"} :
        \/ r = "PRI" /\ events > 0
        \/ r = "IN"  /\ done[OUTPUT_PORT] # <<>>
        \/ r = "OUT" /\ done[INPUT_PORT] # <<>>}
=============================================================================
