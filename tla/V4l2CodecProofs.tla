--------------------------- MODULE V4l2CodecProofs ---------------------------
(***************************************************************************)
(* Lemmas about the operations of V4l2Device, V4l2Driver and V4l2Codec     *)
(* that the proofs about the decoder and about the encoder share: what     *)
(* each operation keeps of the types, of the partition of the lists and of *)
(* the ownership of the buffers.                                           *)
(***************************************************************************)
EXTENDS V4l2Codec, FiniteSetTheorems, TLAPS

-----------------------------------------------------------------------------
\* Sets of buffers of each port.

\* Replacing the buffers of one port by other buffers of that port.
LEMMA PortBufsExcept ==
  ASSUME NEW f, IsPortBufs(f), NEW p \in Port, NEW S \in SUBSET BufsOf(p)
  PROVE  IsPortBufs([f EXCEPT ![p] = S])
BY DEF IsPortBufs, BufsOf, Buf

\* No buffer anywhere is of the right type.
LEMMA PortBufsEmpty == IsPortBufs([p \in Port |-> {}])
BY DEF IsPortBufs

-----------------------------------------------------------------------------
\* The device's operations keep its type.

\* Nothing happens to the device.
LEMMA DeviceUnchanged ==
  ASSUME DeviceTypeOK, UNCHANGED deviceVars
  PROVE  DeviceTypeOK'
BY DEF DeviceTypeOK, deviceVars, IsPortBufs

\* VIDIOC_REQBUFS.
LEMMA ReqBufsType ==
  ASSUME DeviceTypeOK, NEW p \in Port, NEW some \in BOOLEAN, ReqBufs(p, some)
  PROVE  DeviceTypeOK'
BY DEF DeviceTypeOK, ReqBufs, IsPortBufs

\* VIDIOC_STREAMON.
LEMMA StreamOnType ==
  ASSUME DeviceTypeOK, NEW p \in Port, StreamOn(p)
  PROVE  DeviceTypeOK'
BY DEF DeviceTypeOK, StreamOn, IsPortBufs

\* VIDIOC_STREAMOFF.
LEMMA StreamOffType ==
  ASSUME DeviceTypeOK, NEW p \in Port, StreamOff(p)
  PROVE  DeviceTypeOK'
<1>1. <<>> \in Seq(Completion)
  OBVIOUS
<1>2. done' \in [Port -> Seq(Completion)]
  BY <1>1 DEF DeviceTypeOK, StreamOff
<1>3. IsPortBufs(queued')
  BY PortBufsExcept DEF DeviceTypeOK, StreamOff
<1> QED
  BY <1>2, <1>3 DEF DeviceTypeOK, StreamOff

\* VIDIOC_DQBUF, which also returns a completion.
LEMMA DqBufType ==
  ASSUME DeviceTypeOK, NEW p \in Port, DqBuf(p)
  PROVE  DeviceTypeOK' /\ Head(done[p]) \in Completion
<1>1. done[p] \in Seq(Completion) /\ done[p] # <<>>
  BY DEF DeviceTypeOK, DqBuf
<1>2. Head(done[p]) \in Completion /\ Tail(done[p]) \in Seq(Completion)
  BY <1>1
<1>3. done' \in [Port -> Seq(Completion)]
  BY <1>2 DEF DeviceTypeOK, DqBuf
<1> QED
  BY <1>2, <1>3 DEF DeviceTypeOK, DqBuf, IsPortBufs

\* The device finishes with a buffer.
LEMMA CompleteType ==
  ASSUME DeviceTypeOK, NEW p \in Port, NEW b \in queued[p],
         NEW frame \in BOOLEAN, NEW last \in BOOLEAN,
         Complete(p, b, frame, last),
         UNCHANGED <<requested, streaming, events, broken>>
  PROVE  DeviceTypeOK'
<1> DEFINE c == [buf |-> b, frame |-> frame, last |-> last]
<1>1. b \in Buf
  BY DEF DeviceTypeOK, IsPortBufs
<1>2. c \in Completion
  BY <1>1 DEF Completion
<1>3. Append(done[p], c) \in Seq(Completion)
  BY <1>2 DEF DeviceTypeOK
<1>4. done' \in [Port -> Seq(Completion)]
  BY <1>3 DEF DeviceTypeOK, Complete
<1>5. queued[p] \ {b} \in SUBSET BufsOf(p)
  BY DEF DeviceTypeOK, IsPortBufs
<1>6. IsPortBufs(queued')
  BY <1>5, PortBufsExcept DEF DeviceTypeOK, Complete
<1> QED
  BY <1>4, <1>6 DEF DeviceTypeOK

\* queueBuffer.
LEMMA QueueBuffersType ==
  ASSUME DeviceTypeOK, DriverTypeOK, NEW p \in Port,
         NEW S \in SUBSET BufsOf(p), QueueBuffers(p, S)
  PROVE  DeviceTypeOK' /\ DriverTypeOK'
<1>1. queued[p] \cup S \in SUBSET BufsOf(p)
  BY DEF DeviceTypeOK, IsPortBufs
<1>2. IsPortBufs(queued')
  BY <1>1, PortBufsExcept DEF DeviceTypeOK, QueueBuffers, QBuf
<1>3. DeviceTypeOK'
  BY <1>2 DEF DeviceTypeOK, QueueBuffers
<1>4. DriverTypeOK'
  BY DEF DriverTypeOK, QueueBuffers
<1> QED
  BY <1>3, <1>4

\* The poll thread turns to what is left of its snapshot.
LEMMA HandleType ==
  ASSUME NEW r \in SUBSET {"PRI", "IN", "OUT"}, Handle(r)
  PROVE  ppc' \in PollPc /\ revents' \subseteq {"PRI", "IN", "OUT"}
BY DEF Handle, NextHandler, PollPc

\* Nothing happens to the poll thread.
LEMMA DriverUnchanged ==
  ASSUME DriverTypeOK, UNCHANGED driverVars
  PROVE  DriverTypeOK'
BY DEF DriverTypeOK, driverVars

\* A callback returns.
LEMMA CallbackReturnsType ==
  ASSUME DriverTypeOK, NEW r, CallbackReturns(r)
  PROVE  DriverTypeOK'
BY HandleType DEF DriverTypeOK, CallbackReturns

\* The poll thread dequeues a buffer, or is refused.
LEMMA DequeueType ==
  ASSUME DeviceTypeOK, DriverTypeOK, NEW p \in Port, NEW r, NEW l,
         NEW callback \in PollPc, DequeueBuffer(p, r, l, callback)
  PROVE  DriverTypeOK'
<1>1. CASE /\ DqBuf(p) /\ buffer' = Head(done[p])
           /\ ppc' = callback /\ UNCHANGED revents
  <2>1. Head(done[p]) \in Completion
    BY <1>1, DqBufType
  <2> QED
    BY <1>1, <2>1 DEF DequeueBuffer, DriverTypeOK
<1>2. CASE Handle(revents \ {r}) /\ UNCHANGED buffer
  BY <1>2, HandleType DEF DequeueBuffer, DriverTypeOK
<1> QED
  BY <1>1, <1>2 DEF DequeueBuffer

-----------------------------------------------------------------------------
\* The operations on the lists keep their type and the partition.

ListsOK ==
  /\ IsPortBufs(bufs)
  /\ IsPortBufs(pendingBufs)
  /\ IsPortBufs(pool)
  /\ ListsPartition

\* Nothing happens to the lists.
LEMMA ListsUnchanged ==
  ASSUME ListsOK, UNCHANGED listVars
  PROVE  ListsOK'
BY DEF ListsOK, listVars, ListsPartition, IsPortBufs

\* allocateBuffers, for a port that has no buffers yet.
LEMMA AllocateLists ==
  ASSUME ListsOK, NEW p \in Port, NEW S \in SUBSET BufsOf(p),
         pool[p] = {}, AllocateBuffers(p, S)
  PROVE  ListsOK' /\ pool' = [pool EXCEPT ![p] = S]
<1>1. bufs[p] = {} /\ pendingBufs[p] = {}
  BY DEF ListsOK, ListsPartition
<1>2. /\ bufs' = [bufs EXCEPT ![p] = S]
      /\ pool' = [pool EXCEPT ![p] = S]
      /\ pendingBufs' = pendingBufs
  BY <1>1 DEF AllocateBuffers, ListsOK, IsPortBufs
<1>3. IsPortBufs(bufs') /\ IsPortBufs(pool') /\ IsPortBufs(pendingBufs')
  BY <1>2, PortBufsExcept DEF ListsOK
<1>4. ListsPartition'
  BY <1>1, <1>2 DEF ListsOK, ListsPartition, IsPortBufs
<1> QED
  BY <1>2, <1>3, <1>4 DEF ListsOK

\* Free buffers become pending.
LEMMA TakeLists ==
  ASSUME ListsOK, NEW p \in Port, NEW S \in SUBSET bufs[p], TakeBuffers(p, S)
  PROVE  ListsOK' /\ UNCHANGED pool
<1>1. /\ bufs[p] \ S \in SUBSET BufsOf(p)
      /\ pendingBufs[p] \cup S \in SUBSET BufsOf(p)
  BY DEF ListsOK, IsPortBufs
<1>2. IsPortBufs(bufs') /\ IsPortBufs(pendingBufs') /\ IsPortBufs(pool')
  BY <1>1, PortBufsExcept DEF ListsOK, TakeBuffers
<1>3. ListsPartition'
  BY DEF ListsOK, ListsPartition, IsPortBufs, TakeBuffers
<1> QED
  BY <1>2, <1>3 DEF ListsOK, TakeBuffers

\* A pending buffer becomes free.
LEMMA PutLists ==
  ASSUME ListsOK, NEW p \in Port, NEW b \in pendingBufs[p], PutBuffer(p, b)
  PROVE  ListsOK' /\ UNCHANGED pool
<1>1. /\ bufs[p] \cup {b} \in SUBSET BufsOf(p)
      /\ pendingBufs[p] \ {b} \in SUBSET BufsOf(p)
  BY DEF ListsOK, IsPortBufs
<1>2. IsPortBufs(bufs') /\ IsPortBufs(pendingBufs') /\ IsPortBufs(pool')
  BY <1>1, PortBufsExcept DEF ListsOK, PutBuffer
<1>3. ListsPartition'
  BY DEF ListsOK, ListsPartition, IsPortBufs, PutBuffer
<1> QED
  BY <1>2, <1>3 DEF ListsOK, PutBuffer

\* stopInput and stopOutput: all pending buffers become free.
LEMMA ReclaimLists ==
  ASSUME ListsOK, NEW p \in Port, ReclaimPending(p)
  PROVE  ListsOK' /\ UNCHANGED pool
<1>1. bufs[p] \cup pendingBufs[p] \in SUBSET BufsOf(p)
  BY DEF ListsOK, IsPortBufs
<1>2. IsPortBufs(bufs') /\ IsPortBufs(pendingBufs') /\ IsPortBufs(pool')
  BY <1>1, PortBufsExcept DEF ListsOK, ReclaimPending
<1>3. ListsPartition'
  BY DEF ListsOK, ListsPartition, IsPortBufs, ReclaimPending
<1> QED
  BY <1>2, <1>3 DEF ListsOK, ReclaimPending

\* freeBuffers.
LEMMA ClearListsOK ==
  ASSUME ListsOK, NEW p \in Port, ClearLists(p)
  PROVE  ListsOK' /\ pool' = [pool EXCEPT ![p] = {}]
<1>1. IsPortBufs(bufs') /\ IsPortBufs(pendingBufs') /\ IsPortBufs(pool')
  BY PortBufsExcept DEF ListsOK, ClearLists
<1>2. ListsPartition'
  BY DEF ListsOK, ListsPartition, IsPortBufs, ClearLists
<1> QED
  BY <1>1, <1>2 DEF ListsOK, ClearLists

-----------------------------------------------------------------------------
\* What the operations do to the buffers the device owns.

BufsIn(s) == {s[i].buf : i \in DOMAIN s}
BufsOnce(s) == \A i, j \in DOMAIN s : s[i].buf = s[j].buf => i = j

\* A completion is appended.
LEMMA AppendBufs ==
  ASSUME NEW s \in Seq(Completion), NEW c \in Completion
  PROVE  /\ BufsIn(Append(s, c)) = BufsIn(s) \cup {c.buf}
         /\ BufsOnce(s) /\ c.buf \notin BufsIn(s) => BufsOnce(Append(s, c))
<1> DEFINE t == Append(s, c)
<1>1. /\ DOMAIN s = 1 .. Len(s)
      /\ DOMAIN t = 1 .. Len(s) + 1
      /\ Len(s) \in Nat
  OBVIOUS
<1>2. /\ \A i \in DOMAIN s : t[i] = s[i]
      /\ t[Len(s) + 1] = c
  OBVIOUS
<1>3. DOMAIN t = DOMAIN s \cup {Len(s) + 1}
  BY <1>1
<1> HIDE DEF t
<1>4. BufsIn(t) = BufsIn(s) \cup {c.buf}
  BY <1>2, <1>3 DEF BufsIn
<1>5. ASSUME BufsOnce(s), c.buf \notin BufsIn(s)
      PROVE  BufsOnce(t)
  BY <1>2, <1>3, <1>5 DEF BufsIn, BufsOnce
<1> QED
  BY <1>4, <1>5 DEF t

\* The first completion is removed.
LEMMA TailBufs ==
  ASSUME NEW s \in Seq(Completion), s # <<>>, BufsOnce(s)
  PROVE  /\ BufsIn(Tail(s)) = BufsIn(s) \ {Head(s).buf}
         /\ Head(s).buf \in BufsIn(s)
         /\ BufsOnce(Tail(s))
<1> DEFINE t == Tail(s)
<1>1. /\ DOMAIN s = 1 .. Len(s)
      /\ Len(s) \in Nat \ {0}
      /\ DOMAIN t = 1 .. Len(s) - 1
  OBVIOUS
<1>2. /\ \A i \in DOMAIN t : t[i] = s[i + 1]
      /\ Head(s) = s[1]
  OBVIOUS
<1>3. \A i \in DOMAIN t : i + 1 \in DOMAIN s /\ i + 1 # 1
  BY <1>1
<1>4. \A i \in DOMAIN s : i = 1 \/ (i - 1 \in DOMAIN t /\ (i - 1) + 1 = i)
  BY <1>1
<1>5. 1 \in DOMAIN s
  BY <1>1
<1> HIDE DEF t
<1>6. BufsIn(t) \subseteq BufsIn(s) \ {s[1].buf}
  BY <1>2, <1>3, <1>5 DEF BufsIn, BufsOnce
<1>7. BufsIn(s) \ {s[1].buf} \subseteq BufsIn(t)
  BY <1>2, <1>4 DEF BufsIn
<1>8. BufsOnce(t)
  <2> SUFFICES ASSUME NEW i \in DOMAIN t, NEW j \in DOMAIN t,
                      t[i].buf = t[j].buf
               PROVE  i = j
    BY DEF BufsOnce
  <2>1. i + 1 = j + 1
    BY <1>2, <1>3 DEF BufsOnce
  <2> QED
    BY <1>1, <2>1 DEF t
<1> QED
  BY <1>2, <1>5, <1>6, <1>7, <1>8 DEF t, BufsIn

Owned == \A p \in Port : OwnedOnce(p)

\* The two ways to write it.
LEMMA OwnedAlt ==
  ASSUME NEW p
  PROVE  /\ DoneBufs(p) = BufsIn(done[p])
         /\ OwnedOnce(p) <=> /\ queued[p] \cap BufsIn(done[p]) = {}
                             /\ BufsOnce(done[p])
BY DEF DoneBufs, BufsIn, OwnedOnce, BufsOnce

\* Nothing happens to the queues.
LEMMA OwnsUnchanged ==
  ASSUME Owned, UNCHANGED <<queued, done>>
  PROVE  Owned' /\ \A p \in Port : UNCHANGED DeviceOwns(p)
BY DEF Owned, OwnedOnce, DeviceOwns, DoneBufs

\* The device finishes with a buffer: it still owns it.
LEMMA CompleteOwns ==
  ASSUME DeviceTypeOK, Owned, NEW p \in Port, NEW b \in queued[p],
         NEW frame \in BOOLEAN, NEW last \in BOOLEAN,
         Complete(p, b, frame, last)
  PROVE  Owned' /\ \A q \in Port : UNCHANGED DeviceOwns(q)
<1> DEFINE c == [buf |-> b, frame |-> frame, last |-> last]
<1>1. b \in Buf
  BY DEF DeviceTypeOK, IsPortBufs
<1>2. c \in Completion /\ c.buf = b
  BY <1>1 DEF Completion
<1>3. done[p] \in Seq(Completion)
  BY DEF DeviceTypeOK
<1>4. /\ queued'[p] = queued[p] \ {b}
      /\ done'[p] = Append(done[p], c)
      /\ \A q \in Port \ {p} : queued'[q] = queued[q] /\ done'[q] = done[q]
  BY DEF Complete, DeviceTypeOK, IsPortBufs
<1> HIDE DEF c
<1>5. \A q \in Port : /\ queued[q] \cap BufsIn(done[q]) = {}
                      /\ BufsOnce(done[q])
  BY OwnedAlt DEF Owned
<1>6. /\ BufsIn(done'[p]) = BufsIn(done[p]) \cup {b}
      /\ BufsOnce(done'[p])
  BY <1>2, <1>3, <1>4, <1>5, AppendBufs
<1>7. \A q \in Port : /\ queued'[q] \cap BufsIn(done'[q]) = {}
                      /\ BufsOnce(done'[q])
                      /\ queued'[q] \cup BufsIn(done'[q])
                           = queued[q] \cup BufsIn(done[q])
  BY <1>4, <1>5, <1>6
<1> QED
  BY <1>7 DEF Owned, OwnedOnce, DeviceOwns, DoneBufs, BufsIn, BufsOnce

\* VIDIOC_DQBUF: the device gives up the buffer it returns.
LEMMA DqBufOwns ==
  ASSUME DeviceTypeOK, Owned, NEW p \in Port, DqBuf(p)
  PROVE  /\ Owned'
         /\ DeviceOwns(p)' = DeviceOwns(p) \ {Head(done[p]).buf}
         /\ Head(done[p]).buf \in DeviceOwns(p)
         /\ \A q \in Port \ {p} : UNCHANGED DeviceOwns(q)
<1>1. done[p] \in Seq(Completion) /\ done[p] # <<>>
  BY DEF DeviceTypeOK, DqBuf
<1>2. /\ queued' = queued
      /\ done'[p] = Tail(done[p])
      /\ \A q \in Port \ {p} : done'[q] = done[q]
  BY DEF DqBuf, DeviceTypeOK
<1>3. \A q \in Port : /\ queued[q] \cap BufsIn(done[q]) = {}
                      /\ BufsOnce(done[q])
  BY OwnedAlt DEF Owned
<1>4. /\ BufsIn(done'[p]) = BufsIn(done[p]) \ {Head(done[p]).buf}
      /\ Head(done[p]).buf \in BufsIn(done[p])
      /\ BufsOnce(done'[p])
  BY <1>1, <1>2, <1>3, TailBufs
<1>5. /\ \A q \in Port : /\ queued'[q] \cap BufsIn(done'[q]) = {}
                         /\ BufsOnce(done'[q])
      /\ queued'[p] \cup BufsIn(done'[p])
           = (queued[p] \cup BufsIn(done[p])) \ {Head(done[p]).buf}
      /\ \A q \in Port \ {p} : queued'[q] \cup BufsIn(done'[q])
                                 = queued[q] \cup BufsIn(done[q])
  BY <1>2, <1>3, <1>4
<1> QED
  BY <1>4, <1>5 DEF Owned, OwnedOnce, DeviceOwns, DoneBufs, BufsIn, BufsOnce

\* VIDIOC_QBUF, for buffers the device does not own.
LEMMA QueueOwns ==
  ASSUME DeviceTypeOK, Owned, NEW p \in Port, NEW S, QueueBuffers(p, S),
         S \cap DeviceOwns(p) = {}
  PROVE  /\ Owned'
         /\ DeviceOwns(p)' = DeviceOwns(p) \cup S
         /\ \A q \in Port \ {p} : UNCHANGED DeviceOwns(q)
<1>1. /\ queued'[p] = queued[p] \cup S
      /\ \A q \in Port \ {p} : queued'[q] = queued[q]
      /\ done' = done
  BY DEF QueueBuffers, QBuf, DeviceTypeOK, IsPortBufs
<1> QED
  BY <1>1 DEF Owned, OwnedOnce, DeviceOwns, DoneBufs

\* VIDIOC_STREAMOFF: the device gives everything up.
LEMMA StreamOffOwns ==
  ASSUME DeviceTypeOK, Owned, NEW p \in Port, StreamOff(p)
  PROVE  /\ Owned'
         /\ DeviceOwns(p)' = {}
         /\ \A q \in Port \ {p} : UNCHANGED DeviceOwns(q)
<1>1. /\ queued'[p] = {} /\ done'[p] = <<>>
      /\ \A q \in Port \ {p} : queued'[q] = queued[q] /\ done'[q] = done[q]
  BY DEF StreamOff, DeviceTypeOK, IsPortBufs
<1> QED
  BY <1>1 DEF Owned, OwnedOnce, DeviceOwns, DoneBufs

-----------------------------------------------------------------------------
\* Counting the frames of a queue.

\* What is queued, and the frames among what is done, can be counted.
LEMMA CountTypes ==
  ASSUME NEW q, IsPortBufs(q), NEW s \in Seq(Completion)
  PROVE  /\ IsFiniteSet(q[INPUT_PORT])
         /\ Cardinality(q[INPUT_PORT]) \in Nat
         /\ IsFiniteSet(FramesIn(s))
         /\ Cardinality(FramesIn(s)) \in Nat
<1>1. q[INPUT_PORT] \subseteq InBuf
  BY DEF IsPortBufs, Port, BufsOf
<1>2. FramesIn(s) \subseteq Buf
  <2>1. \A i \in DOMAIN s : s[i] \in Completion
    OBVIOUS
  <2> QED
    BY <2>1 DEF FramesIn, Completion
<1>3. IsFiniteSet(InBuf) /\ IsFiniteSet(Buf)
  BY BufAssumption, FS_Union DEF Buf
<1> QED
  BY <1>1, <1>2, <1>3, FS_Subset, FS_CardinalityType

\* A completion is appended: its buffer is not among the others.
LEMMA AppendFrames ==
  ASSUME NEW s \in Seq(Completion), NEW c \in Completion,
         c.buf \notin BufsIn(s)
  PROVE  Cardinality(FramesIn(Append(s, c)))
           = Cardinality(FramesIn(s)) + (IF c.frame THEN 1 ELSE 0)
<1> DEFINE t == Append(s, c)
<1>1. /\ \A i \in DOMAIN s : t[i] = s[i]
      /\ t[Len(s) + 1] = c
      /\ DOMAIN t = DOMAIN s \cup {Len(s) + 1}
      /\ Len(s) + 1 \notin DOMAIN s
  OBVIOUS
<1> HIDE DEF t
<1>2. FramesIn(t) = FramesIn(s) \cup (IF c.frame THEN {c.buf} ELSE {})
  BY <1>1 DEF FramesIn
<1>3. c.buf \notin FramesIn(s) /\ FramesIn(s) \subseteq BufsIn(s)
  BY DEF FramesIn, BufsIn
<1>4. IsFiniteSet(FramesIn(s)) /\ Cardinality(FramesIn(s)) \in Nat
  BY CountTypes, PortBufsEmpty
<1>5. CASE c.frame
  BY <1>2, <1>3, <1>4, <1>5, FS_AddElement DEF t
<1>6. CASE ~c.frame
  BY <1>2, <1>4, <1>6 DEF t
<1> QED
  BY <1>5, <1>6

\* The first completion is removed.
LEMMA TailFrames ==
  ASSUME NEW s \in Seq(Completion), s # <<>>, BufsOnce(s)
  PROVE  Cardinality(FramesIn(s))
           = Cardinality(FramesIn(Tail(s)))
               + (IF Head(s).frame THEN 1 ELSE 0)
<1> DEFINE t == Tail(s)
<1>1. /\ DOMAIN s = 1 .. Len(s)
      /\ Len(s) \in Nat \ {0}
      /\ DOMAIN t = 1 .. Len(s) - 1
      /\ t \in Seq(Completion)
  OBVIOUS
<1>2. /\ \A i \in DOMAIN t : t[i] = s[i + 1]
      /\ Head(s) = s[1]
  OBVIOUS
<1>3. /\ \A i \in DOMAIN t : i + 1 \in DOMAIN s /\ i + 1 # 1
      /\ \A i \in DOMAIN s : i = 1 \/ (i - 1 \in DOMAIN t /\ (i - 1) + 1 = i)
      /\ 1 \in DOMAIN s
  BY <1>1
<1> HIDE DEF t
<1>4. s[1].buf \notin FramesIn(t)
  BY <1>2, <1>3 DEF FramesIn, BufsOnce
<1>5. FramesIn(s) = FramesIn(t) \cup (IF s[1].frame THEN {s[1].buf} ELSE {})
  BY <1>2, <1>3 DEF FramesIn
<1>6. IsFiniteSet(FramesIn(t)) /\ Cardinality(FramesIn(t)) \in Nat
  BY <1>1, CountTypes, PortBufsEmpty
<1>7. CASE s[1].frame
  <2> DEFINE F == FramesIn(t)
  <2>1. IsFiniteSet(F) /\ s[1].buf \notin F
    BY <1>4, <1>6
  <2>2. FramesIn(s) = F \cup {s[1].buf}
    BY <1>5, <1>7
  <2> HIDE DEF F
  <2>3. Cardinality(F \cup {s[1].buf}) = Cardinality(F) + 1
    BY <2>1, FS_AddElement
  <2>4. Cardinality(FramesIn(s)) = Cardinality(FramesIn(t)) + 1
    BY <2>2, <2>3 DEF F
  <2> QED
    BY <1>2, <1>7, <2>4 DEF t
<1>8. CASE ~s[1].frame
  BY <1>2, <1>5, <1>6, <1>8 DEF t
<1> QED
  BY <1>7, <1>8

\* A completion's parts.
LEMMA CompleteParts ==
  ASSUME DeviceTypeOK, NEW p \in Port, NEW b \in queued[p],
         NEW frame \in BOOLEAN, NEW last \in BOOLEAN,
         Complete(p, b, frame, last)
  PROVE  /\ [buf |-> b, frame |-> frame, last |-> last] \in Completion
         /\ queued'[p] = queued[p] \ {b}
         /\ done'[p] = Append(done[p],
                              [buf |-> b, frame |-> frame, last |-> last])
         /\ \A q \in Port \ {p} : queued'[q] = queued[q] /\ done'[q] = done[q]
         /\ done[p] \in Seq(Completion)
<1>1. b \in Buf
  BY DEF DeviceTypeOK, IsPortBufs
<1> QED
  BY <1>1 DEF Complete, DeviceTypeOK, IsPortBufs, Completion
=============================================================================
