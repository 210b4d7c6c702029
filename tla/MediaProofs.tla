----------------------------- MODULE MediaProofs ----------------------------
(***************************************************************************)
(* What a test case reads, for every value of the constants: any stream,   *)
(* commands and NumFrames, any pictures and any static controls.           *)
(*                                                                         *)
(* SeekInv: frameCounter is in step with the stream.  SeekTypeInv: the     *)
(* types of seeks.  StaticInv: the static controls come in order.  RawInv: *)
(* the frame that is being filled in has the lines before this one.        *)
(***************************************************************************)
EXTENDS TestMedia, DataInduction, FiniteSetTheorems

-----------------------------------------------------------------------------
(***************************************************************************)
(* Seeks: frameCounter and the maps of the parser.                         *)
(***************************************************************************)

AllFrames == \A i \in DOMAIN stream.packets : stream.packets[i] = "frame"

\* What NoSeekUnasked and InStep rest on: as long as no seek goes wrong the
\* frames the parser knows are the packets of the stream, and frameCounter is
\* the number of a frame, so never -1.
SeekInv ==
    /\ stream \in Streams
    /\ onTrack \in BOOLEAN
    /\ onTrack => /\ AllFrames
                  /\ mPktPosition \subseteq 0 .. Len(stream.packets) - 1
                  /\ frameCounter \in Nat
                  /\ ~unasked
    /\ InStep

-----------------------------------------------------------------------------
\* A stream is a sequence of packets.
LEMMA StreamFacts ==
    ASSUME stream \in Streams
    PROVE  /\ stream.packets \in Seq({"frame", "other", "refused"})
           /\ Len(stream.packets) \in Nat
           /\ DOMAIN stream.packets = 1 .. Len(stream.packets)
           /\ stream.raw \in BOOLEAN
  BY StreamAssumption

\* In a stream of frames only, frame f is packet f,
LEMMA PacketOfFrame ==
    ASSUME stream \in Streams, AllFrames,
           NEW f \in 0 .. Len(stream.packets) - 1
    PROVE  PacketOf(f) = f
  <1>1. ASSUME NEW n \in 0 .. Len(stream.packets) - 1
        PROVE  /\ Cardinality({i \in 1 .. n : stream.packets[i] = "frame"}) = n
               /\ stream.packets[n + 1] = "frame"
    <2>0. n \in Nat /\ n + 1 \in 1 .. Len(stream.packets)
          /\ 1 .. n \subseteq 1 .. Len(stream.packets)
      BY StreamFacts
    <2>1. {i \in 1 .. n : stream.packets[i] = "frame"} = 1 .. n
      BY <2>0, StreamFacts DEF AllFrames
    <2>2. Cardinality(1 .. n) = n
      BY <2>0, FS_Interval
    <2>3. stream.packets[n + 1] = "frame"
      BY <2>0, StreamFacts DEF AllFrames
    <2> QED  BY <2>1, <2>2, <2>3
  <1>2. \A n \in 0 .. Len(stream.packets) - 1 :
            (/\ stream.packets[n + 1] = "frame"
             /\ Cardinality({i \in 1 .. n : stream.packets[i] = "frame"}) = f)
            <=> n = f
    BY <1>1
  <1> QED  BY <1>2 DEF PacketOf

\* and loopPackets finds them all.
LEMMA AllFound ==
    ASSUME stream \in Streams, AllFrames
    PROVE  FirstRefused(stream) = Len(stream.packets)
  <1>1. \A n \in 0 .. Len(stream.packets) :
            ( /\ \A i \in 1 .. n : stream.packets[i] = "frame"
              /\ n < Len(stream.packets)
                     => stream.packets[n + 1] # "frame" )
            <=> n = Len(stream.packets)
    BY StreamFacts DEF AllFrames
  <1>2. Len(stream.packets) \in 0 .. Len(stream.packets)
    BY StreamFacts
  <1> QED  BY <1>1, <1>2 DEF FirstRefused

LEMMA SeekInitInv == SeekInit => SeekInv
  <1> SUFFICES ASSUME SeekInit PROVE SeekInv
    OBVIOUS
  <1> USE DEF SeekInit, ParserInit
  <1>1. ASSUME AllFrames
        PROVE  mPktPosition \subseteq 0 .. Len(stream.packets) - 1
    BY <1>1, AllFound, StreamFacts
  <1>2. InStep
    <2>1. ASSUME onTrack PROVE position = 0
      <3>1. CASE stream.raw /\ stream.packets # <<>>
        <4>1. Len(stream.packets) > 0
          BY <3>1, StreamFacts
        <4>2. FirstRefused(stream) = Len(stream.packets)
          BY <2>1, AllFound DEF AllFrames
        <4> QED  BY <3>1, <4>1, <4>2, StreamFacts
      <3>2. CASE ~(stream.raw /\ stream.packets # <<>>)
        BY <3>2
      <3> QED  BY <3>1, <3>2
    <2> QED  BY <2>1 DEF InStep
  <1> QED  BY <1>1, <1>2 DEF SeekInv, AllFrames

-----------------------------------------------------------------------------
\* A seek that FFmpeg can make goes to the packet of the frame asked for.
LEMMA SeekToFrame ==
    ASSUME SeekInv, onTrack, NEW f, SeekTo(f)
    PROVE  f \in Int /\ f >= 0 /\ position' = f
  <1>1. f \in 0 .. Len(stream.packets) - 1
    <2>1. CASE stream.raw
      BY <2>1 DEF SeekTo, Reachable, SeekInv
    <2>2. CASE ~stream.raw
      <3>1. {i \in DOMAIN stream.packets : stream.packets[i] = "frame"}
                = 1 .. Len(stream.packets)
        BY StreamFacts DEF SeekInv, AllFrames
      <3>2. FramesIn(stream) = Len(stream.packets)
        <4> DEFINE n == Len(stream.packets)
        <4>a. n \in Nat
          BY StreamFacts DEF SeekInv
        <4> HIDE DEF n
        <4>b. Cardinality(1 .. n) = n
          BY <4>a, FS_Interval
        <4>1. Cardinality(1 .. Len(stream.packets)) = Len(stream.packets)
          BY <4>b DEF n
        <4> QED  BY <3>1, <4>1 DEF FramesIn
      <3> QED  BY <2>2, <3>2 DEF SeekTo, Reachable
    <2> QED  BY <2>1, <2>2
  <1>2. PacketOf(f) = f
    BY <1>1, PacketOfFrame DEF SeekInv
  <1> QED  BY <1>1, <1>2, StreamFacts DEF SeekTo, SeekInv

\* An empty map is never taken for a seek that is due.
LEMMA SeekAsked ==
    ASSUME SeekInv, onTrack,
           NEW at, NEW map, NEW next, Seek(at, map, next)
    PROVE  ~unasked'
  <1>1. map # <<>>
    BY DEF SeekInv, Seek, From
  <1> QED  BY <1>1 DEF SeekInv, Seek

LEMMA SeekStep == SeekInv /\ [SeekNext]_vars => SeekInv'
  <1> SUFFICES ASSUME SeekInv, [SeekNext]_vars PROVE SeekInv'
    OBVIOUS
  <1> USE DEF SeekInv, InStep, AllFrames
  <1>1. CASE SetDynamicCommands
    BY <1>1 DEF SetDynamicCommands, parserVars
  <1>2. CASE ErrorReceived
    BY <1>2 DEF ErrorReceived, loopVars, parserVars
  <1>3. ASSUME NEW at, NEW from, NEW next,
               NotNow(at, from, next) \/ TooEarly(at, from)
        PROVE  SeekInv'
    BY <1>3 DEF NotNow, TooEarly, loopVars, parserVars
  <1>4. CASE RandomSeekRestartFails
    <2>1. onTrack => ~unasked'
      BY <1>4, SeekAsked DEF RandomSeekRestartFails
    <2>2. drain' = "none" => drain = "none"
      BY <1>4 DEF RandomSeekRestartFails, InputRestarted
    <2> QED
      BY <1>4, <2>1, <2>2 DEF RandomSeekRestartFails, parserVars
  <1>5. CASE RandomSeekOfNoFrames
    <2>1. drain' = "none" => drain = "none"
      BY <1>5 DEF RandomSeekOfNoFrames, InputRestarted
    <2>2. stream' = stream
      BY <1>5 DEF RandomSeekOfNoFrames, parserVars, SeekTo, SeekAstray,
         SeekFails
    <2>3. CASE onTrack' = FALSE
      BY <2>2, <2>3
    <2>4. CASE /\ Seek("random", mRandomSeek, "terminated")
               /\ UNCHANGED <<frameCounter, mRandomSeek, onTrack, parserVars>>
      <3>1. onTrack => ~unasked'
        BY <2>4, SeekAsked
      <3> QED  BY <2>1, <2>4, <3>1 DEF parserVars
    <2> QED
      BY <1>5, <2>3, <2>4 DEF RandomSeekOfNoFrames
  <1>6. CASE RandomSeek
    <2>1. onTrack => ~unasked'
      BY <1>6, SeekAsked DEF RandomSeek
    <2>2. ASSUME NEW f \in 0 .. mTotalFrameCnt - 1,
                 SeekTo(f), frameCounter' = f, UNCHANGED onTrack
          PROVE  SeekInv'
      <3>1. onTrack => f \in Int /\ f >= 0 /\ position' = f
        BY <2>2, SeekToFrame
      <3> QED  BY <2>1, <2>2, <3>1 DEF SeekTo
    <2>3. CASE SeekFails /\ frameCounter' = -1 /\ onTrack' = FALSE
      BY <2>3 DEF SeekFails, parserVars
    <2> QED  BY <1>6, <2>2, <2>3 DEF RandomSeek
  <1>7. CASE IDRSeek
    <2>1. onTrack => ~unasked'
      BY <1>7, SeekAsked DEF IDRSeek
    <2>2. frameCounter' = To(mIDRSeek)
      BY <1>7 DEF IDRSeek, CounterAt
    <2>3. CASE SeekTo(To(mIDRSeek)) /\ UNCHANGED onTrack
      <3>1. onTrack => /\ To(mIDRSeek) \in Int
                       /\ To(mIDRSeek) >= 0
                       /\ position' = To(mIDRSeek)
        BY <2>3, SeekToFrame
      <3> QED  BY <2>1, <2>2, <2>3, <3>1 DEF SeekTo
    <2> QED  BY <1>7, <2>2, <2>3 DEF IDRSeek, SeekFails, SeekAstray, parserVars
  <1>8. CASE Draining \/ NoInput
    BY <1>8 DEF Draining, NoInput, FeedKeeps, parserVars
  <1>9. CASE FeedFrame
    BY <1>9 DEF FeedFrame, PacketRead, FeedKeeps, AtEnd
  <1>10. CASE FirstReconfig \/ LastBufferDone
    BY <1>10 DEF FirstReconfig, LastBufferDone, parserVars
  <1>11. CASE UNCHANGED vars
    BY <1>11 DEF vars, seekVars, loopVars, parserVars
  <1> QED
    BY <1>1, <1>2, <1>3, <1>4, <1>5, <1>6, <1>7, <1>8, <1>9, <1>10,
       <1>11
    DEF SeekNext, Turn

LEMMA MediaStep == SeekInv /\ [MediaNext]_mediaVars => SeekInv'
  <1>1. CASE Decoding(SeekNext) \/ UNCHANGED mediaVars
    BY <1>1, SeekStep DEF Decoding, mediaVars
  <1>2. CASE \/ Encoding(StaticNext /\ UNCHANGED rawVars)
             \/ Encoding(setup = "done" /\ RawNext /\ UNCHANGED staticVars)
    BY <1>2, SeekStep DEF Encoding
  <1> QED  BY <1>1, <1>2 DEF MediaNext

\* The seeks of a session, while none goes wrong, leave frameCounter at a frame
\* of the stream and the parser with every frame (queueBuffers).
THEOREM SeekInvariant == MediaSpec => []SeekInv
  <1>1. MediaInit => SeekInv
    BY SeekInitInv DEF MediaInit
  <1> QED  BY <1>1, MediaStep, PTL DEF MediaSpec

\* frameCounter is the number of the frame that is read next, through every
\* seek (handleSeekIfNeeded, handleRandomSeekIfNeeded) that does not go wrong.
THEOREM FramesInStep == MediaSpec => []InStep
  BY SeekInvariant, PTL DEF SeekInv

\* The -1 of an empty map is no frame: no seek is made that was not asked for
\* as long as none has gone wrong.
THEOREM NoSeekOfItself == MediaSpec => []NoSeekUnasked
  <1>1. SeekInv => NoSeekUnasked
    BY DEF SeekInv, NoSeekUnasked
  <1> QED  BY SeekInvariant, <1>1, PTL

-----------------------------------------------------------------------------
IsMap(map) == map = [f \in DOMAIN map |-> map[f]]

\* NoSeekForgotten rests on where a turn is: what setDynamicCommands has noted
\* is for this frame, and gone when the frame is fed.
NotedForFrame(map) ==
    /\ IsMap(map)
    /\ DOMAIN map \subseteq {frameCounter} /\ DOMAIN map \subseteq Nat

SeekOrder ==
    ~SharedFrame =>
        /\ pc \in {"turn", "feed"} => mIDRSeek = <<>> /\ mRandomSeek = <<>>
        /\ pc = "random" => /\ NotedForFrame(mIDRSeek)
                            /\ NotedForFrame(mRandomSeek)
                            /\ mIDRSeek = <<>> \/ mRandomSeek = <<>>
        /\ pc = "idr" => NotedForFrame(mIDRSeek) /\ mRandomSeek = <<>>

OrderInv ==
    /\ commands \in CommandLists
    /\ mDynamicCommands \subseteq commands
    /\ SeekOrder

LEMMA EmptyMap == IsMap(<<>>) /\ DOMAIN <<>> = {}
  BY DEF IsMap

LEMMA OrderInit == SeekInit => OrderInv
  BY DEF SeekInit, OrderInv, SeekOrder

\* Without an entry for the frame there is none; with one it is the first, and
\* the only one.
LEMMA FirstEntry ==
    ASSUME NEW map, NotedForFrame(map)
    PROVE  /\ frameCounter # From(map) => map = <<>>
           /\ map = <<>> \/ frameCounter = From(map) => EraseFirst(map) = <<>>
  <1>1. ASSUME map # <<>> PROVE DOMAIN map = {frameCounter}
    <2>1. IsMap(map) /\ DOMAIN map \subseteq {frameCounter}
      BY DEF NotedForFrame
    <2>2. DOMAIN map # {}
      BY <1>1, <2>1 DEF IsMap
    <2> QED  BY <2>1, <2>2
  <1>2. ASSUME map # <<>> PROVE From(map) = frameCounter
    BY <1>1, <1>2 DEF From, Min
  <1>3. ASSUME map # <<>> PROVE EraseFirst(map) = <<>>
    <2>1. DOMAIN map \ {From(map)} = {}
      BY <1>1, <1>2, <1>3
    <2> QED  BY <1>3, <2>1 DEF EraseFirst
  <1>4. map = <<>> => EraseFirst(map) = <<>>
    BY DEF EraseFirst
  <1> QED  BY <1>2, <1>3, <1>4

LEMMA NotedHere ==
    ASSUME OrderInv, NEW id, NEW map, map = <<>>
    PROVE  /\ NotedForFrame(Noted(map, id))
           /\ (\A c \in Due : c.id # id) => Noted(map, id) = <<>>
  <1> DEFINE new == {c \in Due : c.id = id}
             S == DOMAIN map \cup {c.fnum : c \in new}
  <1>1. S = {c.fnum : c \in new}
    BY EmptyMap
  <1>2. S \subseteq {frameCounter} /\ S \subseteq Nat
    BY <1>1, SeekAssumption DEF Due, OrderInv
  <1>3. Noted(map, id) =
            [f \in S |-> IF \E c \in new : c.fnum = f
                         THEN (CHOOSE c \in new : TRUE).to ELSE map[f]]
    BY DEF Noted
  <1> HIDE DEF S
  <1>4. IsMap(Noted(map, id)) /\ DOMAIN Noted(map, id) = S
    BY <1>3 DEF IsMap
  <1>5. ASSUME \A c \in Due : c.id # id PROVE Noted(map, id) = <<>>
    <2>1. S = {}
      BY <1>1, <1>5
    <2> QED  BY <1>3, <2>1
  <1> QED  BY <1>2, <1>4, <1>5 DEF NotedForFrame

\* Two seeks noted at once are for one frame.
LEMMA TwoDue ==
    ASSUME mDynamicCommands \subseteq commands,
           NEW c \in Due, NEW d \in Due,
           c.id = "IDRSeek", d.id = "RandomSeek"
    PROVE  SharedFrame
  BY DEF Due, SharedFrame

\* handleRandomSeekIfNeeded: of the two maps one is empty, and stays so.
LEMMA RandomKeepsOrder ==
    ASSUME OrderInv,
           RandomSeekRestartFails \/ RandomSeekOfNoFrames \/ RandomSeek
    PROVE  OrderInv'
  <1>1. /\ pc = "random" /\ frameCounter = From(mRandomSeek)
        /\ UNCHANGED <<commands, mDynamicCommands, mIDRSeek>>
    BY DEF RandomSeekRestartFails, RandomSeekOfNoFrames, RandomSeek, Seek
  <1>2. pc' \in {"failed", "terminated", "idr"}
    BY DEF RandomSeekRestartFails, RandomSeekOfNoFrames, RandomSeek, Seek
  <1>3. CASE pc' # "idr"
    BY <1>1, <1>2, <1>3 DEF OrderInv, SeekOrder, SharedFrame
  <1>4. CASE pc' = "idr" /\ ~SharedFrame
    <2>1. mRandomSeek' = EraseFirst(mRandomSeek)
      BY <1>4 DEF RandomSeekRestartFails, RandomSeekOfNoFrames, RandomSeek,
         Seek
    <2>2. NotedForFrame(mIDRSeek) /\ NotedForFrame(mRandomSeek)
      BY <1>1, <1>4 DEF OrderInv, SeekOrder
    <2>3. mRandomSeek' = <<>>
      BY <1>1, <2>1, <2>2, FirstEntry
    <2>4. mIDRSeek = <<>>
      <3>1. CASE mRandomSeek = <<>>
        <4>1. frameCounter = -1
          BY <1>1, <3>1 DEF From
        <4>2. DOMAIN mIDRSeek = {}
          BY <2>2, <4>1 DEF NotedForFrame
        <4> QED  BY <2>2, <4>2 DEF NotedForFrame, IsMap
      <3> QED  BY <1>1, <1>4, <3>1 DEF OrderInv, SeekOrder
    <2>5. NotedForFrame(mIDRSeek)'
      BY <1>1, <2>4, EmptyMap DEF NotedForFrame, IsMap
    <2> QED
      BY <1>1, <1>4, <2>3, <2>5 DEF OrderInv, SeekOrder
  <1>5. CASE SharedFrame
    BY <1>1, <1>5 DEF OrderInv, SeekOrder, SharedFrame
  <1> QED  BY <1>3, <1>4, <1>5

LEMMA OrderStep == OrderInv /\ [SeekNext]_vars => OrderInv'
  <1> SUFFICES ASSUME OrderInv, [SeekNext]_vars PROVE OrderInv'
    OBVIOUS
  <1>1. CASE SetDynamicCommands
    <2>1. /\ UNCHANGED <<commands, frameCounter>>
          /\ mDynamicCommands' \subseteq commands
          /\ pc = "turn" /\ pc' \in {"random", "terminated"}
          /\ mIDRSeek' = Noted(mIDRSeek, "IDRSeek")
          /\ mRandomSeek' = Noted(mRandomSeek, "RandomSeek")
      BY <1>1 DEF SetDynamicCommands, OrderInv
    <2>2. ASSUME ~SharedFrame
          PROVE  /\ NotedForFrame(mIDRSeek)' /\ NotedForFrame(mRandomSeek)'
                 /\ mIDRSeek' = <<>> \/ mRandomSeek' = <<>>
      <3>1. mIDRSeek = <<>> /\ mRandomSeek = <<>>
        BY <2>1, <2>2 DEF OrderInv, SeekOrder
      <3>2. NotedForFrame(mIDRSeek)' /\ NotedForFrame(mRandomSeek)'
        BY <2>1, <3>1, NotedHere DEF NotedForFrame
      <3>3. \/ \A c \in Due : c.id # "IDRSeek"
            \/ \A c \in Due : c.id # "RandomSeek"
        BY <2>2, TwoDue DEF OrderInv
      <3> QED  BY <2>1, <3>1, <3>2, <3>3, NotedHere
    <2> QED  BY <2>1, <2>2 DEF OrderInv, SeekOrder, SharedFrame
  <1>2. CASE ErrorReceived
    BY <1>2 DEF ErrorReceived, loopVars, OrderInv, SeekOrder, SharedFrame
  <1>3. CASE NotNow("random", From(mRandomSeek), "idr")
    <2>1. /\ pc = "random" /\ pc' = "idr" /\ frameCounter # From(mRandomSeek)
          /\ UNCHANGED <<commands, loopVars>>
      BY <1>3 DEF NotNow
    <2>2. ~SharedFrame => NotedForFrame(mIDRSeek) /\ mRandomSeek = <<>>
      BY <2>1, FirstEntry DEF OrderInv, SeekOrder
    <2> QED
      BY <2>1, <2>2 DEF OrderInv, SeekOrder, SharedFrame, NotedForFrame,
         loopVars
  <1>4. CASE NotNow("idr", From(mIDRSeek), "feed")
    <2>1. /\ pc = "idr" /\ pc' = "feed" /\ frameCounter # From(mIDRSeek)
          /\ UNCHANGED <<commands, loopVars>>
      BY <1>4 DEF NotNow
    <2>2. ~SharedFrame => mIDRSeek = <<>> /\ mRandomSeek = <<>>
      BY <2>1, FirstEntry DEF OrderInv, SeekOrder
    <2> QED
      BY <2>1, <2>2 DEF OrderInv, SeekOrder, SharedFrame, loopVars
  <1>5. ASSUME NEW at, NEW from, TooEarly(at, from) PROVE OrderInv'
    BY <1>5 DEF TooEarly, loopVars, OrderInv, SeekOrder, SharedFrame
  <1>6. CASE IDRSeek
    <2>1. /\ pc = "idr" /\ pc' = "feed" /\ frameCounter = From(mIDRSeek)
          /\ mIDRSeek' = EraseFirst(mIDRSeek)
          /\ UNCHANGED <<commands, mDynamicCommands, mRandomSeek>>
      BY <1>6 DEF IDRSeek, Seek
    <2>2. ~SharedFrame => mIDRSeek' = <<>> /\ mRandomSeek = <<>>
      BY <2>1, FirstEntry DEF OrderInv, SeekOrder
    <2> QED
      BY <2>1, <2>2 DEF OrderInv, SeekOrder, SharedFrame
  <1>7. CASE Draining \/ NoInput \/ FeedFrame
    <2>1. /\ pc = "feed" /\ pc' \in {"turn", "returned", "failed"}
          /\ UNCHANGED <<commands, mDynamicCommands, mIDRSeek, mRandomSeek>>
      BY <1>7 DEF Draining, NoInput, FeedFrame, FeedKeeps
    <2> QED
      BY <2>1 DEF OrderInv, SeekOrder, SharedFrame
  <1>8. CASE FirstReconfig \/ LastBufferDone \/ UNCHANGED vars
    <2>1. UNCHANGED <<pc, frameCounter, commands, mDynamicCommands, mIDRSeek,
                      mRandomSeek>>
      BY <1>8 DEF FirstReconfig, LastBufferDone, vars, seekVars, loopVars
    <2> QED
      BY <2>1 DEF OrderInv, SeekOrder, SharedFrame, NotedForFrame
  <1> QED
    BY <1>1, <1>2, <1>3, <1>4, <1>5, <1>6, <1>7, <1>8, RandomKeepsOrder
    DEF SeekNext, Turn

\* A seek is made at its frame: when the frame is fed neither map has an entry
\* left, but for an IDRSeek that shares its frame with a RandomSeek.
THEOREM SeeksInTime == MediaSpec => []NoSeekForgotten
  <1>1. MediaInit => OrderInv
    BY OrderInit DEF MediaInit
  <1>2. OrderInv /\ [MediaNext]_mediaVars => OrderInv'
    BY OrderStep DEF MediaNext, Decoding, Encoding, mediaVars
  <1>3. OrderInv => NoSeekForgotten
    BY DEF OrderInv, SeekOrder, NoSeekForgotten
  <1> QED  BY <1>1, <1>2, <1>3, PTL DEF MediaSpec

-----------------------------------------------------------------------------
(***************************************************************************)
(* Seeks: the types, which rest on where the frames of a stream are.       *)
(***************************************************************************)

FrameAt(i) == stream.packets[i] = "frame"

\* The packets of frames up to one.
FramesTo(n) == {i \in 1 .. n : FrameAt(i)}

\* The frames up to a packet are a finite set, which grows by the next packet
\* if that is a frame.
LEMMA CountFrames ==
    ASSUME stream \in Streams, NEW n \in 0 .. Len(stream.packets)
    PROVE  /\ Cardinality(FramesTo(n)) \in Nat
           /\ Cardinality(FramesTo(0)) = 0
           /\ n < Len(stream.packets) =>
                  Cardinality(FramesTo(n + 1)) =
                      IF FrameAt(n + 1) THEN Cardinality(FramesTo(n)) + 1
                      ELSE Cardinality(FramesTo(n))
  <1>1. n \in Nat
    BY StreamFacts
  <1>2. FramesTo(n) \subseteq 1 .. n /\ IsFiniteSet(1 .. n)
    BY <1>1, FS_Interval DEF FramesTo
  <1>3. IsFiniteSet(FramesTo(n)) /\ Cardinality(FramesTo(n)) \in Nat
    BY <1>2, FS_Subset, FS_CardinalityType
  <1>4. FramesTo(0) = {} /\ Cardinality({}) = 0
    BY FS_EmptySet DEF FramesTo
  <1>5. CASE FrameAt(n + 1)
    <2>1. FramesTo(n + 1) = FramesTo(n) \cup {n + 1}
          /\ n + 1 \notin FramesTo(n)
      BY <1>1, <1>5 DEF FramesTo
    <2>2. Cardinality(FramesTo(n) \cup {n + 1})
              = Cardinality(FramesTo(n)) + 1
      <3> DEFINE F == FramesTo(n)
      <3>1. IsFiniteSet(F) /\ n + 1 \notin F
        BY <1>3, <2>1
      <3> HIDE DEF F
      <3>2. Cardinality(F \cup {n + 1}) = Cardinality(F) + 1
        BY <3>1, FS_AddElement
      <3> QED  BY <3>2 DEF F
    <2>3. Cardinality(FramesTo(n + 1)) = Cardinality(FramesTo(n)) + 1
      BY <2>1, <2>2
    <2> QED  BY <1>3, <1>4, <1>5, <2>3
  <1>6. CASE ~FrameAt(n + 1)
    <2>1. FramesTo(n + 1) = FramesTo(n)
      BY <1>1, <1>6 DEF FramesTo
    <2> QED  BY <1>3, <1>4, <1>6, <2>1
  <1> QED  BY <1>5, <1>6

\* There is a packet with each frame of a container: the count of the frames
\* rises by one at most, so it does not pass over a number.
LEMMA FrameHasPacket ==
    ASSUME stream \in Streams, NEW f \in 0 .. FramesIn(stream) - 1
    PROVE  \E n \in 0 .. Len(stream.packets) - 1 :
               FrameAt(n + 1) /\ Cardinality(FramesTo(n)) = f
  <1> DEFINE k == Len(stream.packets)
             T == {n \in 0 .. k : Cardinality(FramesTo(n)) <= f}
  <1> SUFFICES ASSUME \A n \in 0 .. k - 1 :
                          ~(FrameAt(n + 1) /\ Cardinality(FramesTo(n)) = f)
               PROVE  FALSE
    OBVIOUS
  <1>1. k \in Nat /\ FramesIn(stream) = Cardinality(FramesTo(k))
    <2>1. DOMAIN stream.packets = 1 .. k /\ k \in Nat
      BY StreamFacts
    <2> QED  BY <2>1 DEF FramesIn, FramesTo, FrameAt
  <1>2. k \in 0 .. k /\ 0 \in 0 .. k
    BY <1>1
  <1>3. FramesIn(stream) \in Nat /\ f \in Nat /\ f < FramesIn(stream)
    <2>1. Cardinality(FramesTo(k)) \in Nat
      BY <1>2, CountFrames
    <2> QED  BY <1>1, <2>1
  <1>4. 0 \in T
    BY <1>2, <1>3, CountFrames
  <1>5. ASSUME NEW n \in 0 .. k - 1, n \in T PROVE n + 1 \in T
    <2>1. n \in 0 .. k /\ n + 1 \in 0 .. k /\ n < k
      BY <1>1
    <2>2. /\ Cardinality(FramesTo(n)) \in Nat
          /\ Cardinality(FramesTo(n)) <= f
          /\ Cardinality(FramesTo(n + 1)) =
                 IF FrameAt(n + 1) THEN Cardinality(FramesTo(n)) + 1
                 ELSE Cardinality(FramesTo(n))
      BY <1>5, <2>1, CountFrames
    <2> QED  BY <1>3, <2>1, <2>2
  <1>6. 0 .. k \subseteq T
    <2> HIDE DEF T, k
    <2> QED  BY <1>1, <1>4, <1>5, IntervalInduction
  <1> QED  BY <1>1, <1>2, <1>3, <1>6

\* The first packet that is refused, or the end.
LEMMA RefusedFirst ==
    ASSUME stream \in Streams
    PROVE  /\ FirstRefused(stream) \in 0 .. Len(stream.packets)
           /\ \A i \in 1 .. FirstRefused(stream) : FrameAt(i)
  <1> DEFINE k == Len(stream.packets)
             Is(n) == /\ \A i \in 1 .. n : stream.packets[i] = "frame"
                      /\ n < k => stream.packets[n + 1] # "frame"
             T == {n \in 0 .. k : \A i \in 1 .. n : FrameAt(i)}
  <1>1. k \in Nat
    BY StreamFacts
  <1>2. \E n \in 0 .. k : Is(n)
    <2> SUFFICES ASSUME \A n \in 0 .. k : ~Is(n) PROVE FALSE
      OBVIOUS
    <2>1. 0 \in T
      BY <1>1
    <2>2. ASSUME NEW n \in 0 .. k - 1, n \in T PROVE n + 1 \in T
      <3>1. FrameAt(n + 1) /\ \A i \in 1 .. n : FrameAt(i)
        BY <1>1, <2>2 DEF FrameAt
      <3> QED  BY <1>1, <3>1
    <2>3. 0 .. k \subseteq T
      <3> HIDE DEF T, k
      <3> QED  BY <1>1, <2>1, <2>2, IntervalInduction
    <2>4. k \in T
      BY <1>1, <2>3
    <2>5. Is(k)
      BY <1>1, <2>4 DEF FrameAt
    <2> QED  BY <1>1, <2>5
  <1>3. FirstRefused(stream) = CHOOSE n \in 0 .. k : Is(n)
    BY DEF FirstRefused
  <1> HIDE DEF Is
  <1>4. FirstRefused(stream) \in 0 .. k /\ Is(FirstRefused(stream))
    BY <1>2, <1>3
  <1> QED  BY <1>4 DEF Is, FrameAt

-----------------------------------------------------------------------------
\* What the types rest on: raw video has frames only up to those loopPackets
\* has found, and the maps lead to numbers.
FoundFrames ==
    stream.raw => \A i \in mPktPosition : \A j \in 1 .. i + 1 : FrameAt(j)

ToNumbers(map) == IsMap(map) /\ \A f \in DOMAIN map : map[f] \in Int

MapsTyped == ToNumbers(mIDRSeek) /\ ToNumbers(mRandomSeek)

SeekTypeInv ==
    TypeOK /\ commands \in CommandLists /\ FoundFrames /\ MapsTyped

\* A seek goes to a packet of the stream.
LEMMA PacketInStream ==
    ASSUME ParserTypeOK, FoundFrames, NEW f, Reachable(f)
    PROVE  PacketOf(f) \in 0 .. Len(stream.packets)
  <1> DEFINE k == Len(stream.packets)
             Is(n) == /\ stream.packets[n + 1] = "frame"
                      /\ Cardinality({i \in 1 .. n :
                                          stream.packets[i] = "frame"}) = f
  <1>1. stream \in Streams /\ k \in Nat
    BY StreamFacts DEF ParserTypeOK
  <1>2. \E n \in 0 .. k - 1 : Is(n)
    <2>1. CASE stream.raw
      <3>1. f \in mPktPosition /\ f \in 0 .. k - 1
        BY <2>1 DEF Reachable, ParserTypeOK
      <3>2. \A j \in 1 .. f + 1 : stream.packets[j] = "frame"
        BY <2>1, <3>1 DEF FoundFrames, FrameAt
      <3>3. {i \in 1 .. f : stream.packets[i] = "frame"} = 1 .. f
            /\ stream.packets[f + 1] = "frame" /\ f \in Nat
        BY <1>1, <3>1, <3>2
      <3>4. Cardinality(1 .. f) = f
        BY <3>3, FS_Interval
      <3> QED  BY <3>1, <3>3, <3>4
    <2>2. CASE ~stream.raw
      <3>1. f \in 0 .. FramesIn(stream) - 1
        BY <2>2 DEF Reachable
      <3>2. PICK n \in 0 .. Len(stream.packets) - 1 :
                FrameAt(n + 1) /\ Cardinality(FramesTo(n)) = f
        BY <1>1, <3>1, FrameHasPacket
      <3> QED  BY <3>2 DEF FrameAt, FramesTo
    <2> QED  BY <2>1, <2>2
  <1>3. PacketOf(f) = CHOOSE n \in 0 .. k - 1 : Is(n)
    BY DEF PacketOf
  <1> HIDE DEF Is
  <1>4. PacketOf(f) \in 0 .. k - 1
    BY <1>2, <1>3
  <1> QED  BY <1>1, <1>4

\* The first entry of a map leads to a number, and the others stay.
LEMMA EntryFacts ==
    ASSUME NEW map, ToNumbers(map), DOMAIN map \subseteq Nat
    PROVE  /\ To(map) \in Int
           /\ ToNumbers(EraseFirst(map))
           /\ DOMAIN EraseFirst(map) \subseteq DOMAIN map
  <1>1. To(map) \in Int
    <2>1. CASE map = <<>>
      BY <2>1 DEF To
    <2>2. CASE map # <<>>
      <3>1. DOMAIN map # {}
        BY <2>2 DEF ToNumbers, IsMap
      <3>2. \E m \in DOMAIN map : \A n \in DOMAIN map : m <= n
        BY <3>1, LeastNumber
      <3>3. From(map) \in DOMAIN map
        BY <2>2, <3>2 DEF From, Min
      <3> QED  BY <2>2, <3>3 DEF To, ToNumbers
    <2> QED  BY <2>1, <2>2
  <1>2. CASE map = <<>>
    BY <1>1, <1>2 DEF EraseFirst
  <1>3. CASE map # <<>>
    <2> DEFINE D == DOMAIN map \ {From(map)}
    <2>1. EraseFirst(map) = [f \in D |-> map[f]]
      BY <1>3 DEF EraseFirst
    <2>2. D \subseteq DOMAIN map
      OBVIOUS
    <2> HIDE DEF D
    <2> QED  BY <1>1, <2>1, <2>2 DEF ToNumbers, IsMap
  <1> QED  BY <1>2, <1>3

\* What setDynamicCommands notes keeps the maps to numbers.
LEMMA NotedTyped ==
    ASSUME SeekTypeInv, NEW map \in {mIDRSeek, mRandomSeek}, NEW id
    PROVE  /\ ToNumbers(Noted(map, id))
           /\ DOMAIN Noted(map, id) \subseteq
                  {c.fnum : c \in commands \ (mDynamicCommands \ Due)}
  <1> DEFINE new == {c \in Due : c.id = id}
             S == DOMAIN map \cup {c.fnum : c \in new}
             first == CHOOSE c \in new : TRUE
  <1>1. /\ Due \subseteq mDynamicCommands
        /\ mDynamicCommands \subseteq commands
        /\ commands \in CommandLists /\ ToNumbers(map)
        /\ DOMAIN map \subseteq {c.fnum : c \in commands \ mDynamicCommands}
    BY DEF Due, SeekTypeInv, TypeOK, MapsTyped
  <1>2. Noted(map, id) =
            [f \in S |-> IF \E c \in new : c.fnum = f THEN first.to
                         ELSE map[f]]
    BY DEF Noted
  <1>3. new # {} => first \in new
    OBVIOUS
  <1>4. \A c \in new : c.to \in Int
    BY <1>1, SeekAssumption
  <1>5. S \subseteq {c.fnum : c \in commands \ (mDynamicCommands \ Due)}
    BY <1>1
  <1>6. \A f \in S : (\E c \in new : c.fnum = f) \/ f \in DOMAIN map
    OBVIOUS
  <1> HIDE DEF first, new, S
  <1>7. \A f \in S : Noted(map, id)[f] \in Int
    BY <1>1, <1>2, <1>3, <1>4, <1>6 DEF ToNumbers
  <1>8. IsMap(Noted(map, id)) /\ DOMAIN Noted(map, id) = S
    BY <1>2 DEF IsMap
  <1> QED  BY <1>5, <1>7, <1>8 DEF ToNumbers

LEMMA SeekTypeInit == SeekInit => SeekTypeInv
  <1> SUFFICES ASSUME SeekInit PROVE SeekTypeInv
    OBVIOUS
  <1> USE DEF SeekInit, ParserInit
  <1>1. /\ stream \in Streams /\ Len(stream.packets) \in Nat
        /\ stream.packets = <<>> \/ Len(stream.packets) > 0
        /\ MaxRetry \in Nat
    BY StreamFacts, SeekAssumption
  <1>2. /\ FirstRefused(stream) \in 0 .. Len(stream.packets)
        /\ \A i \in 1 .. FirstRefused(stream) : FrameAt(i)
    BY <1>1, RefusedFirst
  <1>3. ParserTypeOK /\ FoundFrames
    <2> DEFINE found == IF stream.raw THEN FirstRefused(stream) ELSE 0
    <2>1. found \in 0 .. Len(stream.packets)
          /\ \A i \in 1 .. found : FrameAt(i)
      BY <1>1, <1>2
    <2>2. mPktPosition = 0 .. found - 1 /\ mTotalFrameCnt = found
      OBVIOUS
    <2>3. position \in 0 .. Len(stream.packets)
      BY <1>1
    <2> HIDE DEF found
    <2>4. mPktPosition \subseteq 0 .. Len(stream.packets) - 1
      BY <1>1, <2>1, <2>2
    <2>5. FoundFrames
      BY <1>1, <2>1, <2>2 DEF FoundFrames
    <2> QED  BY <1>1, <2>1, <2>2, <2>3, <2>4, <2>5 DEF ParserTypeOK
  <1>4. MapsTyped
    BY EmptyMap DEF MapsTyped, ToNumbers
  <1>5. onTrack \in BOOLEAN
    OBVIOUS
  <1>6. TypeOK
    <2>1. \A map \in {mIDRSeek, mRandomSeek} :
              DOMAIN map
                  \subseteq {c.fnum : c \in commands \ mDynamicCommands}
      BY EmptyMap
    <2>2. frameCounter \in Int /\ retry_count \in 0 .. MaxRetry
      BY <1>1
    <2> QED  BY <1>3, <1>5, <2>1, <2>2 DEF TypeOK
  <1> QED  BY <1>3, <1>4, <1>6 DEF SeekTypeInv

\* The place a seek leaves the parser at.
LEMMA ParserMoves ==
    ASSUME ParserTypeOK, FoundFrames, NEW f,
           SeekTo(f) \/ SeekAstray(f) \/ SeekFails
    PROVE  /\ position' \in 0 .. Len(stream.packets)
           /\ UNCHANGED <<stream, mPktPosition, mTotalFrameCnt>>
  BY PacketInStream DEF SeekTo, SeekAstray, SeekFails, parserVars, ParserTypeOK

LEMMA SeekTypeStep == SeekTypeInv /\ [SeekNext]_vars => SeekTypeInv'
  <1> SUFFICES ASSUME SeekTypeInv, [SeekNext]_vars PROVE SeekTypeInv'
    OBVIOUS
  <1> DEFINE Noticed(D) == {c.fnum : c \in commands \ D}
  <1>1. /\ TypeOK /\ ParserTypeOK /\ FoundFrames /\ MapsTyped
        /\ commands \in CommandLists
    BY DEF SeekTypeInv, TypeOK
  <1>2. /\ DOMAIN mIDRSeek \subseteq Noticed(mDynamicCommands)
        /\ DOMAIN mRandomSeek \subseteq Noticed(mDynamicCommands)
        /\ Noticed(mDynamicCommands) \subseteq Nat
    BY <1>1, SeekAssumption DEF TypeOK
  <1> DEFINE E(map) == EraseFirst(map)
  <1>3. /\ To(mIDRSeek) \in Int
        /\ ToNumbers(EraseFirst(mIDRSeek))
        /\ DOMAIN EraseFirst(mIDRSeek) \subseteq DOMAIN mIDRSeek
        /\ ToNumbers(EraseFirst(mRandomSeek))
        /\ DOMAIN EraseFirst(mRandomSeek) \subseteq DOMAIN mRandomSeek
    BY <1>1, <1>2, EntryFacts DEF MapsTyped
  <1>4. ASSUME UNCHANGED <<stream, mPktPosition, mTotalFrameCnt, commands,
                           mDynamicCommands>>,
               position' \in 0 .. Len(stream.packets),
               pc' \in {"turn", "random", "idr", "feed", "returned",
                        "failed", "terminated"},
               frameCounter' \in Int, retry_count' \in 0 .. MaxRetry,
               mIDRSeek' \in {mIDRSeek, EraseFirst(mIDRSeek)},
               mRandomSeek' \in {mRandomSeek, EraseFirst(mRandomSeek)},
               firstReconfig' \in BOOLEAN,
               drain' \in {"none", "sent", "last", "lost"},
               onTrack' \in BOOLEAN, unasked' \in BOOLEAN
        PROVE  SeekTypeInv'
    <2>1. ParserTypeOK' /\ FoundFrames'
      BY <1>1, <1>4 DEF ParserTypeOK, FoundFrames, FrameAt
    <2>2. MapsTyped'
      BY <1>1, <1>3, <1>4 DEF MapsTyped
    <2>3. \A map \in {mIDRSeek', mRandomSeek'} :
              DOMAIN map \subseteq Noticed(mDynamicCommands)'
      BY <1>2, <1>3, <1>4
    <2>4. TypeOK'
      BY <1>1, <1>4, <2>1, <2>3 DEF TypeOK
    <2> QED  BY <1>1, <1>4, <2>1, <2>2, <2>4 DEF SeekTypeInv
  <1>5. CASE SetDynamicCommands
    <2>1. /\ UNCHANGED <<frameCounter, retry_count, commands, firstReconfig,
                         drain, onTrack, unasked, parserVars>>
          /\ mIDRSeek' = Noted(mIDRSeek, "IDRSeek")
          /\ mRandomSeek' = Noted(mRandomSeek, "RandomSeek")
          /\ mDynamicCommands' = mDynamicCommands \ Due
          /\ pc' \in {"random", "terminated"}
      BY <1>5 DEF SetDynamicCommands
    <2>2. /\ ToNumbers(mIDRSeek') /\ ToNumbers(mRandomSeek')
          /\ DOMAIN mIDRSeek' \subseteq Noticed(mDynamicCommands)'
          /\ DOMAIN mRandomSeek' \subseteq Noticed(mDynamicCommands)'
      BY <2>1, NotedTyped
    <2>3. ParserTypeOK' /\ FoundFrames'
      BY <1>1, <2>1 DEF ParserTypeOK, FoundFrames, FrameAt, parserVars
    <2>4. TypeOK'
      BY <1>1, <2>1, <2>2, <2>3 DEF TypeOK
    <2> QED  BY <1>1, <2>1, <2>2, <2>3, <2>4 DEF SeekTypeInv, MapsTyped
  <1> USE DEF TypeOK, ParserTypeOK
  <1>6. CASE ErrorReceived
    BY <1>1, <1>4, <1>6 DEF ErrorReceived, loopVars, parserVars
  <1>7. ASSUME NEW at, NEW from, NEW next \in {"idr", "feed"},
               NotNow(at, from, next) \/ TooEarly(at, from)
        PROVE  SeekTypeInv'
    BY <1>1, <1>4, <1>7 DEF NotNow, TooEarly, loopVars, parserVars
  <1>8. CASE RandomSeekRestartFails
    BY <1>1, <1>4, <1>8 DEF RandomSeekRestartFails, Seek, InputRestarted,
       parserVars
  <1>9. CASE RandomSeekOfNoFrames
    <2>1. /\ UNCHANGED <<retry_count, commands, mDynamicCommands,
                         firstReconfig, mIDRSeek>>
          /\ pc' \in {"terminated", "idr"}
          /\ unasked' \in BOOLEAN /\ onTrack' \in BOOLEAN
          /\ drain' \in {"none", "sent", "last", "lost"}
          /\ mRandomSeek' \in {mRandomSeek, EraseFirst(mRandomSeek)}
      BY <1>1, <1>9 DEF RandomSeekOfNoFrames, Seek, InputRestarted
    <2>2. /\ position' \in 0 .. Len(stream.packets)
          /\ UNCHANGED <<stream, mPktPosition, mTotalFrameCnt>>
          /\ frameCounter' \in Int
      <3>1. CASE UNCHANGED <<frameCounter, parserVars>>
        BY <1>1, <3>1 DEF parserVars
      <3>2. CASE SeekFails /\ frameCounter' = -1
        BY <1>1, <3>2 DEF SeekFails, parserVars
      <3>3. ASSUME NEW f \in 0 .. MaxFrameCnt + 1, SeekTo(f) \/ SeekAstray(f),
                   frameCounter' = f
            PROVE  /\ position' \in 0 .. Len(stream.packets)
                   /\ UNCHANGED <<stream, mPktPosition, mTotalFrameCnt>>
                   /\ frameCounter' \in Int
        BY <1>1, <3>3, ParserMoves, SeekAssumption
      <3> QED  BY <1>9, <3>1, <3>2, <3>3 DEF RandomSeekOfNoFrames
    <2> QED  BY <1>1, <1>4, <2>1, <2>2
  <1>10. CASE RandomSeek
    <2>1. /\ UNCHANGED <<retry_count, commands, mDynamicCommands,
                         firstReconfig, mIDRSeek>>
          /\ pc' = "idr"
          /\ unasked' \in BOOLEAN /\ onTrack' \in BOOLEAN
          /\ drain' \in {"none", "sent", "last", "lost"}
          /\ mRandomSeek' = EraseFirst(mRandomSeek)
      BY <1>1, <1>10 DEF RandomSeek, Seek, InputRestarted
    <2>2. /\ position' \in 0 .. Len(stream.packets)
          /\ UNCHANGED <<stream, mPktPosition, mTotalFrameCnt>>
          /\ frameCounter' \in Int
      <3>1. CASE SeekFails /\ frameCounter' = -1
        BY <1>1, <3>1 DEF SeekFails, parserVars
      <3>2. ASSUME NEW f \in 0 .. mTotalFrameCnt - 1, SeekTo(f),
                   frameCounter' = f
            PROVE  /\ position' \in 0 .. Len(stream.packets)
                   /\ UNCHANGED <<stream, mPktPosition, mTotalFrameCnt>>
                   /\ frameCounter' \in Int
        BY <1>1, <3>2, ParserMoves
      <3> QED  BY <1>10, <3>1, <3>2 DEF RandomSeek
    <2> QED  BY <1>1, <1>4, <2>1, <2>2
  <1>11. CASE IDRSeek
    <2>1. /\ UNCHANGED <<retry_count, commands, mDynamicCommands,
                         firstReconfig, mRandomSeek>>
          /\ pc' = "feed" /\ frameCounter' = To(mIDRSeek)
          /\ unasked' \in BOOLEAN /\ onTrack' \in BOOLEAN
          /\ drain' \in {"none", "sent", "last", "lost"}
          /\ mIDRSeek' = EraseFirst(mIDRSeek)
      BY <1>1, <1>11 DEF IDRSeek, Seek, InputRestarted, CounterAt
    <2>2. SeekTo(To(mIDRSeek)) \/ SeekAstray(To(mIDRSeek)) \/ SeekFails
      BY <1>11 DEF IDRSeek
    <2>3. /\ position' \in 0 .. Len(stream.packets)
          /\ UNCHANGED <<stream, mPktPosition, mTotalFrameCnt>>
      BY <1>1, <2>2, ParserMoves
    <2> QED  BY <1>1, <1>3, <1>4, <2>1, <2>3
  <1>12. CASE Draining \/ NoInput
    BY <1>1, <1>4, <1>12, SeekAssumption DEF Draining, NoInput, FeedKeeps,
       parserVars
  <1>13. CASE FeedFrame
    <2>1. position' \in 0 .. Len(stream.packets)
      <3>1. Len(stream.packets) \in Nat
        BY <1>1, StreamFacts
      <3> QED  BY <1>1, <1>13, <3>1 DEF FeedFrame, PacketRead, AtEnd
    <2> QED
      BY <1>1, <1>4, <1>13, <2>1, SeekAssumption DEF FeedFrame, PacketRead,
         FeedKeeps
  <1>14. CASE FirstReconfig \/ LastBufferDone
    BY <1>1, <1>4, <1>14 DEF FirstReconfig, LastBufferDone, parserVars
  <1>15. CASE UNCHANGED vars
    BY <1>1, <1>4, <1>15 DEF vars, seekVars, loopVars, parserVars
  <1> QED
    BY <1>5, <1>6, <1>7, <1>8, <1>9, <1>10, <1>11, <1>12, <1>13, <1>14, <1>15
    DEF SeekNext, Turn

\* Whatever the seeks do, the parser stays in the stream and frameCounter is a
\* number: the packet of every frame that can be reached exists, and the maps
\* hold only what commands that have come have put there.
THEOREM SeekTypes == MediaSpec => []TypeOK
  <1>1. MediaInit => SeekTypeInv
    BY SeekTypeInit DEF MediaInit
  <1>2. SeekTypeInv /\ [MediaNext]_mediaVars => SeekTypeInv'
    <2> SUFFICES ASSUME SeekTypeInv, [MediaNext]_mediaVars
                 PROVE  SeekTypeInv'
      OBVIOUS
    <2>1. [SeekNext]_vars
      BY DEF MediaNext, Decoding, Encoding, mediaVars
    <2> QED  BY <2>1, SeekTypeStep
  <1>3. SeekTypeInv => TypeOK
    BY DEF SeekTypeInv
  <1> QED  BY <1>1, <1>2, <1>3, PTL DEF MediaSpec

-----------------------------------------------------------------------------
(***************************************************************************)
(* Static controls.                                                        *)
(***************************************************************************)

\* What the recursive function in Without does: one step for each control.
TakesOut(left, list, ids) ==
    /\ left[0] = <<>>
    /\ \A n \in 1 .. Len(list) :
           left[n] = IF list[n].id \in ids THEN left[n - 1]
                     ELSE Append(left[n - 1], list[n])

\* The loop of Without has a value after every control.
LEMMA WithoutLoop ==
    ASSUME NEW S, NEW list \in Seq(S), NEW ids
    PROVE  \E left \in UpTo(Len(list), Seq(S)) :
               /\ TakesOut(left, list, ids)
               /\ Without(list, ids) = left[Len(list)]
  <1> DEFINE k == Len(list)
             Next1(n, l) ==
                 IF list[n].id \in ids THEN l ELSE Append(l, list[n])
             step == [n \in 1 .. k |-> [l \in Seq(S) |-> Next1(n, l)]]
             Loop(g) == g = [i \in 0 .. k |->
                                IF i = 0 THEN <<>> ELSE Next1(i, g[i - 1])]
             left == CHOOSE g : Loop(g)
  <1>1. k \in Nat /\ <<>> \in Seq(S) /\ \A n \in 1 .. k : list[n] \in S
    OBVIOUS
  <1>2. \A n \in 1 .. k : \A l \in Seq(S) : Next1(n, l) \in Seq(S)
    BY <1>1
  <1>3. /\ \A n \in 1 .. k : \A l \in Seq(S) : step[n][l] \in Seq(S)
        /\ \A n \in 1 .. k : \A l \in Seq(S) : step[n][l] = Next1(n, l)
    <2> HIDE DEF k, Next1
    <2> QED  BY <1>1, <1>2
  <1>4. PICK f \in UpTo(k, Seq(S)) : Recursive(f, k, <<>>, step)
    <2> HIDE DEF step, k
    <2>1. Stays(Seq(S), k, step)
      BY <1>3 DEF Stays
    <2> QED  BY <1>1, <2>1, RecursionTo
  <1>5. /\ f \in [0 .. k -> Seq(S)] /\ f[0] = <<>>
        /\ \A n \in 1 .. k : f[n] = Next1(n, f[n - 1])
    <2> HIDE DEF k, step, Next1
    <2>1. \A n \in 1 .. k : n - 1 \in 0 .. k
      BY <1>1
    <2> QED  BY <1>3, <1>4, <2>1 DEF UpTo, Recursive
  <1> HIDE DEF Next1, k
  <1>6. Loop(f)
    BY <1>1, <1>5
  <1> HIDE DEF Loop, step
  <1>7. Loop(left)
    BY <1>6
  <1> HIDE DEF left
  <1>8. /\ left[0] = <<>> /\ left = [i \in 0 .. k |-> left[i]]
        /\ \A n \in 1 .. k : left[n] = Next1(n, left[n - 1])
    BY <1>1, <1>7 DEF Loop
  <1>9. 0 .. k \subseteq {n \in 0 .. k : left[n] \in Seq(S)}
    <2> DEFINE typed == {n \in 0 .. k : left[n] \in Seq(S)}
    <2>1. 0 \in typed
      <3>1. left[0] \in Seq(S) /\ 0 \in 0 .. k
        BY <1>1, <1>8
      <3> QED  BY <3>1
    <2>2. ASSUME NEW n \in 0 .. k - 1, n \in typed PROVE n + 1 \in typed
      <3>1. n + 1 \in 1 .. k /\ (n + 1) - 1 = n /\ n + 1 \in 0 .. k
        BY <1>1
      <3>2. left[n + 1] = Next1(n + 1, left[n])
        BY <1>8, <3>1
      <3> QED  BY <1>2, <2>2, <3>1, <3>2
    <2> HIDE DEF typed
    <2>3. 0 .. k \subseteq typed
      BY <1>1, <2>1, <2>2, IntervalInduction
    <2> QED  BY <2>3 DEF typed
  <1>10. left \in [0 .. k -> Seq(S)]
    BY <1>8, <1>9
  <1>11. Without(list, ids) = left[k]
    BY DEF Without, left, Loop, Next1, k
  <1>12. TakesOut(left, list, ids)
    BY <1>8 DEF TakesOut, Next1, k
  <1> QED  BY <1>10, <1>11, <1>12 DEF UpTo, k

\* Of no controls, none are left.
LEMMA WithoutEmpty ==
    ASSUME NEW ids
    PROVE  Without(<<>>, ids) = <<>>
  <1> DEFINE none == <<>>
  <1>1. none \in Seq({}) /\ Len(none) = 0
    OBVIOUS
  <1> HIDE DEF none
  <1>2. PICK left \in UpTo(Len(none), Seq({})) :
            TakesOut(left, none, ids) /\ Without(none, ids) = left[Len(none)]
    BY <1>1, WithoutLoop
  <1> QED  BY <1>1, <1>2 DEF none, TakesOut

\* What is left of a list with one more control.
LEMMA WithoutAppend ==
    ASSUME NEW S, NEW list \in Seq(S), NEW x \in S, NEW ids
    PROVE  /\ Without(list, ids) \in Seq(S)
           /\ Without(Append(list, x), ids) =
                  IF x.id \in ids THEN Without(list, ids)
                  ELSE Append(Without(list, ids), x)
  <1> DEFINE k == Len(list)
             more == Append(list, x)
  <1>0. k = Len(list)
    OBVIOUS
  <1>1. /\ k \in Nat /\ more \in Seq(S) /\ Len(more) = k + 1
        /\ \A n \in 1 .. k : more[n] = list[n]
        /\ more[k + 1] = x
    OBVIOUS
  <1>2. PICK f \in UpTo(Len(list), Seq(S)) :
            TakesOut(f, list, ids) /\ Without(list, ids) = f[Len(list)]
    BY WithoutLoop
  <1>3. PICK g \in UpTo(Len(more), Seq(S)) :
            TakesOut(g, more, ids) /\ Without(more, ids) = g[Len(more)]
    <2> HIDE DEF more
    <2> QED  BY <1>1, WithoutLoop
  <1> HIDE DEF more, k
  <1>4. 0 .. k \subseteq {n \in 0 .. k : f[n] = g[n]}
    <2> DEFINE same == {n \in 0 .. k : f[n] = g[n]}
    <2>1. 0 \in same
      BY <1>1, <1>2, <1>3 DEF TakesOut
    <2>2. ASSUME NEW n \in 0 .. k - 1, n \in same PROVE n + 1 \in same
      <3>1. n + 1 \in 1 .. k /\ n + 1 \in 1 .. k + 1 /\ (n + 1) - 1 = n
            /\ n + 1 \in 0 .. k
        BY <1>1
      <3>2. more[n + 1] = list[n + 1]
        BY <1>1, <3>1
      <3>3. f[n + 1] = IF list[n + 1].id \in ids THEN f[n]
                       ELSE Append(f[n], list[n + 1])
        BY <1>0, <1>2, <3>1 DEF TakesOut
      <3>4. g[n + 1] = IF more[n + 1].id \in ids THEN g[n]
                       ELSE Append(g[n], more[n + 1])
        BY <1>1, <1>3, <3>1 DEF TakesOut
      <3> QED  BY <2>2, <3>1, <3>2, <3>3, <3>4
    <2> HIDE DEF same
    <2>3. 0 .. k \subseteq same
      BY <1>1, <2>1, <2>2, IntervalInduction
    <2> QED  BY <2>3 DEF same
  <1>5. f[k] = g[k] /\ f[k] \in Seq(S) /\ k + 1 \in 1 .. k + 1
        /\ (k + 1) - 1 = k
    BY <1>0, <1>1, <1>2, <1>4 DEF UpTo
  <1>6. g[k + 1] = IF x.id \in ids THEN g[k] ELSE Append(g[k], x)
    BY <1>1, <1>3, <1>5 DEF TakesOut
  <1> QED  BY <1>0, <1>1, <1>2, <1>3, <1>5, <1>6 DEF more

\* What is left is of the same controls; without an id to take out, all is.
LEMMA WithoutType ==
    ASSUME NEW S, NEW list \in Seq(S), NEW ids
    PROVE  Without(list, ids) \in Seq(S)
  <1>1. PICK left \in UpTo(Len(list), Seq(S)) :
            Without(list, ids) = left[Len(list)]
    BY WithoutLoop
  <1> QED  BY <1>1 DEF UpTo

\* Nothing is taken out for no names.
LEMMA WithoutNone ==
    ASSUME NEW S, NEW list \in Seq(S)
    PROVE  Without(list, {}) = list
  <1> DEFINE Q == {l \in Seq(S) : Without(l, {}) = l}
  <1>1. <<>> \in Q
    BY WithoutEmpty
  <1>2. ASSUME NEW l \in Seq(S), l \in Q, NEW x \in S
        PROVE  Append(l, x) \in Q
    <2>1. Without(Append(l, x), {}) = Append(Without(l, {}), x)
      BY WithoutAppend
    <2> QED  BY <1>2, <2>1
  <1> HIDE DEF Q
  <1>3. Seq(S) \subseteq Q
    BY <1>1, <1>2, AppendInduction
  <1> QED  BY <1>3 DEF Q

\* Taking out some ids and then others is taking out both.
LEMMA WithoutBoth ==
    ASSUME NEW S, NEW list \in Seq(S), NEW A, NEW B
    PROVE  Without(Without(list, A), B) = Without(Without(list, B), A)
  <1> DEFINE Same(l) == Without(Without(l, A), B) = Without(Without(l, B), A)
             Q == {l \in Seq(S) : Same(l)}
  <1>1. <<>> \in Q
    BY WithoutEmpty
  <1>2. ASSUME NEW l \in Seq(S), l \in Q, NEW x \in S
        PROVE  Append(l, x) \in Q
    <2> DEFINE a == Without(l, A)
               b == Without(l, B)
    <2>1. /\ a \in Seq(S) /\ b \in Seq(S) /\ Append(l, x) \in Seq(S)
          /\ Without(a, B) = Without(b, A)
      BY <1>2, WithoutAppend
    <2>2. Without(Append(l, x), A) = IF x.id \in A THEN a ELSE Append(a, x)
      BY WithoutAppend
    <2>3. Without(Append(l, x), B) = IF x.id \in B THEN b ELSE Append(b, x)
      BY WithoutAppend
    <2> HIDE DEF a, b
    <2>4. Without(Append(a, x), B) =
              IF x.id \in B THEN Without(a, B) ELSE Append(Without(a, B), x)
      BY <2>1, WithoutAppend
    <2>5. Without(Append(b, x), A) =
              IF x.id \in A THEN Without(b, A) ELSE Append(Without(b, A), x)
      BY <2>1, WithoutAppend
    <2>6. Same(Append(l, x))
      BY <2>1, <2>2, <2>3, <2>4, <2>5
    <2> HIDE DEF Same
    <2> QED  BY <2>1, <2>6
  <1> HIDE DEF Q
  <1>3. Seq(S) \subseteq Q
    BY <1>1, <1>2, AppendInduction
  <1> QED  BY <1>3 DEF Q

-----------------------------------------------------------------------------
\* The mode for skipped frames stands behind FrameRC: in a list, and in the
\* beginning of one, whose last control may have lost what goes with it.
Begun(list) ==
    \A i \in DOMAIN list :
        /\ list[i].id = "FRAME_SKIP_MODE" =>
               /\ list[i] = FrameSkipDisabled
               /\ i > 1 /\ PerhapsFrameRC(list[i - 1])
        /\ FrameRCOn(list[i]) /\ i < Len(list)
               => list[i + 1] = FrameSkipDisabled

Ends(list, c) == list # <<>> /\ list[Len(list)] = c

Paired(list) == Begun(list) /\ \A c : Ends(list, c) => ~FrameRCOn(c)

\* That the mode comes after a FrameRC and nowhere else, as one condition.
LEMMA PairedFacts ==
    ASSUME NEW S, NEW list \in Seq(S)
    PROVE  Paired(list) <=>
               \A i \in DOMAIN list :
                   /\ list[i].id = "FRAME_SKIP_MODE" =>
                          /\ list[i] = FrameSkipDisabled
                          /\ i > 1 /\ PerhapsFrameRC(list[i - 1])
                   /\ FrameRCOn(list[i]) =>
                          i < Len(list) /\ list[i + 1] = FrameSkipDisabled
  BY DEF Paired, Begun, Ends

\* One more control.
LEMMA BegunAppend ==
    ASSUME NEW S, NEW list \in Seq(S), NEW x \in S
    PROVE  /\ Begun(Append(list, x)) <=>
                  /\ Begun(list)
                  /\ x.id = "FRAME_SKIP_MODE" =>
                         /\ x = FrameSkipDisabled
                         /\ \E c : Ends(list, c) /\ PerhapsFrameRC(c)
                  /\ \A c : Ends(list, c) /\ FrameRCOn(c)
                                => x = FrameSkipDisabled
           /\ \A c : Ends(Append(list, x), c) <=> c = x
  <1> DEFINE more == Append(list, x)
             k == Len(list)
  <1>1. /\ k \in Nat /\ Len(more) = k + 1 /\ DOMAIN list = 1 .. k
        /\ DOMAIN more = 1 .. k + 1 /\ more[k + 1] = x
        /\ \A i \in 1 .. k : more[i] = list[i]
        /\ list # <<>> <=> k > 0
    OBVIOUS
  <1> HIDE DEF more, k
  <1>2. more # <<>>
    BY <1>1
  <1>3. (\E c : Ends(list, c) /\ PerhapsFrameRC(c))
            <=> k > 0 /\ PerhapsFrameRC(list[k])
    BY DEF Ends, k
  <1>4. (\A c : Ends(list, c) /\ FrameRCOn(c) => x = FrameSkipDisabled)
            <=> (k > 0 /\ FrameRCOn(list[k]) => x = FrameSkipDisabled)
    BY DEF Ends, k
  <1>5. Begun(more) <=>
            /\ Begun(list)
            /\ x.id = "FRAME_SKIP_MODE" =>
                   x = FrameSkipDisabled /\ k > 0 /\ PerhapsFrameRC(list[k])
            /\ k > 0 /\ FrameRCOn(list[k]) => x = FrameSkipDisabled
    <2> DEFINE Here(l, i) ==
                   l[i].id = "FRAME_SKIP_MODE" =>
                       /\ l[i] = FrameSkipDisabled
                       /\ i > 1 /\ PerhapsFrameRC(l[i - 1])
               Behind(l, i) ==
                   FrameRCOn(l[i]) => l[i + 1] = FrameSkipDisabled
    <2>1. Begun(list) <=> /\ \A i \in 1 .. k : Here(list, i)
                          /\ \A i \in 1 .. k - 1 : Behind(list, i)
      <3>1. Len(list) = k /\ \A i : i \in 1 .. k - 1 <=> i \in 1 .. k /\ i < k
        BY <1>1 DEF k
      <3>2. Begun(list) <=>
                \A i \in 1 .. k : /\ Here(list, i)
                                  /\ i < k => Behind(list, i)
        BY <1>1, <3>1 DEF Begun
      <3> HIDE DEF Here, Behind
      <3> QED  BY <3>1, <3>2
    <2>2. Begun(more) <=> /\ \A i \in 1 .. k + 1 : Here(more, i)
                          /\ \A i \in 1 .. k : Behind(more, i)
      <3>1. /\ Len(more) = k + 1
            /\ \A i : i \in 1 .. k <=> i \in 1 .. k + 1 /\ i < k + 1
        BY <1>1 DEF k
      <3>2. Begun(more) <=>
                \A i \in 1 .. k + 1 : /\ Here(more, i)
                                      /\ i < k + 1 => Behind(more, i)
        BY <1>1, <3>1 DEF Begun
      <3> HIDE DEF Here, Behind
      <3> QED  BY <3>1, <3>2
    <2>3. \A i \in 1 .. k : Here(more, i) <=> Here(list, i)
      <3> TAKE i \in 1 .. k
      <3>1. more[i] = list[i] /\ (i > 1 => more[i - 1] = list[i - 1])
        BY <1>1
      <3> QED  BY <3>1
    <2>4. \A i \in 1 .. k - 1 : Behind(more, i) <=> Behind(list, i)
      BY <1>1
    <2>5. Here(more, k + 1) <=>
              (x.id = "FRAME_SKIP_MODE" =>
                   x = FrameSkipDisabled /\ k > 0 /\ PerhapsFrameRC(list[k]))
      <3>1. (k + 1) - 1 = k /\ (k + 1 > 1 <=> k > 0)
            /\ (k > 0 => more[k] = list[k])
        BY <1>1
      <3> QED  BY <1>1, <3>1
    <2>6. k > 0 => (Behind(more, k) <=>
                        (FrameRCOn(list[k]) => x = FrameSkipDisabled))
      BY <1>1
    <2> HIDE DEF Here, Behind
    <2>7. (\A i \in 1 .. k + 1 : Here(more, i)) <=>
              (\A i \in 1 .. k : Here(more, i)) /\ Here(more, k + 1)
      BY <1>1
    <2>8. (\A i \in 1 .. k : Behind(more, i)) <=>
              /\ \A i \in 1 .. k - 1 : Behind(more, i)
              /\ k > 0 => Behind(more, k)
      BY <1>1
    <2> QED  BY <2>1, <2>2, <2>3, <2>4, <2>5, <2>6, <2>7, <2>8
  <1>6. \A c : Ends(more, c) <=> c = x
    BY <1>1, <1>2 DEF Ends
  <1> QED  BY <1>3, <1>4, <1>5, <1>6 DEF more

\* Level and Tier are neither, so the list stays paired without them.
LEMMA WithoutPaired ==
    ASSUME NEW S, NEW list \in Seq(S), NEW ids,
           ids \subseteq {"Level", "Tier"}, Paired(list)
    PROVE  Paired(Without(list, ids))
  <1> DEFINE Good(l) ==
                 LET left == Without(l, ids) IN
                 Begun(l) =>
                     /\ Begun(left)
                     /\ \A c : Ends(l, c) /\ PerhapsFrameRC(c)
                                   => Ends(left, c)
                     /\ \A c : Ends(left, c) /\ FrameRCOn(c) => Ends(l, c)
             Q == {l \in Seq(S) : Good(l)}
  <1>1. <<>> \in Q
    <2>1. Good(<<>>)
      BY WithoutEmpty DEF Begun, Ends
    <2> HIDE DEF Good
    <2> QED  BY <2>1
  <1>2. ASSUME NEW l \in Seq(S), l \in Q, NEW x \in S
        PROVE  Append(l, x) \in Q
    <2> DEFINE left == Without(l, ids)
               more == Append(l, x)
               moreLeft == Without(more, ids)
    <2>1. /\ left \in Seq(S) /\ more \in Seq(S)
          /\ moreLeft = IF x.id \in ids THEN left ELSE Append(left, x)
      BY WithoutAppend
    <2> HIDE DEF moreLeft
    <2>2. Begun(more) <=>
                  /\ Begun(l)
                  /\ x.id = "FRAME_SKIP_MODE" =>
                         /\ x = FrameSkipDisabled
                         /\ \E c : Ends(l, c) /\ PerhapsFrameRC(c)
                  /\ \A c : Ends(l, c) /\ FrameRCOn(c)
                                => x = FrameSkipDisabled
      BY BegunAppend
    <2>3. \A c : Ends(more, c) <=> c = x
      BY BegunAppend
    <2>4. Good(l)
      BY <1>2
    <2> HIDE DEF left, more
    <2>5. /\ Begun(Append(left, x)) <=>
                  /\ Begun(left)
                  /\ x.id = "FRAME_SKIP_MODE" =>
                         /\ x = FrameSkipDisabled
                         /\ \E c : Ends(left, c) /\ PerhapsFrameRC(c)
                  /\ \A c : Ends(left, c) /\ FrameRCOn(c)
                                => x = FrameSkipDisabled
          /\ \A c : Ends(Append(left, x), c) <=> c = x
      BY <2>1, BegunAppend
    <2>6. ASSUME Begun(more)
          PROVE  /\ Begun(moreLeft)
                 /\ \A c : Ends(more, c) /\ PerhapsFrameRC(c)
                               => Ends(moreLeft, c)
                 /\ \A c : Ends(moreLeft, c) /\ FrameRCOn(c) => Ends(more, c)
      <3>1. /\ Begun(l) /\ Begun(left)
            /\ \A c : Ends(l, c) /\ PerhapsFrameRC(c) => Ends(left, c)
            /\ \A c : Ends(left, c) /\ FrameRCOn(c) => Ends(l, c)
        BY <2>2, <2>4, <2>6 DEF left
      <3>2. CASE x.id \in ids
        <4>1. x.id # "FRAME_SKIP_MODE" /\ ~PerhapsFrameRC(x)
              /\ x # FrameSkipDisabled
          <5>1. x.id = "Level" \/ x.id = "Tier"
            BY <3>2
          <5>2. FrameSkipDisabled.id = "FRAME_SKIP_MODE"
            BY DEF FrameSkipDisabled
          <5> QED  BY <5>1, <5>2 DEF PerhapsFrameRC
        <4>2. moreLeft = left
          BY <2>1, <3>2
        <4> QED  BY <2>2, <2>3, <2>6, <3>1, <4>1, <4>2
      <3>3. CASE x.id \notin ids
        <4>1. moreLeft = Append(left, x)
          BY <2>1, <3>3
        <4> QED  BY <2>2, <2>3, <2>5, <2>6, <3>1, <4>1
      <3> QED  BY <3>2, <3>3
    <2>7. Good(more)
      BY <2>6 DEF moreLeft
    <2> HIDE DEF Good
    <2> QED  BY <2>1, <2>7 DEF more
  <1> HIDE DEF Q
  <1>3. Seq(S) \subseteq Q
    BY <1>1, <1>2, AppendInduction
  <1>4. Good(list)
    BY <1>3 DEF Q
  <1> QED  BY <1>4 DEF Paired
-----------------------------------------------------------------------------
\* The controls the test case asks for, as populateStaticConfigs adds them.
Asked == [i \in DOMAIN staticControls.controls |->
              fillCfgCtrls(staticControls.controls[i])]
Entries == {Asked[i] : i \in DOMAIN Asked} \cup {FrameSkipDisabled}

SkipMode == {"FRAME_SKIP_MODE"}

\* What StaticsInOrder rests on: without the mode for skipped frames the list
\* being populated is the beginning of what the test case asks for, and
\* eventConfig is the rest; afterwards only Level or Tier may have gone.
Populating ==
    /\ controlsSet = <<>>
    /\ Paired(mStaticControls)
    /\ \E n \in 0 .. Len(Asked) :
           /\ eventConfig = SubSeq(staticControls.controls, n + 1, Len(Asked))
           /\ Without(mStaticControls, SkipMode) = SubSeq(Asked, 1, n)

Populated ==
    LET all == controlsSet \o mStaticControls IN
    /\ Paired(all)
    /\ \E lost \in SUBSET ({"Level", "Tier"} \ known) :
           Without(all, SkipMode) = Without(Asked, lost)

StaticInv ==
    /\ staticControls \in StaticControlLists
    /\ setup \in {"populate", "set", "done"}
    /\ controlsSet \in Seq(Entries)
    /\ mStaticControls \in Seq(Entries)
    /\ setup = "populate" => Populating
    /\ setup # "populate" => Populated

\* What the test case asks for is a sequence of controls.
LEMMA AskedFacts ==
    ASSUME staticControls \in StaticControlLists
    PROVE  /\ Len(staticControls.controls) \in Nat
           /\ DOMAIN staticControls.controls
                  = 1 .. Len(staticControls.controls)
           /\ Asked \in Seq(Entries)
           /\ Len(Asked) = Len(staticControls.controls)
           /\ \A i \in 1 .. Len(Asked) :
                  /\ Asked[i] = fillCfgCtrls(staticControls.controls[i])
                  /\ Asked[i] \in Entries
                  /\ Asked[i].id # "FRAME_SKIP_MODE"
  <1> DEFINE controls == staticControls.controls
  <1>1. /\ Len(controls) \in Nat /\ DOMAIN controls = 1 .. Len(controls)
        /\ \A i \in DOMAIN controls :
               controls[i].listed => controls[i].id # "FRAME_SKIP_MODE"
    BY StaticAssumption
  <1>2. Asked = [i \in 1 .. Len(controls) |-> fillCfgCtrls(controls[i])]
    BY <1>1 DEF Asked
  <1> HIDE DEF controls
  <1>3. \A i \in 1 .. Len(controls) : Asked[i] \in Entries
    BY <1>2 DEF Entries
  <1>4. \A i \in 1 .. Len(controls) : Asked[i] = fillCfgCtrls(controls[i])
    BY <1>2
  <1>5. Asked \in [1 .. Len(controls) -> Entries]
    BY <1>2, <1>3
  <1>6. Asked \in Seq(Entries) /\ Len(Asked) = Len(controls)
    BY <1>1, <1>5
  <1>7. \A i \in 1 .. Len(controls) : Asked[i].id # "FRAME_SKIP_MODE"
    <2> TAKE i \in 1 .. Len(controls)
    <2>1. fillCfgCtrls(controls[i]).id
              = IF controls[i].listed THEN controls[i].id ELSE "0"
      BY DEF fillCfgCtrls
    <2> QED  BY <1>1, <1>4, <2>1
  <1> QED  BY <1>1, <1>3, <1>4, <1>6, <1>7 DEF controls

LEMMA StaticInitInv == StaticInit => StaticInv
  <1> SUFFICES ASSUME StaticInit PROVE StaticInv
    OBVIOUS
  <1> USE DEF StaticInit
  <1>1. Paired(<<>>)
    BY DEF Paired, Begun, Ends
  <1>2. Without(<<>>, SkipMode) = <<>>
    BY WithoutEmpty
  <1>3. /\ Len(Asked) \in Nat /\ SubSeq(Asked, 1, 0) = <<>>
        /\ eventConfig = SubSeq(staticControls.controls, 0 + 1, Len(Asked))
    <2> DEFINE controls == staticControls.controls
    <2>1. controls \in Seq(
              [id : STRING, listed : BOOLEAN, value : {Unlisted} \cup Nat])
          /\ Len(Asked) = Len(controls) /\ Asked \in Seq(Entries)
      BY AskedFacts, StaticAssumption
    <2> HIDE DEF controls
    <2>2. controls = SubSeq(controls, 1, Len(controls))
          /\ SubSeq(Asked, 1, 0) = <<>> /\ Len(controls) \in Nat
      BY <2>1
    <2> QED  BY <2>1, <2>2 DEF controls
  <1>4. controlsSet \in Seq(Entries) /\ mStaticControls \in Seq(Entries)
    OBVIOUS
  <1>5. Populating
    <2>1. 0 \in 0 .. Len(Asked)
      BY <1>3
    <2> QED  BY <1>1, <1>2, <1>3, <2>1 DEF Populating
  <1> QED  BY <1>4, <1>5 DEF StaticInv

\* populateStaticConfigs, a control at a time.
LEMMA PopulateStep ==
    ASSUME StaticInv, PopulateControl
    PROVE  StaticInv'
  <1> DEFINE controls == staticControls.controls
             m == mStaticControls
  <1>1. /\ UNCHANGED <<setup, staticControls, known, controlsSet>>
        /\ setup = "populate" /\ eventConfig # <<>> /\ Populating
        /\ m \in Seq(Entries)
    BY DEF PopulateControl, StaticInv
  <1>2. Asked' = Asked /\ Entries' = Entries
    BY <1>1 DEF Asked, Entries
  <1>3. PICK n \in 0 .. Len(Asked) :
            /\ eventConfig = SubSeq(controls, n + 1, Len(Asked))
            /\ Without(m, SkipMode) = SubSeq(Asked, 1, n)
    BY <1>1 DEF Populating
  <1>4. /\ Len(controls) \in Nat
        /\ DOMAIN controls = 1 .. Len(controls)
        /\ Asked \in Seq(Entries)
        /\ Len(Asked) = Len(controls)
        /\ \A i \in 1 .. Len(Asked) :
               /\ Asked[i] = fillCfgCtrls(controls[i])
               /\ Asked[i] \in Entries
               /\ Asked[i].id # "FRAME_SKIP_MODE"
    BY AskedFacts DEF StaticInv
  <1>5. controls \in Seq(
            [id : STRING, listed : BOOLEAN, value : {Unlisted} \cup Nat])
    BY StaticAssumption DEF StaticInv
  <1> DEFINE c == fillCfgCtrls(Head(eventConfig))
  <1>6. /\ n < Len(Asked)
        /\ Head(eventConfig) = controls[n + 1]
        /\ Tail(eventConfig) = SubSeq(controls, n + 2, Len(Asked))
    <2> HIDE DEF controls
    <2> QED  BY <1>1, <1>3, <1>4, <1>5
  <1>7. c = Asked[n + 1] /\ c \in Entries /\ c.id # "FRAME_SKIP_MODE"
    BY <1>4, <1>6
  <1>8. /\ FrameSkipDisabled \in Entries
        /\ FrameSkipDisabled.id = "FRAME_SKIP_MODE"
        /\ ~FrameRCOn(FrameSkipDisabled)
    BY DEF Entries, FrameSkipDisabled, FrameRCOn
  <1> DEFINE one == Append(m, c)
             both == Append(one, FrameSkipDisabled)
             alone == Head(eventConfig).id # "FrameRC" \/ c.value = 0
  <1>9. /\ m' = IF alone THEN one ELSE both
        /\ eventConfig' = Tail(eventConfig)
    <2>1. /\ m' = m \o IF alone THEN <<c>> ELSE <<c, FrameSkipDisabled>>
          /\ eventConfig' = Tail(eventConfig)
      BY DEF PopulateControl
    <2> HIDE DEF m, c, alone
    <2>2. m \o <<c>> = Append(m, c)
          /\ m \o <<c, FrameSkipDisabled>>
                 = Append(Append(m, c), FrameSkipDisabled)
      BY <1>1, <1>7, <1>8
    <2> QED  BY <2>1, <2>2 DEF m
  <1>10. alone => ~FrameRCOn(c)
    BY DEF FrameRCOn, fillCfgCtrls
  <1>11. ~alone => PerhapsFrameRC(c)
    BY DEF PerhapsFrameRC, fillCfgCtrls
  <1> HIDE DEF c, alone, m, controls
  <1>12. one \in Seq(Entries) /\ both \in Seq(Entries)
    BY <1>1, <1>7, <1>8
  <1>13. Paired(m)
    BY <1>1 DEF Populating, m
  <1>14. Begun(one) /\ \A d : Ends(one, d) <=> d = c
    <2>1. /\ Begun(one) <=>
                  /\ Begun(m)
                  /\ c.id = "FRAME_SKIP_MODE" =>
                         /\ c = FrameSkipDisabled
                         /\ \E d : Ends(m, d) /\ PerhapsFrameRC(d)
                  /\ \A d : Ends(m, d) /\ FrameRCOn(d)
                                => c = FrameSkipDisabled
          /\ \A d : Ends(one, d) <=> d = c
      BY <1>1, <1>7, BegunAppend
    <2> QED  BY <1>7, <1>13, <2>1 DEF Paired
  <1> HIDE DEF one
  <1>15. ~alone => /\ Begun(both)
                   /\ \A d : Ends(both, d) <=> d = FrameSkipDisabled
    <2>1. /\ Begun(both) <=>
                  /\ Begun(one)
                  /\ FrameSkipDisabled.id = "FRAME_SKIP_MODE" =>
                         /\ FrameSkipDisabled = FrameSkipDisabled
                         /\ \E d : Ends(one, d) /\ PerhapsFrameRC(d)
                  /\ \A d : Ends(one, d) /\ FrameRCOn(d)
                                => FrameSkipDisabled = FrameSkipDisabled
          /\ \A d : Ends(both, d) <=> d = FrameSkipDisabled
      BY <1>8, <1>12, BegunAppend
    <2> QED  BY <1>11, <1>14, <2>1
  <1> HIDE DEF both
  <1>16. Paired(m')
    BY <1>8, <1>9, <1>10, <1>14, <1>15 DEF Paired
  <1>17. Without(m', SkipMode) = Append(SubSeq(Asked, 1, n), c)
    <2>1. Without(one, SkipMode) = Append(SubSeq(Asked, 1, n), c)
      BY <1>1, <1>3, <1>7, WithoutAppend DEF SkipMode, one
    <2>2. Without(both, SkipMode) = Without(one, SkipMode)
      BY <1>8, <1>12, WithoutAppend DEF SkipMode, both
    <2> QED  BY <1>9, <2>1, <2>2
  <1>18. Append(SubSeq(Asked, 1, n), c) = SubSeq(Asked, 1, n + 1)
    BY <1>4, <1>6, <1>7
  <1>19. Populating'
    <2>1. /\ n + 1 \in 0 .. Len(Asked)
          /\ eventConfig'
                 = SubSeq(controls, (n + 1) + 1, Len(Asked))
      BY <1>4, <1>6, <1>9
    <2> QED
      BY <1>1, <1>2, <1>16, <1>17, <1>18, <2>1 DEF Populating, m, controls
  <1>20. m' \in Seq(Entries)
    BY <1>9, <1>12
  <1> QED  BY <1>1, <1>2, <1>19, <1>20 DEF StaticInv, m

\* isControlSupported, which may take Level and Tier off the list.
LEMMA QueryStep ==
    ASSUME StaticInv, QueryControls
    PROVE  StaticInv'
  <1> DEFINE m == mStaticControls
  <1>1. /\ UNCHANGED <<staticControls, known, controlsSet>>
        /\ setup = "populate" /\ setup' = "set"
        /\ eventConfig = <<>> /\ Populating
        /\ m \in Seq(Entries)
    BY DEF QueryControls, StaticInv
  <1>2. Asked' = Asked /\ Entries' = Entries
    BY <1>1 DEF Asked, Entries
  <1>3. PICK lost \in SUBSET ({"Level", "Tier"} \ known) :
            m' = m \/ m' = Without(m, lost)
    <2>1. \/ m' = m
          \/ m' = Without(m, {"Level"}) /\ "Level" \notin known
          \/ m' = Without(m, {"Tier"}) /\ "Tier" \notin known
      BY DEF QueryControls, queryControlsAVC, queryControlsHEVC
    <2> QED  BY <2>1
  <1>4. Without(m, SkipMode) = Asked
    <2>1. PICK n \in 0 .. Len(Asked) :
              /\ eventConfig
                     = SubSeq(staticControls.controls, n + 1, Len(Asked))
              /\ Without(m, SkipMode) = SubSeq(Asked, 1, n)
      BY <1>1 DEF Populating
    <2>2. /\ Asked \in Seq(Entries) /\ Len(Asked) \in Nat
          /\ Len(Asked) = Len(staticControls.controls)
      BY AskedFacts DEF StaticInv
    <2> DEFINE controls == staticControls.controls
    <2>3. controls \in Seq(
              [id : STRING, listed : BOOLEAN, value : {Unlisted} \cup Nat])
      BY StaticAssumption DEF StaticInv
    <2>4. n = Len(Asked)
      <3> SUFFICES ASSUME n < Len(Asked) PROVE FALSE
        BY <2>2
      <3>1. SubSeq(controls, n + 1, Len(controls)) = <<>>
        BY <1>1, <2>1, <2>2
      <3>0. n \in Nat /\ n < Len(controls)
        BY <2>2
      <3> HIDE DEF controls
      <3>2. Len(SubSeq(controls, n + 1, Len(controls))) = Len(controls) - n
        BY <2>3, <3>0
      <3> DEFINE rest == SubSeq(controls, n + 1, Len(controls))
      <3>3. Len(rest) = 0
        <4>1. rest = <<>>
          BY <3>1
        <4> HIDE DEF rest
        <4> QED  BY <4>1
      <3>4. Len(controls) \in Nat
        BY <2>3
      <3> QED  BY <3>0, <3>2, <3>3, <3>4
    <2> QED  BY <2>1, <2>2, <2>4
  <1>5. Asked \in Seq(Entries)
    BY AskedFacts DEF StaticInv
  <1>6. Paired(m) /\ controlsSet = <<>>
    BY <1>1 DEF Populating
  <1>7. /\ Without(m, lost) \in Seq(Entries)
        /\ Paired(Without(m, lost))
        /\ Without(Without(m, lost), SkipMode) = Without(Asked, lost)
    <2>1. Without(m, lost) \in Seq(Entries)
      BY <1>1, WithoutType
    <2>2. Paired(Without(m, lost))
      BY <1>1, <1>6, WithoutPaired
    <2>3. Without(Without(m, lost), SkipMode)
              = Without(Without(m, SkipMode), lost)
      BY <1>1, WithoutBoth
    <2> QED  BY <1>4, <2>1, <2>2, <2>3
  <1>8. Without(Asked, {}) = Asked
    BY <1>5, WithoutNone
  <1>9. /\ m' \in Seq(Entries) /\ Paired(m')
        /\ \E gone \in SUBSET ({"Level", "Tier"} \ known) :
               Without(m', SkipMode) = Without(Asked, gone)
    <2>1. CASE m' = m
      BY <1>1, <1>4, <1>6, <1>8, <2>1
    <2>2. CASE m' = Without(m, lost)
      BY <1>7, <2>2
    <2> QED  BY <1>3, <2>1, <2>2
  <1> HIDE DEF m
  <1>10. controlsSet' = <<>> /\ <<>> \o m' = m'
    BY <1>1, <1>6, <1>9
  <1>11. Populated'
    BY <1>1, <1>2, <1>9, <1>10 DEF Populated, m
  <1> QED  BY <1>1, <1>2, <1>9, <1>10, <1>11 DEF StaticInv, m

LEMMA StaticStep == StaticInv /\ [StaticNext]_staticVars => StaticInv'
  <1> SUFFICES ASSUME StaticInv, [StaticNext]_staticVars PROVE StaticInv'
    OBVIOUS
  <1>1. CASE PopulateControl
    BY <1>1, PopulateStep
  <1>2. CASE QueryControls
    BY <1>2, QueryStep
  <1>3. ASSUME UNCHANGED <<staticControls, known>>, setup # "populate",
               setup' \in {"set", "done"},
               (controlsSet \o mStaticControls)'
                   = controlsSet \o mStaticControls,
               controlsSet' \in Seq(Entries), mStaticControls' \in Seq(Entries)
        PROVE  StaticInv'
    <2>1. Asked' = Asked /\ Entries' = Entries
      BY <1>3 DEF Asked, Entries
    <2>2. Populated'
      BY <1>3, <2>1 DEF StaticInv, Populated
    <2> QED  BY <1>3, <2>1, <2>2 DEF StaticInv
  <1>4. CASE SetControl
    <2> DEFINE m == mStaticControls
               s == controlsSet
    <2>1. /\ m \in Seq(Entries) /\ s \in Seq(Entries) /\ m # <<>>
          /\ m' = Tail(m) /\ s' = Append(s, Head(m))
          /\ setup = "set" /\ UNCHANGED <<setup, staticControls, known>>
      BY <1>4 DEF SetControl, StaticInv
    <2> HIDE DEF m, s
    <2>2. /\ Tail(m) \in Seq(Entries) /\ Append(s, Head(m)) \in Seq(Entries)
          /\ Append(s, Head(m)) \o Tail(m) = s \o m
      BY <2>1
    <2> QED  BY <1>3, <2>1, <2>2 DEF m, s
  <1>5. CASE ControlRefused \/ ControlsSet
    BY <1>3, <1>5 DEF ControlRefused, ControlsSet, StaticInv
  <1>6. CASE UNCHANGED staticVars
    BY <1>6 DEF staticVars, StaticInv, Populating, Populated, Asked, Entries
  <1> QED  BY <1>1, <1>2, <1>4, <1>5, <1>6 DEF StaticNext

\* The controls of an encoding test case reach the device in their order, each
\* once, up to the first it refuses (populateStaticConfigs, setStaticControls).
THEOREM ControlsInOrder == MediaSpec => []StaticsInOrder
  <1>1. MediaInit => StaticInv
    BY StaticInitInv DEF MediaInit
  <1>2. StaticInv /\ [MediaNext]_mediaVars => StaticInv'
    <2> SUFFICES ASSUME StaticInv, [MediaNext]_mediaVars PROVE StaticInv'
      OBVIOUS
    <2>1. [StaticNext]_staticVars
      BY DEF MediaNext, Decoding, Encoding, mediaVars
    <2> QED  BY <2>1, StaticStep
  <1>3. StaticInv => StaticsInOrder
    <2> SUFFICES ASSUME StaticInv, setup \in {"set", "done"}
                 PROVE  StaticsInOrder
      BY DEF StaticsInOrder
    <2> DEFINE all == controlsSet \o mStaticControls
    <2>1. Populated /\ all \in Seq(Entries)
      BY DEF StaticInv
    <2>2. PICK lost \in SUBSET ({"Level", "Tier"} \ known) :
              Without(all, {"FRAME_SKIP_MODE"}) = Without(Asked, lost)
      BY <2>1 DEF Populated, SkipMode
    <2>3. Paired(all)
      BY <2>1 DEF Populated
    <2> HIDE DEF all
    <2>4. \A i \in DOMAIN all :
              /\ all[i].id = "FRAME_SKIP_MODE" =>
                     /\ all[i] = FrameSkipDisabled
                     /\ i > 1 /\ PerhapsFrameRC(all[i - 1])
              /\ FrameRCOn(all[i]) =>
                     i < Len(all) /\ all[i + 1] = FrameSkipDisabled
      BY <2>1, <2>3, PairedFacts
    <2> QED  BY <2>2, <2>4 DEF StaticsInOrder, Asked, all
  <1> QED  BY <1>1, <1>2, <1>3, PTL DEF MediaSpec

-----------------------------------------------------------------------------
(***************************************************************************)
(* Raw frames: the arithmetic of buffer sizes, then the copies.            *)
(***************************************************************************)

\* The solvers multiply by numbers they know; by others, only with these.
LEMMA TimesMonotone ==
    ASSUME NEW d \in Nat, NEW a \in Nat, NEW b \in Nat, a <= b
    PROVE  d * a <= d * b /\ a * d <= b * d
  <1>1. PICK c \in Nat : b = a + c
    <2>1. b - a \in Nat /\ b = a + (b - a)
      OBVIOUS
    <2> QED  BY <2>1
  <1>2. d * b = d * a + d * c /\ d * c \in Nat /\ d * a \in Nat
    BY <1>1
  <1>3. d * a = a * d /\ d * b = b * d
    OBVIOUS
  <1> QED  BY <1>2, <1>3

\* Multiplying can be taken back.
LEMMA TimesCancel ==
    ASSUME NEW d \in Nat \ {0}, NEW a \in Nat, NEW b \in Nat, d * a < d * b
    PROVE  a < b
  <1> SUFFICES ASSUME b <= a PROVE FALSE
    OBVIOUS
  <1>1. d * b <= d * a
    BY TimesMonotone
  <1> QED  BY <1>1

\* A quotient, as bounds.
LEMMA DivBounds ==
    ASSUME NEW n \in Nat, NEW d \in Nat \ {0}
    PROVE  /\ n \div d \in Nat
           /\ d * (n \div d) <= n
           /\ n < d * (n \div d) + d
  OBVIOUS

\* They say which quotient it is.
LEMMA DivIs ==
    ASSUME NEW n \in Nat, NEW d \in Nat \ {0}, NEW q \in Nat,
           d * q <= n, n < d * q + d
    PROVE  n \div d = q
  <1> DEFINE r == n \div d
  <1>1. r \in Nat /\ d * r <= n /\ n < d * r + d
    BY DivBounds
  <1> HIDE DEF r
  <1>2. d * (q + 1) = d * q + d /\ d * (r + 1) = d * r + d
    BY <1>1
  <1>3. d * q < d * (r + 1) /\ d * r < d * (q + 1)
    BY <1>1, <1>2
  <1>4. q < r + 1 /\ r < q + 1
    BY <1>1, <1>3, TimesCancel
  <1> QED  BY <1>1, <1>4 DEF r

\* Rounded up is at least the whole, by less than one divisor.
LEMMA RoundUpFacts ==
    ASSUME NEW x \in Nat, NEW d \in Nat \ {0}
    PROVE  /\ DivRoundUp(x, d) \in Nat
           /\ x <= d * DivRoundUp(x, d)
           /\ d * DivRoundUp(x, d) <= x + d - 1
  <1> DEFINE q == (x + d - 1) \div d
  <1>1. x + d - 1 \in Nat
    OBVIOUS
  <1>2. q \in Nat /\ d * q <= x + d - 1 /\ x + d - 1 < d * q + d
    BY <1>1, DivBounds
  <1> HIDE DEF q
  <1>3. x <= d * q
    BY <1>2
  <1> QED  BY <1>2, <1>3 DEF q, DivRoundUp

\* What is divided in two halves and rounded up is no less than the whole.
LEMMA RoundUpHalves ==
    ASSUME NEW x \in Nat, NEW y \in Nat, y <= 2 * x, NEW d \in Nat \ {0}
    PROVE  DivRoundUp(y, d) <= 2 * DivRoundUp(x, d)
  <1> DEFINE q == DivRoundUp(x, d)
             r == DivRoundUp(y, d)
  <1>1. q \in Nat /\ r \in Nat /\ x <= d * q /\ d * r <= y + d - 1
    BY RoundUpFacts
  <1> HIDE DEF q, r
  <1>2. d * (2 * q + 1) = 2 * (d * q) + d /\ d * q \in Nat /\ d * r \in Nat
    BY <1>1
  <1>3. d * r < d * (2 * q + 1)
    BY <1>1, <1>2
  <1>4. r < 2 * q + 1
    BY <1>1, <1>3, TimesCancel
  <1> QED  BY <1>1, <1>4 DEF q, r

\* Aligned is rounded up and multiplied again.
LEMMA AlignIs ==
    ASSUME NEW x \in Nat, NEW a \in Nat \ {0}
    PROVE  Align(x, a) = DivRoundUp(x, a) * a
  <1>1. CASE x = 0
    <2>1. (0 + a - 1) \div a = 0
      <3>1. 0 + a - 1 \in Nat /\ a * 0 = 0
        OBVIOUS
      <3> QED  BY <3>1, DivIs
    <2> QED  BY <1>1, <2>1 DEF Align, DivRoundUp
  <1>2. CASE x # 0 /\ a = 1
    <2>1. (x + 1 - 1) \div 1 = x
      BY DivIs
    <2> QED  BY <1>2, <2>1 DEF Align, DivRoundUp
  <1>3. CASE x # 0 /\ a # 1
    <2> DEFINE q == (x - 1) \div a
    <2>1. x - 1 \in Nat
      BY <1>3
    <2>2. q \in Nat /\ a * q <= x - 1 /\ x - 1 < a * q + a
      BY <2>1, DivBounds
    <2>3. Align(x, a) = q * a + a
      BY <1>3 DEF Align
    <2> HIDE DEF q
    <2>4. a * (q + 1) = a * q + a /\ (q + 1) * a = q * a + a
          /\ x + a - 1 \in Nat
      BY <2>2
    <2>5. (x + a - 1) \div a = q + 1
      BY <2>2, <2>4, DivIs
    <2> QED  BY <2>3, <2>4, <2>5 DEF DivRoundUp
  <1> QED  BY <1>1, <1>2, <1>3

\* Nothing is lost by aligning.
LEMMA AlignFacts ==
    ASSUME NEW x \in Nat, NEW a \in Nat \ {0}
    PROVE  Align(x, a) \in Nat /\ x <= Align(x, a)
  <1> DEFINE q == DivRoundUp(x, a)
  <1>1. q \in Nat /\ x <= a * q
    BY RoundUpFacts
  <1>2. Align(x, a) = q * a
    BY AlignIs
  <1> HIDE DEF q
  <1>3. q * a = a * q /\ q * a \in Nat
    BY <1>1
  <1> QED  BY <1>1, <1>2, <1>3

\* The same for what is aligned, and then for the length of a plane.
LEMMA AlignHalves ==
    ASSUME NEW x \in Nat, NEW y \in Nat, y <= 2 * x, NEW a \in Nat \ {0}
    PROVE  Align(y, a) <= 2 * Align(x, a)
  <1> DEFINE q == DivRoundUp(x, a)
             r == DivRoundUp(y, a)
  <1>1. q \in Nat /\ r \in Nat /\ r <= 2 * q
    BY RoundUpFacts, RoundUpHalves
  <1>2. Align(x, a) = q * a /\ Align(y, a) = r * a
    BY AlignIs
  <1> HIDE DEF q, r
  <1>3. r * a <= (2 * q) * a /\ (2 * q) * a = 2 * (q * a)
    BY <1>1, TimesMonotone
  <1> QED  BY <1>2, <1>3

Info == [1 .. 5 -> Nat \ {0}]

LEMMA LengthHalves ==
    ASSUME NEW info \in Info, NEW x \in Nat, NEW y \in Nat, y <= 2 * x
    PROVE  /\ Length(info, x) \in Nat
           /\ Length(info, y) <= 2 * Length(info, x)
  <1> DEFINE ax == Align(x, info[1])
             ay == Align(y, info[1])
             m == info[2]
             ux == DivRoundUp(ax * m, info[3])
             uy == DivRoundUp(ay * m, info[3])
             tx == DivRoundUp(ux, info[4])
             ty == DivRoundUp(uy, info[4])
  <1>1. /\ info[1] \in Nat \ {0} /\ info[2] \in Nat \ {0}
        /\ info[3] \in Nat \ {0} /\ info[4] \in Nat \ {0}
        /\ info[5] \in Nat \ {0}
    BY DEF Info
  <1>2. ax \in Nat /\ ay \in Nat /\ ay <= 2 * ax
    BY <1>1, AlignFacts, AlignHalves
  <1>3. /\ ax * m \in Nat /\ ay * m \in Nat
        /\ ay * m <= 2 * (ax * m)
    <2>1. m \in Nat
      BY <1>1
    <2> HIDE DEF ax, ay, m
    <2>2. ay * m <= (2 * ax) * m
      BY <1>2, <2>1, TimesMonotone
    <2> QED  BY <1>2, <2>1, <2>2
  <1> HIDE DEF ax, ay, m
  <1>4. ux \in Nat /\ uy \in Nat /\ uy <= 2 * ux
    <2> DEFINE u == ax * m
               v == ay * m
               d == info[3]
    <2>1. u \in Nat /\ v \in Nat /\ v <= 2 * u /\ d \in Nat \ {0}
      BY <1>1, <1>3
    <2> HIDE DEF u, v, d
    <2>2. /\ DivRoundUp(u, d) \in Nat /\ DivRoundUp(v, d) \in Nat
          /\ DivRoundUp(v, d) <= 2 * DivRoundUp(u, d)
      BY <2>1, RoundUpFacts, RoundUpHalves
    <2> QED  BY <2>2 DEF u, v, d
  <1> HIDE DEF ux, uy
  <1>5. tx \in Nat /\ ty \in Nat /\ ty <= 2 * tx
    BY <1>1, <1>4, RoundUpFacts, RoundUpHalves
  <1> HIDE DEF tx, ty
  <1>6. Align(tx, info[5]) \in Nat
        /\ Align(ty, info[5]) <= 2 * Align(tx, info[5])
    BY <1>1, <1>5, AlignFacts, AlignHalves
  <1> QED
    BY <1>6 DEF Length, ax, ay, m, ux, uy, tx, ty

Plane == [stride : Info, scanlines : Info]

\* The table has planes of five positive numbers a side.
LEMMA LayoutFacts ==
    ASSUME NEW fmt \in {"QC08C", "QC10C"}, NEW i \in 1 .. 4
    PROVE  BufferLayoutInfo[fmt][i] \in Plane
  <1>1. CASE fmt = "QC08C" /\ i \in {1, 2}
    BY <1>1 DEF BufferLayoutInfo, Plane, Info
  <1>2. CASE fmt = "QC08C" /\ i \in {3, 4}
    BY <1>2 DEF BufferLayoutInfo, Plane, Info
  <1>3. CASE fmt = "QC10C" /\ i \in {1, 2}
    BY <1>3 DEF BufferLayoutInfo, Plane, Info
  <1>4. CASE fmt = "QC10C" /\ i \in {3, 4}
    BY <1>4 DEF BufferLayoutInfo, Plane, Info
  <1> QED  BY <1>1, <1>2, <1>3, <1>4

\* So a plane of a picture fits into twice the plane of half its lines.
LEMMA PlaneHalves ==
    ASSUME NEW plane0 \in Plane, NEW w \in Nat, NEW x \in Nat, NEW y \in Nat,
           y <= 2 * x
    PROVE  /\ getPlaneSize(plane0, w, x) \in Nat
           /\ getPlaneSize(plane0, w, y) <= 2 * getPlaneSize(plane0, w, x)
  <1> DEFINE s == Length(plane0.stride, w)
             a == Length(plane0.scanlines, x)
             b == Length(plane0.scanlines, y)
  <1>1. plane0.stride \in Info /\ plane0.scanlines \in Info
    BY DEF Plane
  <1>2. s \in Nat
    <2>1. w <= 2 * w
      OBVIOUS
    <2> QED  BY <1>1, <2>1, LengthHalves
  <1>3. a \in Nat /\ b <= 2 * a
    BY <1>1, LengthHalves
  <1>4. b \in Nat
    <2>1. y <= 2 * y
      OBVIOUS
    <2> QED  BY <1>1, <2>1, LengthHalves
  <1>5. getPlaneSize(plane0, w, x) = Align(s * a, 4096)
        /\ getPlaneSize(plane0, w, y) = Align(s * b, 4096)
    BY DEF getPlaneSize, kBufferSizeAlignment
  <1> DEFINE k == 4096
  <1>a. k \in Nat \ {0}
    OBVIOUS
  <1> HIDE DEF s, a, b, k
  <1>6. s * b <= s * (2 * a) /\ s * (2 * a) = 2 * (s * a)
        /\ s * a \in Nat /\ s * b \in Nat
    BY <1>2, <1>3, <1>4, TimesMonotone
  <1>7. Align(s * a, k) \in Nat /\ Align(s * b, k) <= 2 * Align(s * a, k)
    <2> DEFINE u == s * a
               v == s * b
    <2>1. u \in Nat /\ v \in Nat /\ v <= 2 * u
      BY <1>6
    <2> HIDE DEF u, v
    <2>2. Align(u, k) \in Nat /\ Align(v, k) <= 2 * Align(u, k)
      BY <1>a, <2>1, AlignFacts, AlignHalves
    <2> QED  BY <2>2 DEF u, v
  <1> QED  BY <1>5, <1>7 DEF k

\* A picture fits into the buffer for two fields of it: every plane of it into
\* twice the plane of half the lines, rounded up.
LEMMA UsedFits ==
    ASSUME NEW fmt \in {"QC08C", "QC10C"}, NEW w \in Nat, NEW h \in Nat
    PROVE  /\ getBufferSizeUsed(fmt, w, h) \in Nat
           /\ getBufferSize(fmt, w, h) \in Nat
           /\ getBufferSizeUsed(fmt, w, h) <= getBufferSize(fmt, w, h)
  <1> DEFINE f == FieldLines(h)
             P(i) == BufferLayoutInfo[fmt][i]
  <1>1. f \in Nat /\ h <= 2 * f
    BY RoundUpFacts DEF FieldLines
  <1> HIDE DEF f
  <1>2. ASSUME NEW i \in 1 .. 4
        PROVE  /\ getPlaneSize(P(i), w, h) \in Nat
               /\ getPlaneSize(P(i), w, f) \in Nat
               /\ getPlaneSize(P(i), w, h) <= 2 * getPlaneSize(P(i), w, f)
    <2>1. P(i) \in Plane /\ h <= 2 * h
      BY LayoutFacts
    <2> HIDE DEF P
    <2> QED  BY <1>1, <2>1, PlaneHalves
  <1>3. /\ PlanesSize(fmt, w, h) \in Nat /\ PlanesSize(fmt, w, f) \in Nat
        /\ PlanesSize(fmt, w, h) <= 2 * PlanesSize(fmt, w, f)
    <2>1. PlanesSize(fmt, w, h) =
              getPlaneSize(P(1), w, h) + getPlaneSize(P(2), w, h)
                  + getPlaneSize(P(3), w, h) + getPlaneSize(P(4), w, h)
      BY DEF PlanesSize
    <2>2. PlanesSize(fmt, w, f) =
              getPlaneSize(P(1), w, f) + getPlaneSize(P(2), w, f)
                  + getPlaneSize(P(3), w, f) + getPlaneSize(P(4), w, f)
      BY DEF PlanesSize
    <2>3. 1 \in 1 .. 4 /\ 2 \in 1 .. 4 /\ 3 \in 1 .. 4 /\ 4 \in 1 .. 4
      OBVIOUS
    <2> HIDE DEF P
    <2> QED  BY <1>2, <2>1, <2>2, <2>3
  <1> QED  BY <1>3 DEF getBufferSizeUsed, getBufferSize, f

\* More is not less when it is rounded up, and so on up to a plane.
LEMMA RoundUpMonotone ==
    ASSUME NEW x \in Nat, NEW y \in Nat, x <= y, NEW d \in Nat \ {0}
    PROVE  DivRoundUp(x, d) <= DivRoundUp(y, d)
  <1> DEFINE q == DivRoundUp(x, d)
             r == DivRoundUp(y, d)
  <1>1. q \in Nat /\ r \in Nat /\ y <= d * r /\ d * q <= x + d - 1
    BY RoundUpFacts
  <1> HIDE DEF q, r
  <1>2. d * (r + 1) = d * r + d /\ d * q \in Nat /\ d * r \in Nat
    BY <1>1
  <1>3. d * q < d * (r + 1)
    BY <1>1, <1>2
  <1>4. q < r + 1
    BY <1>1, <1>3, TimesCancel
  <1> QED  BY <1>1, <1>4 DEF q, r

LEMMA AlignMonotone ==
    ASSUME NEW x \in Nat, NEW y \in Nat, x <= y, NEW a \in Nat \ {0}
    PROVE  Align(x, a) <= Align(y, a)
  <1> DEFINE q == DivRoundUp(x, a)
             r == DivRoundUp(y, a)
  <1>1. q \in Nat /\ r \in Nat /\ q <= r
    BY RoundUpFacts, RoundUpMonotone
  <1>2. Align(x, a) = q * a /\ Align(y, a) = r * a
    BY AlignIs
  <1> HIDE DEF q, r
  <1> QED  BY <1>1, <1>2, TimesMonotone

LEMMA LengthMonotone ==
    ASSUME NEW info \in Info, NEW x \in Nat, NEW y \in Nat, x <= y
    PROVE  Length(info, x) <= Length(info, y)
  <1> DEFINE ax == Align(x, info[1])
             ay == Align(y, info[1])
             bx == ax * info[2]
             by == ay * info[2]
             ux == DivRoundUp(bx, info[3])
             uy == DivRoundUp(by, info[3])
             tx == DivRoundUp(ux, info[4])
             ty == DivRoundUp(uy, info[4])
  <1>1. /\ info[1] \in Nat \ {0} /\ info[2] \in Nat \ {0}
        /\ info[3] \in Nat \ {0} /\ info[4] \in Nat \ {0}
        /\ info[5] \in Nat \ {0}
    BY DEF Info
  <1>2. ax \in Nat /\ ay \in Nat /\ ax <= ay
    BY <1>1, AlignFacts, AlignMonotone
  <1> HIDE DEF ax, ay
  <1>3. bx \in Nat /\ by \in Nat /\ bx <= by
    BY <1>1, <1>2, TimesMonotone
  <1> HIDE DEF bx, by
  <1>4. ux \in Nat /\ uy \in Nat /\ ux <= uy
    BY <1>1, <1>3, RoundUpFacts, RoundUpMonotone
  <1> HIDE DEF ux, uy
  <1>5. tx \in Nat /\ ty \in Nat /\ tx <= ty
    BY <1>1, <1>4, RoundUpFacts, RoundUpMonotone
  <1> HIDE DEF tx, ty
  <1>6. Align(tx, info[5]) <= Align(ty, info[5])
    BY <1>1, <1>5, AlignMonotone
  <1> QED
    BY <1>6 DEF Length, ax, ay, bx, by, ux, uy, tx, ty

\* The lengths of the planes of the largest picture the device may have.
LEMMA LargestLengths ==
    ASSUME NEW fmt \in {"QC08C", "QC10C"}, NEW i \in 1 .. 4
    PROVE  /\ Length(BufferLayoutInfo[fmt][i].stride, 8192) <= 16384
           /\ Length(BufferLayoutInfo[fmt][i].scanlines, 8192) <= 8192
  <1> DEFINE info == BufferLayoutInfo[fmt][i]
  <1>1. CASE fmt = "QC08C" /\ i = 1
    <2>1. /\ info.stride = <<1, 1, 1, 32, 64>>
          /\ info.scanlines = <<1, 1, 1, 8, 16>>
      BY <1>1 DEF BufferLayoutInfo
    <2>2. Length(<<1, 1, 1, 32, 64>>, 8192) <= 16384
      BY DEF Length, Align, DivRoundUp
    <2>3. Length(<<1, 1, 1, 8, 16>>, 8192) <= 8192
      BY DEF Length, Align, DivRoundUp
    <2> QED  BY <2>1, <2>2, <2>3
  <1>2. CASE fmt = "QC08C" /\ i = 2
    <2>1. /\ info.stride = <<128, 1, 1, 1, 128>>
          /\ info.scanlines = <<1, 1, 1, 1, 32>>
      BY <1>2 DEF BufferLayoutInfo
    <2>2. Length(<<128, 1, 1, 1, 128>>, 8192) <= 16384
      BY DEF Length, Align, DivRoundUp
    <2>3. Length(<<1, 1, 1, 1, 32>>, 8192) <= 8192
      BY DEF Length, Align, DivRoundUp
    <2> QED  BY <2>1, <2>2, <2>3
  <1>3. CASE fmt = "QC08C" /\ i = 3
    <2>1. /\ info.stride = <<1, 1, 2, 16, 64>>
          /\ info.scanlines = <<1, 1, 2, 8, 16>>
      BY <1>3 DEF BufferLayoutInfo
    <2>2. Length(<<1, 1, 2, 16, 64>>, 8192) <= 16384
      BY DEF Length, Align, DivRoundUp
    <2>3. Length(<<1, 1, 2, 8, 16>>, 8192) <= 8192
      BY DEF Length, Align, DivRoundUp
    <2> QED  BY <2>1, <2>2, <2>3
  <1>4. CASE fmt = "QC08C" /\ i = 4
    <2>1. /\ info.stride = <<1, 1, 1, 1, 128>>
          /\ info.scanlines = <<1, 1, 2, 1, 32>>
      BY <1>4 DEF BufferLayoutInfo
    <2>2. Length(<<1, 1, 1, 1, 128>>, 8192) <= 16384
      BY DEF Length, Align, DivRoundUp
    <2>3. Length(<<1, 1, 2, 1, 32>>, 8192) <= 8192
      BY DEF Length, Align, DivRoundUp
    <2> QED  BY <2>1, <2>2, <2>3
  <1>5. CASE fmt = "QC10C" /\ i = 1
    <2>1. /\ info.stride = <<1, 1, 1, 48, 64>>
          /\ info.scanlines = <<1, 1, 1, 4, 16>>
      BY <1>5 DEF BufferLayoutInfo
    <2>2. Length(<<1, 1, 1, 48, 64>>, 8192) <= 16384
      BY DEF Length, Align, DivRoundUp
    <2>3. Length(<<1, 1, 1, 4, 16>>, 8192) <= 8192
      BY DEF Length, Align, DivRoundUp
    <2> QED  BY <2>1, <2>2, <2>3
  <1>6. CASE fmt = "QC10C" /\ i = 2
    <2>1. /\ info.stride = <<192, 4, 3, 1, 256>>
          /\ info.scanlines = <<1, 1, 1, 1, 16>>
      BY <1>6 DEF BufferLayoutInfo
    <2>2. Length(<<192, 4, 3, 1, 256>>, 8192) <= 16384
      BY DEF Length, Align, DivRoundUp
    <2>3. Length(<<1, 1, 1, 1, 16>>, 8192) <= 8192
      BY DEF Length, Align, DivRoundUp
    <2> QED  BY <2>1, <2>2, <2>3
  <1>7. CASE fmt = "QC10C" /\ i = 3
    <2>1. /\ info.stride = <<1, 1, 2, 24, 64>>
          /\ info.scanlines = <<1, 1, 2, 4, 16>>
      BY <1>7 DEF BufferLayoutInfo
    <2>2. Length(<<1, 1, 2, 24, 64>>, 8192) <= 16384
      BY DEF Length, Align, DivRoundUp
    <2>3. Length(<<1, 1, 2, 4, 16>>, 8192) <= 8192
      BY DEF Length, Align, DivRoundUp
    <2> QED  BY <2>1, <2>2, <2>3
  <1>8. CASE fmt = "QC10C" /\ i = 4
    <2>1. /\ info.stride = <<192, 4, 3, 1, 256>>
          /\ info.scanlines = <<1, 1, 2, 1, 16>>
      BY <1>8 DEF BufferLayoutInfo
    <2>2. Length(<<192, 4, 3, 1, 256>>, 8192) <= 16384
      BY DEF Length, Align, DivRoundUp
    <2>3. Length(<<1, 1, 2, 1, 16>>, 8192) <= 8192
      BY DEF Length, Align, DivRoundUp
    <2> QED  BY <2>1, <2>2, <2>3
  <1> QED  BY <1>1, <1>2, <1>3, <1>4, <1>5, <1>6, <1>7, <1>8

\* The sides of a picture, and the most a plane of it takes: 2^27 bytes.
Side == 0 .. 8192
LargestSize == 134217728

LEMMA LargestPlane ==
    ASSUME NEW fmt \in {"QC08C", "QC10C"}, NEW i \in 1 .. 4,
           NEW w \in Side, NEW h \in Side
    PROVE  /\ getPlaneSize(BufferLayoutInfo[fmt][i], w, h) \in Nat
           /\ getPlaneSize(BufferLayoutInfo[fmt][i], w, h) <= LargestSize
  <1> DEFINE p == BufferLayoutInfo[fmt][i]
             s == Length(p.stride, w)
             a == Length(p.scanlines, h)
             k == 4096
             top == LargestSize
  <1>1. p.stride \in Info /\ p.scanlines \in Info
    BY LayoutFacts DEF Plane
  <1>2. Length(p.stride, 8192) <= 16384 /\ Length(p.scanlines, 8192) <= 8192
    BY LargestLengths
  <1>3. getPlaneSize(p, w, h) = Align(s * a, k)
    BY DEF getPlaneSize, kBufferSizeAlignment
  <1>4. Align(top, k) = top /\ k \in Nat \ {0} /\ top \in Nat
    BY DEF Align, LargestSize
  <1> HIDE DEF p
  <1>5. s \in Nat /\ s <= 16384 /\ a \in Nat /\ a <= 8192
    <2> DEFINE m == 8192
    <2>1. m \in Nat /\ w \in Nat /\ h \in Nat /\ w <= m /\ h <= m
      BY DEF Side
    <2>2. Length(p.stride, m) <= 16384 /\ Length(p.scanlines, m) <= 8192
      BY <1>2
    <2>3. m <= 2 * m /\ w <= 2 * w /\ h <= 2 * h
      BY <2>1
    <2> HIDE DEF m
    <2>4. s <= Length(p.stride, m) /\ a <= Length(p.scanlines, m)
      BY <1>1, <2>1, LengthMonotone
    <2>5. /\ s \in Nat /\ a \in Nat /\ Length(p.stride, m) \in Nat
          /\ Length(p.scanlines, m) \in Nat
      BY <1>1, <2>1, <2>3, LengthHalves
    <2> HIDE DEF s, a
    <2> QED  BY <2>2, <2>4, <2>5
  <1> HIDE DEF s, a
  <1>6. s * a \in Nat /\ s * a <= top
    <2>1. s * a <= s * 8192 /\ s * 8192 <= 16384 * 8192
      BY <1>5, TimesMonotone
    <2> QED  BY <1>5, <2>1 DEF LargestSize
  <1> HIDE DEF k, top
  <1>7. Align(s * a, k) \in Nat /\ Align(s * a, k) <= top
    <2> DEFINE n == s * a
    <2> HIDE DEF n
    <2>1. n \in Nat /\ n <= top
      BY <1>6 DEF n
    <2>2. Align(n, k) \in Nat /\ Align(n, k) <= Align(top, k)
      BY <1>4, <2>1, AlignFacts, AlignMonotone
    <2> QED  BY <1>4, <2>2 DEF n
  <1> QED  BY <1>3, <1>7 DEF p, top

\* The sizes are sums and products of uint32_t, rounded up: for a picture up to
\* 8192 x 8192, interlaced or not, none is as large as 2^31, and nothing wraps.
THEOREM SizesDoNotWrap ==
    ASSUME NEW fmt \in {"QC08C", "QC10C"},
           NEW w \in Side, NEW h \in Side
    PROVE  /\ getBufferSize(fmt, w, h) \in Nat
           /\ getBufferSize(fmt, w, h) < 2147483648
           /\ getBufferSizeUsed(fmt, w, h) \in Nat
           /\ getBufferSizeUsed(fmt, w, h) < 2147483648
  <1>1. ASSUME NEW x \in Side
        PROVE  PlanesSize(fmt, w, x) \in Nat
               /\ PlanesSize(fmt, w, x) <= 4 * LargestSize
    <2> DEFINE size(i) == getPlaneSize(BufferLayoutInfo[fmt][i], w, x)
    <2>1. ASSUME NEW i \in 1 .. 4
          PROVE  size(i) \in Nat /\ size(i) <= LargestSize
      BY LargestPlane
    <2>2. PlanesSize(fmt, w, x) = size(1) + size(2) + size(3) + size(4)
      BY DEF PlanesSize
    <2>3. LargestSize \in Nat
      BY DEF LargestSize
    <2> HIDE DEF size
    <2>4. /\ size(1) \in Nat /\ size(1) <= LargestSize
          /\ size(2) \in Nat /\ size(2) <= LargestSize
          /\ size(3) \in Nat /\ size(3) <= LargestSize
          /\ size(4) \in Nat /\ size(4) <= LargestSize
      BY <2>1
    <2> QED  BY <2>2, <2>3, <2>4
  <1>2. FieldLines(h) \in Side
    <2>1. h \in Int /\ 0 <= h /\ h <= 8192
      BY DEF Side
    <2>2. FieldLines(h) = (h + 1) \div 2
      BY <2>1 DEF FieldLines, DivRoundUp
    <2>3. (h + 1) \div 2 \in Int /\ 0 <= (h + 1) \div 2
          /\ (h + 1) \div 2 <= 8192
      BY <2>1
    <2> DEFINE lines == FieldLines(h)
               most == 8192
    <2>4. lines \in Int /\ 0 <= lines /\ lines <= most /\ most \in Int
      BY <2>2, <2>3
    <2> HIDE DEF lines, most
    <2>5. lines \in 0 .. most
      BY <2>4
    <2>6. Side = 0 .. most
      BY DEF most, Side
    <2>7. lines \in Side
      BY <2>5, <2>6
    <2> QED  BY <2>7 DEF lines
  <1>3. LargestSize \in Nat /\ 8 * LargestSize < 2147483648
    BY DEF LargestSize
  <1> DEFINE whole == PlanesSize(fmt, w, h)
             field == PlanesSize(fmt, w, FieldLines(h))
             limit == 2147483648
  <1>4. /\ whole \in Nat /\ whole <= 4 * LargestSize
        /\ field \in Nat /\ field <= 4 * LargestSize
    BY <1>1, <1>2
  <1>5. getBufferSizeUsed(fmt, w, h) = whole
        /\ getBufferSize(fmt, w, h) \in {whole, 2 * field}
    BY DEF getBufferSize, getBufferSizeUsed
  <1>6. limit \in Nat /\ 8 * LargestSize < limit
    BY <1>3
  <1> HIDE DEF whole, field, limit
  <1>7. /\ getBufferSize(fmt, w, h) \in Nat
        /\ getBufferSize(fmt, w, h) < limit
        /\ getBufferSizeUsed(fmt, w, h) \in Nat
        /\ getBufferSizeUsed(fmt, w, h) < limit
    BY <1>3, <1>4, <1>5, <1>6
  <1> QED  BY <1>7 DEF limit

-----------------------------------------------------------------------------
(* The raw frames. *)

\* The copies of the first n lines of luma of a picture, and of chroma.
Luma(p, n) ==
    {Memcpy(i * p.stride, i * p.width, p.width) : i \in 0 .. n - 1}

Chroma(p, n) ==
    {Memcpy((ALIGN(p.height, 32) + i) * p.stride, (p.height + i) * p.width,
            p.width) : i \in 0 .. n - 1}

\* The copies of a frame whose lines are spaced as in the file.
Planes ==
    LET luma == picture.width * picture.height IN
    {Memcpy(0, 0, luma), Memcpy(ChromaPlane, luma, luma \div 2)}

ByLines ==
    Luma(picture, picture.height) \cup Chroma(picture, picture.height \div 2)

\* A frame of NV12 that is laid out in pbuf,
LaidOut ==
    /\ picture.format = "NV12"
    /\ \/ picture.width = picture.stride /\ copies = Planes
       \/ copies = ByLines

\* and what there is between two frames: the last one, if there was any.
Finished ==
    \/ copies = {} /\ filled = 0
    \/ picture.format # "NV12" /\ copies = {} /\ filled = FrameSize
    \/ LaidOut /\ filled = bufSize

\* Within a frame, the lines before this one have been copied, and the two
\* pointers are at this one.
LumaSoFar ==
    /\ line \in 0 .. picture.height
    /\ pData = line * picture.width
    /\ ptarget = line * picture.stride
    /\ copies = Luma(picture, line)

ChromaSoFar ==
    /\ line \in 0 .. picture.height \div 2
    /\ pData = (picture.height + line) * picture.width
    /\ ptarget = (ALIGN(picture.height, 32) + line) * picture.stride
    /\ copies = Luma(picture, picture.height) \cup Chroma(picture, line)

RawInv ==
    /\ picture \in Pictures
    /\ plane \in {"none", "luma", "chroma", "whole"}
    /\ plane \in {"none", "whole"} => line = 0
    /\ plane = "none" => Finished
    /\ plane # "none" => picture.format = "NV12" /\ filled = 0
    /\ plane = "luma" => LumaSoFar
    /\ plane = "chroma" => ChromaSoFar
    /\ plane = "whole" => LaidOut

\* The ALIGN of the two files aligns as well.
LEMMA ALIGNFacts ==
    ASSUME NEW n \in Nat, NEW d \in Nat \ {0}
    PROVE  ALIGN(n, d) \in Nat /\ n <= ALIGN(n, d)
  <1> DEFINE q == DivRoundUp(n, d)
  <1>1. q \in Nat /\ n <= d * q
    BY RoundUpFacts
  <1>2. ALIGN(n, d) = q * d
    BY DEF ALIGN, DivRoundUp
  <1> HIDE DEF q
  <1>3. q * d = d * q /\ q * d \in Nat
    BY <1>1
  <1> QED  BY <1>1, <1>2, <1>3

\* The scanlines of the device are at least the lines of the picture.
LEMMA PictureFacts ==
    ASSUME picture \in Pictures
    PROVE  /\ picture.format \in {"NV12", "QC08C", "QC10C"}
           /\ picture.width \in Nat /\ picture.height \in Nat
           /\ picture.stride \in Nat /\ picture.width <= picture.stride
           /\ scanline \in Nat /\ picture.height <= scanline
           /\ picture.height \div 2 \in Nat
           /\ 2 * (picture.height \div 2) <= picture.height
           /\ (picture.height + 1) \div 2 \in Nat
           /\ picture.height <= 2 * ((picture.height + 1) \div 2)
           /\ picture.height \div 2 <= (picture.height + 1) \div 2
           /\ uvScanline \in Nat /\ (picture.height + 1) \div 2 <= uvScanline
  <1> DEFINE h == picture.height
             u == (h + 1) \div 2
  <1>1. /\ picture.format \in {"NV12", "QC08C", "QC10C"}
        /\ picture.width \in Nat /\ h \in Nat
        /\ picture.stride \in Nat /\ picture.width <= picture.stride
    BY RawAssumption
  <1>2. scanline = ALIGN(h, 32) /\ uvScanline = ALIGN(u, 16)
    BY DEF scanline, uvScanline
  <1> HIDE DEF h
  <1>3. /\ h \div 2 \in Nat /\ 2 * (h \div 2) <= h
        /\ u \in Nat /\ h <= 2 * u /\ h \div 2 <= u
    BY <1>1
  <1> HIDE DEF u
  <1>4. ALIGN(h, 32) \in Nat /\ h <= ALIGN(h, 32)
    <2> DEFINE d == 32
    <2>1. d \in Nat \ {0}
      OBVIOUS
    <2> HIDE DEF d
    <2>2. ALIGN(h, d) \in Nat /\ h <= ALIGN(h, d)
      BY <1>1, <2>1, ALIGNFacts
    <2> QED  BY <2>2 DEF d
  <1>5. ALIGN(u, 16) \in Nat /\ u <= ALIGN(u, 16)
    <2> DEFINE d == 16
    <2>1. d \in Nat \ {0}
      OBVIOUS
    <2> HIDE DEF d
    <2>2. ALIGN(u, d) \in Nat /\ u <= ALIGN(u, d)
      BY <1>3, <2>1, ALIGNFacts
    <2> QED  BY <2>2 DEF d
  <1> QED  BY <1>1, <1>2, <1>3, <1>4, <1>5 DEF h, u

\* Line i of n lies within their n strides.
LEMMA LineInside ==
    ASSUME NEW n \in Nat, NEW i \in Nat, i < n, NEW s \in Nat, NEW w \in Nat,
           w <= s
    PROVE  i * s \in Nat /\ n * s \in Nat /\ i * s + w <= n * s
  <1>1. (i + 1) * s <= n * s
    BY TimesMonotone
  <1>2. (i + 1) * s = i * s + s /\ i * s \in Nat /\ n * s \in Nat
    OBVIOUS
  <1> QED  BY <1>1, <1>2

\* No line is copied from outside the frame or to outside the buffer,
LEMMA LineBounds ==
    ASSUME picture \in Pictures, picture.format = "NV12", NEW c \in ByLines
    PROVE  c.to + c.len <= bufSize /\ c.from + c.len <= FrameSize
  <1> DEFINE w == picture.width
             h == picture.height
             s == picture.stride
             u == (h + 1) \div 2
             H == scanline
             V == uvScanline
             k == h \div 2
  <1>1. /\ w \in Nat /\ h \in Nat /\ s \in Nat /\ w <= s /\ H \in Nat
        /\ h <= H /\ k \in Nat /\ u \in Nat /\ k <= u /\ V \in Nat /\ u <= V
    BY PictureFacts
  <1>2. bufSize = s * H + s * V /\ FrameSize = w * h + w * u
    BY DEF bufSize, FrameSize
  <1>3. \/ \E i \in 0 .. h - 1 : c = Memcpy(i * s, i * w, w)
        \/ \E i \in 0 .. k - 1 : c = Memcpy((H + i) * s, (h + i) * w, w)
    BY DEF ByLines, Luma, Chroma, scanline
  <1> HIDE DEF w, h, s, u, H, V, k
  <1>4. /\ s * H + s * V = (H + V) * s /\ w * h + w * u = (h + u) * w
        /\ s * H \in Nat /\ s * V \in Nat /\ w * h \in Nat /\ w * u \in Nat
    BY <1>1
  <1>5. ASSUME NEW i \in Nat, NEW j \in Nat, i < H + V, j < h + u,
               c = Memcpy(i * s, j * w, w)
        PROVE  c.to + c.len <= bufSize /\ c.from + c.len <= FrameSize
    <2>1. i * s + w <= (H + V) * s
      BY <1>1, <1>5, LineInside
    <2>2. j * w + w <= (h + u) * w
      <3>1. h + u \in Nat /\ w <= w
        BY <1>1
      <3> QED  BY <1>1, <1>5, <3>1, LineInside
    <2>3. c.to = i * s /\ c.from = j * w /\ c.len = w
      BY <1>5 DEF Memcpy
    <2> QED  BY <1>2, <1>4, <2>1, <2>2, <2>3
  <1>6. CASE \E i \in 0 .. h - 1 : c = Memcpy(i * s, i * w, w)
    <2>1. PICK i \in 0 .. h - 1 : c = Memcpy(i * s, i * w, w)
      BY <1>6
    <2>2. i \in Nat /\ i < H + V /\ i < h + u
      BY <1>1
    <2> QED  BY <1>5, <2>1, <2>2
  <1>7. CASE \E i \in 0 .. k - 1 : c = Memcpy((H + i) * s, (h + i) * w, w)
    <2>1. PICK i \in 0 .. k - 1 : c = Memcpy((H + i) * s, (h + i) * w, w)
      BY <1>7
    <2>2. H + i \in Nat /\ h + i \in Nat /\ H + i < H + V /\ h + i < h + u
      BY <1>1
    <2> QED  BY <1>5, <2>1, <2>2
  <1> QED  BY <1>3, <1>6, <1>7

\* and no plane.
LEMMA PlanesBounds ==
    ASSUME picture \in Pictures, picture.format = "NV12",
           picture.width = picture.stride, NEW c \in Planes
    PROVE  c.to + c.len <= bufSize /\ c.from + c.len <= FrameSize
  <1> DEFINE w == picture.width
             h == picture.height
             s == picture.stride
             u == (h + 1) \div 2
             H == scanline
             V == uvScanline
             luma == w * h
             half == luma \div 2
  <1>1. /\ w \in Nat /\ h \in Nat /\ s = w /\ H \in Nat /\ h <= H
        /\ u \in Nat /\ h <= 2 * u /\ V \in Nat /\ u <= V
    BY PictureFacts
  <1>2. bufSize = s * H + s * V /\ FrameSize = w * h + w * u
    BY DEF bufSize, FrameSize
  <1>3. c = Memcpy(0, 0, luma) \/ c = Memcpy(s * H, luma, half)
    BY DEF Planes, ChromaPlane
  <1> HIDE DEF w, h, s, u, H, V
  <1>4. /\ luma \in Nat /\ w * u \in Nat /\ w * V \in Nat /\ w * H \in Nat
        /\ luma <= w * H /\ w * u <= w * V
    BY <1>1, TimesMonotone
  <1>5. luma <= 2 * (w * u)
    <2>1. w * h <= w * (2 * u) /\ w * (2 * u) = 2 * (w * u)
      BY <1>1, TimesMonotone
    <2> QED  BY <2>1
  <1>6. half \in Nat /\ half <= w * u
    <2> HIDE DEF luma
    <2> QED  BY <1>4, <1>5
  <1>7. bufSize = w * H + w * V /\ FrameSize = luma + w * u
    BY <1>1, <1>2
  <1> HIDE DEF luma, half
  <1>8. CASE c = Memcpy(0, 0, luma)
    <2>1. c.to = 0 /\ c.from = 0 /\ c.len = luma
      BY <1>8 DEF Memcpy
    <2> QED  BY <1>4, <1>7, <2>1
  <1>9. CASE c = Memcpy(s * H, luma, half)
    <2>1. c.to = w * H /\ c.from = luma /\ c.len = half
      BY <1>1, <1>9 DEF Memcpy
    <2> QED  BY <1>4, <1>6, <1>7, <2>1
  <1> QED  BY <1>3, <1>8, <1>9

\* A frame that is laid out is inside.
LEMMA LaidOutInside ==
    ASSUME picture \in Pictures, LaidOut
    PROVE  \A c \in copies :
               c.to + c.len <= bufSize /\ c.from + c.len <= FrameSize
  <1>1. CASE picture.width = picture.stride /\ copies = Planes
    BY <1>1, PlanesBounds DEF LaidOut
  <1>2. CASE copies = ByLines
    BY <1>2, LineBounds DEF LaidOut
  <1> QED  BY <1>1, <1>2 DEF LaidOut

LEMMA BufSizeNat ==
    ASSUME picture \in Pictures
    PROVE  bufSize \in Nat
  <1> DEFINE s == picture.stride
             H == scanline
             V == uvScanline
  <1>1. s \in Nat /\ H \in Nat /\ V \in Nat
    BY PictureFacts
  <1>2. bufSize = s * H + s * V
    BY DEF bufSize
  <1> HIDE DEF s, H, V
  <1> QED  BY <1>1, <1>2

\* An input buffer that is overrun was too small, a compressed picture's
\* because of UsedFits.
LEMMA FilledInside ==
    ASSUME picture \in Pictures,
           \/ filled = 0
           \/ picture.format = "NV12" /\ filled = bufSize
           \/ picture.format # "NV12" /\ filled = FrameSize
    PROVE  filled > picture.size => picture.size < AssumedSize
  <1> DEFINE size == picture.size
             A == AssumedSize
  <1>1. size \in Nat
    BY RawAssumption
  <1> SUFFICES ASSUME filled > size PROVE size < A
    OBVIOUS
  <1>2. CASE filled = 0
    <2> HIDE DEF size, A
    <2> QED  BY <1>1, <1>2
  <1>3. CASE picture.format = "NV12" /\ filled = bufSize
    <2>1. A = filled
      BY <1>3 DEF AssumedSize
    <2>2. filled \in Nat
      BY <1>3, BufSizeNat
    <2> HIDE DEF size, A
    <2> QED  BY <1>1, <2>1, <2>2
  <1>4. CASE picture.format # "NV12" /\ filled = FrameSize
    <2> DEFINE F == FrameSize
    <2>1. /\ picture.format \in {"QC08C", "QC10C"}
          /\ picture.width \in Nat /\ picture.height \in Nat
      BY <1>4, PictureFacts
    <2>2. /\ F = getBufferSizeUsed(picture.format, picture.width,
                                   picture.height)
          /\ A = getBufferSize(picture.format, picture.width,
                               picture.height)
      BY <1>4 DEF FrameSize, AssumedSize
    <2> HIDE DEF F, A
    <2>3. F \in Nat /\ A \in Nat /\ F <= A
      BY <2>1, <2>2, UsedFits
    <2>4. filled = F
      BY <1>4 DEF F
    <2> HIDE DEF size
    <2> QED  BY <1>1, <2>3, <2>4
  <1> QED  BY <1>2, <1>3, <1>4

\* The bytes of a line go to the place of the line.
LEMMA LineCopied ==
    ASSUME NEW i \in Nat, NEW j \in Nat, NEW s \in Nat, NEW w \in Nat,
           NEW x \in 0 .. w - 1, Memcpy(i * s, j * w, w) \in copies,
           picture \in Pictures, LaidOut, filled = bufSize
    PROVE  Copied(i * s + x, j * w + x)
  <1> DEFINE to == i * s
             from == j * w
             c == Memcpy(to, from, w)
  <1>1. to \in Nat /\ from \in Nat /\ c \in copies
    OBVIOUS
  <1>2. c.to = to /\ c.from = from /\ c.len = w
    BY DEF Memcpy
  <1>a. c.to + c.len <= bufSize /\ bufSize \in Nat
    BY <1>1, LaidOutInside, BufSizeNat
  <1> DEFINE place == to + x
             byte == from + x
  <1> HIDE DEF to, from, c
  <1>3. /\ c.to <= place /\ place < c.to + c.len
        /\ byte = c.from + (place - c.to) /\ place < filled
    BY <1>1, <1>2, <1>a
  <1> HIDE DEF place, byte
  <1>4. \E e \in copies : e.to <= place /\ place < e.to + e.len
                          /\ byte = e.from + (place - e.to)
    BY <1>1, <1>3, Zenon
  <1>5. Copied(place, byte)
    BY <1>3, <1>4 DEF Copied
  <1> QED  BY <1>5 DEF to, from, place, byte

\* Copied by lines, a frame is where the device looks for it,
LEMMA LinesInPlace ==
    ASSUME picture \in Pictures, picture.format = "NV12", copies = ByLines,
           filled = bufSize
    PROVE  FrameInPlace
  <1> DEFINE w == picture.width
             h == picture.height
             s == picture.stride
             k == h \div 2
  <1>1. w \in Nat /\ h \in Nat /\ s \in Nat /\ scanline \in Nat /\ k \in Nat
    BY PictureFacts
  <1>a. LaidOut
    BY DEF LaidOut
  <1>2. ASSUME NEW x \in 0 .. w - 1, NEW l \in 0 .. h - 1
        PROVE  Copied(l * s + x, l * w + x)
    <2>1. Memcpy(l * s, l * w, w) \in copies
      BY DEF ByLines, Luma
    <2>2. l \in Nat
      BY <1>1
    <2> HIDE DEF w, h, s
    <2> QED  BY <1>1, <1>a, <2>1, <2>2, LineCopied
  <1>3. ASSUME NEW x \in 0 .. w - 1, NEW l \in 0 .. k - 1
        PROVE  Copied((scanline + l) * s + x, (h + l) * w + x)
    <2> DEFINE i == scanline + l
               j == h + l
    <2>1. Memcpy(i * s, j * w, w) \in copies
      BY DEF ByLines, Chroma, scanline
    <2>2. i \in Nat /\ j \in Nat
      <3> HIDE DEF h, k
      <3> QED  BY <1>1
    <2> HIDE DEF w, h, s, i, j
    <2>3. Copied(i * s + x, j * w + x)
      BY <1>1, <1>a, <2>1, <2>2, LineCopied
    <2> QED  BY <2>3 DEF i, j
  <1> QED  BY <1>2, <1>3 DEF FrameInPlace

\* and copied by planes, when the lines are spaced as in the file.
LEMMA PlanesInPlace ==
    ASSUME picture \in Pictures, picture.format = "NV12",
           picture.width = picture.stride, copies = Planes,
           filled = bufSize
    PROVE  FrameInPlace
  <1> DEFINE w == picture.width
             h == picture.height
             s == picture.stride
             k == h \div 2
             H == scanline
             luma == w * h
             half == luma \div 2
             plane0 == s * H
             c == Memcpy(0, 0, luma)
             d == Memcpy(plane0, luma, half)
  <1>1. /\ w \in Nat /\ h \in Nat /\ s = w /\ H \in Nat
        /\ k \in Nat /\ 2 * k <= h
    BY PictureFacts
  <1>2. c \in copies /\ d \in copies
    BY DEF Planes, ChromaPlane
  <1>a. c.to + c.len <= filled /\ d.to + d.len <= filled /\ filled \in Nat
    <2>1. LaidOut
      BY DEF LaidOut
    <2> QED  BY <1>2, <2>1, LaidOutInside, BufSizeNat
  <1>3. /\ c.to = 0 /\ c.from = 0 /\ c.len = luma
        /\ d.to = plane0 /\ d.from = luma /\ d.len = half
    BY DEF Memcpy
  <1> HIDE DEF k, c, d
  <1>4. luma \in Nat /\ plane0 \in Nat
    BY <1>1
  <1>5. half \in Nat /\ k * w <= half
    <2>1. w * (2 * k) <= w * h /\ w * (2 * k) = 2 * (k * w) /\ k * w \in Nat
      BY <1>1, TimesMonotone
    <2> QED  BY <1>4, <2>1
  <1>6. ASSUME NEW x \in 0 .. w - 1, NEW l \in 0 .. h - 1
        PROVE  Copied(l * s + x, l * w + x)
    <2> DEFINE n == l * w
    <2>1. n \in Nat /\ n + w <= luma
      <3>1. l \in Nat /\ l < h /\ h * w = w * h /\ w <= w
        BY <1>1
      <3> QED  BY <1>1, <3>1, LineInside
    <2> DEFINE place == n + x
    <2>2. c.to <= place /\ place < c.to + c.len
          /\ place = c.from + (place - c.to) /\ place < filled
      <3> HIDE DEF n, luma
      <3> QED  BY <1>1, <1>3, <1>4, <1>a, <2>1
    <2> HIDE DEF place
    <2>3. \E e \in copies : e.to <= place /\ place < e.to + e.len
                            /\ place = e.from + (place - e.to)
      BY <1>2, <2>2, Zenon
    <2>4. Copied(place, place)
      BY <2>2, <2>3 DEF Copied
    <2> QED  BY <1>1, <2>4 DEF place
  <1>7. ASSUME NEW x \in 0 .. w - 1, NEW l \in 0 .. k - 1
        PROVE  Copied((H + l) * s + x, (h + l) * w + x)
    <2> DEFINE n == l * w
    <2>1. n \in Nat /\ n + w <= half
      <3>1. l \in Nat /\ l < k /\ w <= w
        BY <1>1
      <3>2. n \in Nat /\ n + w <= k * w
        BY <1>1, <3>1, LineInside
      <3> QED  BY <1>5, <1>1, <3>2
    <2>2. (H + l) * s + x = plane0 + n + x /\ (h + l) * w + x = luma + n + x
      <3>1. l \in Nat
        BY <1>1
      <3>2. (H + l) * w = w * H + l * w /\ (h + l) * w = w * h + l * w
        BY <1>1, <3>1
      <3> QED  BY <1>1, <3>2
    <2> DEFINE place == plane0 + n + x
               byte == luma + n + x
    <2>3. d.to <= place /\ place < d.to + d.len
          /\ byte = d.from + (place - d.to) /\ place < filled
      <3> HIDE DEF n, luma, plane0, half
      <3> QED  BY <1>1, <1>3, <1>4, <1>5, <1>a, <2>1
    <2> HIDE DEF place, byte
    <2>4. \E e \in copies : e.to <= place /\ place < e.to + e.len
                            /\ byte = e.from + (place - e.to)
      BY <1>2, <2>3, Zenon
    <2>5. Copied(place, byte)
      BY <2>3, <2>4 DEF Copied
    <2> QED  BY <2>2, <2>5 DEF place, byte
  <1> QED  BY <1>6, <1>7 DEF FrameInPlace, k

LEMMA FinishedInPlace ==
    ASSUME picture \in Pictures, Finished
    PROVE  FrameInPlace
  BY LinesInPlace, PlanesInPlace DEF Finished, LaidOut, FrameInPlace

\* One more line of a plane.
LEMMA MoreLines ==
    ASSUME NEW p, NEW n \in Nat
    PROVE  /\ Luma(p, n + 1) =
                  Luma(p, n) \cup {Memcpy(n * p.stride, n * p.width, p.width)}
           /\ Chroma(p, n + 1) =
                  Chroma(p, n)
                      \cup {Memcpy((ALIGN(p.height, 32) + n) * p.stride,
                                   (p.height + n) * p.width, p.width)}
           /\ Luma(p, 0) = {} /\ Chroma(p, 0) = {}
  <1>1. 0 .. (n + 1) - 1 = (0 .. n - 1) \cup {n} /\ 0 .. 0 - 1 = {}
    OBVIOUS
  <1> QED  BY <1>1, Zenon DEF Luma, Chroma

\* A line is copied, and the two pointers go on to the next.
LEMMA CopyLineStep ==
    ASSUME RawInv, CopyLine
    PROVE  RawInv'
  <1> DEFINE w == picture.width
             h == picture.height
             s == picture.stride
             k == h \div 2
             H == ALIGN(h, 32)
  <1>1. /\ w \in Nat /\ h \in Nat /\ s \in Nat /\ H \in Nat /\ k \in Nat
    BY PictureFacts DEF RawInv, scanline
  <1>2. /\ picture' = picture /\ plane' = plane
        /\ line' = line + 1 /\ pData' = pData + w /\ ptarget' = ptarget + s
        /\ copies' = copies \cup {Memcpy(ptarget, pData, w)}
        /\ filled' = filled /\ plane \in {"luma", "chroma"}
    BY DEF CopyLine
  <1>3. ASSUME plane = "luma" PROVE LumaSoFar'
    <2>1. line \in Nat /\ line < h
      <3>1. line \in 0 .. h /\ line < h
        BY <1>3 DEF RawInv, LumaSoFar, CopyLine, Lines
      <3> QED  BY <1>1, <3>1
    <2>2. pData = line * w /\ ptarget = line * s
      BY <1>3 DEF RawInv, LumaSoFar
    <2>3. copies' = Luma(picture, line + 1)
      BY <1>2, <1>3, <2>1, <2>2, MoreLines DEF RawInv, LumaSoFar
    <2> HIDE DEF w, h, s
    <2>4. line + 1 \in 0 .. h /\ pData + w = (line + 1) * w
          /\ ptarget + s = (line + 1) * s
      BY <1>1, <2>1, <2>2
    <2> QED  BY <1>2, <2>3, <2>4 DEF LumaSoFar, w, h, s
  <1>4. ASSUME plane = "chroma" PROVE ChromaSoFar'
    <2>1. line \in Nat /\ line < k
      <3>1. line \in 0 .. k /\ line < k
        BY <1>4 DEF RawInv, ChromaSoFar, CopyLine, Lines
      <3> QED  BY <1>1, <3>1
    <2>2. pData = (h + line) * w /\ ptarget = (H + line) * s
      BY <1>4 DEF RawInv, ChromaSoFar
    <2>3. copies' = Luma(picture, h) \cup Chroma(picture, line + 1)
      BY <1>2, <1>4, <2>1, <2>2, MoreLines DEF RawInv, ChromaSoFar
    <2> HIDE DEF w, h, s, k, H
    <2>4. line + 1 \in 0 .. k /\ pData + w = (h + (line + 1)) * w
          /\ ptarget + s = (H + (line + 1)) * s
      <3>1. (h + (line + 1)) * w = (h + line) * w + w
            /\ (H + (line + 1)) * s = (H + line) * s + s
        BY <1>1, <2>1
      <3> QED  BY <1>1, <2>1, <2>2, <3>1
    <2> QED  BY <1>2, <2>3, <2>4 DEF ChromaSoFar, w, h, s, k, H
  <1> QED  BY <1>2, <1>3, <1>4 DEF RawInv

\* The gap takes the pointer to the chroma plane of the buffer.
LEMMA NextPlaneStep ==
    ASSUME RawInv, NextPlane
    PROVE  RawInv'
  <1> DEFINE w == picture.width
             h == picture.height
             s == picture.stride
             k == h \div 2
             H == ALIGN(h, 32)
  <1>1. /\ w \in Nat /\ h \in Nat /\ s \in Nat /\ H \in Nat /\ k \in Nat
        /\ h <= H
    BY PictureFacts DEF RawInv, scanline
  <1>2. /\ picture' = picture /\ pData' = pData /\ copies' = copies
        /\ line' = 0 /\ filled' = filled
    BY DEF NextPlane
  <1>3. CASE plane = "luma"
    <2>1. /\ plane' = "chroma" /\ line = h /\ ptarget' = ptarget + Gap
          /\ pData = h * w /\ ptarget = h * s /\ copies = Luma(picture, h)
      BY <1>3 DEF NextPlane, Lines, RawInv, LumaSoFar
    <2>2. Gap = (H - h) * s
      BY DEF Gap, scanline
    <2>3. ptarget' = (H + 0) * s /\ pData = (h + 0) * w /\ 0 \in 0 .. k
      <3> HIDE DEF w, h, s, k, H
      <3>1. (H - h) * s = H * s - h * s
        BY <1>1
      <3> QED  BY <1>1, <2>1, <2>2, <3>1
    <2>4. copies = Luma(picture, h) \cup Chroma(picture, 0)
      BY <2>1, MoreLines
    <2>5. ChromaSoFar'
      BY <1>2, <2>3, <2>4 DEF ChromaSoFar
    <2> QED  BY <1>2, <1>3, <2>1, <2>5 DEF RawInv
  <1>4. CASE plane = "chroma"
    <2>1. plane' = "whole" /\ line = k
          /\ copies = Luma(picture, h) \cup Chroma(picture, line)
      BY <1>4 DEF NextPlane, Lines, RawInv, ChromaSoFar
    <2>2. copies = ByLines /\ ByLines' = ByLines /\ picture.format = "NV12"
      BY <1>2, <1>4, <2>1 DEF ByLines, RawInv
    <2>3. LaidOut'
      BY <1>2, <2>2 DEF LaidOut
    <2> QED  BY <1>2, <1>4, <2>1, <2>3 DEF RawInv
  <1> QED  BY <1>3, <1>4 DEF NextPlane

\* The steps of fillPacketData.
LEMMA RawStep ==
    ASSUME RawInv, [RawNext]_rawVars
    PROVE  RawInv'
  <1>1. CASE ReadCompressed
    <2>1. /\ picture' = picture /\ plane' = plane /\ line' = line
          /\ copies' = copies /\ filled' = FrameSize
          /\ picture.format # "NV12" /\ plane = "none"
      BY <1>1 DEF ReadCompressed, Reading
    <2>2. CASE copies = {}
      <3>1. Finished'
        BY <2>1, <2>2 DEF Finished, FrameSize
      <3> QED  BY <2>1, <3>1 DEF RawInv
    <2> QED  BY <2>1, <2>2 DEF RawInv, Finished, LaidOut
  <1>2. CASE CopyPlanes
    <2>1. LaidOut'
      BY <1>2 DEF CopyPlanes, Reading, LaidOut, Planes, ChromaPlane, scanline
    <2> QED  BY <1>2, <2>1 DEF CopyPlanes, Reading, RawInv
  <1>3. CASE StartLines
    <2>1. picture' = picture /\ picture.format = "NV12" /\ line' = line
          /\ plane' = "luma" /\ pData' = 0 /\ ptarget' = 0 /\ copies' = {}
          /\ line = 0 /\ picture \in Pictures /\ filled' = 0
      BY <1>3 DEF StartLines, Reading, RawInv
    <2>2. /\ 0 \in 0 .. picture.height /\ 0 = 0 * picture.width
          /\ 0 = 0 * picture.stride /\ Luma(picture, 0) = {}
      BY <2>1, PictureFacts, MoreLines
    <2>3. LumaSoFar'
      BY <2>1, <2>2 DEF LumaSoFar
    <2> QED  BY <2>1, <2>3 DEF RawInv
  <1>4. CASE CopyLine
    BY <1>4, CopyLineStep
  <1>5. CASE NextPlane
    BY <1>5, NextPlaneStep
  <1>6. CASE CopyWhole
    <2>1. /\ picture' = picture /\ line' = line /\ copies' = copies
          /\ filled' = bufSize /\ plane = "whole" /\ plane' = "none"
      BY <1>6 DEF CopyWhole
    <2>2. LaidOut'
      BY <2>1
      DEF RawInv, LaidOut, Planes, ChromaPlane, scanline, ByLines
    <2>3. Finished'
      BY <2>1, <2>2 DEF Finished, bufSize, scanline, uvScanline
    <2> QED  BY <2>1, <2>3 DEF RawInv
  <1>7. CASE EndOfFile \/ UNCHANGED rawVars
    <2>1. /\ picture' = picture /\ plane' = plane /\ line' = line
          /\ pData' = pData /\ ptarget' = ptarget /\ copies' = copies
          /\ filled' = filled
      BY <1>7 DEF EndOfFile, rawVars
    <2> QED
      BY <2>1 DEF RawInv, Finished, LaidOut, LumaSoFar, ChromaSoFar, FrameSize,
                  bufSize, uvScanline, Planes, ChromaPlane, scanline, ByLines
  <1> QED
    BY <1>1, <1>2, <1>3, <1>4, <1>5, <1>6, <1>7 DEF RawNext

\* Whatever has been copied of a frame, whole or not, is inside.
LEMMA RawInside ==
    ASSUME RawInv
    PROVE  CopiesInside
  <1>a. filled > picture.size => picture.size < AssumedSize
    <2>1. \/ filled = 0
          \/ picture.format = "NV12" /\ filled = bufSize
          \/ picture.format # "NV12" /\ filled = FrameSize
      BY DEF RawInv, Finished, LaidOut
    <2> QED  BY <2>1, FilledInside DEF RawInv
  <1>1. CASE copies = {} \/ LaidOut
    BY <1>1, <1>a, LaidOutInside DEF RawInv, CopiesInside
  <1>2. CASE plane \in {"luma", "chroma"}
    <2> DEFINE h == picture.height
               k == h \div 2
    <2>1. h \in Nat /\ k \in Nat
      BY PictureFacts DEF RawInv
    <2>2. copies \subseteq ByLines
      <3>1. CASE plane = "luma"
        <4>1. line \in 0 .. h /\ copies = Luma(picture, line)
          BY <3>1 DEF RawInv, LumaSoFar
        <4>2. 0 .. line - 1 \subseteq 0 .. h - 1
          BY <2>1, <4>1
        <4> QED  BY <4>1, <4>2 DEF Luma, ByLines
      <3>2. CASE plane = "chroma"
        <4>1. line \in 0 .. k
              /\ copies = Luma(picture, h) \cup Chroma(picture, line)
          BY <3>2 DEF RawInv, ChromaSoFar
        <4>2. 0 .. line - 1 \subseteq 0 .. k - 1
          <5> HIDE DEF k
          <5> QED  BY <2>1, <4>1
        <4> QED  BY <4>1, <4>2 DEF Chroma, ByLines
      <3> QED  BY <1>2, <3>1, <3>2
    <2> QED  BY <1>2, <1>a, <2>2, LineBounds DEF CopiesInside, RawInv
  <1> QED  BY <1>1, <1>2 DEF RawInv, Finished

LEMMA RawInvAlways == MediaSpec => []RawInv
  <1>1. MediaInit => RawInv
    BY DEF MediaInit, RawInit, RawInv, Finished
  <1>2. RawInv /\ [MediaNext]_mediaVars => RawInv'
    <2> SUFFICES ASSUME RawInv, [MediaNext]_mediaVars PROVE RawInv'
      OBVIOUS
    <2>1. [RawNext]_rawVars
      BY DEF MediaNext, Decoding, Encoding, mediaVars
    <2> QED  BY <2>1, RawStep
  <1> QED  BY <1>1, <1>2, PTL DEF MediaSpec

\* FFYUVParser::fillPacketData reads no byte from outside the frame and writes
\* none outside pbuf, whatever the size, the stride and the format of the
\* picture and after any number of its lines; and whatever sizeimage the device
\* has given, the frame goes beyond the input buffer only of a device that has
\* not room for the planes of NV12 or for the two fields of a picture.
THEOREM CopiesStayInside == MediaSpec => []CopiesInside
  <1>1. RawInv => CopiesInside
    BY RawInside
  <1> QED  BY <1>1, RawInvAlways, PTL

\* Every line of a frame of NV12 that has been filled in is where the device
\* looks for it, whether it came by lines or by planes.
THEOREM FramesInPlace == MediaSpec => []FrameInPlace
  <1>1. RawInv => FrameInPlace
    <2> SUFFICES ASSUME RawInv, plane = "none" PROVE FrameInPlace
      BY DEF FrameInPlace
    <2> QED  BY FinishedInPlace DEF RawInv
  <1> QED  BY <1>1, RawInvAlways, PTL
=============================================================================
