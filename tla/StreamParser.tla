---------------------------- MODULE StreamParser ----------------------------
(***************************************************************************)
(* FFStreamParser (src/FFStreamParser.cpp): the packets of a stream, one   *)
(* after the other, and seeking in it.                                     *)
(*                                                                         *)
(* A stream is raw video or a container, and a sequence of packets: a      *)
(* "frame" of the video, or one that getNextPacket refuses: a packet of    *)
(* another stream, or one the bitstream filter does not take.  The filters *)
(* make one packet of one packet, so mBsfDataPending is always clear when  *)
(* a new packet is asked for but for a receive that gives EAGAIN.          *)
(* Positions stand for the bytes and times FFmpeg is given.                *)
(***************************************************************************)
EXTENDS Integers, Sequences, FiniteSets

CONSTANTS
    Streams,      \* the streams there may be: records [raw, packets]
    MaxSeekFrame  \* the last frame whose time seekToFrame can compute in int

ASSUME StreamAssumption ==
    /\ Streams \subseteq
           [raw : BOOLEAN, packets : Seq({"frame", "other", "refused"})]
    /\ MaxSeekFrame \in Nat

VARIABLES
    stream,
    position,       \* packets read
    mPktPosition,   \* the frames loopPackets has found
    mTotalFrameCnt

parserVars == <<stream, position, mPktPosition, mTotalFrameCnt>>

ParserTypeOK ==
    /\ stream \in Streams
    /\ position \in 0 .. Len(stream.packets)
    /\ mPktPosition \subseteq 0 .. Len(stream.packets) - 1
    /\ mTotalFrameCnt \in 0 .. Len(stream.packets)

FirstRefused(s) ==
    CHOOSE n \in 0 .. Len(s.packets) :
        /\ \A i \in 1 .. n : s.packets[i] = "frame"
        /\ n < Len(s.packets) => s.packets[n + 1] # "frame"

\* loopPackets: raw video is read up to the first packet that is refused, and
\* rewound if there is a frame before it; a container is not looked at.
ParserInit ==
    /\ stream \in Streams
    /\ LET found == IF stream.raw THEN FirstRefused(stream) ELSE 0 IN
       /\ mPktPosition = 0 .. found - 1
       /\ mTotalFrameCnt = found
       /\ position = IF stream.raw /\ found = 0 /\ stream.packets # <<>>
                     THEN 1 ELSE 0

-----------------------------------------------------------------------------
\* getNextPacket and fillPacketData.

AtEnd == position = Len(stream.packets)

\* Mutant: the end is not noticed.
ReadPastEnd ==
    /\ position' = position + 1
    /\ UNCHANGED <<stream, mPktPosition, mTotalFrameCnt>>

\* A packet that is refused is an empty one, and no error.
PacketRead ==
    /\ position' = IF AtEnd THEN position ELSE position + 1
    /\ UNCHANGED <<stream, mPktPosition, mTotalFrameCnt>>

-----------------------------------------------------------------------------
\* seekToFrame

\* The packet with frame f of the video.
PacketOf(f) ==
    CHOOSE n \in 0 .. Len(stream.packets) - 1 :
        /\ stream.packets[n + 1] = "frame"
        /\ Cardinality({i \in 1 .. n : stream.packets[i] = "frame"}) = f

FramesIn(s) == Cardinality({i \in DOMAIN s.packets : s.packets[i] = "frame"})

\* A place FFmpeg can be sent to: raw video by the byte loopPackets has noted,
\* a container by the time of the frame.
Reachable(f) ==
    IF stream.raw THEN f \in mPktPosition
    ELSE f \in 0 .. FramesIn(stream) - 1 /\ f <= MaxSeekFrame

\* The time of a frame beyond MaxSeekFrame overflows, and FFmpeg is sent
\* anywhere; so it may be for a time before or after the stream.
Astray(f) == ~stream.raw /\ ~Reachable(f)

SeekTo(f) ==
    /\ Reachable(f)
    /\ position' = PacketOf(f)
    /\ UNCHANGED <<stream, mPktPosition, mTotalFrameCnt>>

SeekAstray(f) ==
    /\ Astray(f)
    /\ position' \in 0 .. Len(stream.packets)
    /\ UNCHANGED <<stream, mPktPosition, mTotalFrameCnt>>

SeekFails == UNCHANGED parserVars
=============================================================================
