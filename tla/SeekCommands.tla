---------------------------- MODULE SeekCommands ----------------------------
(***************************************************************************)
(* The seeks of a decoding session: setDynamicCommands (src/V4l2Codec.cpp) *)
(* and, in the loop of V4l2Decoder::queueBuffers, handleRandomSeekIfNeeded *)
(* and handleSeekIfNeeded (src/V4l2Decoder.cpp), over the stream they move *)
(* in.  V4l2Decoder has one kind of seek, with the device and its buffers; *)
(* here are all the commands, the two maps they go through and the number  *)
(* -1, which stands for "no seek" and is what a failed random seek makes   *)
(* of frameCounter.  Of the device there is left whether a call fails,     *)
(* whether an input buffer is free, when the first reconfiguration is seen *)
(* and whether a drain comes to its end; the output port is taken to have  *)
(* started before the last packet, so no drain is postponed.               *)
(***************************************************************************)
EXTENDS StreamParser, FiniteSetsExt

CONSTANTS
    CommandLists,  \* the sets of commands there may be:
                   \* records [id, fnum, to, string]
    MaxFrameCnt,   \* NumFrames
    MaxRetry       \* waits for an input buffer, 100 in the code

\* Of each kind there is one command for a frame.
ASSUME SeekAssumption ==
    /\ MaxFrameCnt \in Nat /\ MaxRetry \in Nat
    /\ \A list \in CommandLists :
           /\ \A c \in list : c.fnum \in Nat /\ c.to \in Int
           /\ \A c \in list : c.string \in BOOLEAN
           /\ \A c \in list : c.id \in {"PauseUSec", "IDRSeek", "RandomSeek"}
           /\ \A c, d \in list : c.fnum = d.fnum /\ c.id = d.id => c = d

VARIABLES
    pc,
    frameCounter,
    retry_count,
    commands,          \* the commands of the test case
    mDynamicCommands,  \* those of them still to come
    mIDRSeek, mRandomSeek,
    firstReconfig,     \* isFirstReconfigReceived
    drain,             \* the drain of the device: "none", "sent", "last" when
                       \* its LAST buffer has come, "lost" if it never will
    onTrack,           \* history: every packet is a frame and no seek has
                       \* failed or gone astray
    unasked            \* history: a seek was made for no command

loopVars == <<frameCounter, retry_count, mDynamicCommands, mIDRSeek,
              mRandomSeek, firstReconfig, drain>>
seekVars == <<pc, commands, loopVars, onTrack, unasked>>
vars == <<seekVars, parserVars>>

Ended == pc \in {"returned", "failed", "terminated"}

TypeOK ==
    /\ ParserTypeOK
    /\ pc \in {"turn", "random", "idr", "feed", "returned", "failed",
               "terminated"}
    /\ frameCounter \in Int
    /\ retry_count \in 0 .. MaxRetry
    /\ mDynamicCommands \subseteq commands
    /\ \A map \in {mIDRSeek, mRandomSeek} :
           DOMAIN map \subseteq {c.fnum : c \in commands \ mDynamicCommands}
    /\ firstReconfig \in BOOLEAN
    /\ drain \in {"none", "sent", "last", "lost"}
    /\ onTrack \in BOOLEAN
    /\ unasked \in BOOLEAN

SeekInit ==
    /\ ParserInit
    /\ pc = "turn"
    /\ frameCounter = 0
    /\ retry_count = 0
    /\ commands \in CommandLists
    /\ mDynamicCommands = commands
    /\ mIDRSeek = <<>>
    /\ mRandomSeek = <<>>
    /\ firstReconfig = FALSE
    /\ drain = "none"
    /\ onTrack = (\A i \in DOMAIN stream.packets : stream.packets[i] = "frame")
    /\ unasked = FALSE

-----------------------------------------------------------------------------
\* setDynamicCommands and updateSeekInfo.

Due == {c \in mDynamicCommands : c.fnum = frameCounter}

\* mMap[cmd->fnum] = stoi(cmd->value)
Noted(map, id) ==
    LET new == {c \in Due : c.id = id} IN
    [f \in DOMAIN map \cup {c.fnum : c \in new} |->
        IF \E c \in new : c.fnum = f THEN (CHOOSE c \in new : TRUE).to
        ELSE map[f]]

\* A value of Vtype Int leaves the string empty, and stoi throws.
SetDynamicCommands ==
    /\ pc = "turn"
    /\ pc' = IF \A c \in Due : c.string THEN "random" ELSE "terminated"
    /\ mIDRSeek' = Noted(mIDRSeek, "IDRSeek")
    /\ mRandomSeek' = Noted(mRandomSeek, "RandomSeek")
    /\ mDynamicCommands' = mDynamicCommands \ Due
    /\ UNCHANGED <<frameCounter, retry_count, commands, firstReconfig>>
    /\ UNCHANGED <<drain, onTrack, unasked, parserVars>>

\* begin()->first and begin()->second, or -1.
From(map) == IF map = <<>> THEN -1 ELSE Min(DOMAIN map)
To(map) == IF map = <<>> THEN -1 ELSE map[From(map)]

\* Mutant: the entry stays.
EraseNone(map) == map

EraseFirst(map) ==
    IF map = <<>> THEN map
    ELSE [f \in DOMAIN map \ {From(map)} |-> map[f]]

\* The loop ends for an error the device has told of.
ErrorReceived ==
    /\ pc = "turn"
    /\ pc' = "returned"
    /\ UNCHANGED <<commands, loopVars, onTrack, unasked, parserVars>>

-----------------------------------------------------------------------------
\* handleRandomSeekIfNeeded and handleSeekIfNeeded.

NotNow(at, from, next) ==
    /\ pc = at
    /\ frameCounter # from
    /\ pc' = next
    /\ UNCHANGED <<commands, loopVars, onTrack, unasked, parserVars>>

\* The first reconfiguration, which both wait for, comes too late.
TooEarly(at, from) ==
    /\ pc = at
    /\ frameCounter = from
    /\ ~firstReconfig
    /\ pc' = "failed"
    /\ UNCHANGED <<commands, loopVars, onTrack, unasked, parserVars>>

\* stopInput takes a drain that is under way with it.
InputRestarted == drain' = IF drain = "sent" THEN "lost" ELSE drain

\* Mutant: the frame the seek is asked for is not looked at.
SeekAtAnyFrame(at, map, next) ==
    /\ pc = at
    /\ firstReconfig
    /\ pc' = next
    /\ unasked' = (unasked \/ map = <<>>)
    /\ UNCHANGED <<retry_count, commands, mDynamicCommands, firstReconfig>>

\* A seek for the first entry of map, or for none.
Seek(at, map, next) ==
    /\ pc = at
    /\ frameCounter = From(map)
    /\ firstReconfig
    /\ pc' = next
    /\ unasked' = (unasked \/ map = <<>>)
    /\ UNCHANGED <<retry_count, commands, mDynamicCommands, firstReconfig>>

RandomSeekRestartFails ==
    /\ Seek("random", mRandomSeek, "failed")
    /\ UNCHANGED <<frameCounter, mIDRSeek, mRandomSeek, onTrack, parserVars>>
    /\ InputRestarted \/ UNCHANGED drain

\* rand() % mTotalFrameCnt is a division by zero: it ends the process or, as
\* the division of ARM gives 0, leaves rand() itself.
RandomSeekOfNoFrames ==
    /\ mTotalFrameCnt = 0
    /\ InputRestarted
    /\ \/ /\ Seek("random", mRandomSeek, "terminated")
          /\ UNCHANGED <<frameCounter, mRandomSeek, onTrack, parserVars>>
       \/ /\ Seek("random", mRandomSeek, "idr")
          /\ \/ \E f \in 0 .. MaxFrameCnt + 1 :
                    (SeekTo(f) \/ SeekAstray(f)) /\ frameCounter' = f
             \/ SeekFails /\ frameCounter' = -1
          /\ onTrack' = FALSE
          /\ mRandomSeek' = EraseFirst(mRandomSeek)
    /\ UNCHANGED mIDRSeek

\* A seek that fails makes frameCounter -1.
RandomSeek ==
    /\ mTotalFrameCnt > 0
    /\ Seek("random", mRandomSeek, "idr")
    /\ \/ \E f \in 0 .. mTotalFrameCnt - 1 :
              SeekTo(f) /\ frameCounter' = f /\ UNCHANGED onTrack
       \/ SeekFails /\ frameCounter' = -1 /\ onTrack' = FALSE
    /\ InputRestarted
    /\ mRandomSeek' = EraseFirst(mRandomSeek)
    /\ UNCHANGED mIDRSeek

\* Mutant: frameCounter is left where it was.
CounterStays(f) == frameCounter' = frameCounter

CounterAt(f) == frameCounter' = f

\* Whether handleSeek has failed, and where, nobody looks at.
IDRSeek ==
    /\ Seek("idr", mIDRSeek, "feed")
    /\ \/ InputRestarted /\ SeekTo(To(mIDRSeek)) /\ UNCHANGED onTrack
       \/ InputRestarted /\ SeekAstray(To(mIDRSeek)) /\ onTrack' = FALSE
       \/ /\ InputRestarted \/ UNCHANGED drain
          /\ SeekFails
          /\ onTrack' = FALSE
    /\ CounterAt(To(mIDRSeek))
    /\ mIDRSeek' = EraseFirst(mIDRSeek)
    /\ UNCHANGED mRandomSeek

-----------------------------------------------------------------------------
\* The rest of a turn of queueBuffers.

FeedKeeps ==
    UNCHANGED <<commands, mDynamicCommands, mIDRSeek, mRandomSeek,
                firstReconfig, onTrack, unasked>>

\* A drain has been sent: its LAST buffer is waited for, and the decoder
\* started again.
Draining ==
    /\ pc = "feed"
    /\ drain # "none"
    /\ pc' \in IF drain = "last" THEN {"returned", "failed"} ELSE {"turn"}
    /\ UNCHANGED <<frameCounter, retry_count, drain, parserVars>>
    /\ FeedKeeps

\* No input buffer is free, or all of them are lost.
NoInput ==
    /\ pc = "feed"
    /\ drain = "none"
    /\ \/ /\ retry_count < MaxRetry
          /\ retry_count' = retry_count + 1
          /\ pc' = "turn"
       \/ pc' = "failed" /\ UNCHANGED retry_count
    /\ UNCHANGED <<frameCounter, drain, parserVars>>
    /\ FeedKeeps

\* prepareAndQueueInputBuffer: isEndReached is asked of the frame being fed.
\* The buffer or the drain may not be taken.
FeedFrame ==
    /\ pc = "feed"
    /\ drain = "none"
    /\ PacketRead
    /\ drain' = IF AtEnd \/ frameCounter >= MaxFrameCnt THEN "sent" ELSE "none"
    /\ frameCounter' = frameCounter + 1
    /\ retry_count' = 0
    /\ pc' \in {"turn", "failed"}
    /\ FeedKeeps

-----------------------------------------------------------------------------
\* The device and the poll thread.

FirstReconfig ==
    /\ ~firstReconfig /\ ~Ended
    /\ frameCounter > 0
    /\ firstReconfig' = TRUE
    /\ UNCHANGED <<pc, frameCounter, retry_count, commands, mDynamicCommands,
                   mIDRSeek, mRandomSeek, drain, onTrack, unasked, parserVars>>

LastBufferDone ==
    /\ drain = "sent" /\ ~Ended
    /\ drain' = "last"
    /\ UNCHANGED <<pc, frameCounter, retry_count, commands, mDynamicCommands,
                   mIDRSeek, mRandomSeek, firstReconfig, onTrack, unasked,
                   parserVars>>

Turn ==
    \/ SetDynamicCommands \/ ErrorReceived
    \/ NotNow("random", From(mRandomSeek), "idr")
    \/ TooEarly("random", From(mRandomSeek))
    \/ RandomSeekRestartFails \/ RandomSeekOfNoFrames \/ RandomSeek
    \/ NotNow("idr", From(mIDRSeek), "feed")
    \/ TooEarly("idr", From(mIDRSeek))
    \/ IDRSeek
    \/ Draining \/ NoInput \/ FeedFrame

SeekNext ==
    \/ Turn \/ FirstReconfig \/ LastBufferDone
    \/ Ended /\ UNCHANGED vars

-----------------------------------------------------------------------------
\* frameCounter, which the commands and NumFrames are compared with, is the
\* number of the frame that is read next: through seeks forward, backward and
\* at random, as long as no seek fails and the stream has no packet that is
\* refused (then loops and seeks count what is not a frame).
InStep == onTrack /\ drain = "none" => frameCounter = position

SharedFrame ==
    \E c, d \in commands :
        c.id = "IDRSeek" /\ d.id = "RandomSeek" /\ c.fnum = d.fnum

\* A seek is made before the frame it is asked for is fed: at that point no
\* entry is left in either map to come up at a later frame.  It is not so for
\* an IDRSeek that shares its frame with a RandomSeek: frameCounter has moved
\* when handleSeekIfNeeded looks, the entry stays, and hides those after it.
NoSeekForgotten ==
    pc = "feed" /\ ~SharedFrame => mIDRSeek = <<>> /\ mRandomSeek = <<>>

\* -1 is no frame: the loop never takes the seek of an empty map for one that
\* is due, unless a seek has failed (a failed random seek does make
\* frameCounter -1, and the IDR seek to frame -1 follows it).
NoSeekUnasked == onTrack => ~unasked

\* The commands of which the stream has the frame.
WithinStream ==
    \A c \in commands : c.fnum <= Min({FramesIn(stream), MaxFrameCnt})
=============================================================================
