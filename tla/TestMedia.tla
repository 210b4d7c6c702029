----------------------------- MODULE TestMedia -----------------------------
(***************************************************************************)
(* What a test case reads: a Decoder test case a stream, with seeks in it, *)
(* an Encoder test case raw frames, after its static controls have been    *)
(* set (TestingDecoder and TestingEncoder of IrisTestApp.cpp).  What the   *)
(* Domain does not use has any one value and is not touched.               *)
(***************************************************************************)
EXTENDS SeekCommands, RawFrames, StaticControls

VARIABLE Domain

mediaVars == <<Domain, vars, rawVars, staticVars>>

MediaInit ==
    /\ Domain \in {"Decoder", "Encoder"}
    /\ Domain = "Encoder" =>
           /\ stream = CHOOSE s \in Streams : TRUE
           /\ commands = CHOOSE list \in CommandLists : TRUE
    /\ SeekInit
    /\ Domain = "Decoder" => picture = CHOOSE p \in Pictures : TRUE
    /\ RawInit
    /\ Domain = "Decoder" =>
           /\ staticControls = CHOOSE list \in StaticControlLists : TRUE
           /\ known = {}
    /\ StaticInit

Decoding(Step) ==
    Domain = "Decoder" /\ Step /\ UNCHANGED <<Domain, rawVars, staticVars>>

Encoding(Step) == Domain = "Encoder" /\ Step /\ UNCHANGED <<Domain, vars>>

MediaNext ==
    \/ Decoding(SeekNext)
    \/ Encoding(StaticNext /\ UNCHANGED rawVars)
    \/ Encoding(setup = "done" /\ RawNext /\ UNCHANGED staticVars)

\* The loop goes on, and a drain that is not taken back comes to its end.
MediaSpec ==
    /\ MediaInit /\ [][MediaNext]_mediaVars
    /\ WF_mediaVars(Decoding(Turn))
    /\ WF_mediaVars(Decoding(LastBufferDone))

\* A session with seeks ends: whatever they jump over or repeat, the end of
\* the stream or NumFrames is reached and its drain is not taken back, as long
\* as no command is for a frame beyond the end and no seek goes wrong.
SeeksEnd == Domain = "Decoder" /\ WithinStream ~> (Ended \/ ~onTrack)
=============================================================================
