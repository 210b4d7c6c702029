--------------------------- MODULE StaticControls ---------------------------
(***************************************************************************)
(* The static controls of an encoding test case: populateStaticConfigs,    *)
(* fillCfgCtrls and setStaticControls (src/V4l2Codec.cpp), and of          *)
(* queryControlsAVC/HEVC (src/V4l2Encoder.cpp) what they do to the list.   *)
(* Whether the device has the level asked for they find out as well, but   *)
(* nobody looks at what they return.                                       *)
(*                                                                         *)
(* A control of the file is a record: its id, without the name of the      *)
(* codec; "listed", the codec's tables have the id; and its value, which   *)
(* is Unlisted for a string that is in no table.                           *)
(***************************************************************************)
EXTENDS Integers, Sequences

CONSTANT StaticControlLists  \* of test cases: records [codec, controls]

Unlisted == -1

\* No table has the mode for skipped frames.
ASSUME StaticAssumption ==
    \A list \in StaticControlLists :
        /\ list.controls \in Seq(
               [id : STRING, listed : BOOLEAN, value : {Unlisted} \cup Nat])
        /\ \A i \in DOMAIN list.controls :
               list.controls[i].listed
                   => list.controls[i].id # "FRAME_SKIP_MODE"

VARIABLES
    setup,            \* "populate", "query", "set" or "done"
    staticControls,   \* those of the test case
    eventConfig,      \* and those of them that are left to populate
    known,            \* which of Level and Tier the device has
    mStaticControls,
    controlsSet       \* the controls the device has taken

staticVars == <<setup, staticControls, eventConfig, known, mStaticControls,
                controlsSet>>

StaticInit ==
    /\ setup = "populate"
    /\ staticControls \in StaticControlLists
    /\ eventConfig = staticControls.controls
    /\ known \in SUBSET {"Level", "Tier"}
    /\ mStaticControls = <<>>
    /\ controlsSet = <<>>

-----------------------------------------------------------------------------
\* populateStaticConfigs

\* The key of an id or string that no table has is added with 0.
fillCfgCtrls(control) ==
    [id    |-> IF control.listed THEN control.id ELSE "0",
     value |-> IF control.value = Unlisted THEN 0 ELSE control.value]

FrameSkipDisabled == [id |-> "FRAME_SKIP_MODE", value |-> 0]

PopulateControl ==
    /\ setup = "populate"
    /\ eventConfig # <<>>
    /\ LET control == fillCfgCtrls(Head(eventConfig))
           alone == Head(eventConfig).id # "FrameRC" \/ control.value = 0
       IN mStaticControls' = mStaticControls \o
              IF alone THEN <<control>> ELSE <<control, FrameSkipDisabled>>
    /\ eventConfig' = Tail(eventConfig)
    /\ UNCHANGED <<setup, staticControls, known, controlsSet>>

Saw(id) == \E i \in DOMAIN staticControls.controls :
               staticControls.controls[i].id = id

\* remove_if: the controls of a list that have none of some ids.
Without(list, ids) ==
    LET left[i \in 0 .. Len(list)] ==
            IF i = 0 THEN <<>>
            ELSE IF list[i].id \in ids THEN left[i - 1]
            ELSE Append(left[i - 1], list[i])
    IN left[Len(list)]

\* The Level is asked for once the Tier is known.
queryControlsHEVC ==
    IF "Tier" \notin known THEN Without(mStaticControls, {"Tier"})
    ELSE IF "Level" \notin known THEN Without(mStaticControls, {"Level"})
    ELSE mStaticControls

queryControlsAVC ==
    IF "Level" \notin known THEN Without(mStaticControls, {"Level"})
    ELSE mStaticControls

QueryControls ==
    /\ setup = "populate"
    /\ eventConfig = <<>>
    /\ setup' = "set"
    /\ mStaticControls' =
           IF staticControls.codec = "AVC" /\ Saw("Level")
           THEN queryControlsAVC
           ELSE IF staticControls.codec = "HEVC" /\ Saw("Level") /\ Saw("Tier")
           THEN queryControlsHEVC
           ELSE mStaticControls
    /\ UNCHANGED <<staticControls, eventConfig, known, controlsSet>>

-----------------------------------------------------------------------------
\* setStaticControls

\* No device has a control 0, or one it cannot be asked about.
Takeable(control) ==
    /\ control.id # "0"
    /\ control.id \in {"Level", "Tier"} => control.id \in known

\* Mutant: the control that is refused is passed over.
PassOver ==
    /\ setup = "set"
    /\ mStaticControls # <<>>
    /\ mStaticControls' = Tail(mStaticControls)
    /\ UNCHANGED <<setup, staticControls, eventConfig, known, controlsSet>>

\* The device refuses a control, for its value or for any other reason; the
\* session goes on without it and those behind it.
ControlRefused ==
    /\ setup = "set"
    /\ mStaticControls # <<>>
    /\ setup' = "done"
    /\ UNCHANGED <<staticControls, eventConfig, known, mStaticControls,
                   controlsSet>>

SetControl ==
    /\ setup = "set"
    /\ mStaticControls # <<>>
    /\ Takeable(Head(mStaticControls))
    /\ controlsSet' = Append(controlsSet, Head(mStaticControls))
    /\ mStaticControls' = Tail(mStaticControls)
    /\ UNCHANGED <<setup, staticControls, eventConfig, known>>

ControlsSet ==
    /\ setup = "set"
    /\ mStaticControls = <<>>
    /\ setup' = "done"
    /\ UNCHANGED <<staticControls, eventConfig, known, mStaticControls,
                   controlsSet>>

StaticNext ==
    \/ PopulateControl \/ QueryControls
    \/ SetControl \/ ControlRefused \/ ControlsSet

-----------------------------------------------------------------------------
\* FrameRC switched on; the mode for skipped frames goes with it, and with a
\* FrameRC of another name, which is added as control 0.
FrameRCOn(control) == control.id = "FrameRC" /\ control.value # 0
PerhapsFrameRC(control) ==
    control.id \in {"FrameRC", "0"} /\ control.value # 0

\* What the device has taken and what is left for it are the controls of the
\* test case in their order, each once: none is passed over when the device
\* refuses one, none is lost but a Level or Tier the device cannot be asked
\* about, and the mode for skipped frames comes with FrameRC and never without.
StaticsInOrder ==
    setup \in {"set", "done"} =>
        LET all == controlsSet \o mStaticControls
            asked == [i \in DOMAIN staticControls.controls |->
                          fillCfgCtrls(staticControls.controls[i])]
        IN
        /\ \E lost \in SUBSET ({"Level", "Tier"} \ known) :
               Without(all, {"FRAME_SKIP_MODE"}) = Without(asked, lost)
        /\ \A i \in DOMAIN all :
               /\ all[i].id = "FRAME_SKIP_MODE" =>
                      /\ all[i] = FrameSkipDisabled
                      /\ i > 1 /\ PerhapsFrameRC(all[i - 1])
               /\ FrameRCOn(all[i]) =>
                      i < Len(all) /\ all[i + 1] = FrameSkipDisabled
=============================================================================
