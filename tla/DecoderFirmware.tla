--------------------------- MODULE DecoderFirmware ---------------------------
(***************************************************************************)
(* A stateful V4L2 decoder behind the two queues of V4l2Device.  EXTERNAL: *)
(* modelled from what src/V4l2Decoder.cpp expects of it -- a source-change *)
(* event once the header is parsed and before OUTPUT_PORT is started, one  *)
(* decoded frame per input buffer, V4L2_BUF_FLAG_LAST on the last buffer   *)
(* before a resolution change and on the last buffer of a drain, and       *)
(* V4L2_DEC_CMD_START or a restart of OUTPUT_PORT to go on.                *)
(***************************************************************************)
EXTENDS V4l2Device

CONSTANTS
    MaxHeld,      \* how many frames the device holds between its queues
    MaxChanges,   \* bound on the resolution changes in the middle of a stream
    DeviceErrors  \* whether the device may fail

ASSUME FirmwareAssumption ==
    MaxHeld \in Nat \ {0} /\ MaxChanges \in Nat /\ DeviceErrors \in BOOLEAN

VARIABLES
    phase,     \* what the decoder is doing, see Phase
    draining,  \* V4L2_DEC_CMD_STOP received and the drain not finished
    held,      \* frames consumed and not delivered yet
    changes    \* resolution changes so far

firmwareVars == <<phase, draining, held, changes>>

\* "header": waiting for a header; "ready": header parsed, OUTPUT_PORT not
\* started; "run": decoding; "flush": delivering what precedes a resolution
\* change; "stopped": after a LAST buffer, until it is told to go on.
Phase == {"header", "ready", "run", "flush", "stopped"}

FirmwareTypeOK ==
    /\ phase \in Phase
    /\ draining \in BOOLEAN
    /\ held \in Nat
    /\ changes \in Nat

FirmwareInit ==
    /\ phase = "header"
    /\ draining = FALSE
    /\ held = 0
    /\ changes = 0

-----------------------------------------------------------------------------
\* How the decoder reacts to the program's ioctls.

FirmwareStreamOn(p) ==
    /\ phase' = IF p = OUTPUT_PORT /\ phase \in {"ready", "stopped"}
                THEN "run" ELSE phase
    /\ UNCHANGED <<draining, held, changes>>

\* Stopping OUTPUT_PORT drops the decoded frames; stopping INPUT_PORT may
\* drop them, and cancels a drain.
FirmwareStreamOff(p) ==
    /\ held' \in IF p = OUTPUT_PORT THEN {0} ELSE {0, held}
    /\ draining' = (draining /\ p = OUTPUT_PORT)
    /\ UNCHANGED <<phase, changes>>

FirmwareCmdStart ==
    /\ phase' = IF phase = "stopped" THEN "run" ELSE phase
    /\ UNCHANGED <<draining, held, changes>>

FirmwareCmdStop ==
    /\ draining' = TRUE
    /\ UNCHANGED <<phase, held, changes>>

-----------------------------------------------------------------------------
\* What the decoder does on its own.

ParseHeader ==
    /\ ~broken
    /\ phase = "header"
    /\ streaming[INPUT_PORT] /\ queued[INPUT_PORT] # {}
    /\ phase' = "ready"
    /\ events' = events + 1
    /\ UNCHANGED <<requested, streaming, queued, done, broken>>
    /\ UNCHANGED <<draining, held, changes>>

ConsumeInput ==
    /\ ~broken
    /\ phase = "run"
    /\ streaming[INPUT_PORT]
    /\ held < MaxHeld
    /\ \E b \in queued[INPUT_PORT] : Complete(INPUT_PORT, b, FALSE, FALSE)
    /\ held' = held + 1
    /\ UNCHANGED <<requested, streaming, events, broken>>
    /\ UNCHANGED <<phase, draining, changes>>

\* The next input buffer starts a sequence of another resolution.
ChangeResolution ==
    /\ ~broken
    /\ phase = "run"
    /\ changes < MaxChanges
    /\ streaming[INPUT_PORT] /\ queued[INPUT_PORT] # {}
    /\ phase' = "flush"
    /\ events' = events + 1
    /\ changes' = changes + 1
    /\ UNCHANGED <<requested, streaming, queued, done, broken>>
    /\ UNCHANGED <<draining, held>>

\* Nothing will follow the frames held: the next buffer delivered, or an
\* empty one, carries the LAST flag.
LastIsDue ==
    \/ phase = "flush"
    \/ phase = "run" /\ draining /\ queued[INPUT_PORT] = {}

\* A LAST buffer stops the decoder and ends a drain, not a resolution change.
StopAfterLast ==
    /\ phase' = "stopped"
    /\ draining' = (draining /\ phase = "flush")

ProduceFrame ==
    /\ ~broken
    /\ phase \in {"run", "flush"}
    /\ streaming[OUTPUT_PORT]
    /\ held > 0
    /\ \E b \in queued[OUTPUT_PORT], last \in BOOLEAN :
        /\ Complete(OUTPUT_PORT, b, TRUE, last)
        /\ \/ last /\ LastIsDue /\ held = 1 /\ StopAfterLast
           \/ ~last /\ UNCHANGED <<phase, draining>>
    /\ held' = held - 1
    /\ UNCHANGED <<requested, streaming, events, broken>>
    /\ UNCHANGED changes

ProduceEmptyLast ==
    /\ ~broken
    /\ LastIsDue
    /\ held = 0
    /\ streaming[OUTPUT_PORT]
    /\ \E b \in queued[OUTPUT_PORT] : Complete(OUTPUT_PORT, b, FALSE, TRUE)
    /\ StopAfterLast
    /\ UNCHANGED <<requested, streaming, events, broken>>
    /\ UNCHANGED <<held, changes>>

Break ==
    /\ DeviceErrors
    /\ ~broken
    /\ broken' = TRUE
    /\ UNCHANGED <<requested, streaming, queued, done, events>>
    /\ UNCHANGED firmwareVars
=============================================================================
