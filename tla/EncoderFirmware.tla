--------------------------- MODULE EncoderFirmware ---------------------------
(***************************************************************************)
(* A stateful V4L2 encoder behind the two queues of V4l2Device.  EXTERNAL: *)
(* modelled from what src/V4l2Encoder.cpp expects of it -- it consumes raw *)
(* frames from INPUT_PORT while both ports stream, delivers one buffer of  *)
(* bitstream for each on OUTPUT_PORT, sets V4L2_BUF_FLAG_LAST on the last  *)
(* one of a drain and then waits for V4L2_ENC_CMD_START.  It reports no    *)
(* events: the encoder subscribes to none.                                 *)
(***************************************************************************)
EXTENDS V4l2Device

CONSTANTS
    MaxHeld,      \* how many frames the device holds between its queues
    DeviceErrors  \* whether the device may fail

ASSUME FirmwareAssumption == MaxHeld \in Nat \ {0} /\ DeviceErrors \in BOOLEAN

VARIABLES
    draining,  \* V4L2_ENC_CMD_STOP received and the drain not finished
    stopped,   \* after a LAST buffer, until V4L2_ENC_CMD_START
    held       \* frames consumed and not delivered yet

firmwareVars == <<draining, stopped, held>>

FirmwareTypeOK ==
    /\ draining \in BOOLEAN
    /\ stopped \in BOOLEAN
    /\ held \in Nat

FirmwareInit ==
    /\ draining = FALSE
    /\ stopped = FALSE
    /\ held = 0

-----------------------------------------------------------------------------
\* How the encoder reacts to the program's ioctls.

\* Stopping OUTPUT_PORT drops the encoded frames; stopping INPUT_PORT may drop
\* them, and cancels a drain.
FirmwareStreamOff(p) ==
    /\ held' \in IF p = OUTPUT_PORT THEN {0} ELSE {0, held}
    /\ draining' = (draining /\ p = OUTPUT_PORT)
    /\ UNCHANGED stopped

FirmwareCmdStart ==
    /\ stopped' = FALSE
    /\ UNCHANGED <<draining, held>>

FirmwareCmdStop ==
    /\ draining' = TRUE
    /\ UNCHANGED <<stopped, held>>

-----------------------------------------------------------------------------
\* What the encoder does on its own.

Encoding ==
    /\ ~broken /\ ~stopped
    /\ streaming[INPUT_PORT] /\ streaming[OUTPUT_PORT]

ConsumeFrame ==
    /\ Encoding
    /\ held < MaxHeld
    /\ \E b \in queued[INPUT_PORT] : Complete(INPUT_PORT, b, FALSE, FALSE)
    /\ held' = held + 1
    /\ UNCHANGED <<requested, streaming, events, broken>>
    /\ UNCHANGED <<draining, stopped>>

\* Nothing will follow the frames held.
LastIsDue == draining /\ queued[INPUT_PORT] = {}

EndDrain ==
    /\ stopped' = TRUE
    /\ draining' = FALSE

ProduceFrame ==
    /\ Encoding
    /\ held > 0
    /\ \E b \in queued[OUTPUT_PORT], last \in BOOLEAN :
        /\ Complete(OUTPUT_PORT, b, TRUE, last)
        /\ \/ last /\ LastIsDue /\ held = 1 /\ EndDrain
           \/ ~last /\ UNCHANGED <<draining, stopped>>
    /\ held' = held - 1
    /\ UNCHANGED <<requested, streaming, events, broken>>

ProduceEmptyLast ==
    /\ Encoding
    /\ LastIsDue
    /\ held = 0
    /\ \E b \in queued[OUTPUT_PORT] : Complete(OUTPUT_PORT, b, FALSE, TRUE)
    /\ EndDrain
    /\ UNCHANGED <<requested, streaming, events, broken>>
    /\ UNCHANGED held

Break ==
    /\ DeviceErrors
    /\ ~broken
    /\ broken' = TRUE
    /\ UNCHANGED <<requested, streaming, queued, done, events>>
    /\ UNCHANGED firmwareVars
=============================================================================
