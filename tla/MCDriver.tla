------------------------------ MODULE MCDriver ------------------------------
(***************************************************************************)
(* DriverLife for TLC: devices that are for one Domain, for both, or for   *)
(* neither, in lists of up to three.                                       *)
(***************************************************************************)
EXTENDS DriverLife

Device(opens, m2m, output, capture) ==
    [opens |-> opens, m2m |-> m2m, output |-> output, capture |-> capture]

Decoder == Device(TRUE, TRUE, {"H264", "VP9"}, {"NV12", "QC08C"})
Vp9Only == Device(TRUE, TRUE, {"VP9"}, {"NV12"})
Encoder == Device(TRUE, TRUE, {"NV12"}, {"H264"})
Scaler  == Device(TRUE, TRUE, {"NV12"}, {"NV12", "RGB"})
Camera  == Device(TRUE, FALSE, {}, {"NV12"})
Busy    == Device(FALSE, TRUE, {"H264"}, {"NV12"})

VideoDevices ==
    {<<>>, <<Decoder>>, <<Encoder, Decoder>>, <<Scaler, Vp9Only, Decoder>>,
     <<Camera, Busy, Encoder>>, <<Busy, Scaler>>}

Asked == {[codec |-> "H264", pixel |-> "NV12"]}
=============================================================================
