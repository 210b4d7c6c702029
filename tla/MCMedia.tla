------------------------------ MODULE MCMedia ------------------------------
(***************************************************************************)
(* TestMedia for TLC: short streams of every kind, the commands that meet  *)
(* in them, and pictures about the sizes where a plane grows by a step.    *)
(***************************************************************************)
EXTENDS TestMedia

Raw(packets) == [raw |-> TRUE, packets |-> packets]
Container(packets) == [raw |-> FALSE, packets |-> packets]

ShortStreams ==
    {Raw(<<"frame", "frame", "frame">>), Raw(<<"other", "frame">>), Raw(<<>>),
     Raw(<<"frame", "frame", "frame", "frame", "frame">>),
     Container(<<"frame", "frame", "frame">>),
     Container(<<"frame", "other", "frame">>)}

IDR(fnum, to) == [id |-> "IDRSeek", fnum |-> fnum, to |-> to, string |-> TRUE]
Random(fnum) == [id |-> "RandomSeek", fnum |-> fnum, to |-> 0, string |-> TRUE]
Pause(fnum) == [id |-> "PauseUSec", fnum |-> fnum, to |-> 0, string |-> TRUE]
OfInt(command) == [command EXCEPT !.string = FALSE]

Meetings ==
    {{}, {IDR(2, 0)}, {IDR(1, 2)}, {IDR(1, 0), IDR(2, 1)}, {IDR(3, 1)},
     {IDR(2, 0), Random(2)}, {IDR(1, 0), Random(1), IDR(2, 1)},
     {Random(1), IDR(2, 0)}, {Random(1), Random(3)}, {Random(3), Pause(1)},
     {IDR(4, 1)}, {IDR(1, 5), IDR(2, 0)}, {IDR(0, 1)}, {OfInt(IDR(1, 0))}}

Picture(format, width, height, stride, size) ==
    [format |-> format, width |-> width, height |-> height, stride |-> stride,
     size |-> size]

\* The sizeimages of a device that leaves nothing between the lines, of one
\* that is a byte short of the two planes, that has just these, and more.
NV12Sizes(h, s) ==
    LET planes == s * ALIGN(h, 32) + s * ALIGN((h + 1) \div 2, 16) IN
    {(s * h * 3) \div 2, planes - 1, planes, planes + 64}

NV12 ==
    UNION {{Picture("NV12", 4, h, s, size) : size \in NV12Sizes(h, s)} :
           h \in {1, 2, 5, 31, 33}, s \in {4, 6}}

Steps == {2, 32, 62, 64, 66, 96, 128, 640, 1080, 1088, 1920, 2160}

\* A device that has room for a progressive picture only, or for two fields.
CompressedSizes(format, w, h) ==
    {getBufferSizeUsed(format, w, h) - 1, getBufferSizeUsed(format, w, h),
     getBufferSize(format, w, h)}

Compressed ==
    UNION {{Picture(format, w, h, w, size) :
                size \in CompressedSizes(format, w, h)} :
           format \in {"QC08C", "QC10C"}, w \in Steps,
           h \in Steps \cup {33, 65}}

SomePictures == NV12 \cup Compressed

Listed(id, value) == [id |-> id, listed |-> TRUE, value |-> value]
NotListed(id) == [id |-> id, listed |-> FALSE, value |-> 1]

Settings(codec, controls) == [codec |-> codec, controls |-> controls]

BitRate == Listed("BitRate", 100)
FrameRC == Listed("FrameRC", 1)
Level == Listed("Level", 5)
Tier == Listed("Tier", 1)

SomeSettings ==
    {Settings("AVC", controls) : controls \in
         {<<>>, <<Listed("Level", Unlisted)>>, <<Level, BitRate, Level>>,
          <<FrameRC, BitRate, FrameRC>>, <<BitRate, Listed("FrameRC", 0)>>,
          <<NotListed("LosslessCU"), BitRate>>,
          <<NotListed("FrameRC"), Level>>}}
    \cup
    {Settings("HEVC", controls) : controls \in
         {<<Tier, BitRate, Level>>, <<Level, FrameRC, Tier>>, <<Level>>,
          <<Tier, Level, Listed("Tier", Unlisted)>>}}
=============================================================================
