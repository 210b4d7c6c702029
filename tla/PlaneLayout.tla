---------------------------- MODULE PlaneLayout ----------------------------
(***************************************************************************)
(* UBWC_Utils.cpp: how large a picture of a compressed format is, in bytes.*)
(* The arithmetic is of uint32_t; the sizes of pictures up to 8192 x 8192  *)
(* are below 2^31 (SizesDoNotWrap in MediaProofs), and nothing wraps.      *)
(***************************************************************************)
EXTENDS Naturals

Align(size, alignment) ==
    IF size = 0 \/ alignment <= 1 THEN size
    ELSE ((size - 1) \div alignment) * alignment + alignment

DivRoundUp(dividend, divisor) == (dividend + divisor - 1) \div divisor

\* A length of a plane: the pixels are aligned, are num / den units each, tile
\* of which are one, and these are aligned.
Length(info, pixels) ==
    LET units == DivRoundUp(Align(pixels, info[1]) * info[2], info[3]) IN
    Align(DivRoundUp(units, info[4]), info[5])

\* kBufferLayoutInfoMap: of the meta and pixel planes of luma and chroma, the
\* StrideInfo and the ScanlinesInfo.
BufferLayoutInfo ==
    [QC08C |->
        <<[stride |-> <<1, 1, 1, 32, 64>>, scanlines |-> <<1, 1, 1, 8, 16>>],
          [stride |-> <<128, 1, 1, 1, 128>>, scanlines |-> <<1, 1, 1, 1, 32>>],
          [stride |-> <<1, 1, 2, 16, 64>>, scanlines |-> <<1, 1, 2, 8, 16>>],
          [stride |-> <<1, 1, 1, 1, 128>>, scanlines |-> <<1, 1, 2, 1, 32>>]>>,
     QC10C |->
        <<[stride |-> <<1, 1, 1, 48, 64>>, scanlines |-> <<1, 1, 1, 4, 16>>],
          [stride |-> <<192, 4, 3, 1, 256>>, scanlines |-> <<1, 1, 1, 1, 16>>],
          [stride |-> <<1, 1, 2, 24, 64>>, scanlines |-> <<1, 1, 2, 4, 16>>],
          [stride |-> <<192, 4, 3, 1, 256>>, scanlines |-> <<1, 1, 2, 1, 16>>]
        >>]

kBufferSizeAlignment == 4096

getPlaneSize(plane, w, h) ==
    Align(Length(plane.stride, w) * Length(plane.scanlines, h),
          kBufferSizeAlignment)

PlanesSize(fmt, w, h) ==
    LET size(i) == getPlaneSize(BufferLayoutInfo[fmt][i], w, h) IN
    size(1) + size(2) + size(3) + size(4)

\* The division by kInterlaceMBSize is of integers.
canInterlace(fmt, w, h) ==
    /\ fmt = "QC08C"
    /\ w <= 1920 /\ h <= 1920
    /\ (w * h) \div 256 <= (1920 * 1088) \div 256

\* Mutant: half the lines, rounded down.
HalfDown(h) == h \div 2

\* The lines of a field of an interlaced picture.
FieldLines(h) == DivRoundUp(h, 2)

\* What the device wants for a picture, which may be two fields.
getBufferSize(fmt, w, h) ==
    IF canInterlace(fmt, w, h) THEN 2 * PlanesSize(fmt, w, FieldLines(h))
    ELSE PlanesSize(fmt, w, h)

\* What a progressive picture takes.
getBufferSizeUsed(fmt, w, h) == PlanesSize(fmt, w, h)
=============================================================================
