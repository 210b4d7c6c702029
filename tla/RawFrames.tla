----------------------------- MODULE RawFrames -----------------------------
(***************************************************************************)
(* FFYUVParser::fillPacketData (src/FFYUVParser.cpp): the raw frames of an *)
(* encoding test case, copied from its file into the input buffers, with   *)
(* the lines spaced as the device asks.  A frame of NV12 is laid out in    *)
(* pbuf, which is as large as the program reckons, and copied from there   *)
(* into the input buffer, which is as large as the device has said.  A     *)
(* memcpy into pbuf is a record of where to, where from and how many       *)
(* bytes.  A file has whole frames.                                        *)
(***************************************************************************)
EXTENDS Integers, PlaneLayout

CONSTANTS
    Pictures,   \* those there may be: records [format, width, height, stride,
                \* size], the last two of them the device's answer
    FileFrames  \* the frames in the file

\* Two chroma samples of NV12 stand for two luma samples of a line.
ASSUME RawAssumption ==
    /\ FileFrames \in Nat
    /\ \A p \in Pictures :
           /\ p.format \in {"NV12", "QC08C", "QC10C"}
           /\ p.width \in Nat /\ p.height \in Nat \ {0} /\ p.width % 2 = 0
           /\ p.stride \in Nat /\ p.stride >= p.width
           /\ p.size \in Nat

VARIABLES
    picture,
    unread,   \* frames of the file that have not been read
    plane,    \* "none" between frames; whose lines are copied, and then the
    line,     \* "whole" of pbuf
    pData, ptarget,
    copies,   \* the memcpys into pbuf that lay the frame out
    filled,   \* the bytes written to the input buffer of the frame
    eos

rawVars ==
    <<picture, unread, line, plane, pData, ptarget, copies, filled, eos>>

-----------------------------------------------------------------------------
\* ALIGN of V4l2Encoder.cpp and FFYUVParser.cpp.
ALIGN(num, to) == ((num + to - 1) \div to) * to

\* calc_scanline_aligned, for NV12.
scanline == ALIGN(picture.height, 32)
uvScanline == ALIGN((picture.height + 1) \div 2, 16)
bufSize == picture.stride * scanline + picture.stride * uvScanline

\* A frame of the file: of NV12, the lines without anything between them.
FrameSize ==
    IF picture.format = "NV12"
    THEN picture.width * picture.height
             + picture.width * ((picture.height + 1) \div 2)
    ELSE getBufferSizeUsed(picture.format, picture.width, picture.height)

Memcpy(to, from, len) == [to |-> to, from |-> from, len |-> len]

RawInit ==
    /\ picture \in Pictures
    /\ unread = FileFrames
    /\ plane = "none" /\ line = 0
    /\ pData = 0 /\ ptarget = 0
    /\ copies = {} /\ filled = 0
    /\ eos = FALSE

\* Mutant: the chroma plane follows the lines of the picture.
PlaneAfterLines == picture.stride * picture.height

\* Where the chroma plane begins.
ChromaPlane == picture.stride * scanline

-----------------------------------------------------------------------------
Reading(format) ==
    /\ plane = "none" /\ ~eos
    /\ unread > 0
    /\ picture.format \in format
    /\ unread' = unread - 1
    /\ UNCHANGED <<picture, line, eos>>

\* Of a compressed format, the frame is read into the input buffer as it is.
ReadCompressed ==
    /\ Reading({"QC08C", "QC10C"})
    /\ filled' = FrameSize
    /\ UNCHANGED <<plane, pData, ptarget, copies>>

\* Lines that are spaced as in the file are copied a plane at a time.
CopyPlanes ==
    /\ Reading({"NV12"})
    /\ picture.width = picture.stride
    /\ LET luma == picture.width * picture.height IN
       copies' = {Memcpy(0, 0, luma), Memcpy(ChromaPlane, luma, luma \div 2)}
    /\ plane' = "whole" /\ filled' = 0
    /\ UNCHANGED <<pData, ptarget>>

\* The others line by line.
StartLines ==
    /\ Reading({"NV12"})
    /\ picture.width # picture.stride
    /\ plane' = "luma"
    /\ pData' = 0 /\ ptarget' = 0
    /\ copies' = {} /\ filled' = 0

Lines == IF plane = "luma" THEN picture.height ELSE picture.height \div 2

CopyLine ==
    /\ plane \in {"luma", "chroma"}
    /\ line < Lines
    /\ copies' = copies \cup {Memcpy(ptarget, pData, picture.width)}
    /\ line' = line + 1
    /\ ptarget' = ptarget + picture.stride
    /\ pData' = pData + picture.width
    /\ UNCHANGED <<picture, unread, plane, filled, eos>>

Gap == (scanline - picture.height) * picture.stride

NextPlane ==
    /\ plane \in {"luma", "chroma"}
    /\ line = Lines
    /\ line' = 0
    /\ \/ plane = "luma" /\ plane' = "chroma" /\ ptarget' = ptarget + Gap
       \/ plane = "chroma" /\ plane' = "whole" /\ UNCHANGED ptarget
    /\ UNCHANGED <<picture, unread, pData, copies, filled, eos>>

\* pbuf is copied into the input buffer; nothing compares the two.
CopyWhole ==
    /\ plane = "whole"
    /\ filled' = bufSize
    /\ plane' = "none"
    /\ UNCHANGED <<picture, unread, line, pData, ptarget, copies, eos>>

\* fread or av_read_frame finds nothing.
EndOfFile ==
    /\ plane = "none" /\ ~eos
    /\ unread = 0
    /\ eos' = TRUE
    /\ UNCHANGED <<picture, unread, line, plane, pData, ptarget, copies,
                   filled>>

RawNext ==
    \/ ReadCompressed \/ CopyPlanes
    \/ StartLines \/ CopyLine \/ NextPlane \/ CopyWhole
    \/ EndOfFile
    \/ eos /\ UNCHANGED rawVars

-----------------------------------------------------------------------------
\* What the program takes the device's sizeimage to cover: the two planes of
\* NV12 with their scanlines, and of a compressed format two fields where the
\* picture may be interlaced.
AssumedSize ==
    IF picture.format = "NV12" THEN bufSize
    ELSE getBufferSize(picture.format, picture.width, picture.height)

\* No line and no plane is read from outside the frame or written outside
\* pbuf; and the input buffer is overrun by no device but one whose sizeimage
\* is less than fillPacketData takes it for (which it does not ask).
CopiesInside ==
    /\ \A c \in copies :
           c.to + c.len <= bufSize /\ c.from + c.len <= FrameSize
    /\ filled > picture.size => picture.size < AssumedSize

\* The byte of the frame that is at a place of the input buffer.
Copied(place, byte) ==
    /\ place < filled
    /\ \E c \in copies : c.to <= place /\ place < c.to + c.len
                         /\ byte = c.from + (place - c.to)

\* A finished NV12 frame has every line where the device looks for it: line l
\* of luma at l strides, line l of chroma at l strides from the scanlines of
\* luma, copied in either way.  The last chroma line of an odd height is not
\* copied.
FrameInPlace ==
    plane = "none" /\ copies # {} /\ picture.format = "NV12" =>
        \A x \in 0 .. picture.width - 1 :
            /\ \A l \in 0 .. picture.height - 1 :
                   Copied(l * picture.stride + x, l * picture.width + x)
            /\ \A l \in 0 .. (picture.height \div 2) - 1 :
                   Copied((scanline + l) * picture.stride + x,
                          (picture.height + l) * picture.width + x)
=============================================================================
