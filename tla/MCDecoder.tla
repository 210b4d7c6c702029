------------------------------ MODULE MCDecoder ------------------------------
(***************************************************************************)
(* DecoderSession for TLC: the values of the constants a .cfg cannot write.*)
(***************************************************************************)
EXTENDS DecoderRefinement, DecoderInvariants, TLC

NoSeeks == {}
\* Back to the start of the stream, after two frames and after one.
SeekBack == {[fnum |-> 2, to |-> 0]}
SeekEarly == {[fnum |-> 1, to |-> 0]}

Symmetry == Permutations(InBuf) \cup Permutations(OutBuf)
=============================================================================
