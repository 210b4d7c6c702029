------------------------------ MODULE MCEncoder ------------------------------
(***************************************************************************)
(* EncoderSession for TLC: the values of the constants a .cfg cannot write.*)
(***************************************************************************)
EXTENDS EncoderRefinement, EncoderInvariants

\* Two controls before frame 1 and one that is never reached.
Controls == {[fnum |-> 1, id |-> "BitRate"], [fnum |-> 1, id |-> "GOPSize"],
             [fnum |-> 4, id |-> "BitRate"]}
=============================================================================
