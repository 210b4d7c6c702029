---------------------------- MODULE CodecService ----------------------------
(***************************************************************************)
(* What a decoding or encoding session promises whoever runs a test: of    *)
(* the frames it was asked for, some are fed to the device and some of     *)
(* those delivered, until the session reports SUCCESS -- and then every    *)
(* frame asked for has been delivered -- or FAILED, which it may do at any *)
(* point.  It reports one of the two in the end, and nothing is delivered  *)
(* afterwards.                                                             *)
(***************************************************************************)
EXTENDS Naturals

CONSTANT Asked   \* a natural, the number of frames the test case asks for

VARIABLES fed, delivered, outcome

vars == <<fed, delivered, outcome>>

TypeOK ==
    /\ fed \in 0 .. Asked
    /\ delivered \in 0 .. fed
    /\ outcome \in {"RUNNING", "SUCCESS", "FAILED"}

Init ==
    /\ fed = 0
    /\ delivered = 0
    /\ outcome = "RUNNING"

Feed ==
    /\ outcome = "RUNNING"
    /\ fed < Asked
    /\ fed' = fed + 1
    /\ UNCHANGED <<delivered, outcome>>

Deliver ==
    /\ outcome = "RUNNING"
    /\ delivered < fed
    /\ delivered' = delivered + 1
    /\ UNCHANGED <<fed, outcome>>

Report ==
    /\ outcome = "RUNNING"
    /\ \/ outcome' = "SUCCESS" /\ fed = Asked /\ delivered = fed
       \/ outcome' = "FAILED"
    /\ UNCHANGED <<fed, delivered>>

Next == Feed \/ Deliver \/ Report

Spec == Init /\ [][Next]_vars /\ WF_vars(Report)
=============================================================================
