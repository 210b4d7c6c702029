---------------------------- MODULE MCApplication ----------------------------
(***************************************************************************)
(* Application for TLC: a few test cases, the files made of them and the   *)
(* lists of one or two files.                                              *)
(***************************************************************************)
EXTENDS Application

Entry(id, fnum) == [id |-> id, valid |-> TRUE, fnum |-> fnum]
Missing == [array |-> TRUE, entries |-> <<>>]
Controls(ids) ==
    [array |-> TRUE,
     entries |-> [i \in DOMAIN ids |-> Entry(ids[i], FALSE)]]

Bin == [stem |-> "out", ext |-> TRUE]
Raw == [stem |-> "raw", ext |-> FALSE]

\* A test case with the given sections and both dumps of one name.
Case(name, static, commands, in, out) ==
    [name |-> name, fields |-> TRUE,
     DumpInputPath |-> in, Outputpath |-> out,
     StaticControls |-> static, DynamicControls |-> Missing,
     DynamicCommands |-> commands]

AllMandatory ==
    Controls(<<"Profile", "Level", "BitRate", "BitRateMode",
               "PrefixHeaderMode">>)
\* Five of the mandatory ones, and yet one of them is missing.
Repeated ==
    Controls(<<"Profile", "Level", "BitRate", "BitRateMode", "BitRate">>)
Seek == [array |-> TRUE, entries |-> <<Entry("IDRSeek", TRUE)>>]
SeekNowhere == [array |-> TRUE, entries |-> <<Entry("IDRSeek", FALSE)>>]

Decode == Case("t1", Missing, Seek, NoName, Bin)
Encode == Case("t2", AllMandatory, Missing, Bin, Bin)
Again  == Case("t1", Repeated, Missing, NoName, Raw)
NoSeek == Case("t2", Missing, SeekNowhere, NoName, Bin)
Four   == Controls(<<"Profile", "Level", "BitRate", "BitRateMode">>)
Short  == Case("t2", Four, Missing, NoName, Bin)

File(mode, cases) == [readable |-> TRUE, mode |-> mode, tests |-> cases]
Unreadable == [readable |-> FALSE, mode |-> "", tests |-> <<>>]

FileKinds ==
    {File("", <<Decode, Encode>>), File("Concurrent", <<Encode, Again>>),
     File("Sequential", <<Again, Decode>>),
     File("", <<Again, NoSeek, Encode>>),
     File("", <<Decode, Short>>), File("Concurrent", <<>>), Unreadable}

OneOrTwoFiles == {<<f>> : f \in FileKinds} \cup {<<f, g>> : f, g \in FileKinds}
=============================================================================
