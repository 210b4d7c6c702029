------------------------------ MODULE DumpNames ------------------------------
(***************************************************************************)
(* V4l2Codec::setDump (src/V4l2Codec.cpp): the names of the dump files.    *)
(*                                                                         *)
(* sNames is static: all the test cases of the process share it, and       *)
(* nothing locks it.  A thread looks its name up in one step and counts in *)
(* another, which is the least a data race on the map may do.              *)
(*                                                                         *)
(* A name is a record: its stem, "" for no name, and whether it has an     *)
(* extension.  A file is a name and a number, 0 for the name as it is and  *)
(* n for the one with _n before the extension.  No configured name looks   *)
(* like one with a number.                                                 *)
(***************************************************************************)
EXTENDS Naturals

VARIABLES
    sNames,  \* how often each name has been asked for
    exist,   \* the files that are on the disk
    dumps    \* history: the files opened, and for what

dumpVars == <<sNames, exist, dumps>>

NoName == [stem |-> "", ext |-> FALSE]

\* The result "" of genUniqueFileName, which fopen refuses.
NoFile == <<NoName, 0>>

\* access(filename, F_OK): a name whose file is gone starts again at 0.
Count(name) == IF <<name, 0>> \in exist THEN sNames[name] ELSE 0

\* genUniqueFileName, but for counting.
UniqueName(name) ==
    IF Count(name) # 0 /\ ~name.ext THEN NoFile ELSE <<name, Count(name)>>

LookUp(name) == sNames' = [sNames EXCEPT ![name] = Count(name)]

\* Mutant: the name is not counted.
NotCounted(name, file) == UNCHANGED sNames

\* sNames[filename]++, unless there was no place for a number.
CountName(name, file) ==
    IF file = NoFile /\ name # NoName THEN UNCHANGED sNames
    ELSE sNames' = [sNames EXCEPT ![name] = @ + 1]

\* fopen(..., "wb") for "what", which creates or truncates the file or fails.
OpenDump(file, what) ==
    \/ /\ file # NoFile
       /\ exist' = exist \cup {file}
       /\ dumps' = dumps \cup {[file |-> file, what |-> what]}
       /\ UNCHANGED sNames
    \/ UNCHANGED dumpVars
=============================================================================
