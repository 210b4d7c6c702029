----------------------------- MODULE Application -----------------------------
(***************************************************************************)
(* main and runAndWaitForComplete (src/IrisTestApp.cpp): the configuration *)
(* files one after the other, and of each the test cases in its execution  *)
(* mode, each judged by a line of the result file.                         *)
(*                                                                         *)
(* A test case is TestingDecoder or TestingEncoder: its setup, which       *)
(* may fail before or after the poll thread exists (PollThread), the names *)
(* of its dumps (DumpNames), its session (DecoderSession, EncoderSession)  *)
(* and the line.  In mode Sequential main runs it itself, in Concurrent a  *)
(* thread of its own does.  A line is written in several calls; "begun" is *)
(* the moment between the first and the last.                              *)
(***************************************************************************)
EXTENDS ConfigParser, DumpNames

CONSTANT FileLists   \* the lists of files the program may be given

\* What may come out of the JSON reader; a name without a stem is that of no
\* dump.
Section ==
    [array : BOOLEAN,
     entries : Seq([id : STRING, valid : BOOLEAN, fnum : BOOLEAN])]
DumpName == [stem : STRING, ext : BOOLEAN]
TestCase ==
    [name : STRING, fields : BOOLEAN,
     DumpInputPath : DumpName, Outputpath : DumpName,
     StaticControls : Section, DynamicControls : Section,
     DynamicCommands : Section]

ConfigFile == [readable : BOOLEAN, mode : STRING, tests : Seq(TestCase)]

ASSUME FilesAssumption == FileLists \subseteq Seq(ConfigFile)

VARIABLES
    pc,                  \* where main is
    matched_files,
    current,             \* the index of the file main is at
    ExecutionMode,
    mapTestCasesConfig,
    toRun,               \* what is left of runAndWaitForComplete's iteration
    tests,               \* where each test case is that has been started
    dumpFile,            \* the name each of them is about to open
    judged               \* history: <<file, test case>> with a line

mainVars == <<pc, matched_files, current, ExecutionMode, mapTestCasesConfig,
              toRun>>
testVars == <<tests, dumpFile, judged>>
vars == <<mainVars, testVars, dumpVars>>

MainPc == {"parse", "dispatch", "wait", "ended", "terminated"}
TestPc == {"setup", "DumpInputPath", "countInput", "openInput", "Outputpath",
           "countOutput", "openOutput", "session", "line", "begun", "ended"}

\* What the files may hold, and the modes and names they mention.
Files == UNION {Range(list) : list \in FileLists}
Modes == {"Sequential"} \cup {file.mode : file \in Files}
TestCases == UNION {Range(file.tests) : file \in Files}
TestNames == {test.name : test \in TestCases}
DumpFileNames ==
    {test.DumpInputPath : test \in TestCases}
        \cup {test.Outputpath : test \in TestCases}

TypeOK ==
    /\ pc \in MainPc
    /\ current \in 1 .. Len(matched_files) + 1
    /\ ExecutionMode \in Modes
    /\ DOMAIN mapTestCasesConfig \subseteq TestNames
    /\ Range(mapTestCasesConfig) \subseteq TestCases
    /\ toRun \cup DOMAIN tests \subseteq DOMAIN mapTestCasesConfig
    /\ Range(tests) \subseteq TestPc
    /\ DOMAIN dumpFile = DOMAIN tests
    /\ sNames \in [DumpFileNames -> Nat]

\* The dumps of an earlier run of the program may still be there.
Init ==
    /\ pc = "parse"
    /\ matched_files \in FileLists
    /\ current = 1
    /\ ExecutionMode = "Sequential"
    /\ mapTestCasesConfig = <<>>
    /\ toRun = {}
    /\ tests = <<>>
    /\ dumpFile = <<>>
    /\ judged = {}
    /\ sNames = [name \in DumpFileNames |-> 0]
    /\ exist \in SUBSET {<<name, 0>> : name \in DumpFileNames \ {NoName}}
    /\ dumps = {}

-----------------------------------------------------------------------------
\* main

\* Mutant: the test cases of the file are run, not those of the table.
ParseAndRunFile ==
    /\ pc = "parse"
    /\ current <= Len(matched_files)
    /\ LET parsed == parseJsonConfigs(matched_files[current], ExecutionMode,
                                      mapTestCasesConfig) IN
       /\ ExecutionMode' = parsed.mode
       /\ mapTestCasesConfig' = parsed.table
       /\ toRun' = IF ~parsed.ok THEN {}
                   ELSE {test.name : test \in
                            Range(matched_files[current].tests)}
       /\ pc' = IF parsed.ok THEN "dispatch" ELSE "ended"
    /\ UNCHANGED <<matched_files, current, testVars, dumpVars>>

\* A file that is refused ends the loop; the table keeps what was read of it.
Parse ==
    /\ pc = "parse"
    /\ current <= Len(matched_files)
    /\ LET parsed == parseJsonConfigs(matched_files[current], ExecutionMode,
                                      mapTestCasesConfig) IN
       /\ ExecutionMode' = parsed.mode
       /\ mapTestCasesConfig' = parsed.table
       /\ toRun' = IF parsed.ok THEN DOMAIN parsed.table ELSE {}
       /\ pc' = IF parsed.ok THEN "dispatch" ELSE "ended"
    /\ UNCHANGED <<matched_files, current, testVars, dumpVars>>

NoFileLeft ==
    /\ pc = "parse"
    /\ current > Len(matched_files)
    /\ pc' = "ended"
    /\ UNCHANGED <<matched_files, current, ExecutionMode, mapTestCasesConfig>>
    /\ UNCHANGED <<toRun, testVars, dumpVars>>

\* Mutant: every test case gets a thread.
StartWithoutWaiting(test) ==
    /\ pc = "dispatch"
    /\ test \in toRun
    /\ toRun' = toRun \ {test}
    /\ tests' = Put(tests, test, "setup")
    /\ dumpFile' = Put(dumpFile, test, NoFile)
    /\ UNCHANGED <<pc, matched_files, current, ExecutionMode>>
    /\ UNCHANGED <<mapTestCasesConfig, judged, dumpVars>>

\* The map is unordered.
StartTest(test) ==
    /\ pc = "dispatch"
    /\ test \in toRun
    /\ toRun' = toRun \ {test}
    /\ tests' = Put(tests, test, "setup")
    /\ dumpFile' = Put(dumpFile, test, NoFile)
    /\ pc' = IF ExecutionMode = "Concurrent" THEN "dispatch" ELSE "wait"
    /\ UNCHANGED <<matched_files, current, ExecutionMode, mapTestCasesConfig>>
    /\ UNCHANGED <<judged, dumpVars>>

AllEnded == \A test \in DOMAIN tests : tests[test] = "ended"

\* A Sequential test case returns.
TestReturns ==
    /\ pc = "wait"
    /\ AllEnded
    /\ pc' = "dispatch"
    /\ UNCHANGED <<matched_files, current, ExecutionMode, mapTestCasesConfig>>
    /\ UNCHANGED <<toRun, testVars, dumpVars>>

NextFile ==
    /\ pc' = "parse"
    /\ current' = current + 1
    /\ tests' = <<>>
    /\ dumpFile' = <<>>
    /\ UNCHANGED <<matched_files, ExecutionMode, mapTestCasesConfig, toRun>>
    /\ UNCHANGED <<judged, dumpVars>>

\* Mutant: the threads are not joined.
DoNotJoin ==
    /\ pc = "dispatch"
    /\ toRun = {}
    /\ pc' = "parse"
    /\ current' = current + 1
    /\ UNCHANGED <<matched_files, ExecutionMode, mapTestCasesConfig, toRun>>
    /\ UNCHANGED <<testVars, dumpVars>>

\* The threads are joined, and the loop goes on to the next file.
JoinAll ==
    /\ pc = "dispatch"
    /\ toRun = {}
    /\ AllEnded
    /\ NextFile

Main ==
    \/ Parse \/ NoFileLeft \/ TestReturns \/ JoinAll
    \/ \E test \in toRun : StartTest(test)

-----------------------------------------------------------------------------
\* A test case

At(test, where) ==
    /\ pc # "terminated"
    /\ test \in DOMAIN tests
    /\ tests[test] = where

Goto(test, where) == tests' = [tests EXCEPT ![test] = where]

\* A driver destroyed with its poll thread running, or an exception nobody
\* catches, ends the process (PollThread; setDynamicCommands).
Terminate ==
    /\ pc' = "terminated"
    /\ UNCHANGED <<matched_files, current, ExecutionMode, mapTestCasesConfig>>
    /\ UNCHANGED <<toRun, testVars, dumpVars>>

\* setMemoryType, init, the parser, the callbacks and the controls.  An error
\* returns: in init before the poll thread exists to the verdict, afterwards
\* with that thread.
Setup(test) ==
    /\ At(test, "setup")
    /\ \/ /\ \E where \in {"DumpInputPath", "line"} : Goto(test, where)
          /\ UNCHANGED <<mainVars, dumpFile, judged, dumpVars>>
       \/ Terminate

\* setDump, once for the input and once for the output.
LookUpName(test, kind, next) ==
    /\ At(test, kind)
    /\ LET name == mapTestCasesConfig[test][kind] IN
       /\ dumpFile' = [dumpFile EXCEPT ![test] = UniqueName(name)]
       /\ LookUp(name)
    /\ Goto(test, next)
    /\ UNCHANGED <<mainVars, judged, exist, dumps>>

CountDump(test, here, kind, next) ==
    /\ At(test, here)
    /\ CountName(mapTestCasesConfig[test][kind], dumpFile[test])
    /\ Goto(test, next)
    /\ UNCHANGED <<mainVars, dumpFile, judged, exist, dumps>>

OpenDumpFile(test, here, kind, next) ==
    /\ At(test, here)
    /\ OpenDump(dumpFile[test], <<current, test, kind>>)
    /\ Goto(test, next)
    /\ UNCHANGED <<mainVars, dumpFile, judged>>

SetDump(test) ==
    \/ LookUpName(test, "DumpInputPath", "countInput")
    \/ CountDump(test, "countInput", "DumpInputPath", "openInput")
    \/ OpenDumpFile(test, "openInput", "DumpInputPath", "Outputpath")
    \/ LookUpName(test, "Outputpath", "countOutput")
    \/ CountDump(test, "countOutput", "Outputpath", "openOutput")
    \/ OpenDumpFile(test, "openOutput", "Outputpath", "session")

\* The session returns, whatever its result -- if it does: it may wait for the
\* device or for its poll thread for ever (V4l2Decoder.cpp:787,
\* V4l2Encoder.cpp:634, V4l2Driver.cpp:659), and no fairness says it does not.
\* When it ends is what the sessions' own modules say.
Session(test) ==
    /\ At(test, "session")
    /\ \/ /\ Goto(test, "line")
          /\ UNCHANGED <<mainVars, dumpFile, judged, dumpVars>>
       \/ Terminate

BeginLine(test) ==
    /\ At(test, "line")
    /\ Goto(test, "begun")
    /\ UNCHANGED <<mainVars, dumpFile, judged, dumpVars>>

EndLine(test) ==
    /\ At(test, "begun")
    /\ Goto(test, "ended")
    /\ judged' = judged \cup {<<current, test>>}
    /\ UNCHANGED <<mainVars, dumpFile, dumpVars>>

Test(test) ==
    \/ Setup(test) \/ SetDump(test) \/ Session(test)
    \/ BeginLine(test) \/ EndLine(test)

Finished == pc \in {"ended", "terminated"} /\ UNCHANGED vars

Next == Main \/ (\E test \in DOMAIN tests : Test(test)) \/ Finished

Spec == Init /\ [][Next]_vars

-----------------------------------------------------------------------------
\* Properties.

\* No file so far has asked for threads.
OnlySequential ==
    \A i \in DOMAIN matched_files :
        i <= current /\ matched_files[i].readable
            => matched_files[i].mode # "Concurrent"

\* In mode Sequential no two test cases run at once, so each has the device
\* and the result file to itself -- also after a file that was Concurrent.
OneAtATime ==
    ExecutionMode # "Concurrent"
        => Cardinality({test \in DOMAIN tests : tests[test] # "ended"}) <= 1

\* A thread has a reference to the table and main owns it: the table and the
\* mode change only while no test case runs.
TableStable ==
    [][(mapTestCasesConfig' # mapTestCasesConfig
            \/ ExecutionMode' # ExecutionMode) => AllEnded]_vars

\* The files whose test cases are in the table.
ParsedFiles ==
    {i \in DOMAIN matched_files : i < current \/ (i = current /\ pc # "parse")}

\* Where the files parsed so far define a test case of that name.
Definitions(name) ==
    UNION {{<<k, i>> : i \in {i \in Accepted(matched_files[k]) :
                                  matched_files[k].tests[i].name = name}} :
               k \in ParsedFiles}

NotAfter(a, b) == a[1] < b[1] \/ (a[1] = b[1] /\ a[2] <= b[2])

\* The table holds the test cases of every file so far up to the first in each
\* that is not as README.md asks, and of each name the last -- with the
\* two omissions that the parser lets pass (MandatoryNotMissed).
TableIsLatest ==
    \A name \in TestNames :
        LET defs == Definitions(name) IN
        /\ name \in DOMAIN mapTestCasesConfig <=> defs # {}
        /\ \A d \in defs :
               (\A e \in defs : NotAfter(e, d))
                   => mapTestCasesConfig[name]
                          = matched_files[d[1]].tests[d[2]]

AcceptedUpTo(k) ==
    UNION {{matched_files[j].tests[i].name :
                i \in Accepted(matched_files[j])} : j \in 1 .. k}

\* When main has done with a file every test case accepted so far, of this
\* file or an earlier one, has its line, and nothing else has.
EveryTestJudged ==
    \A k \in 1 .. current - 1 :
        {pair[2] : pair \in {p \in judged : p[1] = k}} = AcceptedUpTo(k)

\* As long as one test case runs at a time no dump overwrites another one of
\* the same run of the program, of whichever test case and file.
DumpsApart ==
    OnlySequential => \A d, e \in dumps : d.file = e.file => d = e
=============================================================================
