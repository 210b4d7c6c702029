------------------------- MODULE ApplicationProofs -------------------------
(***************************************************************************)
(* Proofs about main and its test cases, for every list of configuration   *)
(* files.                                                                  *)
(***************************************************************************)
EXTENDS Application, DataInduction, FiniteSetTheorems

-----------------------------------------------------------------------------
\* What parseJsonConfigs makes of a file.

\* The tables with names and test cases of two sets.
Tables(N, V) == UNION {[D -> V] : D \in SUBSET N}

\* map[key] = value keeps a table a table, and leaves the other keys alone.
LEMMA PutTable ==
    ASSUME NEW N, NEW V, NEW map \in Tables(N, V), NEW key \in N,
           NEW value \in V
    PROVE  /\ Put(map, key, value) \in Tables(N, V)
           /\ DOMAIN Put(map, key, value) = DOMAIN map \cup {key}
           /\ Put(map, key, value)[key] = value
           /\ \A k \in DOMAIN map \ {key} :
                  Put(map, key, value)[k] = map[k]
  <1>1. PICK D \in SUBSET N : map \in [D -> V]
    BY DEF Tables
  <1>2. Put(map, key, value) \in [D \cup {key} -> V]
    BY <1>1 DEF Put
  <1> QED  BY <1>1, <1>2 DEF Tables, Put

TestAccepted(test) == FormAccepted(test) /\ EventsAccepted(test)

\* Of a finite sequence of entries, those whose id is in a set: when every
\* member of the set is there, they are at least as many.
LEMMA EachOnce ==
    ASSUME NEW entries, NEW n \in Nat, DOMAIN entries = 1 .. n,
           NEW ids, ids \subseteq {e.id : e \in Range(entries)}
    PROVE  LET places == {i \in DOMAIN entries : entries[i].id \in ids} IN
           /\ Cardinality(ids) \in Nat /\ Cardinality(places) \in Nat
           /\ Cardinality(ids) <= Cardinality(places)
  <1> DEFINE places == {k \in DOMAIN entries : entries[k].id \in ids}
             idAt == [k \in places |-> entries[k].id]
  <1>1. IsFiniteSet(places)
    <2>1. IsFiniteSet(1 .. n)
      BY FS_Interval
    <2> QED  BY <2>1, FS_Subset
  <1>2. idAt \in Surjection(places, ids)
    <2>1. idAt \in [places -> ids]
      OBVIOUS
    <2>2. ASSUME NEW id \in ids PROVE \E i \in places : idAt[i] = id
      <3>1. PICK i \in DOMAIN entries : entries[i].id = id
        BY DEF Range
      <3> QED  BY <3>1
    <2> QED  BY <2>1, <2>2 DEF Surjection
  <1>3. IsFiniteSet(ids) /\ Cardinality(ids) <= Cardinality(places)
    BY <1>1, <1>2, FS_Surjection
  <1> HIDE DEF places
  <1>4. Cardinality(ids) \in Nat /\ Cardinality(places) \in Nat
    BY <1>1, <1>3, FS_CardinalityType
  <1> QED  BY <1>3, <1>4 DEF places

\* getConfigs counts the mandatory controls it meets: a test case that gives
\* all five passes, and what else passes is MandatoryNotMissed.
LEMMA WhatIsAccepted ==
    ASSUME NEW test \in TestCase
    PROVE  TestAccepted(test) <=>
               /\ WellFormed(test)
               /\ GivesMandatory(test) \/ MandatoryNotMissed(test)
  <1> DEFINE entries == test["StaticControls"].entries
  <1>1. /\ test.StaticControls = test["StaticControls"]
        /\ \A kind \in Sections :
               /\ test[kind].array \in BOOLEAN
               /\ Len(test[kind].entries) \in Nat
               /\ DOMAIN test[kind].entries = 1 .. Len(test[kind].entries)
    BY DEF TestCase, Section, Sections
  <1>2. WellFormed(test) <=>
            /\ test.fields
            /\ \A kind \in Sections :
                   /\ test[kind].array
                   /\ \A i \in DOMAIN test[kind].entries :
                          EntryAccepted(kind, test[kind].entries[i])
    BY DEF WellFormed, Range
  <1>3. TestAccepted(test) <=>
            /\ WellFormed(test)
            /\ entries = <<>> \/ MandatoryFound(test["StaticControls"])
    BY <1>2 DEF TestAccepted, FormAccepted, EventsAccepted, getConfigs,
                Sections
  <1>4. GivesMandatory(test) => MandatoryFound(test["StaticControls"])
    <2> SUFFICES ASSUME GivesMandatory(test)
                 PROVE  MandatoryFound(test["StaticControls"])
      OBVIOUS
    <2>1. MandatoryCtrls \subseteq {e.id : e \in Range(entries)}
      BY <1>1 DEF GivesMandatory
    <2>2. /\ Len(entries) \in Nat
          /\ DOMAIN entries = 1 .. Len(entries)
      BY <1>1 DEF Sections
    <2> HIDE DEF entries
    <2>3. LET places == {i \in DOMAIN entries :
                             entries[i].id \in MandatoryCtrls} IN
          /\ Cardinality(MandatoryCtrls) \in Nat
          /\ Cardinality(places) \in Nat
          /\ Cardinality(MandatoryCtrls) <= Cardinality(places)
      BY <2>1, <2>2, EachOnce
    <2> QED  BY <2>3 DEF MandatoryFound, entries
  <1> QED  BY <1>1, <1>3, <1>4 DEF MandatoryNotMissed

\* Of the first n test cases of a file, those before the first refused.
AcceptedIn(cases, n) ==
    {i \in 1 .. n : \A j \in 1 .. i : TestAccepted(cases[j])}

\* What a table has become of another when some test cases have been read
\* into it: of each name the last of them, or what was there before.
ReadInto(cases, read, old, new) ==
    /\ DOMAIN new = DOMAIN old \cup {cases[i].name : i \in read}
    /\ \A i \in read :
           (\A j \in read : cases[j].name = cases[i].name => j <= i)
               => new[cases[i].name] = cases[i]
    /\ \A name \in DOMAIN old :
           (\A i \in read : cases[i].name # name) => new[name] = old[name]

\* The loop over the test cases, by induction on their number: what the
\* recursive function in ParseTests computes.
LEMMA ParseTestsReads ==
    ASSUME NEW N, NEW V, NEW table \in Tables(N, V), NEW cases \in Seq(V),
           \A test \in V : test.name \in N
    PROVE  LET parsed == ParseTests(cases, table) IN
           /\ parsed.ok \in BOOLEAN
           /\ parsed.table \in Tables(N, V)
           /\ ReadInto(cases, AcceptedIn(cases, Len(cases)), table,
                       parsed.table)
  <1> DEFINE k == Len(cases)
             Acc == [over : BOOLEAN, ok : BOOLEAN, table : Tables(N, V)]
             first == [over |-> FALSE, ok |-> TRUE, table |-> table]
             step == [n \in 1 .. k |->
                         [acc \in Acc |-> ParseTest(acc, cases[n])]]
             Loop(g) == g = [n \in 0 .. k |->
                                IF n = 0 THEN first
                                ELSE ParseTest(g[n - 1], cases[n])]
             after == CHOOSE g : Loop(g)
  <1>1. k \in Nat /\ (\A n \in 1 .. k : cases[n] \in V)
    OBVIOUS
  <1>2. ASSUME NEW acc \in Acc, NEW test \in V
        PROVE  ParseTest(acc, test) \in Acc
    <2>1. Put(acc.table, test.name, test) \in Tables(N, V)
      BY PutTable
    <2> QED  BY <2>1 DEF ParseTest
  <1>3. /\ after \in [0 .. k -> Acc]
        /\ after[0] = first
        /\ \A n \in 1 .. k : after[n] = ParseTest(after[n - 1], cases[n])
    <2>1. first \in Acc
      OBVIOUS
    <2>2. /\ \A n \in 1 .. k : \A acc \in Acc : step[n][acc] \in Acc
          /\ \A n \in 1 .. k : \A acc \in Acc :
                 step[n][acc] = ParseTest(acc, cases[n])
      <3> HIDE DEF k, Acc
      <3> QED  BY <1>1, <1>2
    <2>3. PICK f \in UpTo(k, Acc) : Recursive(f, k, first, step)
      <3> HIDE DEF first, step, k, Acc
      <3>1. Stays(Acc, k, step)
        BY <2>2 DEF Stays
      <3> QED  BY <1>1, <2>1, <3>1, RecursionTo
    <2>4. \A n \in 1 .. k : f[n] = ParseTest(f[n - 1], cases[n])
      <3> HIDE DEF first, Acc, k, step
      <3>1. \A n \in 1 .. k : n - 1 \in 0 .. k
        BY <1>1
      <3> QED  BY <2>2, <2>3, <3>1 DEF UpTo, Recursive
    <2> HIDE DEF first, step, k, Acc
    <2>5. Loop(f)
      BY <1>1, <2>3, <2>4 DEF UpTo, Recursive
    <2>6. Loop(after)
      BY <2>5
    <2> HIDE DEF after
    <2>7. after[0] = first
      BY <1>1, <2>6
    <2> DEFINE typed == {n \in 0 .. k : after[n] \in Acc}
    <2>8. 0 .. k \subseteq typed
      <3>1. 0 \in typed
        BY <1>1, <2>1, <2>7
      <3>2. ASSUME NEW n \in 0 .. k - 1, n \in typed PROVE n + 1 \in typed
        <4>1. n + 1 \in 0 .. k /\ n + 1 # 0 /\ n + 1 \in 1 .. k
          BY <1>1
        <4>2. after[n + 1] = ParseTest(after[(n + 1) - 1], cases[n + 1])
          BY <2>6, <4>1
        <4> QED  BY <1>1, <1>2, <3>2, <4>1, <4>2
      <3> HIDE DEF typed
      <3> QED  BY <1>1, <3>1, <3>2, IntervalInduction
    <2> QED  BY <1>1, <2>6, <2>7, <2>8
  <1>4. ParseTests(cases, table) = after[k]
    BY DEF ParseTests
  <1> HIDE DEF after, step, Loop, first
  <1> DEFINE Read(n) ==
                 /\ after[n] \in Acc
                 /\ after[n].over <=> \E j \in 1 .. n : ~TestAccepted(cases[j])
                 /\ ReadInto(cases, AcceptedIn(cases, n), table,
                             after[n].table)
             read == {n \in 0 .. k : Read(n)}
  <1>5. 0 \in read
    <2>1. AcceptedIn(cases, 0) = {} /\ after[0] = first
      BY <1>1, <1>3 DEF AcceptedIn
    <2>2. first \in Acc /\ ~first.over /\ first.table = table
      BY DEF first
    <2>3. ReadInto(cases, {}, table, table)
      BY DEF ReadInto
    <2>4. ~ \E j \in 1 .. 0 : ~TestAccepted(cases[j])
      OBVIOUS
    <2>5. Read(0)
      <3> HIDE DEF Acc
      <3> QED  BY <2>1, <2>2, <2>3, <2>4, Zenon
    <2> HIDE DEF Read
    <2> QED  BY <1>1, <2>5
  <1>6. ASSUME NEW n \in 0 .. k - 1, n \in read PROVE n + 1 \in read
    <2> DEFINE test == cases[n + 1]
               before == after[n]
    <2>1. n + 1 \in 1 .. k /\ after[n + 1] = ParseTest(before, test)
          /\ test \in V
      BY <1>1, <1>3
    <2>2. after[n + 1] \in Acc
      BY <1>2, <1>6, <2>1
    <2>3. CASE before.over \/ ~TestAccepted(test)
      <3>1. after[n + 1].over /\ after[n + 1].table = before.table
        BY <1>6, <2>1, <2>3 DEF ParseTest, TestAccepted
      <3>2. \E j \in 1 .. n + 1 : ~TestAccepted(cases[j])
        BY <1>6, <2>3
      <3>3. AcceptedIn(cases, n + 1) = AcceptedIn(cases, n)
        BY <3>2 DEF AcceptedIn
      <3> QED  BY <1>6, <2>1, <2>2, <3>1, <3>2, <3>3
    <2>4. CASE ~before.over /\ TestAccepted(test)
      <3>1. /\ ~after[n + 1].over
            /\ after[n + 1].table = Put(before.table, test.name, test)
        BY <1>6, <2>1, <2>4 DEF ParseTest, TestAccepted
      <3>2. \A j \in 1 .. n + 1 : TestAccepted(cases[j])
        BY <1>6, <2>4
      <3>3. /\ AcceptedIn(cases, n + 1) = 1 .. n + 1
            /\ AcceptedIn(cases, n) = 1 .. n
        BY <3>2 DEF AcceptedIn
      <3>4. /\ DOMAIN after[n + 1].table
                   = DOMAIN before.table \cup {test.name}
            /\ after[n + 1].table[test.name] = test
            /\ \A name \in DOMAIN before.table \ {test.name} :
                   after[n + 1].table[name] = before.table[name]
        <4> DEFINE old == before.table
                   name == test.name
                   put == Put(old, name, test)
        <4>0. test \in V /\ after[n + 1].table = put
          BY <2>1, <3>1
        <4> HIDE DEF before, test, old, name
        <4>1. /\ DOMAIN put = DOMAIN old \cup {name}
              /\ put[name] = test
              /\ \A k0 \in DOMAIN old \ {name} : put[k0] = old[k0]
          BY DEF Put
        <4> HIDE DEF put
        <4> QED  BY <4>0, <4>1 DEF old, name
      <3>5. ReadInto(cases, 1 .. n, table, before.table)
        BY <1>6, <3>3
      <3>6. ReadInto(cases, 1 .. n + 1, table, after[n + 1].table)
        <4> DEFINE new == after[n + 1].table
        <4>1. cases[n + 1] = test
          OBVIOUS
        <4> HIDE DEF before, test, new
        <4>2. DOMAIN new = DOMAIN table \cup {cases[i].name : i \in 1 .. n + 1}
          <5>1. {cases[i].name : i \in 1 .. n + 1}
                    = {cases[i].name : i \in 1 .. n} \cup {test.name}
            BY <4>1
          <5> QED  BY <3>4, <3>5, <5>1 DEF ReadInto, new
        <4>3. ASSUME NEW i \in 1 .. n + 1,
                     \A j \in 1 .. n + 1 :
                         cases[j].name = cases[i].name => j <= i
              PROVE  new[cases[i].name] = cases[i]
          <5>1. CASE i = n + 1
            BY <3>4, <4>1, <5>1 DEF new
          <5>2. CASE i # n + 1
            <6>1. i \in 1 .. n /\ cases[i].name # test.name
              BY <4>1, <4>3, <5>2
            <6>2. \A j \in 1 .. n : cases[j].name = cases[i].name => j <= i
              BY <4>3
            <6>3. before.table[cases[i].name] = cases[i]
              BY <3>5, <6>1, <6>2 DEF ReadInto
            <6>4. cases[i].name \in DOMAIN before.table
              BY <3>5, <6>1 DEF ReadInto
            <6> QED  BY <3>4, <6>1, <6>3, <6>4 DEF new
          <5> QED  BY <5>1, <5>2
        <4>4. ASSUME NEW name \in DOMAIN table,
                     \A i \in 1 .. n + 1 : cases[i].name # name
              PROVE  new[name] = table[name]
          <5>1. name # test.name /\ \A i \in 1 .. n : cases[i].name # name
            BY <4>1, <4>4
          <5> QED  BY <3>4, <3>5, <5>1 DEF ReadInto, new
        <4> QED  BY <4>2, <4>3, <4>4 DEF ReadInto, new
      <3> QED  BY <2>1, <2>2, <3>1, <3>2, <3>3, <3>6
    <2> QED  BY <2>3, <2>4, <1>6
  <1>7. 0 .. k \subseteq read
    <2> HIDE DEF read, k
    <2> QED  BY <1>1, <1>5, <1>6, IntervalInduction
  <1> QED  BY <1>1, <1>4, <1>7

\* The files are records, and their test cases those of TestCases.
LEMMA FileFacts ==
    ASSUME NEW list \in FileLists, NEW i \in DOMAIN list
    PROVE  /\ DOMAIN list = 1 .. Len(list) /\ Len(list) \in Nat
           /\ list[i].readable \in BOOLEAN
           /\ list[i].mode \in Modes
           /\ list[i].tests \in Seq(TestCases)
  <1>1. list \in Seq(ConfigFile)
    BY FilesAssumption
  <1>2. list[i] \in ConfigFile
    BY <1>1
  <1>3. /\ \A j \in 1 .. Len(list[i].tests) : list[i].tests[j] \in TestCases
        /\ list[i].mode \in Modes
    <2>1. list[i] \in Files
      BY DEF Files, Range
    <2> QED  BY <1>2, <2>1 DEF TestCases, Modes, Range, ConfigFile
  <1>4. list[i].tests \in Seq(TestCases)
    <2> DEFINE s == list[i].tests
    <2>1. s \in Seq(TestCase) /\ Len(s) \in Nat
      BY <1>2 DEF ConfigFile
    <2>2. s = [j \in 1 .. Len(s) |-> s[j]]
      BY <2>1
    <2> HIDE DEF s
    <2>3. \A j \in 1 .. Len(s) : s[j] \in TestCases
      BY <1>3 DEF s
    <2>4. s \in [1 .. Len(s) -> TestCases]
      BY <2>2, <2>3
    <2>5. s \in Seq(TestCases)
      BY <2>1, <2>4
    <2> QED  BY <2>5 DEF s
  <1> QED  BY <1>1, <1>2, <1>3, <1>4 DEF ConfigFile

\* What the test cases of the files have.
LEMMA CaseFacts ==
    ASSUME NEW test \in TestCases
    PROVE  /\ test \in TestCase
           /\ test.name \in TestNames
           /\ test["DumpInputPath"] \in DumpFileNames
           /\ test["Outputpath"] \in DumpFileNames
  <1>1. PICK list \in FileLists : \E i \in DOMAIN list :
            test \in Range(list[i].tests)
    BY DEF TestCases, Files, Range
  <1>2. PICK i \in DOMAIN list : test \in Range(list[i].tests)
    BY <1>1
  <1>3. list \in Seq(ConfigFile)
    BY FilesAssumption
  <1>4. list[i] \in ConfigFile
    BY <1>3
  <1>5. list[i].tests \in Seq(TestCase)
    BY <1>4 DEF ConfigFile
  <1>6. test \in TestCase
    BY <1>2, <1>5 DEF Range
  <1> QED  BY <1>6 DEF TestNames, DumpFileNames

\* What parseJsonConfigs returns and leaves in the mode and in the table.
LEMMA ParseFacts ==
    ASSUME NEW list \in FileLists, NEW i \in DOMAIN list,
           NEW mode \in Modes, NEW table \in Tables(TestNames, TestCases)
    PROVE  LET parsed == parseJsonConfigs(list[i], mode, table) IN
           /\ parsed.ok \in BOOLEAN
           /\ parsed.mode \in Modes
           /\ parsed.mode = "Concurrent" =>
                  \/ mode = "Concurrent"
                  \/ list[i].readable /\ list[i].mode = "Concurrent"
           /\ parsed.table \in Tables(TestNames, TestCases)
           /\ ReadInto(list[i].tests, Accepted(list[i]), table, parsed.table)
  <1> DEFINE file == list[i]
             parsed == ParseTests(file.tests, table)
  <1>1. /\ file.readable \in BOOLEAN /\ file.mode \in Modes
        /\ file.tests \in Seq(TestCases)
        /\ DOMAIN file.tests = 1 .. Len(file.tests)
    <2>1. list[i].tests \in Seq(TestCases)
      BY FileFacts
    <2> QED  BY <2>1, FileFacts
  <1>2. \A test \in TestCases : test.name \in TestNames
    BY CaseFacts
  <1> HIDE DEF file
  <1>3. /\ parsed.ok \in BOOLEAN
        /\ parsed.table \in Tables(TestNames, TestCases)
        /\ ReadInto(file.tests, AcceptedIn(file.tests, Len(file.tests)),
                    table, parsed.table)
    BY <1>1, <1>2, ParseTestsReads
  <1> DEFINE result == parseJsonConfigs(file, mode, table)
  <1>4. /\ result.ok \in BOOLEAN
        /\ result.mode \in Modes
        /\ result.mode = "Concurrent" =>
               \/ mode = "Concurrent"
               \/ file.readable /\ file.mode = "Concurrent"
        /\ result.table \in Tables(TestNames, TestCases)
        /\ ReadInto(file.tests, Accepted(file), table, result.table)
    <2>1. CASE ~file.readable
      <3>1. ReadInto(file.tests, {}, table, table)
        BY DEF ReadInto
      <3> QED  BY <2>1, <3>1 DEF parseJsonConfigs, Accepted
    <2>2. CASE file.readable
      <3>1. Accepted(file) = AcceptedIn(file.tests, Len(file.tests))
        <4>1. \A j \in DOMAIN file.tests :
                  TestAccepted(file.tests[j]) <=>
                      /\ WellFormed(file.tests[j])
                      /\ \/ GivesMandatory(file.tests[j])
                         \/ MandatoryNotMissed(file.tests[j])
          BY <1>1, CaseFacts, WhatIsAccepted
        <4>2. \A n \in DOMAIN file.tests : 1 .. n \subseteq DOMAIN file.tests
          BY <1>1
        <4> QED  BY <1>1, <2>2, <4>1, <4>2 DEF Accepted, AcceptedIn
      <3> DEFINE ok == parsed.ok /\ file.tests # <<>>
      <3>2. result = [ok    |-> ok,
                      mode  |-> IF file.mode = "" THEN mode ELSE file.mode,
                      table |-> parsed.table]
        BY <2>2 DEF parseJsonConfigs
      <3>3. ok \in BOOLEAN
        OBVIOUS
      <3> HIDE DEF parsed, result, ok
      <3> QED  BY <1>1, <1>3, <2>2, <3>1, <3>2, <3>3
    <2> QED  BY <1>1, <2>1, <2>2
  <1> QED  BY <1>4 DEF file

-----------------------------------------------------------------------------
\* A test case is on its way: main is in runAndWaitForComplete, or the
\* process has ended there.
Running == pc \in {"dispatch", "wait", "terminated"}

\* Main and its test cases.  Outside of runAndWaitForComplete there are none;
\* inside, those started and those still to start are the names of the table,
\* and the tables are tables of the test cases of the files.
MainInv ==
    /\ matched_files \in FileLists
    /\ mapTestCasesConfig \in Tables(TestNames, TestCases)
    /\ Running => /\ current \in DOMAIN matched_files
                  /\ toRun \cup DOMAIN tests = DOMAIN mapTestCasesConfig
                  /\ toRun \cap DOMAIN tests = {}
    /\ ~Running => tests = <<>>

\* What OneAtATime rests on: outside the mode Concurrent the loop goes on
\* only when the test case it has started is over.
OneInv ==
    ExecutionMode # "Concurrent" =>
        /\ pc = "dispatch" => AllEnded
        /\ \A s, t \in DOMAIN tests :
               tests[s] # "ended" /\ tests[t] # "ended" => s = t

\* What EveryTestJudged rests on: of the file main is at, the test cases that
\* are over have their line, and no line is of a later file.
JudgedInv ==
    /\ \A pair \in judged : pair[1] \in Nat /\ pair[1] <= current
    /\ \A pair \in judged :
           pair[1] = current => Running /\ pair[2] \in DOMAIN tests
    /\ Running => \A t \in DOMAIN tests :
           tests[t] = "ended" <=> \E pair \in judged :
                                      pair[1] = current /\ pair[2] = t

\* A file has asked for threads if the mode says so.
ModeInv ==
    ExecutionMode = "Concurrent" =>
        \E i \in ParsedFiles :
            matched_files[i].readable /\ matched_files[i].mode = "Concurrent"

\* The dump a test case is naming.
Naming(test) ==
    mapTestCasesConfig[test]
        [IF tests[test] \in {"countInput", "openInput"} THEN "DumpInputPath"
         ELSE "Outputpath"]

\* What DumpsApart rests on: a name has been counted past every file opened
\* under it, and starts again at 0 only when it has no file; the file a test
\* case has found is the next of its name, and the one it has counted is new.
Opened ==
    \A d \in dumps : /\ d.file[1] \in DumpFileNames
                     /\ d.file[2] \in Nat
                     /\ d.file[2] < sNames[d.file[1]]
                     /\ <<d.file[1], 0>> \in exist

FoundNext(test) ==
    \/ dumpFile[test] = NoFile
    \/ /\ dumpFile[test] = <<Naming(test), sNames[Naming(test)]>>
       /\ sNames[Naming(test)] > 0 => <<Naming(test), 0>> \in exist

CountedNew(test) ==
    \/ dumpFile[test] = NoFile
    \/ /\ dumpFile[test] = <<Naming(test), sNames[Naming(test)] - 1>>
       /\ sNames[Naming(test)] > 0
       /\ sNames[Naming(test)] > 1 => <<Naming(test), 0>> \in exist
       /\ \A d \in dumps : d.file # dumpFile[test]

NamesInv ==
    /\ Opened
    /\ \A test \in DOMAIN tests :
           /\ tests[test] \in {"countInput", "countOutput"} => FoundNext(test)
           /\ tests[test] \in {"openInput", "openOutput"} => CountedNew(test)
    /\ \A d, e \in dumps : d.file = e.file => d = e

DumpsInv == NoFile \notin exist /\ (OnlySequential => NamesInv)

AppInv ==
    /\ TypeOK /\ MainInv /\ OneInv /\ TableIsLatest
    /\ JudgedInv /\ EveryTestJudged /\ ModeInv /\ DumpsInv

-----------------------------------------------------------------------------
\* Where a definition of a name stands: a file that has been parsed and the
\* place of an accepted test case.
LEMMA DefinitionFacts ==
    ASSUME NEW name
    PROVE  \A d : d \in Definitions(name) <=>
               \E k \in ParsedFiles : \E i \in Accepted(matched_files[k]) :
                   matched_files[k].tests[i].name = name /\ d = <<k, i>>
  BY DEF Definitions

\* The test cases of a file that main goes through are test cases of files.
LEMMA AcceptedFacts ==
    ASSUME MainInv, NEW k \in DOMAIN matched_files,
           NEW i \in Accepted(matched_files[k])
    PROVE  /\ i \in Nat
           /\ matched_files[k].tests[i] \in TestCases
           /\ matched_files[k].tests[i].name \in TestNames
  <1>1. matched_files \in FileLists
    BY DEF MainInv
  <1>2. matched_files[k].tests \in Seq(TestCases)
    BY <1>1, FileFacts
  <1>3. i \in DOMAIN matched_files[k].tests
    BY DEF Accepted
  <1>4. i \in Nat /\ matched_files[k].tests[i] \in TestCases
    <2> DEFINE s == matched_files[k].tests
    <2> HIDE DEF s
    <2>1. s \in Seq(TestCases) /\ i \in DOMAIN s
      BY <1>2, <1>3 DEF s
    <2>2. i \in Nat /\ s[i] \in TestCases
      BY <2>1
    <2> QED  BY <2>2 DEF s
  <1> QED  BY <1>4, CaseFacts

\* A step that reads no file leaves the table the latest.
LEMMA TableKept ==
    ASSUME TableIsLatest, ParsedFiles' = ParsedFiles,
           UNCHANGED <<matched_files, mapTestCasesConfig>>
    PROVE  TableIsLatest'
  <1>1. \A name : Definitions(name)' = Definitions(name)
    BY DEF Definitions
  <1> QED  BY <1>1 DEF TableIsLatest, NotAfter

\* When the files up to the one main is at have been parsed, the table has the
\* names accepted so far.
LEMMA TableNames ==
    ASSUME TypeOK, MainInv, TableIsLatest, Running
    PROVE  DOMAIN mapTestCasesConfig = AcceptedUpTo(current)
  <1>1. /\ current \in Nat /\ current \in DOMAIN matched_files
        /\ DOMAIN matched_files = 1 .. Len(matched_files)
        /\ Len(matched_files) \in Nat
    <2>1. matched_files \in FileLists /\ current \in DOMAIN matched_files
      BY DEF MainInv
    <2> QED  BY <2>1, FileFacts
  <1>2. ParsedFiles = 1 .. current
    BY <1>1 DEF ParsedFiles, Running
  <1>3. ASSUME NEW name
        PROVE  name \in AcceptedUpTo(current) <=>
                   name \in TestNames /\ Definitions(name) # {}
    <2>1. name \in AcceptedUpTo(current) <=>
              \E k \in ParsedFiles : \E i \in Accepted(matched_files[k]) :
                  matched_files[k].tests[i].name = name
      BY <1>2 DEF AcceptedUpTo
    <2>2. Definitions(name) # {} <=>
              \E k \in ParsedFiles : \E i \in Accepted(matched_files[k]) :
                  matched_files[k].tests[i].name = name
      <3>1. ASSUME NEW k \in ParsedFiles,
                   NEW i \in Accepted(matched_files[k]),
                   matched_files[k].tests[i].name = name
            PROVE  <<k, i>> \in Definitions(name)
        BY <3>1, DefinitionFacts
      <3>2. ASSUME NEW d \in Definitions(name)
            PROVE  \E k \in ParsedFiles :
                       \E i \in Accepted(matched_files[k]) :
                           matched_files[k].tests[i].name = name
        BY DefinitionFacts
      <3> QED  BY <3>1, <3>2
    <2>3. ASSUME NEW k \in ParsedFiles, NEW i \in Accepted(matched_files[k]),
                 matched_files[k].tests[i].name = name
          PROVE  name \in TestNames
      BY <1>1, <1>2, <2>3, AcceptedFacts
    <2> QED  BY <2>1, <2>2, <2>3
  <1>4. ASSUME NEW name
        PROVE  name \in DOMAIN mapTestCasesConfig <=>
                   name \in TestNames /\ Definitions(name) # {}
    BY DEF TypeOK, TableIsLatest
  <1>5. \A name : name \in DOMAIN mapTestCasesConfig
                      <=> name \in AcceptedUpTo(current)
    BY <1>3, <1>4
  <1>6. AcceptedUpTo(current) = {name \in AcceptedUpTo(current) : TRUE}
    OBVIOUS
  <1> QED  BY <1>5, Zenon

\* Reading a file into the table.
LEMMA ParseTable ==
    ASSUME TypeOK, MainInv, TableIsLatest, Parse
    PROVE  /\ mapTestCasesConfig' \in Tables(TestNames, TestCases)
           /\ ExecutionMode' \in Modes
           /\ ExecutionMode' = "Concurrent" =>
                  \/ ExecutionMode = "Concurrent"
                  \/ /\ matched_files[current].readable
                     /\ matched_files[current].mode = "Concurrent"
           /\ ReadInto(matched_files[current].tests,
                       Accepted(matched_files[current]),
                       mapTestCasesConfig, mapTestCasesConfig')
           /\ pc' \in {"dispatch", "ended"}
           /\ toRun' = IF pc' = "dispatch" THEN DOMAIN mapTestCasesConfig'
                       ELSE {}
           /\ current \in DOMAIN matched_files
           /\ UNCHANGED <<matched_files, current, testVars, dumpVars>>
  <1>1. /\ matched_files \in FileLists
        /\ mapTestCasesConfig \in Tables(TestNames, TestCases)
        /\ ExecutionMode \in Modes
    BY DEF MainInv, TypeOK
  <1>2. current \in DOMAIN matched_files
    <2>1. current \in 1 .. Len(matched_files)
      BY DEF Parse, TypeOK
    <2>2. matched_files \in Seq(ConfigFile)
      BY <1>1, FilesAssumption
    <2> QED  BY <2>1, <2>2
  <1> DEFINE parsed == parseJsonConfigs(matched_files[current],
                                        ExecutionMode, mapTestCasesConfig)
  <1>3. /\ parsed.ok \in BOOLEAN
        /\ parsed.mode \in Modes
        /\ parsed.mode = "Concurrent" =>
               \/ ExecutionMode = "Concurrent"
               \/ /\ matched_files[current].readable
                  /\ matched_files[current].mode = "Concurrent"
        /\ parsed.table \in Tables(TestNames, TestCases)
        /\ ReadInto(matched_files[current].tests,
                    Accepted(matched_files[current]),
                    mapTestCasesConfig, parsed.table)
    BY <1>1, <1>2, ParseFacts
  <1>4. /\ ExecutionMode' = parsed.mode
        /\ mapTestCasesConfig' = parsed.table
        /\ toRun' = IF parsed.ok THEN DOMAIN parsed.table ELSE {}
        /\ pc' = IF parsed.ok THEN "dispatch" ELSE "ended"
        /\ UNCHANGED <<matched_files, current, testVars, dumpVars>>
    BY DEF Parse
  <1> HIDE DEF parsed
  <1> QED  BY <1>2, <1>3, <1>4

\* The names of a file come after all the earlier ones.
LEMMA ParseLatest ==
    ASSUME TypeOK, MainInv, TableIsLatest, Parse
    PROVE  TableIsLatest'
  <1> DEFINE file == matched_files[current]
             read == Accepted(file)
             table == mapTestCasesConfig
  <1>1. /\ ReadInto(file.tests, read, table, table')
        /\ pc = "parse" /\ pc' # "parse"
        /\ current \in DOMAIN matched_files
        /\ current \in Int
        /\ UNCHANGED <<matched_files, current>>
    <2>1. pc' \in {"dispatch", "ended"}
      BY ParseTable
    <2> QED  BY <2>1, ParseTable DEF Parse, TypeOK
  <1>2. /\ current \notin ParsedFiles
        /\ ParsedFiles' = ParsedFiles \cup {current}
        /\ \A k \in ParsedFiles : k \in DOMAIN matched_files /\ k < current
    BY <1>1 DEF ParsedFiles
  <1> SUFFICES ASSUME NEW name \in TestNames
               PROVE  /\ name \in DOMAIN table' <=> Definitions(name)' # {}
                      /\ \A d \in Definitions(name)' :
                             (\A e \in Definitions(name)' : NotAfter(e, d))
                                 => table'[name]
                                        = matched_files[d[1]].tests[d[2]]
    BY <1>1 DEF TableIsLatest, NotAfter
  <1> DEFINE new == {i \in read : file.tests[i].name = name}
             old == Definitions(name)
  <1>3. Definitions(name)' = old \cup {<<current, i>> : i \in new}
    BY <1>1, <1>2 DEF Definitions
  <1>4. \A d \in old : \E k \in ParsedFiles :
            \E i \in Accepted(matched_files[k]) : d = <<k, i>>
    BY DefinitionFacts
  <1>5. \A d \in old : d[1] \in Int /\ d[1] < current /\ d[2] \in Nat
    <2>1. \A k \in ParsedFiles : k \in Int
      <3>1. matched_files \in FileLists
        BY DEF MainInv
      <3>2. DOMAIN matched_files = 1 .. Len(matched_files)
        BY <1>1, <3>1, FileFacts
      <3> QED  BY <1>2, <3>2
    <2> QED  BY <1>2, <1>4, <2>1, AcceptedFacts
  <1>6. \A i \in new : i \in Nat
    BY <1>1, AcceptedFacts
  <1>7. /\ name \in DOMAIN table <=> old # {}
        /\ \A d \in old : (\A e \in old : NotAfter(e, d))
               => table[name] = matched_files[d[1]].tests[d[2]]
    BY DEF TableIsLatest
  <1>8. name \in DOMAIN table' <=> name \in DOMAIN table \/ new # {}
    BY <1>1 DEF ReadInto
  <1> HIDE DEF old
  <1>9. ASSUME NEW d \in old \cup {<<current, i>> : i \in new},
               \A e \in old \cup {<<current, i>> : i \in new} : NotAfter(e, d)
        PROVE  table'[name] = matched_files[d[1]].tests[d[2]]
    <2>1. CASE d \in old
      <3>1. new = {}
        <4> SUFFICES ASSUME NEW i \in new PROVE FALSE
          OBVIOUS
        <4>1. NotAfter(<<current, i>>, d)
          BY <1>9
        <4> QED  BY <1>1, <1>5, <2>1, <4>1 DEF NotAfter
      <3>2. name \in DOMAIN table /\ table'[name] = table[name]
        BY <1>1, <1>7, <2>1, <3>1 DEF ReadInto
      <3> QED  BY <1>7, <1>9, <2>1, <3>2
    <2>2. ASSUME NEW i \in new, d = <<current, i>>
          PROVE  table'[name] = matched_files[d[1]].tests[d[2]]
      <3>1. ASSUME NEW j \in read, file.tests[j].name = file.tests[i].name
            PROVE  j <= i
        <4>1. j \in new
          BY <3>1
        <4>2. NotAfter(<<current, j>>, d)
          BY <1>9, <4>1
        <4> QED  BY <1>1, <1>6, <2>2, <4>1, <4>2 DEF NotAfter
      <3>2. table'[file.tests[i].name] = file.tests[i]
        BY <1>1, <3>1 DEF ReadInto
      <3> QED  BY <2>2, <3>2
    <2> QED  BY <2>1, <2>2
  <1>10. name \in DOMAIN table' <=> Definitions(name)' # {}
    BY <1>3, <1>7, <1>8
  <1> QED  BY <1>1, <1>3, <1>9, <1>10
-----------------------------------------------------------------------------
\* What a step of a test case may do: it moves on, ends with its line, or
\* takes the process with it.
LEMMA TestStep ==
    ASSUME NEW test, Test(test)
    PROVE  /\ test \in DOMAIN tests /\ tests[test] # "ended"
           /\ pc # "terminated"
           /\ UNCHANGED <<matched_files, current, ExecutionMode,
                          mapTestCasesConfig, toRun>>
           /\ \/ pc' = "terminated" /\ UNCHANGED <<testVars, dumpVars>>
              \/ /\ pc' = pc
                 /\ \E where \in TestPc :
                        /\ tests' = [tests EXCEPT ![test] = where]
                        /\ judged' = IF where = "ended"
                                     THEN judged \cup {<<current, test>>}
                                     ELSE judged
  <1> USE DEF At, Goto, TestPc, mainVars
  <1>1. CASE Setup(test)
    <2>1. CASE Terminate
      BY <1>1, <2>1 DEF Setup, Terminate
    <2>2. ASSUME NEW where \in {"DumpInputPath", "line"}, Goto(test, where),
                 UNCHANGED <<mainVars, dumpFile, judged, dumpVars>>
          PROVE  tests' = [tests EXCEPT ![test] = where] /\ judged' = judged
      BY <2>2
    <2> QED  BY <1>1, <2>1, <2>2 DEF Setup
  <1>2. ASSUME NEW kind \in {"DumpInputPath", "Outputpath"},
               NEW next \in TestPc \ {"ended"},
               LookUpName(test, kind, next)
        PROVE  /\ pc' = pc /\ judged' = judged
               /\ tests' = [tests EXCEPT ![test] = next]
    BY <1>2 DEF LookUpName
  <1>3. ASSUME NEW here, NEW kind, NEW next \in TestPc \ {"ended"},
               CountDump(test, here, kind, next)
                   \/ OpenDumpFile(test, here, kind, next)
        PROVE  /\ pc' = pc /\ judged' = judged
               /\ tests' = [tests EXCEPT ![test] = next]
    BY <1>3 DEF CountDump, OpenDumpFile
  <1>4. CASE SetDump(test)
    <2>1. UNCHANGED mainVars /\ tests[test] # "ended"
          /\ test \in DOMAIN tests /\ pc # "terminated"
      BY <1>4 DEF SetDump, LookUpName, CountDump, OpenDumpFile
    <2>2. judged' = judged
      BY <1>4 DEF SetDump, LookUpName, CountDump, OpenDumpFile
    <2>3. \E where \in TestPc \ {"ended"} :
              tests' = [tests EXCEPT ![test] = where]
      BY <1>4 DEF SetDump, LookUpName, CountDump, OpenDumpFile
    <2> QED  BY <2>1, <2>2, <2>3
  <1>5. CASE Session(test)
    BY <1>5 DEF Session, Terminate
  <1>6. CASE BeginLine(test) \/ EndLine(test)
    BY <1>6 DEF BeginLine, EndLine
  <1> QED  BY <1>1, <1>4, <1>5, <1>6 DEF Test

\* The steps of main, of the threads, and none.
LEMMA StepCases ==
    ASSUME [Next]_vars
    PROVE  \/ Parse \/ NoFileLeft \/ TestReturns \/ JoinAll
           \/ \E test \in toRun : StartTest(test)
           \/ \E test \in DOMAIN tests : Test(test)
           \/ UNCHANGED vars
  BY DEF Next, Main, Finished

LEMMA InitInv == Init => AppInv
  <1> SUFFICES ASSUME Init PROVE AppInv
    OBVIOUS
  <1> USE DEF Init
  <1>1. /\ matched_files \in FileLists /\ matched_files \in Seq(ConfigFile)
        /\ Len(matched_files) \in Nat
        /\ DOMAIN matched_files = 1 .. Len(matched_files)
    BY FilesAssumption
  <1>2. TypeOK
    <2>1. DOMAIN <<>> = {} /\ Range(<<>>) = {}
      BY DEF Range
    <2>2. sNames \in [DumpFileNames -> Nat]
      OBVIOUS
    <2>3. current \in 1 .. Len(matched_files) + 1
      BY <1>1
    <2>4. toRun \cup DOMAIN tests \subseteq DOMAIN mapTestCasesConfig
          /\ DOMAIN mapTestCasesConfig \subseteq TestNames
          /\ Range(mapTestCasesConfig) \subseteq TestCases
          /\ Range(tests) \subseteq TestPc
      BY <2>1
    <2>5. pc \in MainPc /\ ExecutionMode \in Modes
          /\ DOMAIN dumpFile = DOMAIN tests
      BY DEF MainPc, Modes
    <2> QED  BY <2>2, <2>3, <2>4, <2>5 DEF TypeOK
  <1>3. MainInv
    <2>1. <<>> \in Tables(TestNames, TestCases)
      <3>1. <<>> \in [{} -> TestCases] /\ {} \in SUBSET TestNames
        OBVIOUS
      <3> QED  BY <3>1 DEF Tables
    <2> QED  BY <1>1, <2>1 DEF MainInv, Running
  <1>4. OneInv
    BY DEF OneInv, AllEnded
  <1>5. TableIsLatest
    <2>1. ParsedFiles = {}
      BY <1>1 DEF ParsedFiles
    <2>2. \A name : Definitions(name) = {}
      BY <2>1 DEF Definitions
    <2> QED  BY <2>2 DEF TableIsLatest
  <1>6. JudgedInv /\ EveryTestJudged /\ ModeInv
    BY DEF JudgedInv, EveryTestJudged, ModeInv, Running
  <1>7. DumpsInv
    BY DEF DumpsInv, NamesInv, Opened, NoFile
  <1> QED  BY <1>2, <1>3, <1>4, <1>5, <1>6, <1>7 DEF AppInv

\* The names under which a test case of the table asks for its dumps.
LEMMA DumpNameFacts ==
    ASSUME TypeOK, MainInv, NEW test \in DOMAIN tests,
           NEW kind \in {"DumpInputPath", "Outputpath"}
    PROVE  mapTestCasesConfig[test][kind] \in DumpFileNames
  <1>1. PICK D \in SUBSET TestNames :
            mapTestCasesConfig \in [D -> TestCases]
    BY DEF MainInv, Tables
  <1>2. test \in D
    BY <1>1 DEF TypeOK
  <1> QED  BY <1>1, <1>2, CaseFacts

\* Every variable keeps its type.
LEMMA TypeStep ==
    ASSUME TypeOK, MainInv, TableIsLatest, [Next]_vars
    PROVE  TypeOK'
  <1>1. CASE Parse
    <2>1. PICK D \in SUBSET TestNames :
              mapTestCasesConfig' \in [D -> TestCases]
      BY <1>1, ParseTable DEF Tables
    <2>2. tests = <<>>
      BY <1>1 DEF Parse, MainInv, Running
    <2> QED  BY <1>1, <2>1, <2>2, ParseTable
             DEF TypeOK, MainPc, Range, testVars, dumpVars
  <1>2. CASE NoFileLeft \/ TestReturns
    BY <1>2 DEF NoFileLeft, TestReturns, TypeOK, MainPc, testVars, dumpVars
  <1>3. CASE JoinAll
    <2>1. current' \in 1 .. Len(matched_files) + 1
      <3>1. /\ matched_files \in Seq(ConfigFile)
            /\ current \in DOMAIN matched_files
        BY <1>3, FilesAssumption DEF JoinAll, MainInv, Running
      <3> QED  BY <1>3, <3>1 DEF JoinAll, NextFile
    <2>2. DOMAIN <<>> = {} /\ Range(<<>>) = {}
      BY DEF Range
    <2> QED
      BY <1>3, <2>1, <2>2 DEF JoinAll, NextFile, TypeOK, MainPc, dumpVars
  <1>4. ASSUME NEW test \in toRun, StartTest(test) PROVE TypeOK'
    <2>1. /\ DOMAIN tests' = DOMAIN tests \cup {test}
          /\ DOMAIN dumpFile' = DOMAIN dumpFile \cup {test}
          /\ Range(tests') \subseteq Range(tests) \cup {"setup"}
      BY <1>4 DEF StartTest, Put, Range
    <2> QED  BY <1>4, <2>1 DEF StartTest, TypeOK, MainPc, TestPc, dumpVars
  <1>5. ASSUME NEW test \in DOMAIN tests, Test(test) PROVE TypeOK'
    <2>1. /\ DOMAIN tests' = DOMAIN tests
          /\ Range(tests') \subseteq Range(tests) \cup TestPc
      BY <1>5, TestStep DEF Range, testVars
    <2>2. pc' \in {pc, "terminated"}
          /\ UNCHANGED <<matched_files, current, ExecutionMode,
                         mapTestCasesConfig, toRun>>
      BY <1>5, TestStep
    <2>3. /\ DOMAIN dumpFile' = DOMAIN dumpFile
          /\ sNames' \in [DumpFileNames -> Nat]
      <3>1. CASE Setup(test) \/ Session(test) \/ BeginLine(test)
                     \/ EndLine(test)
        BY <3>1 DEF Setup, Session, BeginLine, EndLine, Terminate, TypeOK,
           testVars, dumpVars
      <3>2. ASSUME NEW kind \in {"DumpInputPath", "Outputpath"}, NEW next,
                   LookUpName(test, kind, next)
            PROVE  /\ DOMAIN dumpFile' = DOMAIN dumpFile
                   /\ sNames' \in [DumpFileNames -> Nat]
        BY <3>2, DumpNameFacts DEF LookUpName, LookUp, Count, TypeOK
      <3>3. ASSUME NEW kind \in {"DumpInputPath", "Outputpath"}, NEW next,
                   NEW here, CountDump(test, here, kind, next)
            PROVE  /\ DOMAIN dumpFile' = DOMAIN dumpFile
                   /\ sNames' \in [DumpFileNames -> Nat]
        BY <3>3, DumpNameFacts DEF CountDump, CountName, TypeOK
      <3>4. ASSUME NEW kind, NEW next, NEW here,
                   OpenDumpFile(test, here, kind, next)
            PROVE  /\ DOMAIN dumpFile' = DOMAIN dumpFile
                   /\ sNames' \in [DumpFileNames -> Nat]
        BY <3>4 DEF OpenDumpFile, OpenDump, TypeOK, dumpVars
      <3> QED  BY <1>5, <3>1, <3>2, <3>3, <3>4 DEF Test, SetDump
    <2> QED  BY <2>1, <2>2, <2>3 DEF TypeOK, MainPc
  <1>6. CASE UNCHANGED vars
    BY <1>6 DEF vars, mainVars, testVars, dumpVars, TypeOK
  <1> QED  BY <1>1, <1>2, <1>3, <1>4, <1>5, <1>6, StepCases

\* The test cases of a file are waiting or started; between files none is.
LEMMA MainStep ==
    ASSUME TypeOK, MainInv, TableIsLatest, [Next]_vars
    PROVE  MainInv'
  <1>1. CASE Parse
    <2>1. tests = <<>> /\ DOMAIN <<>> = {}
      BY <1>1 DEF Parse, MainInv, Running
    <2> QED  BY <1>1, <2>1, ParseTable DEF MainInv, Running, testVars
  <1>2. CASE NoFileLeft \/ TestReturns
    BY <1>2 DEF NoFileLeft, TestReturns, MainInv, Running, testVars
  <1>3. CASE JoinAll
    BY <1>3 DEF JoinAll, NextFile, MainInv, Running
  <1>4. ASSUME NEW test \in toRun, StartTest(test) PROVE MainInv'
    <2>1. DOMAIN tests' = DOMAIN tests \cup {test}
      BY <1>4 DEF StartTest, Put
    <2> QED  BY <1>4, <2>1 DEF StartTest, MainInv, Running
  <1>5. ASSUME NEW test \in DOMAIN tests, Test(test) PROVE MainInv'
    <2>1. DOMAIN tests' = DOMAIN tests /\ DOMAIN tests # {} /\ tests # <<>>
      BY <1>5, TestStep DEF testVars
    <2>2. Running
      BY <2>1 DEF MainInv
    <2> QED  BY <1>5, <2>1, <2>2, TestStep DEF MainInv, Running
  <1>6. CASE UNCHANGED vars
    BY <1>6 DEF vars, mainVars, testVars, MainInv, Running
  <1> QED  BY <1>1, <1>2, <1>3, <1>4, <1>5, <1>6, StepCases

\* Only parsing changes the table of test cases.
LEMMA TableStep ==
    ASSUME TypeOK, MainInv, TableIsLatest, [Next]_vars
    PROVE  TableIsLatest'
  <1>1. CASE Parse
    BY <1>1, ParseLatest
  <1>2. CASE NoFileLeft
    <2>1. ParsedFiles' = ParsedFiles
      <3>1. \A i \in DOMAIN matched_files : i # current
        <4>1. matched_files \in Seq(ConfigFile)
          BY FilesAssumption DEF MainInv
        <4> QED  BY <1>2, <4>1 DEF NoFileLeft, TypeOK
      <3> QED  BY <1>2, <3>1 DEF NoFileLeft, ParsedFiles
    <2> QED  BY <1>2, <2>1, TableKept DEF NoFileLeft
  <1>3. CASE TestReturns
    BY <1>3, TableKept DEF TestReturns, ParsedFiles
  <1>4. CASE JoinAll
    <2>1. ParsedFiles' = ParsedFiles
      <3>1. /\ matched_files \in Seq(ConfigFile)
            /\ current \in DOMAIN matched_files
        BY <1>4, FilesAssumption DEF JoinAll, MainInv, Running
      <3>2. /\ current \in Nat
            /\ \A i \in DOMAIN matched_files :
                   i < current + 1 <=> i < current \/ i = current
        BY <3>1
      <3> QED  BY <1>4, <3>2 DEF JoinAll, NextFile, ParsedFiles
    <2> QED  BY <1>4, <2>1, TableKept DEF JoinAll, NextFile
  <1>5. ASSUME NEW test \in toRun, StartTest(test) PROVE TableIsLatest'
    BY <1>5, TableKept DEF StartTest, ParsedFiles
  <1>6. ASSUME NEW test \in DOMAIN tests, Test(test) PROVE TableIsLatest'
    <2>1. pc # "parse"
      BY <1>6 DEF MainInv, Running
    <2>2. /\ pc' # "parse"
          /\ UNCHANGED <<matched_files, current, mapTestCasesConfig>>
      BY <1>6, <2>1, TestStep
    <2> QED  BY <2>1, <2>2, TableKept DEF ParsedFiles
  <1>7. CASE UNCHANGED vars
    BY <1>7, TableKept DEF vars, mainVars, ParsedFiles
  <1> QED  BY <1>1, <1>2, <1>3, <1>4, <1>5, <1>6, <1>7, StepCases

\* Outside the mode Concurrent a thread is started when the last has ended.
LEMMA OneStep ==
    ASSUME TypeOK, MainInv, OneInv, [Next]_vars
    PROVE  OneInv'
  <1> USE DEF OneInv, AllEnded
  <1>1. CASE Parse
    <2>1. tests' = <<>> /\ DOMAIN <<>> = {}
      BY <1>1 DEF Parse, MainInv, Running, testVars
    <2> QED  BY <2>1
  <1>2. CASE NoFileLeft \/ TestReturns
    BY <1>2 DEF NoFileLeft, TestReturns, testVars
  <1>3. CASE JoinAll
    <2>1. tests' = <<>> /\ DOMAIN <<>> = {}
      BY <1>3 DEF JoinAll, NextFile
    <2> QED  BY <2>1
  <1>4. ASSUME NEW test \in toRun, StartTest(test) PROVE OneInv'
    <2>1. /\ DOMAIN tests' = DOMAIN tests \cup {test}
          /\ \A t \in DOMAIN tests \ {test} : tests'[t] = tests[t]
      BY <1>4 DEF StartTest, Put
    <2> QED  BY <1>4, <2>1 DEF StartTest
  <1>5. ASSUME NEW test \in DOMAIN tests, Test(test) PROVE OneInv'
    <2> SUFFICES ASSUME ExecutionMode # "Concurrent" PROVE OneInv'
      BY <1>5, TestStep
    <2>1. /\ tests[test] # "ended" /\ pc # "dispatch" /\ pc' # "dispatch"
          /\ ExecutionMode' = ExecutionMode
      BY <1>5, TestStep
    <2>2. /\ DOMAIN tests' = DOMAIN tests
          /\ \A t \in DOMAIN tests \ {test} : tests'[t] = tests[t]
      BY <1>5, TestStep DEF testVars
    <2> QED  BY <2>1, <2>2
  <1>6. CASE UNCHANGED vars
    BY <1>6 DEF vars, mainVars, testVars
  <1> QED  BY <1>1, <1>2, <1>3, <1>4, <1>5, <1>6, StepCases

\* The mode is Concurrent only after a file that says so.
LEMMA ModeStep ==
    ASSUME TypeOK, MainInv, TableIsLatest, ModeInv, [Next]_vars
    PROVE  ModeInv'
  <1>1. CASE Parse
    <2>1. /\ ParsedFiles \subseteq ParsedFiles' /\ current \in ParsedFiles'
          /\ matched_files' = matched_files
      BY <1>1, ParseTable DEF Parse, ParsedFiles
    <2> QED  BY <1>1, <2>1, ParseTable DEF ModeInv
  <1>2. ASSUME UNCHANGED <<matched_files, ExecutionMode>>,
               ParsedFiles \subseteq ParsedFiles'
        PROVE  ModeInv'
    BY <1>2 DEF ModeInv
  <1>3. CASE NoFileLeft \/ TestReturns
    BY <1>2, <1>3 DEF NoFileLeft, TestReturns, ParsedFiles
  <1>4. CASE JoinAll
    <2>1. matched_files \in Seq(ConfigFile) /\ current \in DOMAIN matched_files
      BY <1>4, FilesAssumption DEF JoinAll, MainInv, Running
    <2>2. \A i \in DOMAIN matched_files :
              i < current \/ i = current => i < current + 1
      BY <2>1
    <2> QED  BY <1>2, <1>4, <2>2 DEF JoinAll, NextFile, ParsedFiles
  <1>5. ASSUME NEW test \in toRun, StartTest(test) PROVE ModeInv'
    BY <1>2, <1>5 DEF StartTest, ParsedFiles
  <1>6. ASSUME NEW test \in DOMAIN tests, Test(test) PROVE ModeInv'
    <2>1. pc' \in {pc, "terminated"}
          /\ UNCHANGED <<matched_files, current, ExecutionMode>>
      BY <1>6, TestStep
    <2> QED  BY <1>2, <2>1 DEF ParsedFiles
  <1>7. CASE UNCHANGED vars
    BY <1>2, <1>7 DEF vars, mainVars, ParsedFiles
  <1> QED  BY <1>1, <1>3, <1>4, <1>5, <1>6, <1>7, StepCases

\* The test cases of this file that have ended are those judged.
LEMMA JudgedStep ==
    ASSUME TypeOK, MainInv, JudgedInv, [Next]_vars
    PROVE  JudgedInv'
  <1> USE DEF JudgedInv
  <1>0. current \in Nat
    BY DEF TypeOK
  <1>1. CASE Parse
    <2>1. /\ tests' = <<>> /\ DOMAIN <<>> = {} /\ ~Running
          /\ UNCHANGED <<judged, current>>
      BY <1>1 DEF Parse, MainInv, Running, testVars
    <2> QED  BY <2>1
  <1>2. CASE NoFileLeft
    <2>1. ~Running /\ ~Running' /\ UNCHANGED <<judged, current>>
      BY <1>2 DEF NoFileLeft, Running, testVars
    <2> QED  BY <2>1
  <1>3. CASE JoinAll
    <2>1. /\ ~Running' /\ judged' = judged /\ current' = current + 1
      BY <1>3 DEF JoinAll, NextFile, Running
    <2> QED  BY <1>0, <2>1
  <1>4. ASSUME UNCHANGED <<judged, current>>, Running, Running',
               DOMAIN tests \subseteq DOMAIN tests',
               \A t \in DOMAIN tests : tests'[t] = "ended"
                                           <=> tests[t] = "ended",
               \A t \in DOMAIN tests' \ DOMAIN tests : tests'[t] # "ended"
        PROVE  JudgedInv'
    BY <1>4
  <1>5. CASE TestReturns
    BY <1>4, <1>5 DEF TestReturns, Running, testVars
  <1>6. ASSUME NEW test \in toRun, StartTest(test) PROVE JudgedInv'
    <2>1. /\ DOMAIN tests' = DOMAIN tests \cup {test}
          /\ tests'[test] = "setup"
          /\ \A t \in DOMAIN tests \ {test} : tests'[t] = tests[t]
          /\ Running /\ Running' /\ UNCHANGED <<judged, current>>
      BY <1>6 DEF StartTest, Put, Running
    <2>2. test \notin DOMAIN tests
      BY <2>1 DEF MainInv
    <2> QED  BY <1>4, <2>1, <2>2
  <1>7. ASSUME NEW test \in DOMAIN tests, Test(test) PROVE JudgedInv'
    <2>1. Running /\ Running' /\ current' = current /\ tests[test] # "ended"
      BY <1>7, TestStep DEF MainInv, Running
    <2>2. CASE UNCHANGED testVars
      BY <1>4, <2>1, <2>2 DEF testVars
    <2>3. ASSUME NEW where \in TestPc,
                 tests' = [tests EXCEPT ![test] = where],
                 judged' = IF where = "ended"
                           THEN judged \cup {<<current, test>>}
                           ELSE judged
          PROVE  JudgedInv'
      <3>1. /\ DOMAIN tests' = DOMAIN tests /\ tests'[test] = where
            /\ \A t \in DOMAIN tests \ {test} : tests'[t] = tests[t]
        BY <2>3
      <3>2. CASE where # "ended"
        BY <1>4, <2>1, <2>3, <3>1, <3>2
      <3>3. CASE where = "ended"
        <4>1. judged' = judged \cup {<<current, test>>}
          BY <2>3, <3>3
        <4>2. \A pair \in judged' : pair[1] \in Nat /\ pair[1] <= current
          BY <1>0, <4>1
        <4>3. \A pair \in judged' :
                  pair[1] = current => pair[2] \in DOMAIN tests
          BY <4>1
        <4>4. ASSUME NEW t \in DOMAIN tests
              PROVE  tests'[t] = "ended" <=> \E pair \in judged' :
                                      pair[1] = current /\ pair[2] = t
          <5>1. CASE t = test
            <6>1. <<current, test>> \in judged'
              BY <4>1
            <6> QED  BY <3>1, <3>3, <5>1, <6>1
          <5>2. CASE t # test
            <6>1. (\E pair \in judged' : pair[1] = current /\ pair[2] = t)
                  <=> \E pair \in judged : pair[1] = current /\ pair[2] = t
              BY <4>1, <5>2
            <6>2. tests[t] = "ended" <=>
                      \E pair \in judged : pair[1] = current /\ pair[2] = t
              BY <2>1
            <6>3. tests'[t] = tests[t]
              BY <3>1, <5>2
            <6> QED  BY <6>1, <6>2, <6>3, Zenon
          <5> QED  BY <5>1, <5>2
        <4> QED  BY <2>1, <3>1, <4>2, <4>3, <4>4
      <3> QED  BY <3>2, <3>3
    <2> QED  BY <1>7, <2>2, <2>3, TestStep
  <1>8. CASE UNCHANGED vars
    BY <1>8 DEF vars, mainVars, testVars, Running
  <1> QED  BY <1>1, <1>2, <1>3, <1>5, <1>6, <1>7, <1>8, StepCases

\* Of a file main has done with, what has been accepted so far is judged.
LEMMA EveryStep ==
    ASSUME TypeOK, MainInv, TableIsLatest, JudgedInv, EveryTestJudged,
           [Next]_vars
    PROVE  EveryTestJudged'
  <1>0. current \in Nat
    BY DEF TypeOK
  <1>1. ASSUME UNCHANGED <<matched_files, current, judged>>
        PROVE  EveryTestJudged'
    <2>1. \A k : AcceptedUpTo(k)' = AcceptedUpTo(k)
      BY <1>1 DEF AcceptedUpTo
    <2> QED  BY <1>1, <2>1 DEF EveryTestJudged
  <1>2. CASE JoinAll
    <2>1. /\ UNCHANGED <<matched_files, judged>> /\ current' = current + 1
          /\ Running /\ toRun = {} /\ AllEnded
      BY <1>2 DEF JoinAll, NextFile, Running
    <2>2. DOMAIN tests = AcceptedUpTo(current)
      BY <2>1, TableNames DEF MainInv
    <2>3. {pair[2] : pair \in {p \in judged : p[1] = current}} = DOMAIN tests
      BY <2>1 DEF JudgedInv, AllEnded
    <2>4. \A k : AcceptedUpTo(k)' = AcceptedUpTo(k)
      BY <2>1 DEF AcceptedUpTo
    <2>5. \A k \in 1 .. current' - 1 : k = current \/ k \in 1 .. current - 1
      BY <1>0, <2>1
    <2> QED  BY <2>1, <2>2, <2>3, <2>4, <2>5 DEF EveryTestJudged
  <1>3. ASSUME NEW test \in DOMAIN tests, Test(test) PROVE EveryTestJudged'
    <2>1. UNCHANGED <<matched_files, current>>
          /\ judged' \in {judged, judged \cup {<<current, test>>}}
      BY <1>3, TestStep DEF testVars
    <2>2. \A k \in 1 .. current - 1 :
              {p \in judged' : p[1] = k} = {p \in judged : p[1] = k}
      BY <1>0, <2>1
    <2>3. \A k : AcceptedUpTo(k)' = AcceptedUpTo(k)
      BY <2>1 DEF AcceptedUpTo
    <2> QED  BY <2>1, <2>2, <2>3 DEF EveryTestJudged
  <1>4. CASE Parse
    BY <1>1, <1>4 DEF Parse, testVars
  <1>5. CASE NoFileLeft \/ TestReturns
    BY <1>1, <1>5 DEF NoFileLeft, TestReturns, testVars
  <1>6. ASSUME NEW test \in toRun, StartTest(test) PROVE EveryTestJudged'
    BY <1>1, <1>6 DEF StartTest
  <1>7. CASE UNCHANGED vars
    BY <1>1, <1>7 DEF vars, mainVars, testVars
  <1> QED  BY <1>2, <1>3, <1>4, <1>5, <1>6, <1>7, StepCases

-----------------------------------------------------------------------------
\* As long as no file has asked for threads, none run.
LEMMA NoThreads ==
    ASSUME TypeOK, MainInv, ModeInv, OnlySequential
    PROVE  ExecutionMode # "Concurrent"
  <1> SUFFICES ASSUME ExecutionMode = "Concurrent" PROVE FALSE
    OBVIOUS
  <1>1. PICK i \in ParsedFiles :
            matched_files[i].readable /\ matched_files[i].mode = "Concurrent"
    BY DEF ModeInv
  <1>2. i \in DOMAIN matched_files /\ i <= current
    <2>1. matched_files \in Seq(ConfigFile)
      BY FilesAssumption DEF MainInv
    <2> QED  BY <2>1 DEF ParsedFiles, TypeOK
  <1> QED  BY <1>1, <1>2 DEF OnlySequential

\* Main only goes forward through the files.
LEMMA StillSequential ==
    ASSUME TypeOK, MainInv, [Next]_vars, OnlySequential'
    PROVE  OnlySequential
  <1>1. matched_files' = matched_files /\ current' \in {current, current + 1}
    <2>1. ASSUME NEW test \in DOMAIN tests, Test(test)
          PROVE  matched_files' = matched_files /\ current' = current
      BY <2>1, TestStep
    <2> QED  BY <2>1, StepCases DEF Parse, NoFileLeft, TestReturns, JoinAll,
             NextFile, StartTest, vars, mainVars
  <1>2. matched_files \in Seq(ConfigFile) /\ current \in Nat
    BY FilesAssumption DEF MainInv, TypeOK
  <1>3. \A i \in DOMAIN matched_files : i <= current => i <= current'
    BY <1>1, <1>2
  <1> QED  BY <1>1, <1>3 DEF OnlySequential

\* A step that opens no dump and counts no name.
LEMMA NamesKept ==
    ASSUME NamesInv, UNCHANGED dumpVars,
           \A test \in DOMAIN tests' :
               \/ tests'[test] \notin {"countInput", "countOutput",
                                       "openInput", "openOutput"}
               \/ /\ test \in DOMAIN tests /\ tests'[test] = tests[test]
                  /\ dumpFile'[test] = dumpFile[test]
                  /\ mapTestCasesConfig' = mapTestCasesConfig
    PROVE  NamesInv'
  <1>1. Opened'
    BY DEF NamesInv, Opened, dumpVars
  <1>2. ASSUME NEW test \in DOMAIN tests',
               tests'[test] \in {"countInput", "countOutput"}
        PROVE  FoundNext(test)'
    <2>1. /\ test \in DOMAIN tests /\ tests'[test] = tests[test]
          /\ dumpFile'[test] = dumpFile[test]
          /\ mapTestCasesConfig' = mapTestCasesConfig
      BY <1>2
    <2>2. FoundNext(test) /\ Naming(test)' = Naming(test)
      BY <1>2, <2>1 DEF NamesInv, Naming
    <2> QED  BY <2>1, <2>2 DEF FoundNext, dumpVars
  <1>3. ASSUME NEW test \in DOMAIN tests',
               tests'[test] \in {"openInput", "openOutput"}
        PROVE  CountedNew(test)'
    <2>1. /\ test \in DOMAIN tests /\ tests'[test] = tests[test]
          /\ dumpFile'[test] = dumpFile[test]
          /\ mapTestCasesConfig' = mapTestCasesConfig
      BY <1>3
    <2>2. CountedNew(test) /\ Naming(test)' = Naming(test)
      BY <1>3, <2>1 DEF NamesInv, Naming
    <2> QED  BY <2>1, <2>2 DEF CountedNew, dumpVars
  <1> QED  BY <1>1, <1>2, <1>3 DEF NamesInv, dumpVars

\* The lookup finds the next number of the name, or none.
LEMMA LookUpNames ==
    ASSUME TypeOK, MainInv, NoFile \notin exist, NamesInv,
           NEW test \in DOMAIN tests,
           NEW kind \in {"DumpInputPath", "Outputpath"}, NEW next,
           LookUpName(test, kind, next),
           next = IF kind = "DumpInputPath" THEN "countInput"
                  ELSE "countOutput",
           \A t \in DOMAIN tests \ {test} : tests[t] = "ended"
    PROVE  NamesInv'
  <1> DEFINE name == mapTestCasesConfig[test][kind]
  <1>1. name \in DumpFileNames
    BY DumpNameFacts
  <1>2. /\ tests' = [tests EXCEPT ![test] = next]
        /\ dumpFile' = [dumpFile EXCEPT ![test] = UniqueName(name)]
        /\ sNames' = [sNames EXCEPT ![name] = Count(name)]
        /\ UNCHANGED <<exist, dumps, mapTestCasesConfig>>
    BY DEF LookUpName, LookUp, Goto, mainVars
  <1>3. sNames \in [DumpFileNames -> Nat] /\ test \in DOMAIN dumpFile
    BY DEF TypeOK
  <1>4. Naming(test)' = name
    BY <1>2 DEF Naming
  <1> HIDE DEF name
  <1>5. sNames'[name] = Count(name) /\ dumpFile'[test] = UniqueName(name)
    BY <1>1, <1>2, <1>3
  <1>6. Opened'
    <2> SUFFICES ASSUME NEW d \in dumps
                 PROVE  /\ d.file[1] \in DumpFileNames
                        /\ d.file[2] \in Nat
                        /\ d.file[2] < sNames'[d.file[1]]
                        /\ <<d.file[1], 0>> \in exist
      BY <1>2 DEF Opened
    <2>1. /\ d.file[1] \in DumpFileNames
          /\ d.file[2] \in Nat
          /\ d.file[2] < sNames[d.file[1]]
          /\ <<d.file[1], 0>> \in exist
      BY DEF NamesInv, Opened
    <2>2. sNames'[d.file[1]] = sNames[d.file[1]]
      BY <1>1, <1>2, <1>3, <2>1 DEF Count
    <2> QED  BY <2>1, <2>2
  <1>7. FoundNext(test)'
    BY <1>2, <1>4, <1>5 DEF FoundNext, UniqueName, Count
  <1>8. /\ DOMAIN tests' = DOMAIN tests
        /\ tests'[test] = next
        /\ \A t \in DOMAIN tests \ {test} : tests'[t] = "ended"
    BY <1>2
  <1> QED  BY <1>2, <1>6, <1>7, <1>8 DEF NamesInv

\* The counting leaves behind a file nobody has opened.
LEMMA CountNames ==
    ASSUME TypeOK, MainInv, NoFile \notin exist, NamesInv,
           NEW test \in DOMAIN tests,
           NEW kind \in {"DumpInputPath", "Outputpath"}, NEW here, NEW next,
           CountDump(test, here, kind, next),
           \/ /\ kind = "DumpInputPath"
              /\ here = "countInput" /\ next = "openInput"
           \/ /\ kind = "Outputpath"
              /\ here = "countOutput" /\ next = "openOutput",
           \A t \in DOMAIN tests \ {test} : tests[t] = "ended"
    PROVE  NamesInv'
  <1> DEFINE name == mapTestCasesConfig[test][kind]
             file == dumpFile[test]
  <1>1. name \in DumpFileNames
    BY DumpNameFacts
  <1>2. /\ tests[test] = here
        /\ tests' = [tests EXCEPT ![test] = next]
        /\ CountName(name, file)
        /\ UNCHANGED <<exist, dumps, mapTestCasesConfig, dumpFile>>
    BY DEF CountDump, At, Goto, mainVars
  <1>3. sNames \in [DumpFileNames -> Nat] /\ test \in DOMAIN dumpFile
    BY DEF TypeOK
  <1>4. /\ DOMAIN tests' = DOMAIN tests
        /\ tests'[test] = next
        /\ \A t \in DOMAIN tests \ {test} : tests'[t] = "ended"
    BY <1>2
  <1>5. Naming(test)' = name /\ Naming(test) = name
    BY <1>2, <1>4 DEF Naming
  <1>6. FoundNext(test)
    BY <1>2 DEF NamesInv
  <1> HIDE DEF name, file
  <1>7. /\ sNames'[name] \in {sNames[name], sNames[name] + 1}
        /\ file # NoFile => sNames'[name] = sNames[name] + 1
        /\ \A n \in DumpFileNames \ {name} : sNames'[n] = sNames[n]
        /\ sNames[name] \in Nat
    BY <1>1, <1>2, <1>3 DEF CountName
  <1>8. Opened'
    <2> SUFFICES ASSUME NEW d \in dumps
                 PROVE  /\ d.file[1] \in DumpFileNames
                        /\ d.file[2] \in Nat
                        /\ d.file[2] < sNames'[d.file[1]]
                        /\ <<d.file[1], 0>> \in exist
      BY <1>2 DEF Opened
    <2>1. /\ d.file[1] \in DumpFileNames
          /\ d.file[2] \in Nat
          /\ d.file[2] < sNames[d.file[1]]
          /\ <<d.file[1], 0>> \in exist
      BY DEF NamesInv, Opened
    <2> QED  BY <1>1, <1>3, <1>7, <2>1
  <1>9. CountedNew(test)'
    <2>1. dumpFile'[test] = file
      BY <1>2 DEF file
    <2>2. CASE file = NoFile
      BY <2>1, <2>2 DEF CountedNew
    <2>3. CASE file # NoFile
      <3>1. /\ file = <<name, sNames[name]>>
            /\ sNames[name] > 0 => <<name, 0>> \in exist
        BY <1>5, <1>6, <2>3 DEF FoundNext, file
      <3>2. \A d \in dumps : d.file # file
        BY <1>7, <3>1 DEF NamesInv, Opened
      <3> QED
        BY <1>2, <1>5, <1>7, <2>1, <2>3, <3>1, <3>2 DEF CountedNew
    <2> QED  BY <2>2, <2>3
  <1> QED  BY <1>2, <1>4, <1>8, <1>9 DEF NamesInv

\* The file that is opened is a new one.
LEMMA OpenNames ==
    ASSUME TypeOK, MainInv, NamesInv,
           NEW test \in DOMAIN tests,
           NEW kind \in {"DumpInputPath", "Outputpath"}, NEW here, NEW next,
           OpenDumpFile(test, here, kind, next),
           \/ /\ kind = "DumpInputPath"
              /\ here = "openInput" /\ next = "Outputpath"
           \/ /\ kind = "Outputpath"
              /\ here = "openOutput" /\ next = "session",
           \A t \in DOMAIN tests \ {test} : tests[t] = "ended"
    PROVE  NamesInv'
  <1> DEFINE name == mapTestCasesConfig[test][kind]
             file == dumpFile[test]
             what == <<current, test, kind>>
  <1>1. name \in DumpFileNames
    BY DumpNameFacts
  <1>2. /\ tests[test] = here
        /\ tests' = [tests EXCEPT ![test] = next]
        /\ UNCHANGED <<mapTestCasesConfig, dumpFile>>
    BY DEF OpenDumpFile, At, Goto, mainVars
  <1>3. \/ /\ file # NoFile
           /\ exist' = exist \cup {file}
           /\ dumps' = dumps \cup {[file |-> file, what |-> what]}
           /\ sNames' = sNames
        \/ UNCHANGED <<sNames, exist, dumps>>
    BY DEF OpenDumpFile, OpenDump, dumpVars
  <1>4. /\ DOMAIN tests' = DOMAIN tests
        /\ \A t \in DOMAIN tests :
               tests'[t] \in {"ended", "Outputpath", "session"}
    BY <1>2
  <1>5. Naming(test) = name /\ CountedNew(test)
    BY <1>2 DEF Naming, NamesInv
  <1>6. sNames \in [DumpFileNames -> Nat]
    BY DEF TypeOK
  <1> HIDE DEF name, file, what
  <1>7. CASE UNCHANGED <<sNames, exist, dumps>>
    BY <1>4, <1>7 DEF NamesInv, Opened
  <1>8. CASE /\ file # NoFile
             /\ exist' = exist \cup {file}
             /\ dumps' = dumps \cup {[file |-> file, what |-> what]}
             /\ sNames' = sNames
    <2>1. /\ file = <<name, sNames[name] - 1>>
          /\ sNames[name] > 0 /\ sNames[name] \in Nat
          /\ sNames[name] > 1 => <<name, 0>> \in exist
          /\ \A d \in dumps : d.file # file
      BY <1>1, <1>5, <1>6, <1>8 DEF CountedNew, file
    <2> DEFINE new == [file |-> file, what |-> what]
    <2>2. /\ new.file = file /\ file[1] = name
          /\ file[2] = sNames[name] - 1 /\ file[2] \in Nat
          /\ file[2] < sNames[name]
          /\ <<name, 0>> \in exist \cup {file}
      BY <2>1
    <2> HIDE DEF new
    <2>3. dumps' = dumps \cup {new}
      BY <1>8 DEF new
    <2>4. Opened'
      BY <1>1, <1>8, <2>2, <2>3 DEF NamesInv, Opened
    <2>5. \A d, e \in dumps' : d.file = e.file => d = e
      BY <2>1, <2>2, <2>3 DEF NamesInv
    <2> QED  BY <1>4, <2>4, <2>5 DEF NamesInv
  <1> QED  BY <1>3, <1>7, <1>8

\* In one sequential file after another, a dump has a number of its own.
LEMMA DumpsStep ==
    ASSUME TypeOK, MainInv, OneInv, ModeInv, DumpsInv, [Next]_vars
    PROVE  DumpsInv'
  <1>1. NoFile \notin exist'
    <2>1. ASSUME NEW file, NEW what, OpenDump(file, what)
          PROVE  NoFile \notin exist'
      BY <2>1 DEF DumpsInv, OpenDump, dumpVars
    <2>2. CASE UNCHANGED exist
      BY <2>2 DEF DumpsInv
    <2>3. ASSUME NEW test \in DOMAIN tests, Test(test)
          PROVE  NoFile \notin exist'
      BY <2>1, <2>2, <2>3
         DEF Test, Setup, SetDump, LookUpName, CountDump, OpenDumpFile,
             Session, BeginLine, EndLine, Terminate, dumpVars
    <2> QED  BY <2>2, <2>3, StepCases
             DEF Parse, NoFileLeft, TestReturns, JoinAll, NextFile,
                 StartTest, vars, dumpVars
  <1> SUFFICES ASSUME OnlySequential' PROVE NamesInv'
    BY <1>1 DEF DumpsInv
  <1>2. /\ NoFile \notin exist /\ NamesInv
        /\ ExecutionMode # "Concurrent"
    BY StillSequential, NoThreads DEF DumpsInv
  <1>3. CASE Parse \/ NoFileLeft
    <2>1. tests' = <<>> /\ DOMAIN <<>> = {} /\ UNCHANGED dumpVars
      BY <1>3 DEF Parse, NoFileLeft, MainInv, Running, testVars
    <2> QED  BY <1>2, <2>1, NamesKept
  <1>4. CASE JoinAll
    <2>1. tests' = <<>> /\ DOMAIN <<>> = {} /\ UNCHANGED dumpVars
      BY <1>4 DEF JoinAll, NextFile
    <2> QED  BY <1>2, <2>1, NamesKept
  <1>5. CASE TestReturns \/ UNCHANGED vars
    BY <1>2, <1>5, NamesKept DEF TestReturns, vars, mainVars, testVars
  <1>6. ASSUME NEW test \in toRun, StartTest(test) PROVE NamesInv'
    <2>1. /\ DOMAIN tests' = DOMAIN tests \cup {test}
          /\ tests'[test] = "setup"
          /\ \A t \in DOMAIN tests \ {test} :
                 /\ tests'[t] = tests[t]
                 /\ dumpFile'[t] = dumpFile[t]
          /\ UNCHANGED <<mapTestCasesConfig, dumpVars>>
      BY <1>6 DEF StartTest, Put, TypeOK
    <2> QED  BY <1>2, <2>1, NamesKept
  <1>7. ASSUME NEW test \in DOMAIN tests, Test(test) PROVE NamesInv'
    <2>1. \A t \in DOMAIN tests \ {test} : tests[t] = "ended"
      BY <1>2, <1>7, TestStep DEF OneInv
    <2>2. ASSUME NEW where \in {"DumpInputPath", "line", "begun", "ended"},
                 Goto(test, where),
                 UNCHANGED <<mainVars, dumpFile, dumpVars>>
          PROVE  NamesInv'
      <3>1. /\ DOMAIN tests' = DOMAIN tests
            /\ tests'[test] = where
            /\ \A t \in DOMAIN tests \ {test} : tests'[t] = tests[t]
        BY <2>2 DEF Goto
      <3> QED  BY <1>2, <2>2, <3>1, NamesKept DEF mainVars
    <2>3. CASE Terminate
      BY <1>2, <2>3, NamesKept DEF Terminate, testVars
    <2>4. CASE Setup(test) \/ Session(test)
      BY <2>2, <2>3, <2>4 DEF Setup, Session
    <2>5. CASE BeginLine(test) \/ EndLine(test)
      BY <2>2, <2>5 DEF BeginLine, EndLine
    <2>6. CASE SetDump(test)
      <3>1. CASE LookUpName(test, "DumpInputPath", "countInput")
        BY <1>2, <2>1, <3>1, LookUpNames
      <3>2. CASE CountDump(test, "countInput", "DumpInputPath", "openInput")
        BY <1>2, <2>1, <3>2, CountNames
      <3>3. CASE OpenDumpFile(test, "openInput", "DumpInputPath",
                              "Outputpath")
        BY <1>2, <2>1, <3>3, OpenNames
      <3>4. CASE LookUpName(test, "Outputpath", "countOutput")
        BY <1>2, <2>1, <3>4, LookUpNames
      <3>5. CASE CountDump(test, "countOutput", "Outputpath", "openOutput")
        BY <1>2, <2>1, <3>5, CountNames
      <3>6. CASE OpenDumpFile(test, "openOutput", "Outputpath", "session")
        BY <1>2, <2>1, <3>6, OpenNames
      <3> QED  BY <2>6, <3>1, <3>2, <3>3, <3>4, <3>5, <3>6 DEF SetDump
    <2> QED  BY <1>7, <2>4, <2>5, <2>6 DEF Test
  <1> QED  BY <1>3, <1>4, <1>5, <1>6, <1>7, StepCases

\* Every step keeps the invariant.
LEMMA AppStep ==
    ASSUME AppInv, [Next]_vars
    PROVE  AppInv'
  <1>1. TypeOK' /\ MainInv' /\ TableIsLatest'
    BY TypeStep, MainStep, TableStep DEF AppInv
  <1>2. OneInv' /\ ModeInv'
    BY OneStep, ModeStep DEF AppInv
  <1>3. JudgedInv' /\ EveryTestJudged'
    BY JudgedStep, EveryStep DEF AppInv
  <1>4. DumpsInv'
    BY DumpsStep DEF AppInv
  <1> QED  BY <1>1, <1>2, <1>3, <1>4 DEF AppInv

-----------------------------------------------------------------------------
\* Everything that holds of main and its test cases at every moment.
THEOREM AppInvAlways == Spec => []AppInv
  <1>1. Init => AppInv
    BY InitInv
  <1>2. AppInv /\ [Next]_vars => AppInv'
    BY AppStep
  <1> QED  BY <1>1, <1>2, PTL DEF Spec

\* Every variable has its type, whatever the files hold: the test cases that
\* run are of the table, and the table is of test cases of the files.
THEOREM ApplicationTypes == Spec => []TypeOK
  <1>1. AppInv => TypeOK
    BY DEF AppInv
  <1> QED  BY <1>1, AppInvAlways, PTL

\* In mode Sequential runAndWaitForComplete never has two test cases at once.
THEOREM OneTestAtATime == Spec => []OneAtATime
  <1>1. ASSUME AppInv PROVE OneAtATime
    <2> DEFINE open == {test \in DOMAIN tests : tests[test] # "ended"}
    <2> SUFFICES ASSUME ExecutionMode # "Concurrent"
                 PROVE  Cardinality(open) <= 1
      BY DEF OneAtATime
    <2>1. \A s, t \in open : s = t
      BY <1>1 DEF AppInv, OneInv
    <2> HIDE DEF open
    <2>2. CASE open = {}
      BY <2>2, FS_EmptySet
    <2>3. ASSUME NEW t \in open PROVE Cardinality(open) <= 1
      <3>1. open = {t}
        BY <2>1
      <3>2. Cardinality({t}) = 1
        BY FS_Singleton, Zenon
      <3> QED  BY <3>1, <3>2
    <2> QED  BY <2>2, <2>3
  <1> QED  BY <1>1, AppInvAlways, PTL

\* The table main has after a file is what parseJsonConfigs should have made
\* of all the files so far.
THEOREM TableAlwaysLatest == Spec => []TableIsLatest
  <1>1. AppInv => TableIsLatest
    BY DEF AppInv
  <1> QED  BY <1>1, AppInvAlways, PTL

\* Main leaves a file only when every test case accepted so far has its line
\* in the result file for it.
THEOREM AllTestsJudged == Spec => []EveryTestJudged
  <1>1. AppInv => EveryTestJudged
    BY DEF AppInv
  <1> QED  BY <1>1, AppInvAlways, PTL

\* setDump gives two dumps of one run two files, as long as no file has asked
\* for threads.
THEOREM DumpsNeverShared == Spec => []DumpsApart
  <1>1. AppInv => DumpsApart
    BY DEF AppInv, DumpsInv, NamesInv, DumpsApart
  <1> QED  BY <1>1, AppInvAlways, PTL

\* A test case that runs never sees the table or the mode change.
THEOREM TableStaysPut == Spec => TableStable
  <1>1. ASSUME AppInv, [Next]_vars,
               mapTestCasesConfig' # mapTestCasesConfig
                   \/ ExecutionMode' # ExecutionMode
        PROVE  AllEnded
    <2>1. ASSUME NEW test, Test(test)
          PROVE  UNCHANGED <<mapTestCasesConfig, ExecutionMode>>
      BY <2>1, TestStep
    <2>2. Parse
      BY <1>1, <2>1, StepCases
         DEF NoFileLeft, TestReturns, JoinAll, NextFile, StartTest, vars,
             mainVars
    <2>3. tests = <<>> /\ DOMAIN <<>> = {}
      BY <1>1, <2>2 DEF Parse, AppInv, MainInv, Running
    <2> QED  BY <2>3 DEF AllEnded
  <1>2. AppInv /\ [Next]_vars
            => [(mapTestCasesConfig' # mapTestCasesConfig
                    \/ ExecutionMode' # ExecutionMode) => AllEnded]_vars
    BY <1>1
  <1> QED  BY <1>2, AppInvAlways, PTL DEF Spec, TableStable
=============================================================================
