---------------------------- MODULE ConfigParser ----------------------------
(***************************************************************************)
(* parseJsonConfigs (src/ConfigParser.cpp) as a function: from a file, the *)
(* execution mode and the table of test cases so far to what it returns    *)
(* and the mode and the table after it.                                    *)
(*                                                                         *)
(* A file is a record                                                      *)
(*     readable : it can be read and is JSON and not empty,                *)
(*     mode     : its ExecutionMode, "" if there is none,                  *)
(*     tests    : the sequence of its test cases.                          *)
(* A test case has a name, "fields" (the single values are there and of    *)
(* their type), the names of its two dumps and three sections; a section   *)
(* is an array (or missing) or not, with a sequence of entries.  An entry  *)
(* is "valid" when Id, Vtype and Value are there and of their types, and   *)
(* "fnum" says whether it has a frame number.  What a value is matters to  *)
(* nothing modelled here and is left out.                                  *)
(***************************************************************************)
EXTENDS Naturals, FiniteSets, Sequences, Functions

MandatoryCtrls ==
    {"Profile", "Level", "BitRate", "BitRateMode", "PrefixHeaderMode"}

-----------------------------------------------------------------------------
\* getConfigs

EntryAccepted(kind, entry) ==
    /\ entry.valid
    /\ entry.fnum <=> kind # "StaticControls"

\* Controls are counted, so the same one twice counts twice.
MandatoryFound(section) ==
    Cardinality({i \in DOMAIN section.entries :
                     section.entries[i].id \in MandatoryCtrls})
        >= Cardinality(MandatoryCtrls)

\* A section that is missing or empty is accepted, whichever it is.
getConfigs(test, kind) ==
    LET section == test[kind] IN
    /\ section.array
    /\ \A i \in DOMAIN section.entries :
            EntryAccepted(kind, section.entries[i])
    /\ kind = "StaticControls" /\ section.entries # <<>>
        => MandatoryFound(section)

\* CHECK_MANDATORY, CHECK_OPTIONAL and the first section: an error.
FormAccepted(test) == test.fields /\ getConfigs(test, "StaticControls")

\* The other two sections: parseJsonConfigs stops and returns 0.
EventsAccepted(test) ==
    /\ getConfigs(test, "DynamicControls")
    /\ getConfigs(test, "DynamicCommands")

-----------------------------------------------------------------------------
\* parseJsonConfigs

\* map[key] = value
Put(map, key, value) ==
    [k \in DOMAIN map \cup {key} |-> IF k = key THEN value ELSE map[k]]

\* Mutant: a test case that is refused for its events is skipped.
SkipTest(acc, test) ==
    IF acc.over \/ (FormAccepted(test) /\ ~EventsAccepted(test)) THEN acc
    ELSE IF ~FormAccepted(test)
    THEN [over |-> TRUE, ok |-> FALSE, table |-> acc.table]
    ELSE [acc EXCEPT !.table = Put(@, test.name, test)]

\* One turn of the loop over the test cases.
ParseTest(acc, test) ==
    IF acc.over THEN acc
    ELSE IF ~FormAccepted(test)
    THEN [over |-> TRUE, ok |-> FALSE, table |-> acc.table]
    ELSE IF ~EventsAccepted(test) THEN [acc EXCEPT !.over = TRUE]
    ELSE [acc EXCEPT !.table = Put(@, test.name, test)]

ParseTests(tests, table) ==
    LET after[i \in 0 .. Len(tests)] ==
            IF i = 0 THEN [over |-> FALSE, ok |-> TRUE, table |-> table]
            ELSE ParseTest(after[i - 1], tests[i])
    IN after[Len(tests)]

\* Mode and table keep what was set before the error.  Until a test case is
\* read, ret is what the JSON reader returned, which is 1 when it succeeded: a
\* file without test cases is an error.
parseJsonConfigs(file, mode, table) ==
    IF ~file.readable THEN [ok |-> FALSE, mode |-> mode, table |-> table]
    ELSE LET parsed == ParseTests(file.tests, table) IN
         [ok    |-> parsed.ok /\ file.tests # <<>>,
          mode  |-> IF file.mode = "" THEN mode ELSE file.mode,
          table |-> parsed.table]

-----------------------------------------------------------------------------
\* What is accepted, said by what README.md asks of a test case and where
\* the parser asks less.

Sections == {"StaticControls", "DynamicControls", "DynamicCommands"}

WellFormed(test) ==
    /\ test.fields
    /\ \A kind \in Sections :
           /\ test[kind].array
           /\ \A entry \in Range(test[kind].entries) :
                  EntryAccepted(kind, entry)

\* StaticControls and in it five controls are mandatory (README.md:209 and
\* :229-237).
GivesMandatory(test) ==
    MandatoryCtrls \subseteq {e.id : e \in Range(test.StaticControls.entries)}

\* The parser does not ask for StaticControls, and takes one of the five that
\* is given again for one that is not given.
MandatoryNotMissed(test) ==
    \/ test.StaticControls.entries = <<>>
    \/ ~GivesMandatory(test) /\ MandatoryFound(test.StaticControls)

\* Of each file the test cases before the first that is refused.
Accepted(file) ==
    IF ~file.readable THEN {}
    ELSE {i \in DOMAIN file.tests : \A j \in 1 .. i :
             LET test == file.tests[j] IN
             /\ WellFormed(test)
             /\ GivesMandatory(test) \/ MandatoryNotMissed(test)}
=============================================================================
