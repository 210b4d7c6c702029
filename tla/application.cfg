\* One or two files, of every kind, and each test case with its dumps.
SPECIFICATION Spec
CONSTANTS
    FileLists <- OneOrTwoFiles
INVARIANTS
    TypeOK
    OneAtATime
    TableIsLatest
    EveryTestJudged
    DumpsApart
PROPERTIES
    TableStable
