SPECIFICATION Spec
CONSTANTS
    Keywords = {9}
    BadNames <- SomeBadNames
    NoClock = 0
    EnumValues <- SomeValues
    NoStream = 0
    Nodes2 <- SomeNodes2
    Nodes3 <- SomeNodes3
    FewNodes2 <- OneNode2
    FewNodes3 <- OneNode3
    Files <- SomeFiles
    Dirs <- SomeDirs
    Cwd <- CurrentDir
    IndentSpaces <- SomeIndents
    ArgLists <- SomeArgLists
    PlainArgs <- PlainArgList
INVARIANTS
    MembersDistinct
    LengthsPrecedeArrays
    ReaderFindsTypes
    NamesAreBound
    ParametersAreWritten
    MembersKept
    LabelsKept
    ClocksKept
    LogLevelsKept
    ItemsSpellWords
    OnlyNameIsTaken
    NoHalfOutput
    DumpedIsGenerated
PROPERTY
    ToolExits
CHECK_DEADLOCK FALSE
