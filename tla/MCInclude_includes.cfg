SPECIFICATION Spec
CONSTANTS
    FileA = FileA
    FileB = FileB
    NoFile = NoFile
    Empty = Empty
    Roots <- SomeRoots
    FileSets <- SomeFileSets
    Found <- TwoDirs
    MaxLevel = 2
    PatchNested <- PatchValues
    PatchChildren <- PatchNodes
INVARIANTS
    NoFileInsideItself
    EffectiveIsMeaning
    MembersStayUnique
CHECK_DEADLOCK FALSE
