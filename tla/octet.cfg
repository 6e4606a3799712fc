SPECIFICATION FairSpec
CONSTANTS
    Commands <- MCCommands
    MaxCommands = 2
    MaxStale = 1
    ReadSizes = {0, 3, 9}
    Length <- MCLength
    BufferSize = 9
    BinarySize = 2
    TempSize = 4
    Reserve = 3
    AxisFields = 1
INVARIANT TypeOK
INVARIANT EosMeansAll
INVARIANT StatusTrue
INVARIANT AnswersTrue
PROPERTY StreamKept
PROPERTY LineEnds
