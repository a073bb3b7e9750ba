\* Images around every edge of ranges, chunks and blocks; the first command
\* finds the file of an earlier life, the second that of the first.
SPECIFICATION FairSpec
CONSTANTS
    Sizes = {4, 5, 7, 9}
    OldSizes = {0, 8}
    Commands = 2
    Area = 9
    Range = 4
    Chunk = 2
    Block = 3
    Memory = 5
    Faults = 2
    OddAnswers = 2
INVARIANTS
    TypeOK
    RangesJoin
    WholeImage
PROPERTIES
    SessionEnds
