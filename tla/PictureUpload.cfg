\* Three pages, a check after every third one, counters of sixteen values; a list that is
\* none holds the first, the last or a page behind the picture.
SPECIFICATION FairSpec
CONSTANTS
    Pages = 3
    Wrap = 16
    CheckEvery = 3
    LastMax = 3
    ErrorMax = 3
    ResendMax = 1
    RoundMax = 1
    GiveUpMax = 3
    Faults = 5
    OddAnswers = 1
    Garbage = {0, 2, 9}
    ListMax = 1
INVARIANTS
    TypeOK
    CountersAgree
    InPicture
    SuccessBacked
    FaultsTolerated
PROPERTY
    Terminates
