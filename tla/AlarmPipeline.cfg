\* A sensor for the local thread only, one for everybody, and short queues.
SPECIFICATION Spec
CONSTANTS
    Sources = {"rfid", "shell"}
    AlarmMax = 2
    MailMax = 1
    Interval = 1
    StartUp = TRUE
    MaxTime = 4
    MaxMails = 3
INVARIANTS
    TypeOK
    InOrder
    NoneDisappears
    QuietAsleep
