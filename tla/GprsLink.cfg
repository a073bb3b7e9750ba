\* Heartbeats, an alarm or an upload, one of two commands, and two faults; orders come round after three.
SPECIFICATION FairSpec
CONSTANTS
    Orders = 3
    CrOrder = 1
    MailMax = 1
    ErrorLimit = 1
    Command = {"set", "set_altered"}
    TooMany = {}
    Altered = {"set_altered"}
    CommandMax = 1
    Alarms = 1
    Faults = 2
INVARIANTS
    TypeOK
    AnsweredMeansReceived
    ToldTheTruth
PROPERTIES
    Recovers
