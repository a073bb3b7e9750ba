\* Power-on: the alarm thread runs before the local thread.
SPECIFICATION Spec
CONSTANTS
    Sources = {"rfid", "shell"}
    AlarmMax = 2
    MailMax = 1
    Interval = 1
    StartUp = TRUE
    MaxTime = 4
    MaxMails = 3
INVARIANT
    QueueExists
