\* Progress: two alarms, queues of one slot, and a server that may send frames for ever.
SPECIFICATION FairSpec
CONSTANTS
    Sources = {"rfid", "shell"}
    AlarmMax = 1
    MailMax = 1
    Interval = 0
    StartUp = FALSE
    MaxTime = 1
    MaxMails = 2
PROPERTY
    AllSettled
