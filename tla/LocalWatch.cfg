\* The gate or the supply, beside keys and calls, with a queue of one mail.
SPECIFICATION FairSpec
CONSTANTS
    MailMax = 1
    AlarmTimes = {1, 3}
    TimeMax = 2
    TimeDefault = 2
    SwitchCounts = 1
    Scopes = {{"gate", "key"}, {"switch", "key"}}
    Levels = {"5P", "20P", "full"}
    ClockUnset = TRUE
INVARIANTS
    TypeOK
    Watched
    LedFollowsTimer
    OnTime
PROPERTIES
    Reported
