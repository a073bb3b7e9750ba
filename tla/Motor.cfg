\* The local thread and the gprs thread share the motor.
SPECIFICATION FairSpec
CONSTANTS
    Callers = {"local", "gprs"}
    Loops = 1
    Period = 1
    Adjust = 2
    Top = 2
    Switch = 1
    CanJam = TRUE
INVARIANTS
    TypeOK
    NoStrandedBurst
    BurstBound
    SettledFromRest
PROPERTY
    ComesToRest
