\* One caller and a mechanism that never gets stuck.
SPECIFICATION Spec
CONSTANTS
    Callers = {"local"}
    Loops = 2
    Period = 2
    Adjust = 2
    Top = 2
    Switch = 1
    CanJam = FALSE
INVARIANT
    MotorError
