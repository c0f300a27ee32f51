CONSTANTS
    Drivers = {t1}
    RampSteps = 3
SPECIFICATION MotorFairSpec
INVARIANTS
    MotorTypeOK
    AtMostOneLateCommand
PROPERTY CliffHolds
