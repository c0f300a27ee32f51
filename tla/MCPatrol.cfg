CONSTANTS
    Navs = {n1}
    Callers = {l1, l2}
    Stops = 1
SPECIFICATION PatrolFairSpec
INVARIANTS
    PatrolTypeOK
    QuietGuardianCanStart
PROPERTY StoppedLoopsEnd
