CONSTANTS
    Services = {explorer, nav, follow, charger_dock}
    NoService = None
    Priorities = {0, 5, 10}
SPECIFICATION ClientSpec
INVARIANTS
    ClientTypeOK
    HolderHasControl
    BeliefIsSound
    HolderWasTold
PROPERTIES
    RefinesExclusiveControl
