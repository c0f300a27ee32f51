CONSTANTS
    MaxClock = 2
    MaxRuns = 1
    Scenes <- AllScenes
SPECIFICATION ClawSpec
INVARIANTS
    DoesWhatWasSaid
    DoesNoMoreThanAsked
    SendsWhatWasMeant
CHECK_DEADLOCK FALSE
