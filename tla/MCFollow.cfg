CONSTANTS
    Loops = {l1, l2}
    People = {p1, p2}
    NoTrack = None
    LostTicks = 2
    SearchSteps = 3
SPECIFICATION FollowFairSpec
INVARIANTS
    FollowTypeOK
    RunningHasThread
PROPERTY LostTargetIsAbandoned
