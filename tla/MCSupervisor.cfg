CONSTANTS
    Recons = {t1, t2}
    Main = main
    Health = health
    Robots = {r1, r2, r3}
    NoRobot = None
    NumComps = 3
    Connected = {1, 3}
    Critical = {1}
SPECIFICATION SupSpec
SYMMETRY Symmetry
INVARIANTS
    SupTypeOK
    SettlesOnOneRobot
    ConnectedComponentsRun
CHECK_DEADLOCK FALSE
