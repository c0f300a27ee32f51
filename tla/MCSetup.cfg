CONSTANTS
    Robots <- TwoRobots
    Pins <- SomePins
    RightPin = "right"
    Scenes <- AllScenes
SPECIFICATION SetupSpec
INVARIANTS
    SetupTypeOK
    SavedSessionsReconnect
    FormsHaveARobot
PROPERTIES
    PairingProgresses
CHECK_DEADLOCK FALSE
