CONSTANTS
    Robots <- TwoRobots
    Pins <- SomePins
    RightPin = "right"
    Scenes <- OneOf7
SPECIFICATION SetupSpec
PROPERTIES
    Version7PairsLike5
CHECK_DEADLOCK FALSE
