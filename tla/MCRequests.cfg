CONSTANTS
    NameChars <- Names
    Packets = 2
    Scenes <- AllScenes
SPECIFICATION ReqSpec
INVARIANTS
    ReqTypeOK
    OnlyANewerRequestTakesTheSlot
    WaitsForTheLastCommand
    SavedLogIsWhole
PROPERTIES
    AnswersLeaveTheLine
    PromptReturns
CHECK_DEADLOCK FALSE
