CONSTANTS
    MaxSize = 20
    Byte <- Bytes256
    Message <- Packed
    MaxConns = 2
    Scripts <- AllScripts
SPECIFICATION WireSpec
INVARIANTS
    LinkTypeOK
    NoStalePacket
    RobotGetsWhatWasSent
    PageGetsWhatWasSent
    ReadsWhatWasPacked
PROPERTIES
    QueueDrains
