SPECIFICATION FairSpec
CONSTANTS
    Kinds <- AllKinds
    NumberLen = 4
    MinMessage = 3
    MaxMessage = 5
    ReadBlock = 6
    MaxFrames = 3
INVARIANTS
    TypeOK
    NothingStuck
    InputBounded
PROPERTIES
    HandlesStream
    EverythingHandled
CHECK_DEADLOCK FALSE
