SPECIFICATION FairSpec
CONSTANTS
    Messages <- ChatMessages
    IovMax = 3
    MaxBytes = 10
    MaxBuffers = 8
INVARIANTS
    TypeOK
    SizeIsUnsent
    DropsOnEmptyHead
PROPERTIES
    DeliversStream
    EverythingSent
CHECK_DEADLOCK FALSE
