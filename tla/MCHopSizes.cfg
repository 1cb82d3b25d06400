SPECIFICATION Spec
CONSTANTS
    MinMessage = 20
    MaxMessage = 4192
    Powers = {10, 100, 1000, 10000}
    Last = 4
    NameLen <- Names
    Sizes <- AllSizes
    MaxMessages = 2
INVARIANTS
    TypeOK
    AbortsAtLimits
    GrowthBounded
    SmallMessagesPass
CHECK_DEADLOCK FALSE
