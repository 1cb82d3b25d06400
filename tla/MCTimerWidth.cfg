SPECIFICATION FairSpec
CONSTANTS
    LongRange = 8
    ULLRange = 64
    Heartbeat = Heartbeat
    Links = {l1, l2}
    Delta <- Delays
    NoTask = NoTask
    MaxNow = 12
INVARIANTS
    EarlyOnlyAcrossWrap
    StormOnlyBeforeZero
PROPERTIES
    ServedOnTime
    ScheduleEnds
