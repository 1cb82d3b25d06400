SPECIFICATION FairSpec
CONSTANTS
    Slots = {s1, s2, s3}
    Links = {l1}
    Ports = {"ctl_server"}
    Heartbeat = Heartbeat
    NoLink = NoLink
    NoSlot = NoSlot
    ReconnectDelta = 1
    HeartbeatDelta = 2
    MaxElapse = 2
    MaxAccepted = 1
PROPERTIES
    LinkRetried
    CorruptDestroyed
    StopCompletes
