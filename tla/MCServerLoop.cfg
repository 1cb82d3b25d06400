SPECIFICATION Spec
CONSTANTS
    Slots = {s1, s2, s3, s4, s5}
    Links = {l1, l2}
    Ports = {"s2s_server", "ctl_server"}
    Heartbeat = Heartbeat
    NoLink = NoLink
    NoSlot = NoSlot
    ReconnectDelta = 1
    HeartbeatDelta = 2
    MaxElapse = 2
    MaxAccepted = 1
SYMMETRY Symmetry
INVARIANTS
    TypeOK
    LinkConservation
    AlwaysOneHeartbeat
    TasksSorted
    NoDanglingClient
    OneLinkNeverAborts
    CleanExit
PROPERTIES
    LinksSupervised
