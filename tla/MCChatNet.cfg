SPECIFICATION Spec
CONSTANTS
    Servers = {"a", "b", "c"}
    Links <- Row
    Trusted <- Row
    Conns = {k1, k2, k3}
    NoLink = NoLink
    Clients = {"ca", "cc"}
    Home <- Homes
    Messages = {"m1", "m2"}
    Malformed = {}
    Author <- Authors
    From <- Authors
    To <- Receivers
    Sigs = {"ca", "cc"}
    NoSig = NoSig
    Everyone = "all"
    Login = "LOGIN"
SYMMETRY Symmetry
INVARIANTS
    TypeOK
    AtMostOnce
PROPERTIES
    ServesRoom
