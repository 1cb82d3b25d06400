SPECIFICATION FairSpec
CONSTANTS
    Servers = {"a", "b", "c"}
    Links <- Row
    Trusted <- Row
    Conns = {k1, k2}
    NoLink = NoLink
    Clients = {"ca", "cc"}
    Home <- Homes
    Messages = {"m3", "m4"}
    Malformed = {}
    Author <- Authors
    From <- Authors
    To <- Receivers
    Sigs = {"ca", "cc"}
    NoSig = NoSig
    Everyone = "all"
    Login = "LOGIN"
PROPERTIES
    Reaches
