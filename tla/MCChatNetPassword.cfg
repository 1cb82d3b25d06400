SPECIFICATION Spec
CONSTANTS
    Servers = {"a", "b", "c"}
    Links <- Row
    Trusted <- Pair
    Conns = {k1, k2, k3}
    NoLink = NoLink
    Clients = {"ca", "cc"}
    Home <- Homes
    Messages = {"m1", "m4", "bad"}
    Malformed = {"bad"}
    Author <- Authors
    From <- Authors
    To <- Receivers
    Sigs = {"ca", "cc"}
    NoSig = NoSig
    Everyone = "all"
    Login = "LOGIN"
SYMMETRY Symmetry
INVARIANTS
    PasswordSeparates
