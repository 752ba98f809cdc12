SPECIFICATION Spec
CONSTANTS
    Handler = {h1, h2}
    Peer = {p1, p2}
    Name = {n1, n2}
    Address = {a1, a2, a3}
    NoAddress = NoAddress
    NoPeer = NoPeer
    NoConf = NoConf
SYMMETRY MCSymmetry
INVARIANTS
    ServedAddressesUnique
    DownIsExplained
    AppliedMeansServed
PROPERTY AddressesArePooled
