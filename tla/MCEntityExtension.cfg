\* Two places that ask, approve and accept in both directions.
SPECIFICATION ExtensionSpec
CONSTANTS
    Places = {p1, p2}
    Outsider = Outsider
    NoIssuer = NoIssuer
    MaxRequests = 2
    MaxGranted = 2
    MaxLinks = 3
SYMMETRY Symmetry
INVARIANTS
    OneLiveLink
    BothSidesHold
PROPERTIES
    RevokedStays
    KeepsBook
