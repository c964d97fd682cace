\* One connect and one connection, every order of the two clocks.
SPECIFICATION FairSpec
CONSTANTS
    Clients = {c1}
    Servers = {s1}
    Identities = {i1}
    ForeignKey = fk
    Endpoints = {e1}
    Offsets <- MCOffsets
    PreAuthDeadline = 1
    ChallengeSeconds = 1
    Lifetime = 2
    SkewAhead = 1
    ChallengeSkew = 3
    MaxMono = 2
    MaxWall = 2
PROPERTIES
    ServerHandshakeEnds
    ClientHandshakeEnds
CHECK_DEADLOCK FALSE
