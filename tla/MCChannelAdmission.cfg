\* Two connects and two connections under one key, two endpoints, client
\* clocks one step behind.
SPECIFICATION Spec
CONSTANTS
    Clients = {c1, c2}
    Servers = {s1, s2}
    Identities = {i1}
    ForeignKey = fk
    Endpoints = {e1, e2}
    Offsets <- MCOffsets
    PreAuthDeadline = 1
    ChallengeSeconds = 1
    Lifetime = 2
    SkewAhead = 1
    ChallengeSkew = 3
    MaxMono = 2
    MaxWall = 2
INVARIANTS
    ServerAgreement
    ClientAgreement
    ReplayOpensNothing
PROPERTIES
    AdmissionIsFresh
    AnswersWithinLifetime
    ProvidesChannel
CHECK_DEADLOCK FALSE
SYMMETRY Sym
