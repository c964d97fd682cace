CONSTANTS
    l1 = l1
    l2 = l2
    t1 = t1
    t2 = t2
    r1 = r1
    r2 = r2
    code = code
    NoBase = NoBase
    Landings <- MCLandings
    Tickets <- MCTickets
    Own <- MCOwn
    Shared <- MCShared
    Replies <- MCReplies
    Code <- MCCode
    About <- MCAbout
    Decliners <- MCDecliners
    ShortLived <- MCShortLived
    FirstBase = NoBase
    Saves <- MCSaves
    MaxContactRequests = 1
    MaxDraws = 2
    MaxLate = 1
    MaxWaiting = 1
SPECIFICATION Spec
INVARIANTS
    ShortLinkHolds
    KeyFits
    ReplyIsKept
PROPERTIES
    LifeCycle
