SPECIFICATION FairSpec
CONSTANTS
    Callers = {c1, c2}
    Requests <- MCRequests
    Ladder <- MCLadder
    Origins = {here, elsewhere}
    NoOrigin = NoOrigin
    ConfiguredOrigin = NoOrigin
    LoginIds = {1, 2}
    EmbedderOwners = {"other"}
    MaxSessions = 2
INVARIANTS
    TypeOK
    ReplaySafe
    NeverSentForAnother
    OriginFixed
PROPERTIES
    SharesLogins
    PinnedForGood
    EveryCallSettles
