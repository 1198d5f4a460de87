\* One client in a match of three frames, as either player.
CONSTANTS
    Client = {client}
    KickDelay = 2
    MatchLength = 3
    MaxMatches = 1
    KeySets <- MCKeySets
    Contacts <- MCContacts
SPECIFICATION Spec
\* Only the bound on matches stops the system.
CHECK_DEADLOCK FALSE
INVARIANTS
    TypeOK
    GamesAgree
    KicksReachTheBall
    KicksAreSpaced
    JumpsNeedALanding
