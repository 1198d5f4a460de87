\* One client in two matches of two frames.
CONSTANTS
    Client = {client}
    KickDelay = 2
    MatchLength = 2
    MaxMatches = 2
    KeySets <- MCKeySets
    Contacts <- MCContacts
SPECIFICATION Spec
\* Only the bound on matches stops the system.
CHECK_DEADLOCK FALSE
INVARIANTS
    GamesAgree
