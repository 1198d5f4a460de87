\* A second match, for the kick times it starts with.
CONSTANTS
    Client = {client}
    KickDelay = 2
    MatchLength = 1
    MaxMatches = 2
    KeySets <- MCKeySets
    Contacts <- MCContacts
SPECIFICATION Spec
\* Only the bound on matches stops the system.
CHECK_DEADLOCK FALSE
INVARIANTS
    KickFromTheStart
