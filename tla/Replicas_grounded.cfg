\* A match with a goal.
CONSTANTS
    Client = {client}
    KickDelay = 2
    MatchLength = 2
    MaxMatches = 1
    KeySets <- MCKeySets
    Contacts <- MCContacts
SPECIFICATION Spec
\* Only the bound on matches stops the system.
CHECK_DEADLOCK FALSE
INVARIANTS
    GroundedOnTheGround
