CONSTANTS
    Client = {ann, bob, cid}
    GameFrameNbr = 1
    MaxRooms = 2
    MaxJoins = 4
    MaxLosses = 0
SPECIFICATION Spec
SYMMETRY Sym
INVARIANTS
    TypeOK
    PlayersAreNumbered
    WorldsAreSetUpOnce
    NobodyIsLeftBehind
    PacketsAreOfTheRoom
PROPERTY MatchesStartFresh
\* Every window may be closed, every join may be refused.
CHECK_DEADLOCK FALSE
