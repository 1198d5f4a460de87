CONSTANTS
    Client = {ann, bob, cid}
    GameFrameNbr = 1
    MaxRooms = 2
    MaxJoins = 3
    MaxLosses = 3
SPECIFICATION Spec
SYMMETRY Sym
INVARIANTS
    PlayersAreNumbered
    WaitingMeansJoining
    NobodyIsLeftBehind
\* Every window may be closed, every connection may be lost.
CHECK_DEADLOCK FALSE
