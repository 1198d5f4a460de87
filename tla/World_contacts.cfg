CONSTANTS
    MaxColNbr = 2
    Position <- MCPosition
    BodyKind <- MCBodyKind
    ColliderKind <- MCColliderKind
    InitSize = 1
    MaxBodies = 2
    MaxColliders = 3
SPECIFICATION Spec
INVARIANTS
    TypeOK
    LiveRefsAreDistinct
    OverlapsShareALeaf
    EveryPairOnce
    ContactsFollowOverlaps
