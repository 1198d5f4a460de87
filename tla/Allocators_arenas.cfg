CONSTANTS
    Size = 8
    HeaderSize = 2
    Request = {1, 3}
    BlockCount = 4
    BlockSize = 2
SPECIFICATION Spec
INVARIANTS
    TypeOK
    BlocksAreDisjoint
    OverrunIsAtMostAHeader
    NothingIsLost
