\* Every interleaving of a match of three frames with two inputs.
CONSTANTS
    GameFrameNbr = 3
    Input = {none, kick}
    NoInput = none
SPECIFICATION Spec
INVARIANTS
    TypeOK
    ReceivedInputsAreTrue
    ConfirmedInputsAreTrue
    SpeculationExact
    NoPacketBlocksTheQueue
    UnackedAreTheUnconfirmed
    ConfirmationsAreDelivered
    NoUndefinedStep
PROPERTY ImplementsLockstep
