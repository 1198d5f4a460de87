CONSTANTS
    GameFrameNbr = 2
    Input = {none, kick}
    NoInput = none
SPECIFICATION RematchSpec
PROPERTY OnlyConfirmedInputsAreErased
