CONSTANTS
    GameFrameNbr = 3
    Input = {none, kick}
    NoInput = none
SPECIFICATION Spec
INVARIANT ChecksumsAgree
