CONSTANTS
    GameFrameNbr = 2
    Input = {none, kick}
    NoInput = none
SPECIFICATION Spec
PROPERTY MatchEnds
