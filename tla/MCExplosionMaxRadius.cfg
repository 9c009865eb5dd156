SPECIFICATION Spec
CONSTANTS
    SizeX = 3
    SizeY = 3
    Radius = 3
    MaxCord = 3
    MaxBombs = 1
PROPERTY
    ExplodeBombReturns
CHECK_DEADLOCK FALSE
