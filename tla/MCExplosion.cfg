SPECIFICATION Spec
CONSTANTS
    SizeX = 3
    SizeY = 3
    Radius = 2
    MaxCord = 3
    MaxBombs = 2
INVARIANTS
    TypeOK
    ExplosionsAreUnionOfBlasts
PROPERTY
    ExplodeBombReturns
CHECK_DEADLOCK FALSE
