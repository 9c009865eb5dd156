SPECIFICATION Spec
CONSTANTS
    SizeX = 1
    SizeY = 1
    Radius = 0
    MaxU16 = 65535
    BombTimer = 1
    PlayersCount = 2
    MaxBombs = 0
    GameLength = 1
    InitialBlocks = 0
    MaxGames = 1
    MaxLag = 2
    Strangers = {"other"}
    OtherMoves = {}
    Inputs <- BombKey
    MaxInputs = 2
    EmptyNames = {"other"}
    Failures = {}
INVARIANT
    ExitZeroMeansClosed
CHECK_DEADLOCK FALSE
