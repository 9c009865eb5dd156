SPECIFICATION BroadcastSpec
CONSTANTS
    SizeX = 3
    SizeY = 1
    Radius = 1
    MaxU16 = 65535
    BombTimer = 2
    PlayersCount = 2
    MaxBombs = 2
    GameLength = 3
    InitialBlocks = 0
    MaxGames = 1
    MaxLag = 0
    Strangers = {"other"}
    OtherMoves = {1, 2, 3}
    Inputs <- NoInputs
    MaxInputs = 0
    EmptyNames = {}
    Failures = {}
INVARIANTS
    TypeOK
    ScreenAgrees
    PictureComplete
PROPERTIES
    DeathsMatchExplosions
    BombsRunDown
CHECK_DEADLOCK FALSE
