SPECIFICATION Spec
CONSTANTS
    SizeX = 1
    SizeY = 1
    Radius = 0
    MaxU16 = 65535
    BombTimer = 1
    PlayersCount = 1
    MaxBombs = 1
    GameLength = 1
    InitialBlocks = 0
    MaxGames = 1
    MaxLag = 2
    Strangers = {"other"}
    OtherMoves = {}
    Inputs <- Datagrams
    MaxInputs = 2
    EmptyNames = {}
    Failures = {"gui", "close", "break"}
INVARIANT
    LostConnectionExitsOne
CHECK_DEADLOCK FALSE
