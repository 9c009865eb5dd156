SPECIFICATION BroadcastSpec
CONSTANTS
    SizeX = 2
    SizeY = 1
    Radius = 1
    MaxU16 = 65535
    BombTimer = 1
    PlayersCount = 2
    MaxBombs = 1
    GameLength = 2
    InitialBlocks = 1
    MaxGames = 2
    MaxLag = 2
    Strangers = {"other"}
    OtherMoves = {1}
    Inputs <- BombKey
    MaxInputs = 3
    EmptyNames = {}
    Failures = {}
INVARIANTS
    ScreenAgrees
    StreamInSync
    FlagAgrees
    NoStaleCommand
PROPERTIES
    ShowsWhatServerAnnounced
CHECK_DEADLOCK FALSE
