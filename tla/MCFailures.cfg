SPECIFICATION FairSpec
CONSTANTS
    SizeX = 1
    SizeY = 1
    Radius = 0
    MaxU16 = 65535
    BombTimer = 0
    PlayersCount = 1
    MaxBombs = 1
    GameLength = 2
    InitialBlocks = 0
    MaxGames = 2
    MaxLag = 2
    Strangers = {"other", "another"}
    OtherMoves = {}
    Inputs <- BombKeyOnly
    MaxInputs = 2
    EmptyNames = {"another"}
    Failures = {"gui", "close", "break"}
PROPERTIES
    ExitsHaveCause
    EndsWithConnection
    TurnsDelivered
    LobbyKeyJoins
    BombsRunDown
CHECK_DEADLOCK FALSE
