SPECIFICATION FairSpec
CONSTANTS
    Sector = 2
    Chunk = 4
    MaxFirmware = 8
    Sizes = {0, 1, 3, 4, 5, 6, 7, 8, 9}
    Surplus = 1
INVARIANTS
    TypeOK
    SuccessIsExact
    NeighbourUntouched
    HonestDownloadSucceeds
PROPERTIES
    EndsDisconnected
CHECK_DEADLOCK FALSE
