SPECIFICATION Spec
CONSTANTS
    Addresses = {1, 2, 3}
    PlayerAt <- MCPlayers
    Parallel = 2
    MaxTrouble = 2
    Nothing = Nothing
    MaxPort = 9
    MaxOffset = 1
    MaxDeadline = 1
    EntityIds = {20}
    Configs <- MCConfigs
    Households <- MCHouseholds
    Rooms = {10, 11, 20}
    PairedRoom = 20
    Contested = {2, 7}
    Clients = {c1}
    MaxLives = 2
INVARIANTS
    StartsWithTheRooms
    DoctorForetellsStart
    PairingsSurvive
    ResetForgets
    
PROPERTIES
    StartsWhenItCan
    ExitEnds
CHECK_DEADLOCK FALSE
