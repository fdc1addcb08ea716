SPECIFICATION MCTwoRoomsSpec
CONSTANTS
    Zones = {r1, r2}
    Sonos = {r1, r2}
    Sender <- MCSender
    phone = phone
    NativeGroups = TRUE
    MaxAttempts = 1
    MaxEvents = 2
    MaxFailures = 2
    MaxTrouble = 4
    Nothing = Nothing
SYMMETRY MCSymmetry
INVARIANTS
    NoStall
    CohortsSound
    NoCohortForgotten
    GroupsSound
    NoSilentMembersWhileEncoding
PROPERTY NeverReplays
CHECK_DEADLOCK FALSE
