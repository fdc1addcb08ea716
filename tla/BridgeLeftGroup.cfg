SPECIFICATION MCJoiningSpec
CONSTANTS
    Zones = {r1, r2, r3, r4}
    Sonos = {r1, r2, r3, r4}
    Sender <- MCSender
    phone = phone
    NativeGroups = TRUE
    MaxAttempts = 1
    MaxEvents = 1
    MaxFailures = 0
    MaxTrouble = 1
    Nothing = Nothing
SYMMETRY MCSymmetry
PROPERTY RestartLeavesNoMembers
CHECK_DEADLOCK FALSE
