SPECIFICATION FairSpec
CONSTANTS
    Zones = {r1}
    Sonos = {r1}
    Sender <- MCSender
    phone = phone
    NativeGroups = TRUE
    MaxAttempts = 1
    MaxEvents = 3
    MaxFailures = 2
    MaxTrouble = 4
    Nothing = Nothing
INVARIANTS
    QuietUnlessWanted
    PlayingIsBacked
    RegistryMatchesEncoder

    
CHECK_DEADLOCK FALSE
