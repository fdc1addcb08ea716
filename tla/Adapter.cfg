SPECIFICATION Spec
CONSTANTS
    MaxStreams = 2
    MaxSessions = 2
    MaxCalls = 3
    MaxTurns = 2
    MaxTrouble = 1
    Steps = 2
    Loudness <- MCLoudness
INVARIANTS
    RateIsHeard
    EndedSessionsGo
    LastVolumeWins
    ShownIsReal
CHECK_DEADLOCK FALSE
