SPECIFICATION Spec
CONSTANTS
    Clients = {c1, c2}
    Capacity = 2
    FrameSamples = 2
    MaxSamples = 4
    MaxRequests = 2
    PipeSize = 1
    MaxEncoded = 3
    Nothing = Nothing
INVARIANTS
    BodiesAreWhole
    ConnectedWhileSubscribed
    StartsAtCutoff
PROPERTIES
    EncoderEnds
    FramesPass
CHECK_DEADLOCK FALSE
