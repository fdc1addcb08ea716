SPECIFICATION Spec
CONSTANTS
    QueueSamples = 2
    InputSamples = 3
    PacketSamples = 3
    MaxSamples = 5
    MaxFlushes = 1
    MaxRestarts = 1
    Nothing = Nothing
INVARIANTS
    NoFrameForgotten
    EpochsAgree
    SoundInOrder
PROPERTY BufferedProgresses
CHECK_DEADLOCK FALSE
