SPECIFICATION Spec
CONSTANTS
    WindowSize = 2
    BitmapBits = 2
    SeqSpace = 4
    RedundantTotal = 1
    MaxOpens = 2
    MaxPushes = 2
    MaxChunks = 2
    MaxFailures = 0
    MaxRestarts = 0
PROPERTY SurvivesReconnect
