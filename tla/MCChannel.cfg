SPECIFICATION Spec
CONSTANTS
    WindowSize = 2
    BitmapBits = 2
    SeqSpace = 5
    RedundantTotal = 1
    MaxOpens = 3
    MaxPushes = 2
    MaxChunks = 2
    MaxFailures = 2
    MaxRestarts = 1
INVARIANTS
    ReceivedInOrder
    KeysAgree
    AckedIsTaken
    NothingLost
PROPERTIES
    UploadInOrder
    CalmDelivers
