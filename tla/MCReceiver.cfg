SPECIFICATION ReceiverSpec
CONSTANTS
    WindowSize = 3
    BitmapBits = 4
    Counters <- MCCounters
    StreamLength = 8
    SeqSpace = 9
INVARIANTS
    WindowRemembers
    HeldExactly
    ExactlyTheFresh
PROPERTIES
    KeepsPromise
    KeepsOrder
    EverythingDelivered
