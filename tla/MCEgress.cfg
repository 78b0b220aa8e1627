SPECIFICATION Spec
CONSTANTS
    Handlers = {h1, h2}
    MaxPayloads = 4
    MaxChunks = 1
INVARIANTS
    OneConnection
    NoSocketForgotten
    StreamIntact
    AnsweredFirst
PROPERTIES
    EveryConnectAnswered
    SocketsReleased
CHECK_DEADLOCK FALSE
