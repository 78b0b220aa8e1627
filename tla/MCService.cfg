SPECIFICATION Spec
CONSTANTS
    MaxTaps = 5
    MaxRevokes = 2
    MaxDeaths = 1
INVARIANTS
    TypeOK
    NoTunnelForgotten
    InterfaceOwned
    UiTellsTruth
    OffIsOff
PROPERTY OffMeansOff
CHECK_DEADLOCK FALSE
