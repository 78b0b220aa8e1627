SPECIFICATION Spec
CONSTANTS
    Devices = {d1, d2}
    Tokens = {t1}
    InactivityTTL = 1
    Never = Never
    MaxClock = 4
    MaxRevocations = 1
INVARIANTS
    OneDeviceAtATime
    HolderIsLast
