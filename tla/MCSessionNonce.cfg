SPECIFICATION Spec
CONSTANTS
    s1 = s1
    s2 = s2
    r1 = r1
    r2 = r2
    Senders = {s1, s2}
    Receivers = {r1}
    WindowSize = 2
    BitmapBits = 2
    SeqSpace = 4
    MaxKey = 2
    MaxSent = 3
    MaxPeerSent = 1
INVARIANT OwnNonceNeverRepeats
