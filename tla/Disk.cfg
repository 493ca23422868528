CONSTANTS
    Proc = {p1, p2}
    Block = {k1, k2, k3, k4}
    Buf = {b1, b2, b3}
    Sizes = {4, 6}
    Laps = 1
    MaxPinned = 2
    None = None
SPECIFICATION Spec
SYMMETRY Symmetry
INVARIANTS
    OneBufPerBlock
    CacheCoherent
    WriteThrough
    NoLostInterrupt
    NoLostDescriptor
