SPECIFICATION Spec
CONSTANTS
    bit = bit
    u32 = u32
    CTypes = {bit, u32}
    ByteSize <- Sizes
    Bit = bit
    MaxVars = 9
    NoBit = NoBit
INVARIANTS
    Disjoint
    Packed
    FormAgrees
    ReadsBack
CHECK_DEADLOCK FALSE
