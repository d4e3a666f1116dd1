\* A window of 240 pages instead of 4 GB; one object is not a whole number of pages.
CONSTANTS
    Objects = {a, b, c}
    ObjectSizes = {163000, 409600}
    GttSizes = {8388608, 4294967}
    HalfRange = 4194304
    Word = 67108864
    GraphicsHeapSize = 2097152
SPECIFICATION Spec
INVARIANTS
    TypeOK
    OffsetsReachObjects
PROPERTY ImplementsAddressSpace
CHECK_DEADLOCK FALSE
