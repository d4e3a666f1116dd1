\* Two kernels of different scratch space, one with constants; two failures.
CONSTANTS
    Buffers = {b1, b2}
    Kernels <- MCKernels
    WithConstants <- MCWithConstants
    ScratchNeed <- MCScratchNeed
    NoLaunch = NoLaunch
    Null = Null
    MaxFailures = 2
SYMMETRY BufferSymmetry
SPECIFICATION Spec
INVARIANTS
    TypeOK
    FetchedMemoryLives
    HandlesOutliveBatches
    LaunchableKernelsHaveSip
    OnlyFailedCreationsLeak
    OneContextPerDevice
    DestroyedOnce
CHECK_DEADLOCK FALSE
