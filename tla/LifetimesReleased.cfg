\* Launches of a kernel with null arguments after its buffer was released.
CONSTANTS
    Buffers = {b1, b2}
    Kernels <- MCKernels
    WithConstants <- MCWithConstants
    ScratchNeed <- MCScratchNeed
    NoLaunch = NoLaunch
    Null = Null
    MaxFailures = 0
SYMMETRY BufferSymmetry
SPECIFICATION Spec
INVARIANT LaunchesListLiveBuffers
CHECK_DEADLOCK FALSE
