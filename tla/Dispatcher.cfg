\* Three calls of four kernels, a failure wherever one can strike; the thread and
\* the GPU run on.
CONSTANTS
    Requests <- LaunchRequests
    RequiredSizes <- NoRequiredSizes
    MaxWorkItemsPerWorkGroup = 256
    SupportedGeneration = TRUE
    Kernels <- AllKernels
    KernelInfo <- AllKernelInfo
    NoKernel = NoKernel
    ComputeUnits <- SmallUnits
    MaxExecutions = 3
    MaxFailures = 2
SPECIFICATION FairSpec
INVARIANTS
    TypeOK
    InFlightCoherent
    SuccessMeansRan
    NoSpuriousFailure
    TagsIdentifyBatches
    ScratchAccounted
PROPERTIES
    BlocksSurvive
    ImplementsKernelLaunch
    CallReturns
CHECK_DEADLOCK FALSE
