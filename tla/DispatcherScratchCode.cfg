\* Scratch space of kernels that need more and more of it.
CONSTANTS
    Requests <- OneRequest
    RequiredSizes <- NoRequiredSizes
    MaxWorkItemsPerWorkGroup = 256
    SupportedGeneration = TRUE
    Kernels <- ScratchKernels
    KernelInfo <- ScratchKernelInfo
    NoKernel = NoKernel
    ComputeUnits <- SmallUnits
    MaxExecutions = 2
    MaxFailures = 0
SPECIFICATION Spec
INVARIANT PerThreadScratchFits
CHECK_DEADLOCK FALSE
