\* Scratch space after an allocation that failed.
CONSTANTS
    Requests <- OneRequest
    RequiredSizes <- NoRequiredSizes
    MaxWorkItemsPerWorkGroup = 256
    SupportedGeneration = TRUE
    Kernels <- ScratchKernels
    KernelInfo <- ScratchKernelInfo
    NoKernel = NoKernel
    ComputeUnits <- SmallUnits
    MaxExecutions = 3
    MaxFailures = 1
SPECIFICATION Spec
INVARIANT ScratchAvailable
CHECK_DEADLOCK FALSE
