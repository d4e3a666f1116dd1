\* As many calls as the smallest heap holds blocks.
CONSTANTS
    Requests <- OneRequest
    RequiredSizes <- NoRequiredSizes
    MaxWorkItemsPerWorkGroup = 256
    SupportedGeneration = TRUE
    Kernels <- OneKernel
    KernelInfo <- OneKernelInfo
    NoKernel = NoKernel
    ComputeUnits <- SmallUnits
    MaxExecutions = 204
    MaxFailures = 0
SPECIFICATION Spec
INVARIANT BlocksInsideHeap
CHECK_DEADLOCK FALSE
