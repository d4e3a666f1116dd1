\* Every sequence of ExecuteKernel arguments on one context.
CONSTANTS
    Requests <- AskedRequests
    RequiredSizes <- KernelRequiredSizes
    MaxWorkItemsPerWorkGroup = 4
    SupportedGeneration = TRUE
    NoCall = NoCall
SPECIFICATION Spec
INVARIANTS
    TypeOK
    RequestedDimensionsExact
    UntouchedDimensionsAreOne
    GroupsAreBounded
