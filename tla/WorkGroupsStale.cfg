\* The grid a successful call launches against the request it was given.
CONSTANTS
    Requests <- AskedRequests
    RequiredSizes <- KernelRequiredSizes
    MaxWorkItemsPerWorkGroup = 4
    SupportedGeneration = TRUE
    NoCall = NoCall
SPECIFICATION Spec
INVARIANT GridIsTheRequest
