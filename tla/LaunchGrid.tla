----------------------------- MODULE LaunchGrid -----------------------------
(***************************************************************************)
(* The launch grid: the three arrays of CommandDispatcher and what         *)
(* validateWorkGroups makes of them for given arguments of ExecuteKernel.  *)
(***************************************************************************)
EXTENDS Integers

CONSTANTS
    Requests,        \* the argument triples of ExecuteKernel a program may pass
    RequiredSizes,   \* reqd_work_group_size attributes of its kernels
    MaxWorkItemsPerWorkGroup,
    SupportedGeneration

(* Array index = dimension; a call uses the first work_dim of them. *)
Dims == 0..2
Sizes == [Dims -> Nat]

(* Arguments of ExecuteKernel. A null pointer is the flag, not a value. *)
Request ==
    [work_dim : Nat, hasGlobal : BOOLEAN, global : Sizes,
     hasLocal : BOOLEAN, local : Sizes]

ASSUME RequestsAssumption ==
    /\ Requests \subseteq Request
    /\ RequiredSizes \subseteq Sizes
    /\ MaxWorkItemsPerWorkGroup \in Nat \ {0}
    /\ SupportedGeneration \in BOOLEAN

Grid == [items : Sizes, global : Sizes, groups : Sizes]

(* What the constructor of the dispatcher leaves in the arrays. *)
InitialGrid ==
    LET ones == [d \in Dims |-> 1]
    IN  [items |-> ones, global |-> ones, groups |-> ones]

Volume(sizes) == sizes[0] * sizes[1] * sizes[2]

(***************************************************************************)
(* The loop of validateWorkGroups over the requested dimensions. It stops  *)
(* at the first dimension whose local size is zero or is not the one the   *)
(* kernel requires; workItemsPerWorkGroup is assigned below that dimension *)
(* and globalWorkItems up to and including it.                             *)
(***************************************************************************)
(* Fault: one dimension too many. *)
RequestedInclusive(req) == {d \in Dims : d <= req.work_dim}

Requested(req) == {d \in Dims : d < req.work_dim}

Rejected(req, required) ==
    {d \in Requested(req) :
        \/ required[0] # 0 /\ required[d] # req.local[d]
        \/ req.local[d] = 0}

Accepted(req, required) ==
    {d \in Requested(req) : \A r \in Rejected(req, required) : d < r}

Assigned(req, required) ==
    {d \in Requested(req) : \A r \in Rejected(req, required) : d <= r}

LocalSize(req) ==
    Volume([d \in Dims |-> IF d < req.work_dim THEN req.local[d] ELSE 1])

LoopGrid(grid, req, required) ==
    [grid EXCEPT
        !.items  = [d \in Dims |-> IF d \in Accepted(req, required)
                                   THEN req.local[d] ELSE @[d]],
        !.global = [d \in Dims |-> IF d \in Assigned(req, required)
                                   THEN req.global[d] ELSE @[d]]]

(***************************************************************************)
(* validateWorkGroups: the error code and the arrays it leaves behind.     *)
(***************************************************************************)

(* Fault: sizes that do not divide are accepted. *)
ValidationCodeNoRemainder(req, required) ==
    IF ~SupportedGeneration THEN "UNSUPPORTED_HARDWARE"
    ELSE IF ~req.hasGlobal THEN "INVALID_WORK_SIZE"
    ELSE IF \/ ~req.hasLocal
            \/ req.work_dim > 3
            \/ Rejected(req, required) # {}
            \/ LocalSize(req) > MaxWorkItemsPerWorkGroup
         THEN "INVALID_WORK_GROUP_SIZE"
    ELSE "SUCCESS"

(* Fault: the size of a work group is not limited. *)
ValidationCodeNoLimit(req, required) ==
    IF ~SupportedGeneration THEN "UNSUPPORTED_HARDWARE"
    ELSE IF ~req.hasGlobal THEN "INVALID_WORK_SIZE"
    ELSE IF \/ ~req.hasLocal
            \/ req.work_dim > 3
            \/ Rejected(req, required) # {}
            \/ \E d \in Requested(req) : req.global[d] % req.local[d] # 0
         THEN "INVALID_WORK_GROUP_SIZE"
    ELSE "SUCCESS"

ValidationCode(req, required) ==
    IF ~SupportedGeneration THEN "UNSUPPORTED_HARDWARE"
    ELSE IF ~req.hasGlobal THEN "INVALID_WORK_SIZE"
    ELSE IF \/ ~req.hasLocal
            \/ req.work_dim > 3
            \/ Rejected(req, required) # {}
            \/ \E d \in Requested(req) : req.global[d] % req.local[d] # 0
            \/ LocalSize(req) > MaxWorkItemsPerWorkGroup
         THEN "INVALID_WORK_GROUP_SIZE"
    ELSE "SUCCESS"

ReachesLoop(req) ==
    SupportedGeneration /\ req.hasGlobal /\ req.hasLocal /\ req.work_dim <= 3

(* Fault: the index of the last group instead of the number of groups. *)
ValidatedGridLastGroup(grid, req, required) ==
    IF ~ReachesLoop(req) THEN grid
    ELSE LET looped == LoopGrid(grid, req, required)
         IN  IF ValidationCode(req, required) # "SUCCESS" THEN looped
             ELSE [looped EXCEPT
                     !.groups = [d \in Dims |->
                        IF d \in Requested(req)
                        THEN (looped.global[d] - 1) \div looped.items[d] ELSE @[d]]]

ValidatedGrid(grid, req, required) ==
    IF ~ReachesLoop(req) THEN grid
    ELSE LET looped == LoopGrid(grid, req, required)
         IN  IF ValidationCode(req, required) # "SUCCESS" THEN looped
             ELSE [looped EXCEPT
                     !.groups = [d \in Dims |->
                        IF d \in Requested(req)
                        THEN looped.global[d] \div looped.items[d] ELSE @[d]]]
=============================================================================
