----------------------------- MODULE WorkGroups -----------------------------
(***************************************************************************)
(* The launch grid of one context under a sequence of ExecuteKernel calls. *)
(* The arrays are members of the context: they survive a call, also one    *)
(* that failed half way through the validation, and the next call starts   *)
(* from what it finds in them. last is the request of the latest call and  *)
(* code its result; deepest[d] says that some earlier call, successful or  *)
(* not, asked for more than d dimensions.                                  *)
(***************************************************************************)
EXTENDS LaunchGrid

CONSTANT NoCall       \* model value: no ExecuteKernel call yet

VARIABLES grid, last, code, deepest

vars == <<grid, last, code, deepest>>

TypeOK ==
    /\ grid \in Grid
    /\ last \in Requests \cup {NoCall}
    /\ code \in {"NONE", "SUCCESS", "UNSUPPORTED_HARDWARE", "INVALID_WORK_SIZE",
                 "INVALID_WORK_GROUP_SIZE"}
    /\ deepest \in [Dims -> BOOLEAN]

Init ==
    /\ grid = InitialGrid
    /\ last = NoCall
    /\ code = "NONE"
    /\ deepest = [d \in Dims |-> FALSE]

ExecuteKernel(req, required) ==
    /\ grid' = ValidatedGrid(grid, req, required)
    /\ code' = ValidationCode(req, required)
    /\ last' = req
    /\ deepest' = [d \in Dims |-> deepest[d] \/ d < req.work_dim]

Next == \E req \in Requests, required \in RequiredSizes : ExecuteKernel(req, required)

Spec == Init /\ [][Next]_vars

-----------------------------------------------------------------------------
Accepts == code = "SUCCESS"

(***************************************************************************)
(* A call that is accepted launches, in every dimension it names, exactly  *)
(* as many work items as it asked for, in groups of the size it asked for, *)
(* whatever an earlier call, accepted or rejected half way, left in the    *)
(* arrays.                                                                 *)
(***************************************************************************)
RequestedDimensionsExact ==
    Accepts => \A d \in Requested(last) :
        /\ grid.items[d] = last.local[d]
        /\ grid.items[d] * grid.groups[d] = last.global[d]

(***************************************************************************)
(* A dimension that no call on this context ever named keeps the value one *)
(* of the constructor, so a program that always passes the same work_dim   *)
(* gets the grid it asked for.                                             *)
(***************************************************************************)
UntouchedDimensionsAreOne ==
    \A d \in Dims : ~deepest[d] =>
        grid.items[d] = 1 /\ grid.global[d] = 1 /\ grid.groups[d] = 1

(***************************************************************************)
(* The division by workItemsPerWorkGroup is defined after every sequence   *)
(* of calls (276 comes before 279), and the group that reaches the         *)
(* hardware is within its limit as long as no earlier call used a          *)
(* dimension that this one leaves out and the product of the local sizes   *)
(* stays below 2^64: that the code takes it modulo 2^64 (280) is not       *)
(* modelled.                                                               *)
(***************************************************************************)
GroupsAreBounded ==
    /\ \A d \in Dims : grid.items[d] # 0
    /\ (Accepts /\ \A d \in Dims : d >= last.work_dim => ~deepest[d]) =>
          Volume(grid.items) <= MaxWorkItemsPerWorkGroup

(***************************************************************************)
(* gpgpu_api.h describes global_work_size as "The total number of work     *)
(* items." and local_work_size as "The number of work items inside a work  *)
(* group.": the grid that a successful call launches has as many work      *)
(* items in all, and in a group, as a call with at least one dimension     *)
(* names.                                                                  *)
(***************************************************************************)
GridIsTheRequest ==
    Accepts /\ last.work_dim > 0 =>
        /\ Volume(grid.items) = LocalSize(last)
        /\ Volume(grid.items) * Volume(grid.groups) =
             Volume([d \in Dims |-> IF d < last.work_dim THEN last.global[d] ELSE 1])
=============================================================================
