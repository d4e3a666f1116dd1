-------------------------- MODULE WorkGroupsProofs --------------------------
(* The launch grid after every sequence of calls, for every set of requests *)
(* and kernels. The invariant is inductive once it says that no local size  *)
(* in the arrays is zero: a division by one would follow.                   *)
EXTENDS WorkGroups, LaunchGridProofs

GridInv ==
    /\ TypeOK
    /\ code # "NONE" => last \in Requests
    /\ RequestedDimensionsExact
    /\ UntouchedDimensionsAreOne
    /\ GroupsAreBounded

LEMMA InitialGridFacts ==
    /\ InitialGrid \in Grid
    /\ \A d \in Dims : /\ InitialGrid.items[d] = 1
                       /\ InitialGrid.global[d] = 1
                       /\ InitialGrid.groups[d] = 1
  BY DEF InitialGrid, Grid, Sizes

LEMMA InitGridInv == Init => GridInv
<1> SUFFICES ASSUME Init PROVE GridInv
  OBVIOUS
<1>1. TypeOK
  BY InitialGridFacts DEF Init, TypeOK
<1>2. UntouchedDimensionsAreOne
  BY InitialGridFacts DEF Init, UntouchedDimensionsAreOne
<1>3. RequestedDimensionsExact /\ GroupsAreBounded
  BY InitialGridFacts DEF Init, RequestedDimensionsExact, GroupsAreBounded, Accepts
<1>  QED  BY <1>1, <1>2, <1>3 DEF Init, GridInv

(* What one call does to the arrays, dimension by dimension: a dimension it *)
(* does not name keeps its values, and no local size becomes zero.          *)
LEMMA CallFacts ==
    ASSUME NEW g \in Grid, NEW req \in Request, NEW required \in Sizes, NEW d \in Dims
    PROVE  LET v == ValidatedGrid(g, req, required)
           IN  /\ d \notin Requested(req) =>
                    /\ v.items[d] = g.items[d]
                    /\ v.global[d] = g.global[d]
                    /\ v.groups[d] = g.groups[d]
               /\ g.items[d] # 0 => v.items[d] # 0
<1>1. CASE ~ReachesLoop(req)
  BY <1>1 DEF ValidatedGrid
<1>2. CASE ReachesLoop(req) /\ ValidationCode(req, required) = "SUCCESS"
  BY <1>2, ValidatedGridSuccess, SuccessFacts
<1>3. CASE ReachesLoop(req) /\ ValidationCode(req, required) # "SUCCESS"
  <2>1. ValidatedGrid(g, req, required) = LoopGrid(g, req, required)
    BY <1>3 DEF ValidatedGrid
  <2>2. /\ LoopGrid(g, req, required).items[d] =
             IF d \in Accepted(req, required) THEN req.local[d] ELSE g.items[d]
        /\ LoopGrid(g, req, required).global[d] =
             IF d \in Assigned(req, required) THEN req.global[d] ELSE g.global[d]
        /\ LoopGrid(g, req, required).groups[d] = g.groups[d]
    BY DEF LoopGrid, Grid
  <2>3. d \in Accepted(req, required) => d \in Requested(req) /\ req.local[d] # 0
    <3> SUFFICES ASSUME d \in Accepted(req, required), req.local[d] = 0 PROVE FALSE
      BY DEF Accepted
    <3>1. d \in Rejected(req, required)
      BY DEF Rejected, Accepted
    <3>2. d < d
      BY <3>1 DEF Accepted
    <3>  QED  BY <3>2 DEF Dims
  <2>4. d \in Assigned(req, required) => d \in Requested(req)
    BY DEF Assigned
  <2>  QED  BY <2>1, <2>2, <2>3, <2>4
<1>  QED  BY <1>1, <1>2, <1>3

LEMMA StepGridInv == GridInv /\ [Next]_vars => GridInv'
<1> SUFFICES ASSUME GridInv, [Next]_vars PROVE GridInv'
  OBVIOUS
<1>1. CASE UNCHANGED vars
  BY <1>1 DEF vars, GridInv, TypeOK, RequestedDimensionsExact,
              UntouchedDimensionsAreOne, GroupsAreBounded, Accepts
<1>2. ASSUME NEW req \in Requests, NEW required \in RequiredSizes,
             ExecuteKernel(req, required)
      PROVE  GridInv'
  <2> USE DEF GridInv
  <2>0. /\ req \in Request /\ required \in Sizes /\ grid \in Grid
        /\ grid' = ValidatedGrid(grid, req, required)
        /\ code' = ValidationCode(req, required)
        /\ last' = req
        /\ \A d \in Dims : deepest'[d] = (deepest[d] \/ d < req.work_dim)
    BY <1>2, RequestsAssumption DEF ExecuteKernel, TypeOK
  <2>1. TypeOK'
    <3>1. grid' \in Grid
      BY <2>0, ValidatedGridType
    <3>2. code' \in {"SUCCESS", "UNSUPPORTED_HARDWARE", "INVALID_WORK_SIZE",
                     "INVALID_WORK_GROUP_SIZE"}
      BY <2>0 DEF ValidationCode
    <3>3. deepest' \in [Dims -> BOOLEAN]
      BY <1>2 DEF ExecuteKernel, TypeOK
    <3>  QED  BY <2>0, <3>1, <3>2, <3>3 DEF TypeOK
  <2>2. RequestedDimensionsExact'
    <3> SUFFICES ASSUME code' = "SUCCESS", NEW d \in Requested(req)
                 PROVE  /\ grid'.items[d] = req.local[d]
                        /\ grid'.items[d] * grid'.groups[d] = req.global[d]
      BY <2>0 DEF RequestedDimensionsExact, Accepts
    <3>1. d \in Dims  BY DEF Requested
    <3>2. /\ grid'.items[d] = req.local[d]
          /\ grid'.groups[d] = req.global[d] \div req.local[d]
      BY <2>0, <3>1, ValidatedGridSuccess
    <3>3. /\ req.local[d] \in Nat \ {0} /\ req.global[d] \in Nat
          /\ req.global[d] % req.local[d] = 0
      BY <2>0, SuccessFacts
    <3>  QED  BY <3>2, <3>3, DivisionExact
  <2>3. UntouchedDimensionsAreOne'
    <3> SUFFICES ASSUME NEW d \in Dims, ~deepest'[d]
                 PROVE  grid'.items[d] = 1 /\ grid'.global[d] = 1 /\ grid'.groups[d] = 1
      BY DEF UntouchedDimensionsAreOne
    <3>1. ~deepest[d] /\ d \notin Requested(req)
      BY <2>0 DEF Requested
    <3>  QED  BY <2>0, <3>1, CallFacts DEF UntouchedDimensionsAreOne
  <2>4. GroupsAreBounded'
    <3>1. \A d \in Dims : grid'.items[d] # 0
      BY <2>0, CallFacts DEF GroupsAreBounded
    <3>2. ASSUME code' = "SUCCESS", \A d \in Dims : d >= req.work_dim => ~deepest'[d]
          PROVE  Volume(grid'.items) <= MaxWorkItemsPerWorkGroup
      <4>1. \A d \in Dims : grid'.items[d] = IF d < req.work_dim THEN req.local[d] ELSE 1
        <5> SUFFICES ASSUME NEW d \in Dims
                     PROVE  grid'.items[d] = IF d < req.work_dim THEN req.local[d] ELSE 1
          OBVIOUS
        <5>1. CASE d < req.work_dim
          <6>1. d \in Requested(req)
            BY <5>1 DEF Requested
          <6>2. ValidationCode(req, required) = "SUCCESS"
            BY <2>0, <3>2
          <6>  QED  BY <2>0, <5>1, <6>1, <6>2, ValidatedGridSuccess
        <5>2. CASE ~(d < req.work_dim)
          <6>1. d >= req.work_dim
            BY <2>0, <5>2 DEF Request, Dims
          <6>  QED  BY <5>2, <6>1, <2>3, <3>2 DEF UntouchedDimensionsAreOne
        <5>  QED  BY <5>1, <5>2
      <4>2. Volume(grid'.items) = LocalSize(req)
        BY <4>1 DEF Volume, LocalSize, Dims
      <4>3. LocalSize(req) \in Nat
        BY <2>0, VolumeInNat DEF LocalSize, Request, Sizes
      <4>4. ~(LocalSize(req) > MaxWorkItemsPerWorkGroup)
        BY <2>0, <3>2 DEF ValidationCode
      <4>  QED  BY <4>2, <4>3, <4>4, RequestsAssumption
    <3>  QED  BY <2>0, <3>1, <3>2 DEF GroupsAreBounded, Accepts
  <2>  QED  BY <2>0, <2>1, <2>2, <2>3, <2>4
<1>  QED  BY <1>1, <1>2 DEF Next

LEMMA GridInvariant == Spec => []GridInv
  BY InitGridInv, StepGridInv, PTL DEF Spec

(* The arrays of the context and the error code keep their types.           *)
THEOREM WorkGroupsTypeCorrect == Spec => []TypeOK
  BY GridInvariant, PTL DEF GridInv

(* Every accepted call launches what it asked for in the dimensions it      *)
(* names, after any sequence of earlier calls.                              *)
THEOREM RequestedDimensionsTheorem == Spec => []RequestedDimensionsExact
  BY GridInvariant, PTL DEF GridInv

(* A dimension that no call has named is one group of one item.             *)
THEOREM UntouchedDimensionsTheorem == Spec => []UntouchedDimensionsAreOne
  BY GridInvariant, PTL DEF GridInv

(* No local size in the arrays is ever zero, and the limit of the hardware  *)
(* holds for a group none of whose dimensions is left over.                 *)
THEOREM GroupsAreBoundedTheorem == Spec => []GroupsAreBounded
  BY GridInvariant, PTL DEF GridInv
=============================================================================
