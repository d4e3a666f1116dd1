-------------------------- MODULE LaunchGridProofs --------------------------
(* Facts about the launch grid that the proofs of WorkGroups and of         *)
(* Dispatcher share.                                                        *)
EXTENDS LaunchGrid, TLAPS

(* Whole division stays in the natural numbers, and a division without a    *)
(* rest is undone by the multiplication.                                    *)
LEMMA DivisionInNat ==
    ASSUME NEW a \in Nat, NEW b \in Nat \ {0}
    PROVE  a \div b \in Nat
  OBVIOUS

LEMMA DivisionExact ==
    ASSUME NEW a \in Nat, NEW b \in Nat \ {0}, a % b = 0
    PROVE  b * (a \div b) = a
<1>1. a = b * (a \div b) + (a % b)  OBVIOUS
<1>2. a \div b \in Nat            BY DivisionInNat
<1>  QED  BY <1>1, <1>2

LEMMA VolumeInNat ==
    ASSUME NEW sizes \in Sizes
    PROVE  Volume(sizes) \in Nat
<1>1. sizes[0] \in Nat /\ sizes[1] \in Nat /\ sizes[2] \in Nat
  BY DEF Sizes, Dims
<1>2. sizes[0] * sizes[1] \in Nat  BY <1>1
<1>  QED  BY <1>1, <1>2 DEF Volume

(* What an accepted call has checked of its arguments.                      *)
LEMMA SuccessFacts ==
    ASSUME NEW req \in Request, NEW required \in Sizes,
           ValidationCode(req, required) = "SUCCESS"
    PROVE  /\ ReachesLoop(req)
           /\ Rejected(req, required) = {}
           /\ \A d \in Requested(req) : /\ req.local[d] \in Nat \ {0}
                                        /\ req.global[d] \in Nat
                                        /\ req.global[d] % req.local[d] = 0
<1>1. /\ SupportedGeneration /\ req.hasGlobal /\ req.hasLocal
      /\ ~(req.work_dim > 3)
      /\ Rejected(req, required) = {}
      /\ \A d \in Requested(req) : ~(req.global[d] % req.local[d] # 0)
  BY DEF ValidationCode
<1>2. ReachesLoop(req)
  BY <1>1 DEF ReachesLoop, Request
<1>3. \A d \in Requested(req) : req.local[d] # 0
  BY <1>1 DEF Rejected
<1>4. \A d \in Requested(req) : req.local[d] \in Nat /\ req.global[d] \in Nat
  BY DEF Requested, Request, Sizes
<1>  QED  BY <1>1, <1>2, <1>3, <1>4

(* The loop over the dimensions leaves three arrays of natural numbers.     *)
LEMMA LoopGridType ==
    ASSUME NEW g \in Grid, NEW req \in Request, NEW required \in Sizes
    PROVE  LoopGrid(g, req, required) \in Grid
<1>1. \A d \in Dims : /\ req.local[d] \in Nat /\ req.global[d] \in Nat
                      /\ g.items[d] \in Nat /\ g.global[d] \in Nat
  BY DEF Request, Sizes, Grid
<1>2. [d \in Dims |-> IF d \in Accepted(req, required) THEN req.local[d] ELSE g.items[d]]
        \in Sizes
  BY <1>1 DEF Sizes
<1>3. [d \in Dims |-> IF d \in Assigned(req, required) THEN req.global[d] ELSE g.global[d]]
        \in Sizes
  BY <1>1 DEF Sizes
<1>  QED  BY <1>2, <1>3 DEF LoopGrid, Grid

(* When nothing is rejected the loop has copied every requested dimension.  *)
LEMMA LoopGridAccepts ==
    ASSUME NEW g \in Grid, NEW req \in Request, NEW required \in Sizes,
           Rejected(req, required) = {}, NEW d \in Dims
    PROVE  /\ LoopGrid(g, req, required).items[d] =
                IF d \in Requested(req) THEN req.local[d] ELSE g.items[d]
           /\ LoopGrid(g, req, required).global[d] =
                IF d \in Requested(req) THEN req.global[d] ELSE g.global[d]
           /\ LoopGrid(g, req, required).groups = g.groups
<1>1. Accepted(req, required) = Requested(req) /\ Assigned(req, required) = Requested(req)
  BY DEF Accepted, Assigned
<1>  QED  BY <1>1 DEF LoopGrid, Grid

(* The members that validateWorkGroups leaves after a successful call.      *)
LEMMA ValidatedGridSuccess ==
    ASSUME NEW g \in Grid, NEW req \in Request, NEW required \in Sizes,
           ValidationCode(req, required) = "SUCCESS", NEW d \in Dims
    PROVE  LET v == ValidatedGrid(g, req, required)
           IN  /\ v.items[d] = IF d \in Requested(req) THEN req.local[d] ELSE g.items[d]
               /\ v.global[d] = IF d \in Requested(req) THEN req.global[d] ELSE g.global[d]
               /\ v.groups[d] = IF d \in Requested(req)
                                THEN req.global[d] \div req.local[d] ELSE g.groups[d]
<1> DEFINE looped == LoopGrid(g, req, required)
<1>1. looped \in Grid  BY LoopGridType
<1>2. Rejected(req, required) = {} /\ ReachesLoop(req)  BY SuccessFacts
<1>3. ValidatedGrid(g, req, required) =
        [looped EXCEPT !.groups = [e \in Dims |-> IF e \in Requested(req)
                                     THEN looped.global[e] \div looped.items[e] ELSE @[e]]]
  BY <1>2 DEF ValidatedGrid
<1>4. \A e \in Dims :
        /\ looped.items[e] = IF e \in Requested(req) THEN req.local[e] ELSE g.items[e]
        /\ looped.global[e] = IF e \in Requested(req) THEN req.global[e] ELSE g.global[e]
        /\ looped.groups = g.groups
  BY <1>2, LoopGridAccepts
<1> HIDE DEF looped
<1>  QED  BY <1>1, <1>3, <1>4 DEF Grid

LEMMA ValidatedGridType ==
    ASSUME NEW g \in Grid, NEW req \in Request, NEW required \in Sizes
    PROVE  ValidatedGrid(g, req, required) \in Grid
<1> DEFINE looped == LoopGrid(g, req, required)
<1>1. looped \in Grid  BY LoopGridType
<1>2. CASE ~ReachesLoop(req)
  BY <1>2 DEF ValidatedGrid
<1>3. CASE ReachesLoop(req) /\ ValidationCode(req, required) # "SUCCESS"
  BY <1>1, <1>3 DEF ValidatedGrid
<1>4. CASE ReachesLoop(req) /\ ValidationCode(req, required) = "SUCCESS"
  <2> DEFINE groups == [e \in Dims |-> IF e \in Requested(req)
                          THEN looped.global[e] \div looped.items[e] ELSE looped.groups[e]]
  <2>1. \A e \in Dims : e \in Requested(req) =>
          /\ looped.items[e] = req.local[e] /\ req.local[e] \in Nat \ {0}
          /\ looped.global[e] = req.global[e] /\ req.global[e] \in Nat
    BY <1>4, SuccessFacts, LoopGridAccepts
  <2>2. \A e \in Dims : e \in Requested(req) => looped.global[e] \div looped.items[e] \in Nat
    BY <2>1, DivisionInNat
  <2>3. groups \in Sizes
    BY <1>1, <2>2 DEF Sizes, Grid
  <2>4. ValidatedGrid(g, req, required) = [looped EXCEPT !.groups = groups]
    BY <1>4 DEF ValidatedGrid
  <2> HIDE DEF looped, groups
  <2>  QED  BY <1>1, <2>3, <2>4 DEF Grid
<1>  QED  BY <1>2, <1>3, <1>4
=============================================================================
