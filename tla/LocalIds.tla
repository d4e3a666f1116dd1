------------------------------ MODULE LocalIds ------------------------------
(***************************************************************************)
(* The local ids of one work group: generateLocalIDsSimd and               *)
(* generateLocalIDsForSimdOne write them into the indirect data, one block *)
(* per hardware thread, and the execution mask of GPGPU_WALKER enables     *)
(* the channels of the last thread that have a work item.                  *)
(*                                                                         *)
(* The vectors hold sixteen bit ids, but their type is a vector of long    *)
(* long (utils.h:12): >=, -= and += work on 64 bits, four ids at a time,   *)
(* with borrows and carries from one id into the next.                     *)
(***************************************************************************)
EXTENDS Integers, FiniteSets

CONSTANT Launches    \* SIMD size of a kernel and sizes of its work groups

Dims == 0..2

ASSUME LaunchesAssumption ==
    Launches \subseteq [simd : {1, 8, 16, 32}, size : [Dims -> 1..1024]]

VARIABLES
    stage,       \* "skip", "first", "threads", "scalar" or "done"
    launch,      \* the work group at hand
    pass,        \* pass over the channels, sixteen or eight at a time
    thread,      \* next hardware thread
    skip,        \* vSimdX, vSimdY, vSimdZ
    ids,         \* x, y, z
    ioh          \* ids stored so far, by thread and channel

vars == <<stage, launch, pass, thread, skip, ids, ioh>>

X == launch.size[0]
Y == launch.size[1]
Z == launch.size[2]

Items       == X * Y * Z
Threads     == (launch.simd + Items - 1) \div launch.simd
NumChannels == IF launch.simd = 8 THEN 8 ELSE 16
Passes      == launch.simd \div NumChannels

-----------------------------------------------------------------------------
(* Vectors of sixteen bit elements, four to a lane of 64 bits. *)

Elements == 0..(NumChannels - 1)
Width    == 65536

SetAll(value) == [e \in Elements |-> value]

LaneOf(e) == (e \div 4) * 4

(* The highest element of a lane carries the sign of the comparison. *)
Signed(e, value) ==
    IF e % 4 = 3 /\ value >= Width \div 2 THEN value - Width ELSE value

(* Fault: vectors are compared strictly. *)
GreaterOnly(v, w) ==
    [e \in Elements |->
        \E i \in LaneOf(e)..(LaneOf(e) + 3) :
            /\ Signed(i, v[i]) > Signed(i, w[i])
            /\ \A j \in (i + 1)..(LaneOf(e) + 3) : v[j] = w[j]]

(* v >= w, one truth value for the four elements of a lane. *)
GreaterEqual(v, w) ==
    [e \in Elements |->
        \/ \A i \in LaneOf(e)..(LaneOf(e) + 3) : v[i] = w[i]
        \/ \E i \in LaneOf(e)..(LaneOf(e) + 3) :
             /\ Signed(i, v[i]) > Signed(i, w[i])
             /\ \A j \in (i + 1)..(LaneOf(e) + 3) : v[j] = w[j]]

(* Fault: an element is not reduced to its sixteen bits. *)
MinusUnwrapped(v, w) == [e \in Elements |-> v[e] - w[e]]

(* The elements below e in its lane of v are the smaller number. *)
Borrow(v, w, e) ==
    \E i \in LaneOf(e)..(e - 1) :
        /\ v[i] < w[i]
        /\ \A j \in (i + 1)..(e - 1) : v[j] = w[j]

(* The sum of the elements below e in its lane does not fit there. *)
Carry(v, w, e) ==
    \E i \in LaneOf(e)..(e - 1) :
        /\ v[i] + w[i] >= Width
        /\ \A j \in (i + 1)..(e - 1) : v[j] + w[j] = Width - 1

Minus(v, w) ==
    [e \in Elements |-> (v[e] - w[e] - (IF Borrow(v, w, e) THEN 1 ELSE 0)) % Width]

Plus(v, w) ==
    [e \in Elements |-> (v[e] + w[e] + (IF Carry(v, w, e) THEN 1 ELSE 0)) % Width]

Blend(v, w, mask) == [e \in Elements |-> IF mask[e] THEN v[e] ELSE w[e]]

TestZero(mask) == \A e \in Elements : ~mask[e]

AddIds(p, q) == [d \in Dims |-> Plus(p[d], q[d])]

XWrap(p) == GreaterEqual(p[0], SetAll(X))

(* y after the carry out of x, and whether it wraps in turn. *)
CarriedY(p) == Plus(p[1], Blend(SetAll(1), SetAll(0), XWrap(p)))
YWrap(p)    == GreaterEqual(CarriedY(p), SetAll(Y))

(* One round: x wraps at most once and carries into y, y at most once into z. *)
Wrap(p) ==
    [d \in Dims |->
        CASE d = 0 -> Minus(p[0], Blend(SetAll(X), SetAll(0), XWrap(p)))
          [] d = 1 -> Minus(CarriedY(p), Blend(SetAll(Y), SetAll(0), YWrap(p)))
          [] d = 2 -> Plus(p[2], Blend(SetAll(1), SetAll(0), YWrap(p)))]

-----------------------------------------------------------------------------
InitialLocalID(p) ==
    [d \in Dims |-> IF d = 0 THEN [e \in Elements |-> p * NumChannels + e] ELSE SetAll(0)]

Init ==
    /\ launch \in Launches
    /\ stage = IF launch.simd = 1 THEN "scalar" ELSE "skip"
    /\ pass = 0 /\ thread = 0
    /\ skip = [d \in Dims |-> IF d = 0 THEN SetAll(launch.simd) ELSE SetAll(0)]
    /\ ids = InitialLocalID(0)
    /\ ioh = <<>>

(* The ids by which one thread is ahead of the thread before it. *)
ComputeSkip ==
    /\ stage = "skip"
    /\ skip' = Wrap(skip)
    /\ stage' = IF TestZero(XWrap(skip)) /\ TestZero(YWrap(skip)) THEN "first" ELSE "skip"
    /\ UNCHANGED <<launch, pass, thread, ids, ioh>>

(* The ids of the first thread. *)
ComputeFirst ==
    /\ stage = "first"
    /\ ids' = Wrap(ids)
    /\ stage' = IF TestZero(XWrap(ids)) THEN "threads" ELSE "first"
    /\ UNCHANGED <<launch, pass, thread, skip, ioh>>

(* x, y and z of some channels behind those that are stored. *)
Store(channels) ==
    [place \in DOMAIN ioh \cup DOMAIN channels |->
        IF place \in DOMAIN channels THEN channels[place] ELSE ioh[place]]

StoreThread ==
    /\ stage = "threads" /\ thread < Threads
    /\ ioh' = Store([place \in {<<thread, pass * NumChannels + e>> : e \in Elements} |->
                        [d \in Dims |-> ids[d][place[2] % NumChannels]]])
    /\ ids' = Wrap(AddIds(ids, skip))
    /\ thread' = thread + 1
    /\ UNCHANGED <<stage, launch, pass, skip>>

(* Fault: the passes are not counted. *)
NextPassUncounted ==
    /\ stage = "threads" /\ thread = Threads
    /\ thread' = 0
    /\ stage' = IF pass < Passes THEN "first" ELSE "done"
    /\ ids' = InitialLocalID(pass)
    /\ UNCHANGED <<launch, pass, skip, ioh>>

NextPass ==
    /\ stage = "threads" /\ thread = Threads
    /\ thread' = 0
    /\ pass' = pass + 1
    /\ stage' = IF pass' < Passes THEN "first" ELSE "done"
    /\ ids' = InitialLocalID(pass')
    /\ UNCHANGED <<launch, skip, ioh>>

(* The innermost loop of generateLocalIDsForSimdOne: it counts to the size *)
(* of z and stores the counter as x, the outermost to x and as z.          *)
StoreScalar ==
    /\ stage = "scalar" /\ thread < Items
    /\ ioh' = Store([place \in {<<thread, 0>>} |->
                        [d \in Dims |-> CASE d = 0 -> thread % Z
                                          [] d = 1 -> (thread \div Z) % Y
                                          [] d = 2 -> thread \div (Z * Y)]])
    /\ thread' = thread + 1
    /\ stage' = IF thread' = Items THEN "done" ELSE "scalar"
    /\ UNCHANGED <<launch, pass, skip, ids>>

Next == ComputeSkip \/ ComputeFirst \/ StoreThread \/ NextPass \/ StoreScalar

Spec == Init /\ [][Next]_vars

(* The generator is a loop of the calling thread. *)
FairSpec == Spec /\ WF_vars(Next)

-----------------------------------------------------------------------------
Triples == [Dims -> 0..(Width - 1)]

TypeOK ==
    /\ stage \in {"skip", "first", "threads", "scalar", "done"}
    /\ launch \in Launches
    /\ pass \in 0..Passes /\ thread \in 0..Items
    /\ skip \in [Dims -> [Elements -> 0..(Width - 1)]]
    /\ ids \in [Dims -> [Elements -> 0..(Width - 1)]]
    /\ \A place \in DOMAIN ioh : ioh[place] \in Triples

(* RightExecutionMask: the channels of the last thread that have an item. *)
Remainder == Items % launch.simd

Enabled ==
    {place \in (0..(Threads - 1)) \X (0..(launch.simd - 1)) :
        place[1] = Threads - 1 /\ Remainder # 0 => place[2] < Remainder}

(* The channels the walker enables stand for the work items of the group,  *)
(* every one of them once.                                                 *)
EachItemOnce ==
    /\ Cardinality(Enabled) = Items
    /\ Enabled \subseteq DOMAIN ioh
    /\ \A p \in Enabled :
         /\ \A d \in Dims : ioh[p][d] < launch.size[d]
         /\ \A q \in Enabled : p # q => ioh[p] # ioh[q]

(* Rows that fill whole lanes of 64 bits, and for the scalar generator a   *)
(* group as deep as it is wide.                                            *)
WholeLanes == IF launch.simd = 1 THEN X = Z ELSE X % 4 = 0

(* Whatever the number of carries between threads, dimensions and passes,  *)
(* the work items of such a group get their ids (createIndirectObjectHeap).*)
IdsOfWholeLanes == stage = "done" /\ WholeLanes => EachItemOnce

(* A kernel of any work group that validateWorkGroups accepts sees its     *)
(* local ids ("The number of work items inside a work group.",             *)
(* gpgpu_api.h:178).                                                       *)
IdsOfAnyGroup == stage = "done" => EachItemOnce

(* The generator ends for every group of the run, also for those it gets   *)
(* wrong: checked for the groups of MCLocalIds, there is no theorem.       *)
GenerationEnds == <>(stage = "done")
=============================================================================
