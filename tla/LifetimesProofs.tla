-------------------------- MODULE LifetimesProofs --------------------------
(***************************************************************************)
(* The objects of the API and their memory, for every set of buffers and   *)
(* kernels, every number of failing calls and every order of creations,    *)
(* launches and releases: all invariants of Lifetimes.                     *)
(***************************************************************************)
EXTENDS Lifetimes, SequenceTheorems, TLAPS

(* The device has one context in the kernel driver while the program has   *)
(* one; its members are those that its history has created.                *)
ContextInv ==
    /\ deviceContext <=> context # "NONE"
    /\ drmContexts <= 1
    /\ context \in {"NONE", "CLOSED"} => members = {}
    /\ context = "NONE" =>
         drmContexts = 0 /\ queue = <<>> /\ \A k \in Kernels : object[k] = "NEW"
    /\ context = "OPEN" =>
         /\ drmContexts = 1
         /\ {"preemption", "tag", "pins"} \subseteq members
         /\ \A k \in Kernels : object[k] = "LIVE" => "sip" \in members

(* A call between its steps: its kernel and its arguments are not released *)
(* before it returns, and every pointer it follows is set.                 *)
InLaunch ==
    \/ pc \in {"scratch", "newScratch", "construct", "submit", "wait"}
    \/ pc = "destroying" /\ return = "newScratch"

LaunchInv ==
    /\ InLaunch =>
         /\ context = "OPEN"
         /\ launch \in [kernel : Kernels, args : SUBSET Buffers]
         /\ object[launch.kernel] = "LIVE"
         /\ \A b \in launch.args : object[b] = "LIVE" /\ b \in execData[launch.kernel]
    /\ ~InLaunch => launch = NoLaunch
    /\ pc = "submit" => {"heaps", "streams"} \subseteq members
    /\ pc = "newScratch" \/ (pc = "destroying" /\ return = "newScratch") =>
         "scratch" \notin members

(* What the program or the context still points to is allocated. *)
HeldInv ==
    /\ \A m \in members : status[Member(m)] = "live"
    /\ \A b \in Buffers : object[b] = "LIVE" => status[DataOf(b)] = "live"
    /\ \A k \in Kernels : object[k] = "LIVE" =>
         \A o \in KernelMembers(k) : status[o] = "live"

(* The list of objects to destroy: each once, none still pointed to, and   *)
(* only the first perhaps half destroyed.                                  *)
Unheld(o) ==
    \/ \E m \in ContextMembers \ members : o = Member(m)
    \/ \E b \in Buffers : o = DataOf(b) /\ object[b] = "RELEASED"
    \/ \E k \in Kernels : o \in KernelMembers(k) /\ object[k] = "RELEASED"

Distinct(s) == \A i, j \in 1..Len(s) : s[i] = s[j] => i = j

DoomedInv ==
    /\ Distinct(doomed)
    /\ \A i \in 1..Len(doomed) :
         /\ status[doomed[i]] = "live" \/ (i = 1 /\ status[doomed[i]] = "freed")
         /\ Unheld(doomed[i])

(* Memory that is not released has an owner or is about to be destroyed. *)
Dying(o) == \E i \in 1..Len(doomed) : doomed[i] = o

Allotted(o) == status[o] \in {"live", "freed"}

OwnedInv ==
    /\ \A m \in ContextMembers :
         Allotted(Member(m)) => m \in members \/ Dying(Member(m))
    /\ \A b \in Buffers :
         Allotted(DataOf(b)) => object[b] \in {"LIVE", "LOST"} \/ Dying(DataOf(b))
    /\ \A k \in Kernels : \A o \in KernelMembers(k) :
         Allotted(o) => object[k] \in {"LIVE", "LOST"} \/ Dying(o)

(* A batch lists no softpinned object that is yet to be created, and what  *)
(* fetches from more than the pinning objects is waited for or given up.   *)
BatchInv(batch) ==
    /\ batch.fetches \subseteq batch.lists
    /\ \A o \in batch.lists : status[o] \in {"live", "freed", "unwaited"}
    /\ \A m \in {"sip", "heaps"} :
         Member(m) \in batch.lists => m \in members \/ context = "CLOSED"
    /\ \A k \in Kernels : IsaOf(k) \in batch.lists => object[k] # "NEW"
    /\ \/ batch.abandoned
       \/ batch.fetches \subseteq {Member("pins")}
       \/ /\ pc = "wait" /\ Member("streams") \in batch.lists
          /\ \A o \in batch.fetches : status[o] = "live"

QueueInv ==
    /\ queue = <<>> \/ context = "OPEN" \/ Outlived
    /\ \A i \in 1..Len(queue) : BatchInv(queue[i])

Batches ==
    [lists : SUBSET Objects, fetches : SUBSET Objects, abandoned : BOOLEAN]

Types ==
    /\ context \in {"NONE", "LOST", "OPEN", "CLOSED"}
    /\ deviceContext \in BOOLEAN /\ persistent \in BOOLEAN
    /\ drmContexts \in Nat
    /\ object \in [Buffers \cup Kernels -> {"NEW", "LIVE", "LOST", "RELEASED"}]
    /\ execData \in [Kernels -> SUBSET Buffers]
    /\ members \subseteq ContextMembers
    /\ scratchTotal \in Nat
    /\ status \in [Objects -> {"none", "live", "freed", "closed", "unwaited"}]
    /\ twice \subseteq refused /\ refused \subseteq Objects
    /\ queue \in Seq(Batches)
    /\ doomed \in Seq(Objects) /\ return \in {"program", "newScratch"}
    /\ pc \in {"program", "destroying", "scratch", "newScratch", "construct",
               "submit", "wait"}
    /\ pc = "destroying" <=> doomed # <<>>
    /\ failures \in 0..MaxFailures

LifeInv ==
    /\ Types /\ ContextInv /\ LaunchInv /\ HeldInv /\ DoomedInv /\ OwnedInv
    /\ QueueInv

-----------------------------------------------------------------------------
(* Objects *)

(* The objects of the context, the buffers and the kernels are different   *)
(* objects.                                                                *)
LEMMA ObjectsDiffer ==
    /\ \A m, n : Member(m) = Member(n) => m = n
    /\ \A b, c : DataOf(b) = DataOf(c) => b = c
    /\ \A k, l : IsaOf(k) = IsaOf(l) => k = l
    /\ \A k, l : \A o \in KernelMembers(k) : o \in KernelMembers(l) => k = l
    /\ \A m, b : Member(m) # DataOf(b)
    /\ \A m, k : Member(m) \notin KernelMembers(k)
    /\ \A b, k : DataOf(b) \notin KernelMembers(k)
    /\ \A k : IsaOf(k) \in KernelMembers(k)
  BY DEF Member, DataOf, IsaOf, ConstantsOf, KernelMembers

LEMMA ObjectsAre ==
    /\ \A m \in ContextMembers : Member(m) \in Objects
    /\ \A b \in Buffers : DataOf(b) \in Objects
    /\ \A k \in Kernels : KernelMembers(k) \subseteq Objects
    /\ \A k \in Kernels : IsaOf(k) \in Objects
    /\ \A o \in Objects :
         \/ \E m \in ContextMembers : o = Member(m)
         \/ \E b \in Buffers : o = DataOf(b)
         \/ \E k \in Kernels : o \in KernelMembers(k)
<1>1. \A k \in Kernels : KernelMembers(k) \in {KernelMembers(l) : l \in Kernels}
  OBVIOUS
<1>2. \A k \in Kernels : KernelMembers(k) \subseteq Objects
  BY <1>1 DEF Objects
<1> QED BY <1>2, ObjectsDiffer DEF Objects, Member

LEMMA SoftpinnedAre ==
    \A o : Softpinned(o) =>
        \/ o = Member("sip") \/ o = Member("heaps")
        \/ \E k \in Kernels : o = IsaOf(k)
  BY DEF Softpinned

-----------------------------------------------------------------------------
(* Lists of objects *)

(* A list of the buffer objects of some members of the context. *)
Lists(s, M) ==
    /\ s \in Seq(Objects) /\ Distinct(s)
    /\ \A i \in 1..Len(s) : \E m \in M : s[i] = Member(m)
    /\ \A m \in M : \E i \in 1..Len(s) : s[i] = Member(m)

LEMMA OneOwned ==
    ASSUME NEW m \in ContextMembers, members \subseteq ContextMembers
    PROVE  Lists(Owned(m), members \cap {m})
<1>1. CASE m \in members
  <2>1. Owned(m) = <<Member(m)>> /\ Member(m) \in Objects
    BY <1>1, ObjectsAre DEF Owned
  <2> HIDE DEF Member
  <2> QED BY <1>1, <2>1 DEF Distinct, Lists
<1>2. CASE m \notin members
  <2>1. Owned(m) = <<>>
    BY <1>2 DEF Owned
  <2> QED BY <1>2, <2>1 DEF Distinct, Lists
<1> QED BY <1>1, <1>2

LEMMA ListsConcat ==
    ASSUME NEW s, NEW t, NEW M, NEW N, Lists(s, M), Lists(t, N), M \cap N = {}
    PROVE  Lists(s \o t, M \cup N)
<1> DEFINE u == s \o t
<1>1. /\ s \in Seq(Objects) /\ t \in Seq(Objects)
      /\ Len(s) \in Nat /\ Len(t) \in Nat
  BY DEF Lists
<1>2. /\ u \in Seq(Objects) /\ Len(u) = Len(s) + Len(t)
      /\ \A i \in 1..Len(u) :
           IF i <= Len(s) THEN u[i] = s[i]
           ELSE i - Len(s) \in 1..Len(t) /\ u[i] = t[i - Len(s)]
  BY <1>1, ConcatProperties
<1>3. \A i \in 1..Len(s) : i \in 1..Len(u) /\ u[i] = s[i]
  BY <1>1, <1>2
<1>4. \A i \in 1..Len(t) : i + Len(s) \in 1..Len(u) /\ u[i + Len(s)] = t[i]
  BY <1>1, <1>2
<1> HIDE DEF u
<1>5. ASSUME NEW i \in 1..Len(u)
      PROVE  /\ i <= Len(s) => \E m \in M : u[i] = Member(m)
             /\ ~(i <= Len(s)) => \E n \in N : u[i] = Member(n)
  <2>1. CASE i <= Len(s)
    <3>1. i \in 1..Len(s) /\ u[i] = s[i]
      BY <1>1, <1>2, <2>1
    <3> QED BY <2>1, <3>1 DEF Lists
  <2>2. CASE ~(i <= Len(s))
    <3>1. i - Len(s) \in 1..Len(t) /\ u[i] = t[i - Len(s)]
      BY <1>1, <1>2, <2>2
    <3> QED BY <2>2, <3>1 DEF Lists
  <2> QED BY <2>1, <2>2
<1>6. ASSUME NEW i \in 1..Len(u), NEW j \in 1..Len(u), u[i] = u[j]
      PROVE  i = j
  <2>1. i <= Len(s) <=> j <= Len(s)
    <3>1. \A m \in M, n \in N : Member(m) # Member(n)
      BY ObjectsDiffer
    <3> QED BY <1>5, <1>6, <3>1
  <2>2. CASE i <= Len(s)
    <3>1. i \in 1..Len(s) /\ j \in 1..Len(s) /\ s[i] = s[j]
      BY <1>1, <1>2, <1>6, <2>1, <2>2
    <3> QED BY <3>1 DEF Lists, Distinct
  <2>3. CASE ~(i <= Len(s))
    <3>1. /\ i - Len(s) \in 1..Len(t) /\ j - Len(s) \in 1..Len(t)
          /\ t[i - Len(s)] = t[j - Len(s)]
      BY <1>1, <1>2, <1>6, <2>1, <2>3
    <3>2. i - Len(s) = j - Len(s)
      BY <3>1 DEF Lists, Distinct
    <3> QED BY <1>1, <1>2, <3>2
  <2> QED BY <2>2, <2>3
<1>7. \A i \in 1..Len(u) : \E m \in M \cup N : u[i] = Member(m)
  BY <1>5
<1>8. \A m \in M \cup N : \E i \in 1..Len(u) : u[i] = Member(m)
  BY <1>3, <1>4, ZenonT(30) DEF Lists
<1>9. Distinct(u)
  BY <1>6 DEF Distinct
<1>10. Lists(u, M \cup N)
  BY <1>2, <1>7, <1>8, <1>9 DEF Lists
<1> QED BY <1>10 DEF u

(* The destructor of the context destroys each of its members once. *)
LEMMA DestructionOrderLists ==
    ASSUME members \subseteq ContextMembers
    PROVE  Lists(DestructionOrder, members)
<1> DEFINE M(m) == members \cap {m}
<1>1. \A m \in ContextMembers : Lists(Owned(m), M(m))
  BY OneOwned
<1>2. \A m, n : m # n => M(m) \cap M(n) = {}
  OBVIOUS
<1>3. Lists(Owned("streams") \o Owned("sip"), M("streams") \cup M("sip"))
  BY <1>1, ListsConcat DEF ContextMembers
<1>4. Lists(Owned("streams") \o Owned("sip") \o Owned("heaps"),
            M("streams") \cup M("sip") \cup M("heaps"))
  BY <1>1, <1>3, ListsConcat DEF ContextMembers
<1>5. Lists(Owned("streams") \o Owned("sip") \o Owned("heaps") \o Owned("scratch"),
            M("streams") \cup M("sip") \cup M("heaps") \cup M("scratch"))
  BY <1>1, <1>4, ListsConcat DEF ContextMembers
<1>6. Lists(Owned("streams") \o Owned("sip") \o Owned("heaps") \o Owned("scratch")
                \o Owned("pins"),
            M("streams") \cup M("sip") \cup M("heaps") \cup M("scratch") \cup M("pins"))
  BY <1>1, <1>5, ListsConcat DEF ContextMembers
<1>7. Lists(Owned("streams") \o Owned("sip") \o Owned("heaps") \o Owned("scratch")
                \o Owned("pins") \o Owned("tag"),
            M("streams") \cup M("sip") \cup M("heaps") \cup M("scratch") \cup M("pins")
                \cup M("tag"))
  BY <1>1, <1>6, ListsConcat DEF ContextMembers
<1>8. Lists(DestructionOrder,
            M("streams") \cup M("sip") \cup M("heaps") \cup M("scratch") \cup M("pins")
                \cup M("tag") \cup M("preemption"))
  BY <1>1, <1>7, ListsConcat DEF ContextMembers, DestructionOrder
<1>9. members = M("streams") \cup M("sip") \cup M("heaps") \cup M("scratch")
          \cup M("pins") \cup M("tag") \cup M("preemption")
  BY DEF ContextMembers
<1> QED BY <1>8, <1>9

LEMMA DoomedWithKernelLists ==
    ASSUME NEW k \in Kernels
    PROVE  /\ DoomedWithKernel(k) \in Seq(Objects)
           /\ Distinct(DoomedWithKernel(k))
           /\ \A i \in 1..Len(DoomedWithKernel(k)) :
                DoomedWithKernel(k)[i] \in KernelMembers(k)
           /\ \A o \in KernelMembers(k) :
                \E i \in 1..Len(DoomedWithKernel(k)) : DoomedWithKernel(k)[i] = o
<1>1. CASE k \in WithConstants
  <2>1. /\ DoomedWithKernel(k) = <<IsaOf(k), ConstantsOf(k)>>
        /\ KernelMembers(k) = {IsaOf(k), ConstantsOf(k)}
        /\ IsaOf(k) # ConstantsOf(k)
    BY <1>1 DEF DoomedWithKernel, KernelMembers, IsaOf, ConstantsOf
  <2>2. IsaOf(k) \in Objects /\ ConstantsOf(k) \in Objects
    BY <2>1, ObjectsAre
  <2> QED BY <2>1, <2>2 DEF Distinct
<1>2. CASE k \notin WithConstants
  <2>1. DoomedWithKernel(k) = <<IsaOf(k)>> /\ KernelMembers(k) = {IsaOf(k)}
    BY <1>2 DEF DoomedWithKernel, KernelMembers
  <2>2. IsaOf(k) \in Objects
    BY <2>1, ObjectsAre
  <2> QED BY <2>1, <2>2 DEF Distinct
<1> QED BY <1>1, <1>2

-----------------------------------------------------------------------------
(* The initial state and the parts of the invariant, step by step *)

LEMMA InitLifeInv == Init => LifeInv
<1> SUFFICES ASSUME Init PROVE LifeInv
  OBVIOUS
<1>1. queue = <<>> /\ doomed = <<>> /\ Len(queue) = 0 /\ Len(doomed) = 0
  BY DEF Init
<1>2. Types
  <2>1. queue \in Seq(Batches) /\ doomed \in Seq(Objects)
    BY <1>1
  <2>2. /\ object \in [Buffers \cup Kernels -> {"NEW", "LIVE", "LOST", "RELEASED"}]
        /\ status \in [Objects -> {"none", "live", "freed", "closed", "unwaited"}]
    BY DEF Init
  <2>3. failures \in 0..MaxFailures
    BY LifetimesAssumption DEF Init
  <2> QED BY <2>1, <2>2, <2>3 DEF Init, Types
<1>3. ContextInv
  BY DEF Init, ContextInv
<1>5. LaunchInv
  BY DEF Init, LaunchInv, InLaunch
<1>6. DoomedInv /\ QueueInv
  BY <1>1 DEF DoomedInv, Distinct, QueueInv
<1>4. HeldInv /\ OwnedInv
  BY ObjectsAre DEF Init, HeldInv, OwnedInv, Allotted
<1> QED BY <1>2, <1>3, <1>4, <1>5, <1>6 DEF LifeInv

LEMMA ContextStep ==
    ASSUME LifeInv, Next
    PROVE  ContextInv'
<1> USE DEF LifeInv, Types, ContextInv
<1>1. CASE ContextCreated
  BY <1>1 DEF ContextCreated, MarkDevice
<1>2. CASE ContextCreationFails
  BY <1>2 DEF ContextCreationFails, MarkDevice
<1>3. CASE ReleaseContext
  BY <1>3 DEF ReleaseContext
<1>4. ASSUME NEW b \in Buffers, CreateBuffer(b) \/ CreateBufferFails(b) \/ ReleaseBuffer(b)
      PROVE  ContextInv'
  <2>1. \A k \in Kernels : object'[k] = object[k]
    BY <1>4, LifetimesAssumption DEF CreateBuffer, CreateBufferFails, ReleaseBuffer
  <2> QED
    BY <1>4, <2>1 DEF CreateBuffer, CreateBufferFails, ReleaseBuffer, memory
<1>5. ASSUME NEW k \in Kernels, BuildKernel(k) \/ BuildKernelFails(k) \/ ReleaseKernel(k)
      PROVE  ContextInv'
  BY <1>5 DEF BuildKernel, BuildKernelFails, ReleaseKernel, memory
<1>6. CASE FreeMemory \/ DeleteHandle \/ DeleteHandleUnwaited
  BY <1>6 DEF FreeMemory, DeleteHandle, DeleteHandleUnwaited, api
<1>7. ASSUME NEW k \in Kernels, NEW args \in SUBSET Buffers, NEW kept \in SUBSET Buffers,
             ExecuteKernel(k, args, kept)
      PROVE  ContextInv'
  BY <1>7 DEF ExecuteKernel, api, memory
<1>8. CASE ResetScratch \/ CreateScratchAllocation \/ ScratchAllocationFails
  BY <1>8 DEF ResetScratch, CreateScratchAllocation, ScratchAllocationFails, api, memory,
              LaunchInv, InLaunch
<1>9. CASE ConstructBufferObjects \/ ConstructBufferObjectsFails
  BY <1>9 DEF ConstructBufferObjects, ConstructBufferObjectsFails, api, LaunchInv, InLaunch
<1>10. CASE SubmitExecBuffer \/ SubmitRefused \/ SubmitFails \/ FinishExecution \/ WaitFails
  BY <1>10 DEF SubmitExecBuffer, SubmitRefused, SubmitFails, FinishExecution,
               WaitFails, api, memory, LaunchInv, InLaunch
<1>11. CASE GpuRetires
  BY <1>11 DEF GpuRetires, api, memory
<1> QED
  BY <1>1, <1>2, <1>3, <1>4, <1>5, <1>6, <1>7, <1>8, <1>9, <1>10, <1>11 DEF Next

LEMMA LaunchStep ==
    ASSUME LifeInv, Next
    PROVE  LaunchInv'
<1> USE DEF LifeInv, Types, LaunchInv, InLaunch
<1>1. CASE ContextCreated \/ ContextCreationFails
  BY <1>1 DEF ContextCreated, ContextCreationFails, thread, CanFail
<1>2. CASE ReleaseContext
  BY <1>2 DEF ReleaseContext, Destroy
<1>3. ASSUME NEW b \in Buffers, CreateBuffer(b) \/ CreateBufferFails(b) \/ ReleaseBuffer(b)
      PROVE  LaunchInv'
  BY <1>3 DEF CreateBuffer, CreateBufferFails, ReleaseBuffer, thread, Destroy
<1>4. ASSUME NEW k \in Kernels, BuildKernel(k) \/ BuildKernelFails(k) \/ ReleaseKernel(k)
      PROVE  LaunchInv'
  BY <1>4 DEF BuildKernel, BuildKernelFails, ReleaseKernel, thread, Destroy
<1>5. CASE FreeMemory \/ DeleteHandle \/ DeleteHandleUnwaited
  BY <1>5 DEF FreeMemory, DeleteHandle, DeleteHandleUnwaited, api, thread, Destroy
<1>6. ASSUME NEW k \in Kernels, NEW args \in SUBSET Buffers, NEW kept \in SUBSET Buffers,
             ExecuteKernel(k, args, kept)
      PROVE  LaunchInv'
  BY <1>6 DEF ExecuteKernel, api, memory
<1>7. CASE ResetScratch
  BY <1>7 DEF ResetScratch, api, Destroy
<1>8. CASE CreateScratchAllocation \/ ScratchAllocationFails
  BY <1>8 DEF CreateScratchAllocation, ScratchAllocationFails, api, memory, Return
<1>9. CASE ConstructBufferObjects \/ ConstructBufferObjectsFails
  BY <1>9 DEF ConstructBufferObjects, ConstructBufferObjectsFails, api, Return
<1>10. CASE SubmitExecBuffer \/ SubmitRefused \/ SubmitFails \/ FinishExecution \/ WaitFails
  BY <1>10 DEF SubmitExecBuffer, SubmitRefused, SubmitFails, FinishExecution,
               WaitFails, api, memory, Return
<1>11. CASE GpuRetires
  BY <1>11 DEF GpuRetires, api, memory, thread
<1> QED
  BY <1>1, <1>2, <1>3, <1>4, <1>5, <1>6, <1>7, <1>8, <1>9, <1>10, <1>11 DEF Next

LEMMA Destroying ==
    ASSUME LifeInv, pc = "destroying"
    PROVE  /\ Head(doomed) \in Objects /\ Head(doomed) = doomed[1]
           /\ Unheld(Head(doomed)) /\ Allotted(Head(doomed))
           /\ Tail(doomed) \in Seq(Objects) /\ Distinct(Tail(doomed))
           /\ \A i \in 1..Len(Tail(doomed)) :
                /\ Tail(doomed)[i] \in Objects
                /\ Tail(doomed)[i] # Head(doomed)
                /\ status[Tail(doomed)[i]] = "live"
                /\ Unheld(Tail(doomed)[i])
           /\ \A o : Dying(o) => o = Head(doomed)
                               \/ \E i \in 1..Len(Tail(doomed)) : Tail(doomed)[i] = o
<1> DEFINE t == Tail(doomed)
<1>1. /\ doomed \in Seq(Objects) /\ doomed # <<>>
      /\ Distinct(doomed)
      /\ \A i \in 1..Len(doomed) :
           /\ status[doomed[i]] = "live" \/ (i = 1 /\ status[doomed[i]] = "freed")
           /\ Unheld(doomed[i])
  BY DEF LifeInv, Types, DoomedInv
<1>2. /\ Len(doomed) \in Nat /\ Len(doomed) >= 1
      /\ Head(doomed) = doomed[1] /\ t \in Seq(Objects)
      /\ Len(t) = Len(doomed) - 1
      /\ \A i \in 1..Len(t) : t[i] = doomed[i + 1]
  BY <1>1, EmptySeq
<1> HIDE DEF t
<1>3. \A i \in 1..Len(t) : i + 1 \in 2..Len(doomed) /\ i + 1 \in 1..Len(doomed)
  BY <1>2
<1>4. Head(doomed) \in Objects /\ 1 \in 1..Len(doomed)
  BY <1>1, <1>2
<1>5. Unheld(Head(doomed)) /\ Allotted(Head(doomed))
  BY <1>1, <1>2, <1>4 DEF Allotted
<1>6. Distinct(t)
  <2> SUFFICES ASSUME NEW i \in 1..Len(t), NEW j \in 1..Len(t), t[i] = t[j]
               PROVE  i = j
    BY DEF Distinct
  <2>1. i + 1 = j + 1
    BY <1>1, <1>2, <1>3 DEF Distinct
  <2> QED BY <1>2, <2>1
<1>7. ASSUME NEW i \in 1..Len(t)
      PROVE  /\ t[i] \in Objects /\ t[i] # Head(doomed)
             /\ status[t[i]] = "live" /\ Unheld(t[i])
  <2>1. t[i] = doomed[i + 1] /\ i + 1 \in 1..Len(doomed)
    BY <1>2, <1>3
  <2>3. i + 1 # 1
    BY <1>2
  <2>2. t[i] # Head(doomed)
    BY <1>1, <1>2, <1>4, <2>1, <2>3 DEF Distinct
  <2> QED BY <1>1, <2>1, <2>2, <2>3
<1>8. ASSUME NEW o, Dying(o), o # Head(doomed)
      PROVE  \E i \in 1..Len(t) : t[i] = o
  <2>1. PICK i \in 1..Len(doomed) : doomed[i] = o
    BY <1>8 DEF Dying
  <2>2. i # 1
    BY <1>2, <1>8, <2>1
  <2>3. i - 1 \in 1..Len(t) /\ (i - 1) + 1 = i
    BY <1>2, <2>2
  <2> QED BY <1>2, <2>1, <2>3
<1> QED BY <1>2, <1>4, <1>5, <1>6, <1>7, <1>8 DEF t

(* What is to be destroyed is not held. *)
LEMMA UnheldNotHeld ==
    ASSUME Types, NEW o, Unheld(o)
    PROVE  /\ \A m \in members : Member(m) # o
           /\ \A b \in Buffers : object[b] = "LIVE" => DataOf(b) # o
           /\ \A k \in Kernels : object[k] = "LIVE" => o \notin KernelMembers(k)
  BY ObjectsDiffer DEF Unheld, Types

LEMMA NullNotSoftpinned == ~Softpinned(Null)
  BY NullAssumption, ObjectsAre, SoftpinnedAre DEF ContextMembers

(* What an allocation does to the objects. *)
LEMMA AllocatedSets ==
    ASSUME NEW S, Allocated(S)
    PROVE  /\ \A o \in Objects : o \in S => status'[o] = "live"
           /\ \A o \in Objects : o \notin S => status'[o] = status[o]
           /\ \A o \in Objects : status[o] = "live" => status'[o] = "live"
           /\ Types => status' \in
                [Objects -> {"none", "live", "freed", "closed", "unwaited"}]
  BY DEF Allocated, Types

LEMMA AllocatedUpToSets ==
    ASSUME NEW S, NEW f, AllocatedUpTo(S, f)
    PROVE  /\ \A o \in Objects : o \in S /\ o # f => status'[o] = "live"
           /\ \A o \in Objects : o \notin S /\ o # f => status'[o] = status[o]
           /\ \A o \in Objects : status[o] = "live" /\ o # f => status'[o] = "live"
           /\ f \in Objects /\ f \notin S =>
                status'[f] = status[f] \/ (Softpinned(f) /\ status'[f] = "closed")
           /\ Types => status' \in
                [Objects -> {"none", "live", "freed", "closed", "unwaited"}]
  BY DEF AllocatedUpTo, Allocated, Types

(* What a creation of the context leaves behind. *)
LEMMA ContextCreation ==
    ASSUME LifeInv, ContextCreated \/ ContextCreationFails
    PROVE  /\ members' \subseteq ContextMembers /\ members = {}
           /\ UNCHANGED <<object, execData, scratchTotal, twice, refused, queue, thread>>
           /\ context = "NONE" /\ context' \in {"LOST", "OPEN"}
           /\ drmContexts = 0 /\ drmContexts' \in {0, 1}
           /\ persistent' \in BOOLEAN /\ queue = <<>>
           /\ \/ UNCHANGED <<members, status>>
              \/ Allocated({Member(m) : m \in members'})
<1> USE DEF LifeInv, Types, ContextInv
<1>1. CASE ContextCreated
  BY <1>1 DEF ContextCreated, ContextMembers
<1>2. CASE ContextCreationFails
  <2>1. ASSUME NEW n \in 0..2
        PROVE  {<<"preemption", "tag", "pins">>[i] : i \in 1..n} \subseteq ContextMembers
    <3>1. \A i \in 1..n : i = 1 \/ i = 2
      BY <2>1
    <3>2. \A i \in 1..n : <<"preemption", "tag", "pins">>[i] \in ContextMembers
      BY <3>1 DEF ContextMembers
    <3> QED BY <3>2
  <2>2. members' \subseteq ContextMembers
    <3>1. \/ members' = members
          \/ \E n \in 0..2 : members' = {<<"preemption", "tag", "pins">>[i] : i \in 1..n}
      BY <1>2 DEF ContextCreationFails
    <3> QED BY <2>1, <3>1
  <2> QED BY <1>2, <2>2 DEF ContextCreationFails
<1> QED BY <1>1, <1>2

(* What a failing build leaves behind. *)
LEMMA BuildKernelFailing ==
    ASSUME LifeInv, NEW k \in Kernels, BuildKernelFails(k)
    PROVE  /\ pc = "program" /\ context = "OPEN" /\ object[k] = "NEW"
           /\ object' = [object EXCEPT ![k] = "LOST"]
           /\ UNCHANGED <<context, deviceContext, drmContexts, persistent, execData, scratchTotal,
                          queue, thread>>
           /\ members' \subseteq members \cup {"sip"} /\ members \subseteq members'
           /\ "sip" \in members' \ members => status'[Member("sip")] = "live"
           /\ \A o \in Objects :
                /\ status[o] = "live" /\ o # IsaOf(k)
                /\ o # Member("sip") \/ "sip" \in members
                => status'[o] = "live"
           /\ \A o \in Objects :
                \/ status'[o] = status[o]
                \/ status'[o] = "live" /\ o \in KernelMembers(k)
                \/ status'[o] = "live" /\ o = Member("sip") /\ "sip" \in members'
                \/ status'[o] = "closed" /\ o = IsaOf(k)
                \/ /\ status'[o] = "closed" /\ o = Member("sip")
                   /\ "sip" \notin members
           /\ status' \in [Objects -> {"none", "live", "freed", "closed", "unwaited"}]
           /\ twice' \subseteq refused' /\ refused' \subseteq Objects
           /\ failures' \in 0..MaxFailures
<1>1. /\ Types /\ IsaOf(k) \in Objects /\ Member("sip") \in Objects
      /\ KernelMembers(k) \subseteq Objects /\ IsaOf(k) \in KernelMembers(k)
      /\ Member("sip") \notin KernelMembers(k)
  BY ObjectsAre, ObjectsDiffer DEF LifeInv, ContextMembers
<1> DEFINE
      Live == \A o \in Objects :
                  /\ status[o] = "live" /\ o # IsaOf(k)
                  /\ o # Member("sip") \/ "sip" \in members
                  => status'[o] = "live"
      Changed == \A o \in Objects :
                     \/ status'[o] = status[o]
                     \/ status'[o] = "live" /\ o \in KernelMembers(k)
                     \/ status'[o] = "live" /\ o = Member("sip") /\ "sip" \in members'
                     \/ status'[o] = "closed" /\ o = IsaOf(k)
                     \/ /\ status'[o] = "closed" /\ o = Member("sip")
                        /\ "sip" \notin members
      Sip == /\ members' \subseteq members \cup {"sip"} /\ members \subseteq members'
             /\ "sip" \in members' \ members => status'[Member("sip")] = "live"
      Typed == /\ status' \in [Objects -> {"none", "live", "freed", "closed", "unwaited"}]
               /\ twice' \subseteq refused' /\ refused' \subseteq Objects
<1>2. failures' \in 0..MaxFailures
  BY <1>1, LifetimesAssumption DEF BuildKernelFails, CanFail, Types
<1>3. ASSUME AllocatedUpTo({}, Null), UNCHANGED members
      PROVE  Live /\ Changed /\ Sip /\ Typed
  <2>1. Allocated({}) /\ UNCHANGED <<twice, refused>>
    BY <1>3, NullNotSoftpinned DEF AllocatedUpTo
  <2>2. /\ \A o \in Objects : status'[o] = status[o]
        /\ status' \in [Objects -> {"none", "live", "freed", "closed", "unwaited"}]
    BY <1>1, <2>1, AllocatedSets
  <2>3. Live /\ Changed
    BY <2>2
  <2>4. Sip
    BY <1>3
  <2>5. Typed
    BY <1>1, <2>1, <2>2 DEF Types
  <2> QED BY <2>3, <2>4, <2>5
<1>4. ASSUME AllocatedUpTo(KernelMembers(k) \ {IsaOf(k)}, IsaOf(k)), UNCHANGED members
      PROVE  Live /\ Changed /\ Sip /\ Typed
  <2>1. twice' \subseteq refused' /\ refused' \subseteq Objects
    BY <1>1, <1>4 DEF AllocatedUpTo, Types
  <2>2. Typed
    BY <1>1, <1>4, <2>1, AllocatedUpToSets
  <2>3. \A o \in Objects : status[o] = "live" /\ o # IsaOf(k) => status'[o] = "live"
    BY <1>4, AllocatedUpToSets
  <2>4. Changed
    BY <1>1, <1>4, AllocatedUpToSets
  <2> QED BY <1>4, <2>2, <2>3, <2>4
<1>5. ASSUME AllocatedUpTo(KernelMembers(k), Member("sip")), UNCHANGED members,
             "sip" \notin members
      PROVE  Live /\ Changed /\ Sip /\ Typed
  <2>1. twice' \subseteq refused' /\ refused' \subseteq Objects
    BY <1>1, <1>5 DEF AllocatedUpTo, Types
  <2>2. Typed
    BY <1>1, <1>5, <2>1, AllocatedUpToSets
  <2>3. \A o \in Objects : status[o] = "live" /\ o # Member("sip") => status'[o] = "live"
    BY <1>5, AllocatedUpToSets
  <2>4. Changed
    BY <1>1, <1>5, AllocatedUpToSets
  <2> QED BY <1>5, <2>2, <2>3, <2>4
<1>6. ASSUME AllocatedUpTo(KernelMembers(k) \cup {Member("sip")}, Null),
             members' = members \cup {"sip"}
      PROVE  Live /\ Changed /\ Sip /\ Typed
  <2>1. /\ Allocated(KernelMembers(k) \cup {Member("sip")})
        /\ UNCHANGED <<twice, refused>>
    BY <1>6, NullNotSoftpinned DEF AllocatedUpTo
  <2>2. Typed
    BY <1>1, <2>1, AllocatedSets DEF Types
  <2>3. \A o \in Objects : status[o] = "live" => status'[o] = "live"
    BY <2>1, AllocatedSets
  <2>4. Changed
    BY <1>1, <1>6, <2>1, AllocatedSets
  <2>5. Sip
    BY <1>1, <1>6, <2>1, AllocatedSets
  <2> QED BY <2>2, <2>3, <2>4, <2>5
<1>7. Live /\ Changed /\ Sip /\ Typed
  BY <1>3, <1>4, <1>5, <1>6 DEF BuildKernelFails
<1>8. /\ pc = "program" /\ context = "OPEN" /\ object[k] = "NEW"
      /\ object' = [object EXCEPT ![k] = "LOST"]
      /\ UNCHANGED <<context, deviceContext, drmContexts, persistent, execData, scratchTotal,
                     queue, thread>>
  BY DEF BuildKernelFails
<1> QED BY <1>2, <1>7, <1>8

(* What a failing construction of heaps and streams leaves behind. *)
LEMMA ConstructFailing ==
    ASSUME LifeInv, ConstructBufferObjectsFails
    PROVE  /\ pc = "construct" /\ context = "OPEN" /\ Return
           /\ UNCHANGED <<api, scratchTotal, queue, doomed, return>>
           /\ members' \subseteq members \cup {"heaps"} /\ members \subseteq members'
           /\ \A o \in Objects :
                \/ status'[o] = status[o]
                \/ status'[o] = "live" /\ o = Member("heaps") /\ "heaps" \in members'
                \/ status'[o] = "closed" /\ o = Member("heaps") /\ "heaps" \notin members
           /\ status' \in [Objects -> {"none", "live", "freed", "closed", "unwaited"}]
           /\ twice' \subseteq refused' /\ refused' \subseteq Objects
           /\ failures' \in 0..MaxFailures
<1>1. /\ Types /\ Member("heaps") \in Objects /\ Member("streams") \in Objects
      /\ ~Softpinned(Member("streams"))
  <2>1. ~Softpinned(Member("streams"))
    BY SoftpinnedAre, ObjectsDiffer
  <2> QED BY <2>1, ObjectsAre DEF LifeInv, ContextMembers
<1>2. /\ pc = "construct" /\ context = "OPEN" /\ Return
      /\ UNCHANGED <<api, scratchTotal, queue, doomed, return>>
      /\ failures' \in 0..MaxFailures
  BY <1>1, LifetimesAssumption
     DEF ConstructBufferObjectsFails, CanFail, Types, LifeInv, LaunchInv, InLaunch
<1>3. CASE AllocatedUpTo({}, Member("heaps")) /\ "heaps" \notin members /\ UNCHANGED members
  <2>1. twice' \subseteq refused' /\ refused' \subseteq Objects
    BY <1>1, <1>3 DEF AllocatedUpTo, Types
  <2> QED BY <1>1, <1>2, <1>3, <2>1, AllocatedUpToSets
<1>4. CASE /\ AllocatedUpTo({Member("heaps")}, Member("streams"))
           /\ members' = members \cup {"heaps"}
  <2>1. Allocated({Member("heaps")}) /\ UNCHANGED <<twice, refused>>
    BY <1>1, <1>4 DEF AllocatedUpTo
  <2> QED BY <1>1, <1>2, <1>4, <2>1, AllocatedSets DEF Types
<1> QED BY <1>3, <1>4 DEF ConstructBufferObjectsFails

LEMMA HeldStep ==
    ASSUME LifeInv, Next
    PROVE  HeldInv'
<1> USE DEF LifeInv, Types, HeldInv, ContextInv
<1>1. CASE ContextCreated \/ ContextCreationFails
  <2>1. UNCHANGED object /\ members' \subseteq ContextMembers
    BY <1>1, ContextCreation
  <2>2. \/ UNCHANGED <<members, status>>
        \/ Allocated({Member(m) : m \in members'})
    BY <1>1, ContextCreation
  <2>3. CASE UNCHANGED <<members, status>>
    BY <2>1, <2>3
  <2>4. CASE Allocated({Member(m) : m \in members'})
    <3>1. \A o \in Objects : status[o] = "live" => status'[o] = "live"
      BY <2>4, AllocatedSets
    <3>2. \A m \in members' : status'[Member(m)] = "live"
      BY <2>1, <2>4, AllocatedSets, ObjectsAre
    <3> QED BY <2>1, <3>1, <3>2, ObjectsAre
  <2> QED BY <2>2, <2>3, <2>4
<1>2. CASE ReleaseContext
  BY <1>2 DEF ReleaseContext
<1>3. ASSUME NEW b \in Buffers, CreateBuffer(b) \/ CreateBufferFails(b) \/ ReleaseBuffer(b)
      PROVE  HeldInv'
  <2>1. /\ UNCHANGED members
        /\ \A k \in Kernels : object'[k] = object[k]
        /\ \A c \in Buffers : object'[c] = "LIVE" =>
             object[c] = "LIVE" \/ (c = b /\ CreateBuffer(b))
    BY <1>3, LifetimesAssumption
       DEF CreateBuffer, CreateBufferFails, ReleaseBuffer, memory
  <2>2. /\ \A o \in Objects : status[o] = "live" => status'[o] = "live"
        /\ CreateBuffer(b) => status'[DataOf(b)] = "live"
    <3>1. CASE CreateBuffer(b)
      BY <3>1, AllocatedSets, ObjectsAre DEF CreateBuffer
    <3>2. CASE CreateBufferFails(b)
      BY <3>2, AllocatedSets DEF CreateBufferFails, CreateBuffer
    <3>3. CASE ReleaseBuffer(b)
      BY <3>3 DEF ReleaseBuffer, CreateBuffer, memory
    <3> QED BY <1>3, <3>1, <3>2, <3>3
  <2> QED BY <2>1, <2>2, ObjectsAre
<1>4. ASSUME NEW k \in Kernels, BuildKernel(k) \/ ReleaseKernel(k)
      PROVE  HeldInv'
  <2>1. /\ \A b \in Buffers : object'[b] = object[b]
        /\ \A l \in Kernels : object'[l] = "LIVE" =>
             object[l] = "LIVE" \/ (l = k /\ BuildKernel(k))
        /\ members' \subseteq members \cup {"sip"}
        /\ BuildKernel(k) \/ members' = members
    BY <1>4, LifetimesAssumption DEF BuildKernel, ReleaseKernel, memory
  <2>2. /\ \A o \in Objects : status[o] = "live" => status'[o] = "live"
        /\ BuildKernel(k) => /\ status'[Member("sip")] = "live"
                             /\ \A o \in KernelMembers(k) : status'[o] = "live"
    <3>1. CASE BuildKernel(k)
      <4>1. Allocated(KernelMembers(k) \cup {Member("sip")})
        BY <3>1 DEF BuildKernel
      <4> QED BY <4>1, AllocatedSets, ObjectsAre DEF ContextMembers
    <3>2. CASE ReleaseKernel(k)
      BY <3>2 DEF ReleaseKernel, BuildKernel, memory
    <3> QED BY <1>4, <3>1, <3>2
  <2> QED BY <2>1, <2>2, ObjectsAre
<1>5. ASSUME NEW k \in Kernels, BuildKernelFails(k)
      PROVE  HeldInv'
  <2>1. /\ \A b \in Buffers : object'[b] = object[b]
        /\ object[k] = "NEW"
        /\ \A l \in Kernels : object'[l] = "LIVE" => object[l] = "LIVE" /\ l # k
    BY <1>5, LifetimesAssumption DEF BuildKernelFails
  <2>2. /\ members' \subseteq members \cup {"sip"}
        /\ "sip" \in members' \ members => status'[Member("sip")] = "live"
        /\ \A o \in Objects :
             /\ status[o] = "live" /\ o # IsaOf(k)
             /\ o # Member("sip") \/ "sip" \in members
             => status'[o] = "live"
    BY <1>5, BuildKernelFailing
  <2> QED BY <2>1, <2>2, ObjectsAre, ObjectsDiffer
<1>6. CASE FreeMemory \/ DeleteHandle \/ DeleteHandleUnwaited
  <2>1. /\ UNCHANGED <<members, object>>
        /\ \A o \in Objects : o # Head(doomed) => status'[o] = status[o]
        /\ pc = "destroying"
    BY <1>6 DEF FreeMemory, DeleteHandle, DeleteHandleUnwaited, api
  <2>2. /\ \A m \in members : Member(m) # Head(doomed)
        /\ \A b \in Buffers : object[b] = "LIVE" => DataOf(b) # Head(doomed)
        /\ \A k \in Kernels : object[k] = "LIVE" => Head(doomed) \notin KernelMembers(k)
    BY <2>1, Destroying, UnheldNotHeld
  <2> QED BY <2>1, <2>2, ObjectsAre
<1>7. ASSUME NEW k \in Kernels, NEW args \in SUBSET Buffers, NEW kept \in SUBSET Buffers,
             ExecuteKernel(k, args, kept)
      PROVE  HeldInv'
  BY <1>7 DEF ExecuteKernel, api, memory
<1>8. CASE ResetScratch \/ ScratchAllocationFails
  BY <1>8 DEF ResetScratch, ScratchAllocationFails, api, memory
<1>9. CASE CreateScratchAllocation
  <2>1. /\ UNCHANGED object /\ members' = members \cup {"scratch"}
        /\ Allocated({Member("scratch")}) /\ "scratch" \in ContextMembers
    BY <1>9 DEF CreateScratchAllocation, api, ContextMembers
  <2> QED BY <2>1, AllocatedSets, ObjectsAre
<1>11. CASE ConstructBufferObjects
  <2>1. /\ UNCHANGED object /\ members' = members \cup {"heaps", "streams"}
        /\ Allocated({Member("heaps"), Member("streams")})
        /\ {"heaps", "streams"} \subseteq ContextMembers
    BY <1>11 DEF ConstructBufferObjects, api, ContextMembers
  <2> QED BY <2>1, AllocatedSets, ObjectsAre
<1>12. CASE ConstructBufferObjectsFails
  <2>1. /\ UNCHANGED object
        /\ members' \subseteq members \cup {"heaps"} /\ members \subseteq members'
        /\ \A o \in Objects :
             \/ status'[o] = status[o]
             \/ status'[o] = "live"
             \/ o = Member("heaps") /\ "heaps" \notin members
    BY <1>12, ConstructFailing DEF api
  <2>2. "heaps" \in members' => status'[Member("heaps")] = "live"
    BY <1>12, AllocatedUpToSets, AllocatedSets, ObjectsAre, ObjectsDiffer
       DEF ConstructBufferObjectsFails, ContextMembers
  <2>3. "heaps" \in ContextMembers
    BY DEF ContextMembers
  <2> QED BY <2>1, <2>2, <2>3, ObjectsAre, ObjectsDiffer
<1>10. CASE SubmitExecBuffer \/ SubmitRefused \/ SubmitFails \/ FinishExecution \/ WaitFails
             \/ GpuRetires
  BY <1>10 DEF SubmitExecBuffer, SubmitRefused, SubmitFails, FinishExecution,
               WaitFails, GpuRetires, api, memory
<1> QED
  BY <1>1, <1>2, <1>3, <1>4, <1>5, <1>6, <1>7, <1>8, <1>9, <1>10, <1>11, <1>12 DEF Next

LEMMA DoomedStep ==
    ASSUME LifeInv, Next
    PROVE  DoomedInv'
<1> USE DEF LifeInv, Types
<1>1. ASSUME doomed' = <<>>
      PROVE  DoomedInv'
  BY <1>1 DEF DoomedInv, Distinct
<1>2. CASE pc # "destroying" /\ doomed' = doomed
  BY <1>1, <1>2
<1>3. ASSUME NEW b \in Buffers, ReleaseBuffer(b)
      PROVE  DoomedInv'
  <2>1. /\ doomed' = <<DataOf(b)>> /\ status' = status
        /\ object[b] = "LIVE" /\ object'[b] = "RELEASED"
    BY <1>3 DEF ReleaseBuffer, Destroy, memory
  <2>2. Unheld(DataOf(b))'
    BY <2>1 DEF Unheld
  <2>3. PICK o : o = DataOf(b)
    OBVIOUS
  <2>4. doomed' = <<o>> /\ status'[o] = "live" /\ Unheld(o)'
    BY <2>1, <2>2, <2>3 DEF HeldInv
  <2>5. Len(doomed') = 1 /\ doomed'[1] = o /\ \A i \in 1..Len(doomed') : i = 1
    BY <2>4
  <2> QED BY <2>4, <2>5 DEF DoomedInv, Distinct
<1>4. ASSUME NEW k \in Kernels, ReleaseKernel(k)
      PROVE  DoomedInv'
  <2>1. /\ doomed' = DoomedWithKernel(k) /\ status' = status
        /\ object[k] = "LIVE" /\ object'[k] = "RELEASED"
    BY <1>4 DEF ReleaseKernel, Destroy, memory
  <2>2. \A o \in KernelMembers(k) : status'[o] = "live" /\ Unheld(o)'
    BY <2>1 DEF HeldInv, Unheld
  <2> QED BY <2>1, <2>2, DoomedWithKernelLists DEF DoomedInv
<1>5. CASE ReleaseContext
  <2>1. doomed' = DestructionOrder /\ status' = status /\ members' = {}
    BY <1>5 DEF ReleaseContext, Destroy
  <2>2. Lists(doomed', members)
    BY <2>1, DestructionOrderLists
  <2>3. \A m \in members : status'[Member(m)] = "live" /\ Unheld(Member(m))'
    BY <2>1 DEF HeldInv, Unheld
  <2> QED BY <2>2, <2>3 DEF DoomedInv, Lists
<1>6. CASE ResetScratch
  <2>1. CASE doomed' = doomed
    BY <1>2, <1>6, <2>1 DEF ResetScratch
  <2>2. CASE doomed' # doomed
    <3>1. /\ doomed' = Owned("scratch") /\ status' = status
          /\ members' = members \ {"scratch"} /\ "scratch" \in ContextMembers
      BY <1>6, <2>2 DEF ResetScratch, Destroy, ContextMembers
    <3>2. Lists(doomed', members \cap {"scratch"})
      BY <3>1, OneOwned
    <3>3. \A m \in members \cap {"scratch"} :
             status'[Member(m)] = "live" /\ Unheld(Member(m))'
      BY <3>1 DEF HeldInv, Unheld
    <3> QED BY <3>2, <3>3 DEF DoomedInv, Lists
  <2> QED BY <2>1, <2>2
<1>7. CASE FreeMemory
  <2>1. /\ doomed' = doomed /\ UNCHANGED <<members, object>>
        /\ status' = [status EXCEPT ![Head(doomed)] = "freed"]
        /\ pc = "destroying" /\ doomed \in Seq(Objects) /\ doomed # <<>>
    BY <1>7 DEF FreeMemory, api, thread
  <2>2. Head(doomed) \in Objects /\ Head(doomed) = doomed[1] /\ 1 \in 1..Len(doomed)
    BY <2>1, Destroying, EmptySeq
  <2>3. \A i \in 1..Len(doomed) : doomed[i] \in Objects /\ (i # 1 => doomed[i] # doomed[1])
    BY <2>1, <2>2 DEF DoomedInv, Distinct
  <2>4. \A i \in 1..Len(doomed) : Unheld(doomed[i])'
    BY <2>1 DEF DoomedInv, Unheld
  <2>5. \A i \in 1..Len(doomed) :
           status'[doomed[i]] = "live" \/ (i = 1 /\ status'[doomed[i]] = "freed")
    BY <2>1, <2>2, <2>3 DEF DoomedInv
  <2> QED BY <2>1, <2>4, <2>5 DEF DoomedInv
<1>8. CASE DeleteHandle \/ DeleteHandleUnwaited
  <2>1. /\ doomed' = Tail(doomed) /\ UNCHANGED <<members, object>>
        /\ \A o \in Objects : o # Head(doomed) => status'[o] = status[o]
        /\ pc = "destroying"
    BY <1>8 DEF DeleteHandle, DeleteHandleUnwaited, Destroy, api
  <2>2. \A i \in 1..Len(Tail(doomed)) :
           status'[Tail(doomed)[i]] = "live" /\ Unheld(Tail(doomed)[i])
    BY <2>1, Destroying
  <2>3. \A o : Unheld(o) => Unheld(o)'
    BY <2>1 DEF Unheld
  <2> QED BY <2>1, <2>2, <2>3, Destroying DEF DoomedInv
<1>9. CASE GpuRetires
  BY <1>9 DEF GpuRetires, DoomedInv, Unheld, api, memory, thread
<1>10. CASE \/ ContextCreated \/ ContextCreationFails
            \/ \E b \in Buffers : CreateBuffer(b) \/ CreateBufferFails(b)
            \/ \E k \in Kernels : BuildKernel(k) \/ BuildKernelFails(k)
  BY <1>2, <1>10 DEF ContextCreated, ContextCreationFails, CreateBuffer,
     CreateBufferFails, BuildKernel, BuildKernelFails, thread
<1>11. CASE \/ \E k \in Kernels, args, kept \in SUBSET Buffers : ExecuteKernel(k, args, kept)
            \/ CreateScratchAllocation \/ ScratchAllocationFails
            \/ ConstructBufferObjects \/ ConstructBufferObjectsFails
            \/ SubmitExecBuffer \/ SubmitRefused \/ SubmitFails \/ FinishExecution \/ WaitFails
  BY <1>2, <1>11 DEF ExecuteKernel, CreateScratchAllocation, ScratchAllocationFails,
     ConstructBufferObjects, ConstructBufferObjectsFails, SubmitExecBuffer,
     SubmitRefused, SubmitFails, FinishExecution, WaitFails
<1> QED
  BY <1>3, <1>4, <1>5, <1>6, <1>7, <1>8, <1>9, <1>10, <1>11 DEF Next

LEMMA OwnedStep ==
    ASSUME LifeInv, Next
    PROVE  OwnedInv'
<1> USE DEF LifeInv, Types, OwnedInv, Allotted
<1>1. pc # "destroying" => \A o : ~Dying(o)
  BY DEF Dying
<1>2. doomed' = doomed => \A o : Dying(o)' <=> Dying(o)
  BY DEF Dying
<1>3. CASE ContextCreated \/ ContextCreationFails
  <2>1. /\ UNCHANGED <<object, doomed>> /\ members = {} /\ members' \subseteq ContextMembers
        /\ \/ UNCHANGED <<members, status>>
           \/ Allocated({Member(m) : m \in members'})
    BY <1>3, ContextCreation DEF thread
  <2>2. CASE UNCHANGED <<members, status>>
    BY <1>2, <2>1, <2>2
  <2>3. CASE Allocated({Member(m) : m \in members'})
    <3>1. \A m \in ContextMembers : m \in members' \/ status'[Member(m)] = status[Member(m)]
      BY <2>3, AllocatedSets, ObjectsAre, ObjectsDiffer
    <3>2. \A b \in Buffers : status'[DataOf(b)] = status[DataOf(b)]
      BY <2>3, AllocatedSets, ObjectsAre, ObjectsDiffer
    <3>3. \A k \in Kernels : \A o \in KernelMembers(k) : status'[o] = status[o]
      BY <2>3, AllocatedSets, ObjectsAre, ObjectsDiffer
    <3> QED BY <1>2, <2>1, <3>1, <3>2, <3>3
  <2> QED BY <2>1, <2>2, <2>3
<1>4. CASE ReleaseContext
  <2>1. /\ UNCHANGED <<object, status>> /\ pc # "destroying"
        /\ Lists(doomed', members)
    BY <1>4, DestructionOrderLists DEF ReleaseContext, Destroy
  <2>2. \A m \in members : Dying(Member(m))'
    BY <2>1 DEF Lists, Dying
  <2> QED BY <1>1, <2>1, <2>2
<1>5. ASSUME NEW b \in Buffers, CreateBuffer(b) \/ CreateBufferFails(b)
      PROVE  OwnedInv'
  <2>1. /\ UNCHANGED <<members, doomed>>
        /\ \A k \in Kernels : object'[k] = object[k]
        /\ \A c \in Buffers : c # b => object'[c] = object[c]
        /\ object'[b] \in {"LIVE", "LOST"}
        /\ Allocated({}) \/ Allocated({DataOf(b)})
    BY <1>5, LifetimesAssumption DEF CreateBuffer, CreateBufferFails, thread
  <2>2. \A o \in Objects : o # DataOf(b) => status'[o] = status[o]
    BY <2>1, AllocatedSets
  <2> QED BY <1>2, <2>1, <2>2, ObjectsAre, ObjectsDiffer
<1>6. ASSUME NEW b \in Buffers, ReleaseBuffer(b)
      PROVE  OwnedInv'
  <2>1. /\ UNCHANGED <<members, status>> /\ pc # "destroying"
        /\ \A k \in Kernels : object'[k] = object[k]
        /\ \A c \in Buffers : c # b => object'[c] = object[c]
        /\ doomed' = <<DataOf(b)>>
    BY <1>6, LifetimesAssumption DEF ReleaseBuffer, Destroy, memory
  <2>2. Dying(DataOf(b))'
    <3> HIDE DEF DataOf
    <3>1. Len(doomed') = 1 /\ doomed'[1] = DataOf(b) /\ 1 \in 1..Len(doomed')
      BY <2>1
    <3> QED BY <3>1 DEF Dying
  <2> QED BY <1>1, <2>1, <2>2
<1>7. ASSUME NEW k \in Kernels, BuildKernel(k) \/ BuildKernelFails(k)
      PROVE  OwnedInv'
  <2>1. /\ UNCHANGED doomed /\ members \subseteq members'
        /\ \A b \in Buffers : object'[b] = object[b]
        /\ \A l \in Kernels : l # k => object'[l] = object[l]
        /\ object'[k] \in {"LIVE", "LOST"}
    BY <1>7, LifetimesAssumption, BuildKernelFailing DEF BuildKernel, thread
  <2>2. \A o \in Objects :
           \/ o \in KernelMembers(k)
           \/ o = Member("sip") /\ "sip" \in members'
           \/ status'[o] = status[o] \/ status'[o] = "closed"
    <3>1. CASE BuildKernel(k)
      BY <3>1, AllocatedSets DEF BuildKernel
    <3>2. CASE BuildKernelFails(k)
      BY <3>2, BuildKernelFailing
    <3> QED BY <1>7, <3>1, <3>2
  <2> QED BY <1>2, <2>1, <2>2, ObjectsAre, ObjectsDiffer
<1>8. ASSUME NEW k \in Kernels, ReleaseKernel(k)
      PROVE  OwnedInv'
  <2>1. /\ UNCHANGED <<members, status>> /\ pc # "destroying"
        /\ \A b \in Buffers : object'[b] = object[b]
        /\ \A l \in Kernels : l # k => object'[l] = object[l]
        /\ doomed' = DoomedWithKernel(k)
    BY <1>8, LifetimesAssumption DEF ReleaseKernel, Destroy, memory
  <2>2. \A o \in KernelMembers(k) : Dying(o)'
    BY <2>1, DoomedWithKernelLists DEF Dying
  <2> QED BY <1>1, <2>1, <2>2
<1>9. CASE FreeMemory
  <2>1. /\ UNCHANGED <<members, object, doomed>> /\ pc = "destroying"
        /\ \A o \in Objects : o # Head(doomed) => status'[o] = status[o]
    BY <1>9 DEF FreeMemory, api, thread
  <2>2. Allotted(Head(doomed))
    BY <2>1, Destroying
  <2> QED BY <1>2, <2>1, <2>2, ObjectsAre
<1>10. CASE DeleteHandle \/ DeleteHandleUnwaited
  <2>1. /\ UNCHANGED <<members, object>> /\ pc = "destroying"
        /\ doomed' = Tail(doomed)
        /\ \A o \in Objects : o # Head(doomed) => status'[o] = status[o]
        /\ Head(doomed) \in Objects => status'[Head(doomed)] \in {"closed", "unwaited"}
    BY <1>10 DEF DeleteHandle, DeleteHandleUnwaited, Destroy, api
  <2>2. ASSUME NEW o, Dying(o)
        PROVE  o = Head(doomed) \/ Dying(o)'
    <3>1. \/ o = Head(doomed)
          \/ \E i \in 1..Len(Tail(doomed)) : Tail(doomed)[i] = o
      BY <2>1, <2>2, Destroying
    <3> QED BY <2>1, <3>1 DEF Dying
  <2>3. Head(doomed) \in Objects
    BY <2>1, Destroying
  <2> QED BY <2>1, <2>2, <2>3, ObjectsAre
<1>11. CASE ResetScratch
  <2>1. UNCHANGED <<object, status>> /\ pc # "destroying" /\ "scratch" \in ContextMembers
    BY <1>11 DEF ResetScratch, api, ContextMembers
  <2>2. \/ UNCHANGED <<members, doomed>>
        \/ members' = members \ {"scratch"} /\ doomed' = Owned("scratch")
    BY <1>11 DEF ResetScratch, Destroy
  <2>3. ASSUME members' # members
        PROVE  Dying(Member("scratch"))'
    <3>1. "scratch" \in members /\ doomed' = Owned("scratch")
      BY <2>2, <2>3
    <3>2. Lists(doomed', members \cap {"scratch"})
      BY <2>1, <3>1, OneOwned
    <3> QED BY <3>1, <3>2 DEF Lists, Dying
  <2> QED BY <1>1, <1>2, <2>1, <2>2, <2>3
<1>12. CASE CreateScratchAllocation \/ ConstructBufferObjects
  <2>1. UNCHANGED <<object, doomed>> /\ members \subseteq members'
    BY <1>12 DEF CreateScratchAllocation, ConstructBufferObjects, api
  <2>2. \A o \in Objects :
           status'[o] = status[o] \/ \E m \in members' : o = Member(m)
    BY <1>12, AllocatedSets DEF CreateScratchAllocation, ConstructBufferObjects
  <2> QED BY <1>2, <2>1, <2>2, ObjectsAre, ObjectsDiffer
<1>13. CASE ConstructBufferObjectsFails
  <2>1. UNCHANGED <<object, doomed>> /\ members \subseteq members'
    BY <1>13, ConstructFailing DEF api
  <2>2. \A o \in Objects :
           \/ status'[o] = status[o] \/ status'[o] = "closed"
           \/ \E m \in members' : o = Member(m)
    BY <1>13, ConstructFailing
  <2> QED BY <1>2, <2>1, <2>2, ObjectsAre, ObjectsDiffer
<1>14. CASE \/ \E k \in Kernels, args, kept \in SUBSET Buffers : ExecuteKernel(k, args, kept)
            \/ ScratchAllocationFails
            \/ SubmitExecBuffer \/ SubmitRefused \/ SubmitFails \/ FinishExecution \/ WaitFails
            \/ GpuRetires
  <2>1. UNCHANGED <<members, object, status, doomed>>
    BY <1>14 DEF ExecuteKernel, ScratchAllocationFails, SubmitExecBuffer,
       SubmitRefused, SubmitFails, FinishExecution, WaitFails, GpuRetires, api, memory, thread
  <2> QED BY <1>2, <2>1
<1> QED
  BY <1>3, <1>4, <1>5, <1>6, <1>7, <1>8, <1>9, <1>10, <1>11, <1>12, <1>13, <1>14 DEF Next

(* The batch of a launch: no pointer is null, and all it lists is open,    *)
(* but what was released only by chance.                                   *)
LEMMA LaunchedBatch ==
    ASSUME LifeInv, pc = "submit",
           NEW found \in [Dangling(launch.kernel) -> OpenObjects]
    PROVE  LET batch == KernelBatch(launch.kernel, launch.args, found)
           IN  /\ batch \in Batches /\ batch.fetches \subseteq batch.lists
               /\ \A o \in batch.lists : status[o] = "live"
               /\ \A m \in ContextMembers : Member(m) \in batch.lists => m \in members
               /\ \A k \in Kernels : IsaOf(k) \in batch.lists => object[k] # "NEW"
               /\ Member("streams") \in batch.lists
<1> DEFINE k == launch.kernel
           args == launch.args
           M == (ContextMembers \ {"pins", "scratch"}) \cup (members \cap {"scratch"})
           R == KernelMembers(k) \cup {Member(m) : m \in M}
           L == R \cup {DataOf(b) : b \in execData[k] \ Dangling(k)}
                  \cup {found[b] : b \in Dangling(k)}
           F == R \cup {DataOf(b) : b \in args}
<1>1. /\ k \in Kernels /\ object[k] = "LIVE" /\ args \in SUBSET Buffers
      /\ \A b \in args : object[b] = "LIVE" /\ b \in execData[k]
      /\ execData[k] \in SUBSET Buffers
      /\ context = "OPEN" /\ {"heaps", "streams"} \subseteq members
  BY DEF LifeInv, LaunchInv, InLaunch, Types
<1>2. M \subseteq members /\ members \subseteq ContextMembers /\ "streams" \in M
  BY <1>1 DEF LifeInv, ContextInv, ContextMembers, Types
<1> HIDE DEF k, args
<1>3. KernelBatch(k, args, found) = [lists |-> L, fetches |-> F, abandoned |-> FALSE]
  <2>1. {PointerTo(m) : m \in ContextMembers \ {"pins", "scratch"}}
          = {Member(m) : m \in ContextMembers \ {"pins", "scratch"}}
    BY <1>2 DEF PointerTo
  <2>2. (IF "scratch" \in members THEN {Member("scratch")} ELSE {})
          = {Member(m) : m \in members \cap {"scratch"}}
    OBVIOUS
  <2>3. {Member(m) : m \in M} = {Member(m) : m \in ContextMembers \ {"pins", "scratch"}}
                                  \cup {Member(m) : m \in members \cap {"scratch"}}
    OBVIOUS
  <2>4. R = KernelMembers(k)
              \cup {PointerTo(m) : m \in ContextMembers \ {"pins", "scratch"}}
              \cup (IF "scratch" \in members THEN {Member("scratch")} ELSE {})
    <3> HIDE DEF M
    <3> QED BY <2>1, <2>2, <2>3
  <2> HIDE DEF R
  <2> QED BY <2>4 DEF KernelBatch
<1> HIDE DEF M
<1>4. \A b \in Dangling(k) : found[b] \in Objects /\ status[found[b]] = "live"
  BY DEF k, OpenObjects
<1>5. \A b \in execData[k] \ Dangling(k) : object[b] = "LIVE" /\ b \in Buffers
  BY <1>1 DEF Dangling
<1>6. L \subseteq Objects /\ F \subseteq L
  <2>1. L \subseteq Objects
    BY <1>1, <1>2, <1>4, <1>5, ObjectsAre
  <2>2. args \subseteq execData[k] \ Dangling(k)
    BY <1>1 DEF Dangling
  <2> QED BY <2>1, <2>2
<1>7. \A o \in L : status[o] = "live"
  BY <1>1, <1>2, <1>4, <1>5 DEF LifeInv, HeldInv
<1>8. Member("streams") \in L
  BY <1>2
<1> HIDE DEF L, F
<1>9. \A o : ~Dying(o)
  BY DEF LifeInv, Types, Dying
<1>10. \A m \in ContextMembers : Member(m) \in L => m \in members
  BY <1>7, <1>9 DEF LifeInv, OwnedInv, Allotted
<1>11. \A l \in Kernels : IsaOf(l) \in L => object[l] # "NEW"
  BY <1>7, <1>9, ObjectsDiffer DEF LifeInv, OwnedInv, Allotted
<1>12. KernelBatch(k, args, found) \in Batches
  BY <1>3, <1>6 DEF Batches
<1> QED BY <1>3, <1>6, <1>7, <1>8, <1>10, <1>11, <1>12 DEF k, args

(* Giving up the wait marks batches and changes nothing else of them.      *)
LEMMA WaitFailing ==
    ASSUME LifeInv, WaitFails
    PROVE  /\ queue' \in Seq(Batches) /\ Len(queue') = Len(queue)
           /\ \A i \in 1..Len(queue) :
                /\ queue'[i].lists = queue[i].lists
                /\ queue'[i].fetches = queue[i].fetches
                /\ queue'[i].abandoned =
                     (queue[i].abandoned \/ Member("streams") \in queue[i].lists)
<1>1. /\ queue \in Seq(Batches) /\ DOMAIN queue = 1..Len(queue) /\ Len(queue) \in Nat
      /\ \A i \in 1..Len(queue) : queue[i] \in Batches
  BY DEF LifeInv, Types
<1> DEFINE mark(i) == [queue[i] EXCEPT !.abandoned = @ \/ Member("streams") \in queue[i].lists]
<1>2. queue' = [i \in 1..Len(queue) |-> mark(i)]
  BY <1>1 DEF WaitFails
<1>3. ASSUME NEW i \in 1..Len(queue)
      PROVE  /\ mark(i) \in Batches
             /\ mark(i).lists = queue[i].lists /\ mark(i).fetches = queue[i].fetches
             /\ mark(i).abandoned =
                  (queue[i].abandoned \/ Member("streams") \in queue[i].lists)
  BY <1>1 DEF Batches
<1> HIDE DEF mark
<1>4. queue' \in Seq(Batches) /\ Len(queue') = Len(queue)
  BY <1>1, <1>2, <1>3
<1> QED BY <1>2, <1>3, <1>4

LEMMA TypesStep ==
    ASSUME LifeInv, Next
    PROVE  Types'
<1> USE DEF LifeInv, Types
<1>1. CASE ContextCreated \/ ContextCreationFails
  <2>1. status' \in [Objects -> {"none", "live", "freed", "closed", "unwaited"}]
    BY <1>1, ContextCreation, AllocatedSets
  <2>2. failures' \in 0..MaxFailures
    BY <1>1, LifetimesAssumption DEF ContextCreated, ContextCreationFails, CanFail
  <2>3. deviceContext' \in BOOLEAN
    BY <1>1 DEF ContextCreated, ContextCreationFails, MarkDevice
  <2> QED BY <1>1, <2>1, <2>2, <2>3, ContextCreation DEF thread
<1>2. CASE ReleaseContext
  <2>1. /\ doomed' \in Seq(Objects) /\ return' = "program"
        /\ pc' = "destroying" <=> doomed' # <<>>
        /\ pc' \in {"program", "destroying"}
    BY <1>2, DestructionOrderLists DEF ReleaseContext, Destroy, Lists
  <2>2. drmContexts' \in Nat /\ context' = "CLOSED" /\ members' = {}
    BY <1>2 DEF ReleaseContext, ContextInv
  <2>3. queue' \in Seq(Batches)
    <3>1. queue' = queue \/ queue' = <<>>
      BY <1>2 DEF ReleaseContext
    <3>2. queue \in Seq(Batches) /\ <<>> \in Seq(Batches)
      <4> HIDE DEF Batches
      <4> QED OBVIOUS
    <3> QED BY <3>1, <3>2
  <2>4. failures' \in 0..MaxFailures
    BY <1>2, LifetimesAssumption DEF ReleaseContext, CanFail
  <2> QED BY <1>2, <2>1, <2>2, <2>3, <2>4 DEF ReleaseContext
<1>3. ASSUME NEW b \in Buffers, CreateBuffer(b)
      PROVE  Types'
  <2>1. /\ context = "OPEN" /\ Allocated({DataOf(b)})
        /\ queue' = Append(queue, PinBatch(b))
        /\ object' = [object EXCEPT ![b] = "LIVE"]
        /\ UNCHANGED <<context, deviceContext, drmContexts, persistent, execData, members,
                       scratchTotal, twice, refused, thread, failures>>
    BY <1>3 DEF CreateBuffer
  <2>2. PinBatch(b) \in Batches
    <3>1. "pins" \in members /\ "pins" \in ContextMembers
      BY <2>1 DEF ContextInv, ContextMembers
    <3>2. PointerTo("pins") \in Objects /\ DataOf(b) \in Objects
      BY <3>1, ObjectsAre DEF PointerTo
    <3> QED BY <3>2 DEF PinBatch, Batches
  <2>3. queue' \in Seq(Batches)
    BY <2>1, <2>2
  <2>4. status' \in [Objects -> {"none", "live", "freed", "closed", "unwaited"}]
    BY <2>1, AllocatedSets
  <2>5. object' \in [Buffers \cup Kernels -> {"NEW", "LIVE", "LOST", "RELEASED"}]
    BY <2>1
  <2> QED BY <2>1, <2>3, <2>4, <2>5 DEF thread
<1>4. ASSUME NEW b \in Buffers, CreateBufferFails(b)
      PROVE  Types'
  <2>1. status' \in [Objects -> {"none", "live", "freed", "closed", "unwaited"}]
    BY <1>4, AllocatedSets DEF CreateBufferFails
  <2>2. object' \in [Buffers \cup Kernels -> {"NEW", "LIVE", "LOST", "RELEASED"}]
    BY <1>4 DEF CreateBufferFails
  <2>3. failures' \in 0..MaxFailures
    BY <1>4, LifetimesAssumption DEF CreateBufferFails, CanFail
  <2> QED BY <1>4, <2>1, <2>2, <2>3 DEF CreateBufferFails, thread
<1>5. ASSUME NEW b \in Buffers, ReleaseBuffer(b)
      PROVE  Types'
  <2>1. /\ doomed' = <<DataOf(b)>> /\ return' = "program" /\ pc' = "destroying"
        /\ object' = [object EXCEPT ![b] = "RELEASED"]
        /\ UNCHANGED <<context, deviceContext, drmContexts, persistent, execData, memory, queue,
                       launch, failures>>
    <3> HIDE DEF DataOf
    <3> QED BY <1>5 DEF ReleaseBuffer, Destroy
  <2>2. doomed' \in Seq(Objects) /\ doomed' # <<>>
    <3>1. DataOf(b) \in Objects
      BY ObjectsAre
    <3> HIDE DEF DataOf
    <3> QED BY <2>1, <3>1
  <2>3. object' \in [Buffers \cup Kernels -> {"NEW", "LIVE", "LOST", "RELEASED"}]
    BY <2>1
  <2> QED BY <2>1, <2>2, <2>3 DEF memory
<1>6. ASSUME NEW k \in Kernels, BuildKernel(k)
      PROVE  Types'
  <2>1. status' \in [Objects -> {"none", "live", "freed", "closed", "unwaited"}]
    BY <1>6, AllocatedSets DEF BuildKernel
  <2>2. object' \in [Buffers \cup Kernels -> {"NEW", "LIVE", "LOST", "RELEASED"}]
    BY <1>6 DEF BuildKernel
  <2>3. members' \subseteq ContextMembers
    BY <1>6 DEF BuildKernel, ContextMembers
  <2> QED BY <1>6, <2>1, <2>2, <2>3 DEF BuildKernel, thread
<1>7. ASSUME NEW k \in Kernels, BuildKernelFails(k)
      PROVE  Types'
  <2>1. object' \in [Buffers \cup Kernels -> {"NEW", "LIVE", "LOST", "RELEASED"}]
    BY <1>7, BuildKernelFailing
  <2>2. members' \subseteq ContextMembers
    BY <1>7, BuildKernelFailing DEF ContextMembers
  <2> QED BY <1>7, <2>1, <2>2, BuildKernelFailing DEF thread
<1>8. ASSUME NEW k \in Kernels, ReleaseKernel(k)
      PROVE  Types'
  <2>1. /\ doomed' = DoomedWithKernel(k) /\ return' = "program" /\ pc' = "destroying"
        /\ doomed' # <<>>
    BY <1>8 DEF ReleaseKernel, Destroy, DoomedWithKernel
  <2>2. doomed' \in Seq(Objects)
    BY <2>1, DoomedWithKernelLists
  <2>3. object' \in [Buffers \cup Kernels -> {"NEW", "LIVE", "LOST", "RELEASED"}]
    BY <1>8 DEF ReleaseKernel
  <2>4. execData' \in [Kernels -> SUBSET Buffers]
    BY <1>8 DEF ReleaseKernel
  <2> QED BY <1>8, <2>1, <2>2, <2>3, <2>4 DEF ReleaseKernel, memory
<1>9. CASE FreeMemory
  <2>1. twice' = twice
    <3>1. Allotted(Head(doomed)) /\ status[Head(doomed)] # "freed"
      BY <1>9, Destroying DEF FreeMemory
    <3> QED BY <1>9, <3>1 DEF FreeMemory, Allotted
  <2>2. status' \in [Objects -> {"none", "live", "freed", "closed", "unwaited"}]
    BY <1>9 DEF FreeMemory
  <2> QED BY <1>9, <2>1, <2>2 DEF FreeMemory, api, thread
<1>10. CASE DeleteHandle \/ DeleteHandleUnwaited
  <2>1. /\ doomed' = Tail(doomed) /\ return' = return
        /\ pc' = IF doomed' = <<>> THEN return ELSE "destroying"
        /\ pc = "destroying"
        /\ UNCHANGED <<api, members, scratchTotal, twice, refused, queue>>
    BY <1>10 DEF DeleteHandle, DeleteHandleUnwaited, Destroy
  <2>2. doomed' \in Seq(Objects)
    BY <2>1, Destroying
  <2>3. status' \in [Objects -> {"none", "live", "freed", "closed", "unwaited"}]
    BY <1>10 DEF DeleteHandle, DeleteHandleUnwaited
  <2>4. failures' \in 0..MaxFailures
    BY <1>10, LifetimesAssumption DEF DeleteHandle, DeleteHandleUnwaited, CanFail
  <2> QED BY <2>1, <2>2, <2>3, <2>4 DEF api
<1>11. ASSUME NEW k \in Kernels, NEW args \in SUBSET Buffers, NEW kept \in SUBSET Buffers,
             ExecuteKernel(k, args, kept)
      PROVE  Types'
  <2>1. execData' \in [Kernels -> SUBSET Buffers]
    BY <1>11 DEF ExecuteKernel
  <2> QED BY <1>11, <2>1 DEF ExecuteKernel, memory
<1>12. CASE ResetScratch
  <2>1. "scratch" \in ContextMembers
    BY DEF ContextMembers
  <2>2. /\ doomed' \in Seq(Objects) /\ return' \in {"program", "newScratch"}
        /\ pc' \in {"construct", "newScratch", "destroying"}
        /\ pc' = "destroying" <=> doomed' # <<>>
    BY <1>12, <2>1, OneOwned DEF ResetScratch, Destroy, Lists
  <2>3. members' \subseteq ContextMembers
    BY <1>12 DEF ResetScratch
  <2> QED BY <1>12, <2>2, <2>3 DEF ResetScratch, api
<1>13. CASE CreateScratchAllocation
  <2>1. status' \in [Objects -> {"none", "live", "freed", "closed", "unwaited"}]
    BY <1>13, AllocatedSets DEF CreateScratchAllocation
  <2>2. scratchTotal' \in Nat
    BY <1>13, LifetimesAssumption DEF CreateScratchAllocation, LaunchInv, InLaunch
  <2>3. members' \subseteq ContextMembers
    BY <1>13 DEF CreateScratchAllocation, ContextMembers
  <2> QED BY <1>13, <2>1, <2>2, <2>3 DEF CreateScratchAllocation, api
<1>14. CASE ConstructBufferObjects
  <2>1. status' \in [Objects -> {"none", "live", "freed", "closed", "unwaited"}]
    BY <1>14, AllocatedSets DEF ConstructBufferObjects
  <2>2. members' \subseteq ContextMembers
    BY <1>14 DEF ConstructBufferObjects, ContextMembers
  <2> QED BY <1>14, <2>1, <2>2 DEF ConstructBufferObjects, api
<1>15. CASE ConstructBufferObjectsFails
  <2>1. members' \subseteq ContextMembers
    BY <1>15, ConstructFailing DEF ContextMembers
  <2> QED BY <1>15, <2>1, ConstructFailing DEF api, Return
<1>16. CASE ScratchAllocationFails \/ SubmitRefused \/ SubmitFails
  <2>1. failures' \in 0..MaxFailures
    BY <1>16, LifetimesAssumption DEF ScratchAllocationFails, SubmitRefused, SubmitFails, CanFail
  <2> QED BY <1>16, <2>1 DEF ScratchAllocationFails, SubmitRefused, SubmitFails, Return, api,
             memory
<1>17. CASE SubmitExecBuffer
  <2>1. /\ pc = "submit" /\ pc' = "wait"
        /\ \E found \in [Dangling(launch.kernel) -> OpenObjects] :
             queue' = Append(queue, KernelBatch(launch.kernel, launch.args, found))
        /\ UNCHANGED <<api, memory, launch, doomed, return, failures>>
    BY <1>17 DEF SubmitExecBuffer
  <2>2. \E batch \in Batches : queue' = Append(queue, batch)
    BY <2>1, LaunchedBatch
  <2>3. queue' \in Seq(Batches)
    BY <2>2
  <2> QED BY <2>1, <2>3 DEF api, memory
<1>18. CASE FinishExecution
  BY <1>18 DEF FinishExecution, Return, api, memory
<1>19. CASE WaitFails
  <2>1. failures' \in 0..MaxFailures
    BY <1>19, LifetimesAssumption DEF WaitFails, CanFail
  <2>2. queue' \in Seq(Batches)
    BY <1>19, WaitFailing
  <2> QED BY <1>19, <2>1, <2>2 DEF WaitFails, Return, api, memory
<1>20. CASE GpuRetires
  <2>1. queue' \in Seq(Batches)
    BY <1>20 DEF GpuRetires
  <2> QED BY <1>20, <2>1 DEF GpuRetires, api, memory, thread
<1> QED
  BY <1>1, <1>2, <1>3, <1>4, <1>5, <1>6, <1>7, <1>8, <1>9, <1>10, <1>11, <1>12, <1>13,
     <1>14, <1>15, <1>16, <1>17, <1>18, <1>19, <1>20 DEF Next

(* A batch in the kernel driver. *)
InQueue(batch) == \E i \in 1..Len(queue) : queue[i] = batch

(* Batches stay valid when the thread goes on, whatever it does.           *)
LEMMA BatchStep ==
    ASSUME LifeInv, Next, ~WaitFails, NEW batch, InQueue(batch)
    PROVE  BatchInv(batch)'
<1>1. batch \in Batches /\ BatchInv(batch) /\ batch.lists \subseteq Objects
  <2>1. BatchInv(batch)
    BY DEF InQueue, LifeInv, QueueInv
  <2>2. batch \in Batches
    BY DEF InQueue, LifeInv, Types
  <2> QED BY <2>1, <2>2 DEF Batches
<1>2. context \in {"OPEN", "CLOSED"}
  BY DEF InQueue, LifeInv, QueueInv, Outlived
<1>3. /\ Types /\ ContextInv
      /\ \A o \in batch.lists : o \in Objects /\ status[o] \in {"live", "freed", "unwaited"}
      /\ \A m \in {"sip", "heaps"} :
           Member(m) \in batch.lists => m \in members \/ context = "CLOSED"
      /\ \A k \in Kernels : IsaOf(k) \in batch.lists => object[k] # "NEW"
      /\ batch.fetches \subseteq batch.lists
      /\ \/ batch.abandoned
         \/ batch.fetches \subseteq {Member("pins")}
         \/ /\ pc = "wait" /\ Member("streams") \in batch.lists
            /\ \A o \in batch.fetches : status[o] = "live"
  BY <1>1 DEF BatchInv, LifeInv
<1>4. CASE pc # "wait" /\ UNCHANGED <<status, members, context, object>>
  BY <1>3, <1>4 DEF BatchInv
<1>5. ASSUME NEW S, Allocated(S), UNCHANGED <<context, pc>>, members \subseteq members',
             \A k \in Kernels : object[k] # "NEW" => object'[k] # "NEW"
      PROVE  BatchInv(batch)'
  <2>1. \A o \in batch.lists : status'[o] = status[o] \/ status'[o] = "live"
    BY <1>3, <1>5, AllocatedSets
  <2>2. \A o \in batch.lists : status'[o] \in {"live", "freed", "unwaited"}
    BY <1>3, <2>1
  <2>3. \A o \in batch.fetches : status[o] = "live" => status'[o] = "live"
    BY <1>3, <2>1
  <2> QED BY <1>3, <1>5, <2>2, <2>3 DEF BatchInv
<1>6. CASE ContextCreated \/ ContextCreationFails
  BY <1>2, <1>6, ContextCreation
<1>7. CASE ReleaseContext
  <2>1. UNCHANGED <<status, object>> /\ context' = "CLOSED" /\ pc = "program"
    BY <1>7 DEF ReleaseContext
  <2> QED BY <1>3, <2>1 DEF BatchInv
<1>8. ASSUME NEW b \in Buffers, CreateBuffer(b) \/ CreateBufferFails(b)
      PROVE  BatchInv(batch)'
  <2>1. /\ UNCHANGED <<context, pc, members>>
        /\ \A k \in Kernels : object'[k] = object[k]
        /\ Allocated({}) \/ Allocated({DataOf(b)})
    BY <1>3, <1>8, LifetimesAssumption DEF CreateBuffer, CreateBufferFails, thread, Types
  <2> QED BY <1>5, <2>1
<1>9. ASSUME NEW b \in Buffers, ReleaseBuffer(b)
      PROVE  BatchInv(batch)'
  <2>1. /\ UNCHANGED <<context, status, members>> /\ pc = "program"
        /\ \A k \in Kernels : object'[k] = object[k]
    BY <1>3, <1>9, LifetimesAssumption DEF ReleaseBuffer, memory, Types
  <2> QED BY <1>3, <2>1 DEF BatchInv
<1>10. ASSUME NEW k \in Kernels, BuildKernel(k)
       PROVE  BatchInv(batch)'
  <2>1. /\ UNCHANGED <<context, pc>> /\ members \subseteq members'
        /\ \A l \in Kernels : object[l] # "NEW" => object'[l] # "NEW"
        /\ Allocated(KernelMembers(k) \cup {Member("sip")})
    BY <1>3, <1>10, LifetimesAssumption DEF BuildKernel, thread, Types
  <2> QED BY <1>5, <2>1
<1>11. ASSUME NEW k \in Kernels, BuildKernelFails(k)
       PROVE  BatchInv(batch)'
  <2>1. /\ UNCHANGED context /\ context = "OPEN" /\ members \subseteq members'
        /\ pc = "program" /\ pc' = pc /\ object[k] = "NEW"
        /\ \A l \in Kernels : object[l] # "NEW" => object'[l] # "NEW"
        /\ \A o \in Objects :
             \/ status'[o] = status[o] \/ status'[o] = "live"
             \/ o = IsaOf(k) \/ (o = Member("sip") /\ "sip" \notin members)
    BY <1>3, <1>11, BuildKernelFailing, LifetimesAssumption DEF thread, Types
  <2>2. \A o \in batch.lists : status'[o] \in {"live", "freed", "unwaited"}
    BY <1>3, <2>1
  <2> QED BY <1>3, <2>1, <2>2 DEF BatchInv
<1>12. ASSUME NEW k \in Kernels, ReleaseKernel(k)
       PROVE  BatchInv(batch)'
  <2>1. /\ UNCHANGED <<context, status, members>> /\ pc = "program"
        /\ \A l \in Kernels : object[l] # "NEW" => object'[l] # "NEW"
    BY <1>3, <1>12, LifetimesAssumption DEF ReleaseKernel, memory, Types
  <2> QED BY <1>3, <2>1 DEF BatchInv
<1>13. CASE FreeMemory \/ DeleteHandle \/ DeleteHandleUnwaited
  <2>4. /\ UNCHANGED <<context, object, members>> /\ pc = "destroying"
        /\ \E s \in {"freed", "unwaited", "closed"} :
             /\ status' = [status EXCEPT ![Head(doomed)] = s]
             /\ s = "closed" => ~Busy(Head(doomed))
    BY <1>13 DEF FreeMemory, DeleteHandle, DeleteHandleUnwaited, api
  <2>1. ASSUME NEW o \in Objects
        PROVE  \/ status'[o] = status[o] \/ status'[o] \in {"freed", "unwaited"}
               \/ ~Busy(o)
    <3>1. CASE o = Head(doomed)
      <4>1. PICK h : h = Head(doomed)
        OBVIOUS
      <4>2. \E s \in {"freed", "unwaited", "closed"} :
               status' = [status EXCEPT ![h] = s] /\ (s = "closed" => ~Busy(h))
        BY <2>4, <4>1
      <4> QED BY <1>3, <3>1, <4>1, <4>2 DEF Types
    <3>2. CASE o # Head(doomed)
      BY <1>3, <2>4, <3>2 DEF Types
    <3> QED BY <3>1, <3>2
  <2>2. \A o \in batch.lists : Busy(o)
    BY <1>3 DEF Busy, InQueue, Types
  <2>3. \A o \in batch.lists : status'[o] \in {"live", "freed", "unwaited"}
    BY <1>3, <2>1, <2>2
  <2> QED BY <1>3, <2>4, <2>3 DEF BatchInv
<1>14. CASE ResetScratch
  <2>1. /\ UNCHANGED <<status, context, object>> /\ pc = "scratch"
        /\ \A m \in {"sip", "heaps"} : m \in members => m \in members'
    BY <1>14 DEF ResetScratch, api
  <2> QED BY <1>3, <2>1 DEF BatchInv
<1>15. CASE CreateScratchAllocation \/ ConstructBufferObjects
  <2>1. /\ UNCHANGED <<context, object>> /\ pc # "wait" /\ members \subseteq members'
        /\ \E S : Allocated(S)
    BY <1>15 DEF CreateScratchAllocation, ConstructBufferObjects, api
  <2>2. \A o \in batch.lists : status'[o] = status[o] \/ status'[o] = "live"
    BY <1>3, <2>1, AllocatedSets
  <2>3. \A o \in batch.lists : status'[o] \in {"live", "freed", "unwaited"}
    BY <1>3, <2>2
  <2> QED BY <1>3, <2>1, <2>3 DEF BatchInv
<1>16. CASE ConstructBufferObjectsFails
  <2>1. /\ UNCHANGED <<context, object>> /\ context = "OPEN" /\ pc # "wait"
        /\ members \subseteq members'
        /\ \A o \in Objects :
             \/ status'[o] = status[o] \/ status'[o] = "live"
             \/ o = Member("heaps") /\ "heaps" \notin members
    BY <1>16, ConstructFailing DEF api
  <2>2. \A o \in batch.lists : status'[o] \in {"live", "freed", "unwaited"}
    BY <1>3, <2>1
  <2> QED BY <1>3, <2>1, <2>2 DEF BatchInv
<1>17. CASE FinishExecution
  <2>1. /\ UNCHANGED <<status, members, context, object>> /\ ~Busy(Member("streams"))
    BY <1>17 DEF FinishExecution, api, memory
  <2>2. Member("streams") \notin batch.lists
    BY <1>3, <2>1 DEF Busy, InQueue, Types
  <2> QED BY <1>3, <2>1, <2>2 DEF BatchInv
<1>18. CASE GpuRetires
  <2>1. UNCHANGED <<status, members, context, object, pc>>
    BY <1>18 DEF GpuRetires, api, memory, thread
  <2> QED BY <1>3, <2>1 DEF BatchInv
<1>19. CASE \/ \E k \in Kernels, args, kept \in SUBSET Buffers : ExecuteKernel(k, args, kept)
            \/ ScratchAllocationFails \/ SubmitExecBuffer \/ SubmitRefused \/ SubmitFails
  BY <1>4, <1>19 DEF ExecuteKernel, ScratchAllocationFails, SubmitExecBuffer,
     SubmitRefused, SubmitFails, api, memory
<1> QED
  BY <1>6, <1>7, <1>8, <1>9, <1>10, <1>11, <1>12, <1>13, <1>14, <1>15, <1>16, <1>17, <1>18,
     <1>19 DEF Next

LEMMA QueueStep ==
    ASSUME LifeInv, Next
    PROVE  QueueInv'
<1>1. /\ queue \in Seq(Batches) /\ Types /\ ContextInv /\ LaunchInv
      /\ queue = <<>> \/ context = "OPEN" \/ Outlived
  BY DEF LifeInv, QueueInv, Types
<1>2. ASSUME ~WaitFails,
             queue' = <<>> \/ context' = "OPEN" \/ Outlived',
             \A i \in 1..Len(queue') : InQueue(queue'[i]) \/ BatchInv(queue[i])'
      PROVE  QueueInv'
  <2>1. ASSUME NEW i \in 1..Len(queue')
        PROVE  BatchInv(queue[i])'
    <3>1. CASE InQueue(queue'[i])
      <4>1. PICK batch : batch = queue'[i]
        OBVIOUS
      <4>2. BatchInv(batch)'
        BY <1>2, <3>1, <4>1, BatchStep
      <4> QED BY <4>1, <4>2 DEF BatchInv
    <3> QED BY <1>2, <3>1
  <2> QED BY <1>2, <2>1 DEF QueueInv
<1>3. ASSUME UNCHANGED <<queue, context, persistent, drmContexts>>, ~WaitFails
      PROVE  QueueInv'
  BY <1>1, <1>2, <1>3 DEF InQueue, Outlived
<1>4. ASSUME queue' = <<>>, ~WaitFails
      PROVE  QueueInv'
  BY <1>2, <1>4
<1>5. ASSUME NEW batch, queue' = Append(queue, batch), BatchInv(batch)', batch \in Batches,
             UNCHANGED context, context = "OPEN", ~WaitFails
      PROVE  QueueInv'
  <2>1. /\ Len(queue') = Len(queue) + 1 /\ Len(queue) \in Nat
        /\ \A i \in 1..Len(queue) : queue'[i] = queue[i]
        /\ queue'[Len(queue) + 1] = batch
    BY <1>1, <1>5
  <2>2. ASSUME NEW i \in 1..Len(queue')
        PROVE  InQueue(queue'[i]) \/ BatchInv(queue[i])'
    <3>1. CASE i \in 1..Len(queue)
      BY <2>1, <3>1 DEF InQueue
    <3>2. CASE i = Len(queue) + 1
      BY <1>5, <2>1, <3>2 DEF BatchInv
    <3> QED BY <2>1, <3>1, <3>2
  <2> QED BY <1>2, <1>5, <2>2
<1>6. CASE ContextCreated \/ ContextCreationFails
  <2>1. queue' = <<>> /\ pc = "program"
    BY <1>6, ContextCreation DEF ContextCreated, ContextCreationFails
  <2> QED BY <1>4, <2>1 DEF WaitFails
<1>7. CASE ReleaseContext
  <2>1. queue' = <<>> \/ (queue' = queue /\ Outlived')
    BY <1>1, <1>7 DEF ReleaseContext, Outlived, ContextInv
  <2>2. ~WaitFails
    BY <1>7 DEF ReleaseContext, WaitFails
  <2> QED BY <1>2, <1>4, <2>1, <2>2 DEF InQueue
<1>8. ASSUME NEW b \in Buffers, CreateBuffer(b)
      PROVE  QueueInv'
  <2>1. /\ context = "OPEN" /\ UNCHANGED <<context, members, pc>> /\ ~WaitFails
        /\ queue' = Append(queue, PinBatch(b))
        /\ Allocated({DataOf(b)}) /\ "pins" \in members /\ "pins" \in ContextMembers
    BY <1>1, <1>8 DEF CreateBuffer, thread, WaitFails, ContextInv, ContextMembers
  <2>2. PICK batch : batch = [lists |-> {DataOf(b), Member("pins")},
                              fetches |-> {Member("pins")}, abandoned |-> FALSE]
    OBVIOUS
  <2>3. PinBatch(b) = batch
    BY <2>1, <2>2 DEF PinBatch, PointerTo
  <2>4. batch \in Batches
    BY <2>1, <2>2, ObjectsAre DEF Batches
  <2>5. \A o \in batch.lists : status'[o] = "live"
    BY <2>1, <2>2, AllocatedSets, ObjectsAre DEF LifeInv, HeldInv
  <2>6. /\ \A m : Member(m) \in batch.lists => m = "pins"
        /\ \A k : IsaOf(k) \notin batch.lists
    BY <2>2, ObjectsDiffer
  <2>7. BatchInv(batch)'
    BY <2>2, <2>5, <2>6 DEF BatchInv
  <2> QED BY <1>5, <2>1, <2>3, <2>4, <2>7
<1>9. CASE SubmitExecBuffer
  <2>1. /\ context = "OPEN" /\ UNCHANGED <<context, object, members, status>>
        /\ pc = "submit" /\ pc' = "wait" /\ ~WaitFails
    BY <1>1, <1>9 DEF SubmitExecBuffer, api, memory, WaitFails, LaunchInv, InLaunch
  <2>2. PICK found \in [Dangling(launch.kernel) -> OpenObjects] :
           queue' = Append(queue, KernelBatch(launch.kernel, launch.args, found))
    BY <1>9 DEF SubmitExecBuffer
  <2>3. PICK batch : batch = KernelBatch(launch.kernel, launch.args, found)
    OBVIOUS
  <2>4. /\ batch \in Batches /\ batch.fetches \subseteq batch.lists
        /\ \A o \in batch.lists : status[o] = "live"
        /\ \A m \in {"sip", "heaps"} : Member(m) \in batch.lists => m \in members
        /\ \A k \in Kernels : IsaOf(k) \in batch.lists => object[k] # "NEW"
        /\ Member("streams") \in batch.lists
    BY <2>1, <2>2, <2>3, LaunchedBatch DEF ContextMembers
  <2>5. BatchInv(batch)'
    BY <2>1, <2>4 DEF BatchInv
  <2> QED BY <1>5, <2>1, <2>2, <2>3, <2>4, <2>5
<1>10. CASE GpuRetires
  <2>1. /\ queue # <<>> /\ queue' = Tail(queue)
        /\ UNCHANGED <<context, persistent, drmContexts>>
    BY <1>10 DEF GpuRetires, api
  <2>2. ~WaitFails
    BY <1>10 DEF GpuRetires, thread, WaitFails, Return
  <2>3. /\ Len(queue) \in Nat /\ Len(queue') = Len(queue) - 1
        /\ \A i \in 1..Len(queue') : queue'[i] = queue[i + 1]
    BY <1>1, <2>1, EmptySeq
  <2>4. \A i \in 1..Len(queue') : InQueue(queue'[i])
    <3>1. \A i \in 1..Len(queue') : i + 1 \in 1..Len(queue)
      BY <2>3
    <3> QED BY <2>3, <3>1 DEF InQueue
  <2> QED BY <1>1, <1>2, <2>1, <2>2, <2>4 DEF Outlived
<1>11. CASE WaitFails
  <2>1. /\ UNCHANGED <<context, persistent, object, members, status>>
        /\ context = "OPEN"
    BY <1>1, <1>11 DEF WaitFails, api, memory, LaunchInv, InLaunch
  <2>2. ASSUME NEW i \in 1..Len(queue')
        PROVE  BatchInv(queue[i])'
    <3>1. /\ i \in 1..Len(queue) /\ BatchInv(queue[i])
          /\ queue'[i].lists = queue[i].lists /\ queue'[i].fetches = queue[i].fetches
          /\ queue'[i].abandoned =
               (queue[i].abandoned \/ Member("streams") \in queue[i].lists)
      BY <1>11, WaitFailing DEF LifeInv, QueueInv
    <3>2. \/ queue'[i].abandoned \/ queue'[i].fetches \subseteq {Member("pins")}
      BY <3>1 DEF BatchInv
    <3> QED BY <2>1, <3>1, <3>2 DEF BatchInv
  <2> QED BY <2>1, <2>2 DEF QueueInv
<1>12. CASE \/ \E b \in Buffers : CreateBufferFails(b) \/ ReleaseBuffer(b)
            \/ \E k \in Kernels : BuildKernel(k) \/ BuildKernelFails(k) \/ ReleaseKernel(k)
            \/ FreeMemory \/ DeleteHandle \/ DeleteHandleUnwaited
  <2>1. UNCHANGED <<queue, context, persistent, drmContexts>> /\ pc # "wait"
    BY <1>12 DEF CreateBufferFails, ReleaseBuffer, BuildKernel, BuildKernelFails,
       ReleaseKernel, FreeMemory, DeleteHandle, DeleteHandleUnwaited, api
  <2> QED BY <1>3, <2>1 DEF WaitFails
<1>13. CASE \/ \E k \in Kernels, args, kept \in SUBSET Buffers : ExecuteKernel(k, args, kept)
            \/ ResetScratch \/ CreateScratchAllocation \/ ScratchAllocationFails
            \/ ConstructBufferObjects \/ ConstructBufferObjectsFails \/ SubmitRefused \/ SubmitFails
  <2>1. UNCHANGED <<queue, context, persistent, drmContexts>> /\ pc # "wait"
    BY <1>13 DEF ExecuteKernel, ResetScratch, CreateScratchAllocation,
       ScratchAllocationFails, ConstructBufferObjects, ConstructBufferObjectsFails,
       SubmitRefused, SubmitFails, api
  <2> QED BY <1>3, <2>1 DEF WaitFails
<1>14. CASE FinishExecution
  <2>1. CASE ~WaitFails
    BY <1>3, <1>14, <2>1 DEF FinishExecution, api
  <2> QED BY <1>11, <2>1
<1> QED
  BY <1>6, <1>7, <1>8, <1>9, <1>10, <1>11, <1>12, <1>13, <1>14 DEF Next

-----------------------------------------------------------------------------
(* The invariants of Lifetimes *)

LEMMA StutterLifeInv ==
    ASSUME LifeInv, UNCHANGED vars
    PROVE  LifeInv'
<1>1. UNCHANGED <<context, deviceContext, drmContexts, persistent, object, execData, members,
                  scratchTotal, status, twice, refused, queue, pc, launch, doomed, return,
                  failures>>
  BY DEF vars, api, memory, thread
<1>2. Types' /\ ContextInv' /\ LaunchInv' /\ HeldInv'
  BY <1>1 DEF LifeInv, Types, ContextInv, LaunchInv, InLaunch, HeldInv
<1>3. DoomedInv' /\ OwnedInv'
  BY <1>1 DEF LifeInv, DoomedInv, Unheld, OwnedInv, Allotted, Dying
<1>4. QueueInv'
  BY <1>1 DEF LifeInv, QueueInv, BatchInv, Outlived
<1> QED BY <1>2, <1>3, <1>4 DEF LifeInv

(* In every state: see the parts of LifeInv.                               *)
THEOREM LifeInvariant == Spec => []LifeInv
<1>1. Init => LifeInv
  BY InitLifeInv
<1>2. LifeInv /\ [Next]_vars => LifeInv'
  <2>1. LifeInv /\ Next => LifeInv'
    BY TypesStep, ContextStep, LaunchStep, HeldStep, DoomedStep, OwnedStep, QueueStep
       DEF LifeInv
  <2> QED BY <2>1, StutterLifeInv
<1> QED BY <1>1, <1>2, PTL DEF Spec

(* Variables keep their types, and no pointer in an exec buffer is null    *)
(* when populateAndSubmitExecBuffer lists it for the kernel driver.        *)
THEOREM TypeCorrect == Spec => []TypeOK
<1>1. LifeInv => TypeOK
  <2> SUFFICES ASSUME LifeInv PROVE TypeOK
    OBVIOUS
  <2>1. Types /\ refused \subseteq Objects /\ twice \subseteq Objects
    BY DEF LifeInv, Types
  <2>2. \A i \in DOMAIN queue :
          /\ queue[i].lists \subseteq Objects /\ queue[i].fetches \subseteq queue[i].lists
          /\ queue[i].abandoned \in BOOLEAN
    <3>1. \A i \in 1..Len(queue) : queue[i] \in Batches /\ BatchInv(queue[i])
      BY <2>1 DEF LifeInv, QueueInv, Types
    <3>2. DOMAIN queue = 1..Len(queue)
      BY <2>1 DEF Types
    <3> QED BY <3>1, <3>2 DEF Batches, BatchInv
  <2>3. Range(doomed) \subseteq Objects
    BY <2>1 DEF Types, Range
  <2>4. pc = "program" => launch = NoLaunch
    BY DEF LifeInv, LaunchInv, InLaunch
  <2>5. (pc = "destroying") = (doomed # <<>>)
    BY <2>1 DEF Types
  <2> QED BY <2>1, <2>2, <2>3, <2>4, <2>5 DEF TypeOK, Types
<1> QED BY <1>1, LifeInvariant, PTL

(* What the GPU may still fetch is allocated, although the destructor of a *)
(* BufferObject frees the memory before it waits (55-62 of                 *)
(* commandDispatcherGen9.cpp), but for batches given up by ExecuteKernel   *)
(* and those the kernel driver keeps when the context is closed.           *)
THEOREM FetchedMemoryLivesTheorem == Spec => []FetchedMemoryLives
<1>1. LifeInv => FetchedMemoryLives
  <2> SUFFICES ASSUME LifeInv, NEW i \in DOMAIN queue, ~queue[i].abandoned, ~Outlived,
                      NEW o \in queue[i].fetches
               PROVE  status[o] = "live"
    BY DEF FetchedMemoryLives
  <2>1. i \in 1..Len(queue) /\ BatchInv(queue[i])
    BY DEF LifeInv, QueueInv, Types
  <2>2. context = "OPEN" /\ "pins" \in members
    BY <2>1 DEF LifeInv, QueueInv, ContextInv, Types
  <2>3. status[Member("pins")] = "live"
    BY <2>2 DEF LifeInv, HeldInv
  <2> QED BY <2>1, <2>3 DEF BatchInv
<1> QED BY <1>1, LifeInvariant, PTL

(* The kernel driver is never left with a batch on a closed handle: for    *)
(* what it accepts, the wait of deleteHandle is enough in every order of   *)
(* launches and releases, unless that wait itself fails. Launches that     *)
(* list a released buffer are among them: they are refused, or list an     *)
(* open object in its place. That there are none does not hold, see the    *)
(* run LifetimesReleased.                                                  *)
THEOREM HandlesOutliveBatchesTheorem == Spec => []HandlesOutliveBatches
<1>1. LifeInv => HandlesOutliveBatches
  BY DEF HandlesOutliveBatches, LifeInv, QueueInv, BatchInv, Types
<1> QED BY <1>1, LifeInvariant, PTL

(* A kernel that can be launched has a system routine, whatever builds     *)
(* failed before it (gpgpu_api.cpp 70-90).                                 *)
THEOREM LaunchableKernelsHaveSipTheorem == Spec => []LaunchableKernelsHaveSip
<1>1. LifeInv => LaunchableKernelsHaveSip
  BY DEF LaunchableKernelsHaveSip, LifeInv, ContextInv, HeldInv
<1> QED BY <1>1, LifeInvariant, PTL

(* Only what a failed creation allocated is never released.                *)
THEOREM OnlyFailedCreationsLeakTheorem == Spec => []OnlyFailedCreationsLeak
<1>1. LifeInv => OnlyFailedCreationsLeak
  <2> SUFFICES ASSUME LifeInv, pc = "program", NEW o \in Objects, Allotted(o)
               PROVE  Owner(o)
    BY DEF OnlyFailedCreationsLeak, Allotted
  <2>1. ~Dying(o)
    BY DEF LifeInv, Types, Dying
  <2>2. members # {} => context \in {"OPEN", "LOST"}
    BY DEF LifeInv, ContextInv, Types
  <2> QED BY <2>1, <2>2, ObjectsAre DEF LifeInv, OwnedInv, Owner
<1> QED BY <1>1, LifeInvariant, PTL

(* A device has at most one context in the kernel driver.                  *)
THEOREM OneContextPerDeviceTheorem == Spec => []OneContextPerDevice
<1>1. LifeInv => OneContextPerDevice
  BY DEF LifeInv, ContextInv, OneContextPerDevice
<1> QED BY <1>1, LifeInvariant, PTL

(* Memory is released and a handle closed twice only for an object that    *)
(* the address heap refused.                                               *)
THEOREM DestroyedOnceTheorem == Spec => []DestroyedOnce
<1>1. LifeInv => DestroyedOnce
  BY DEF LifeInv, Types, DestroyedOnce
<1> QED BY <1>1, LifeInvariant, PTL

=============================================================================
