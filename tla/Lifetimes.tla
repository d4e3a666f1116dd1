----------------------------- MODULE Lifetimes -----------------------------
(***************************************************************************)
(* The objects of the API on one device and the memory they own, from      *)
(* CreateContext to the last release (gpgpu_api.cpp, buffer.cpp). Memory   *)
(* is host memory that the kernel driver knows by a handle; the destructor *)
(* of a BufferObject frees the memory, waits for the GPU and closes the    *)
(* handle, one object after the other, while the GPU reads on.             *)
(*                                                                         *)
(* A launch takes any buffers of the program as arguments, in any of the   *)
(* kernel's positions, or null: how they come to be the arguments of the   *)
(* kernel is in KernelArgs. Programs use objects only between their        *)
(* creation and their release; the kernel itself points to buffers after   *)
(* their release. Numbers alone are lines of commandDispatcherGen9.cpp.    *)
(***************************************************************************)
EXTENDS Naturals, Sequences, FiniteSets, SequencesExt

CONSTANTS
    Buffers, Kernels,  \* what the program may create, each at most once
    WithConstants,     \* kernels with a constant surface
    ScratchNeed,       \* scratch space of each kernel
    NoLaunch,          \* model value
    Null,              \* model value: a pointer to no buffer object
    MaxFailures        \* bound: calls of the kernel driver or compiler that fail

ASSUME LifetimesAssumption ==
    /\ WithConstants \subseteq Kernels
    /\ Buffers \cap Kernels = {}
    /\ ScratchNeed \in [Kernels -> Nat]
    /\ MaxFailures \in Nat

VARIABLES
    context,        \* the context of the program: NONE, LOST, OPEN, CLOSED
    deviceContext,  \* device->context is set
    drmContexts,    \* contexts open in the kernel driver
    persistent,     \* the kernel driver finishes batches of a closed context
    object,         \* NEW, LIVE, LOST (its creation failed) or RELEASED
    execData,       \* buffers that a kernel lists in its batches, by pointer
    members,        \* buffer objects the context points to
    scratchTotal,   \* currentScratchSpaceTotal
    status,         \* of the memory and handle of a buffer object
    twice,          \* buffer objects released that had been released
    refused,        \* buffer objects the address heap had no room for
    queue,          \* batches in the kernel driver
    pc, launch,     \* where the calling thread is, in which launch
    doomed,         \* buffer objects to destroy, in this order
    return,         \* where the thread goes on afterwards
    failures

api == <<context, deviceContext, drmContexts, persistent, object, execData>>
memory == <<members, scratchTotal, status, twice, refused>>
thread == <<pc, launch, doomed, return>>
vars == <<api, memory, queue, thread, failures>>

-----------------------------------------------------------------------------
(* Buffer objects; "heaps" and "streams" stand for the three heaps and the *)
(* two command streams, "pins" for dataBatchBuffer.                        *)
ContextMembers ==
    {"streams", "sip", "heaps", "scratch", "pins", "tag", "preemption"}
DataOf(b) == <<"data", b>>
IsaOf(k) == <<"isa", k>>
ConstantsOf(k) == <<"constants", k>>

KernelMembers(k) ==
    {IsaOf(k)} \cup (IF k \in WithConstants THEN {ConstantsOf(k)} ELSE {})

Objects ==
    {<<"context", m>> : m \in ContextMembers} \cup {DataOf(b) : b \in Buffers}
        \cup UNION {KernelMembers(k) : k \in Kernels}

Member(m) == <<"context", m>>

ASSUME NullAssumption == Null \notin Objects

(* Softpinned objects may find the address heap full. *)
Softpinned(o) == o \in {Member("sip"), Member("heaps")} \cup {IsaOf(k) : k \in Kernels}

Owned(m) == IF m \in members THEN <<Member(m)>> ELSE <<>>

(* The buffer objects of the context in the order the compiler destroys them. *)
DestructionOrder ==
    Owned("streams") \o Owned("sip") \o Owned("heaps") \o Owned("scratch")
        \o Owned("pins") \o Owned("tag") \o Owned("preemption")

PointerTo(m) == IF m \in members THEN Member(m) ELSE Null

(* A batch lists the objects it needs resident and fetches from some.      *)
PinBatch(b) ==
    [lists   |-> {DataOf(b), PointerTo("pins")},
     fetches |-> {PointerTo("pins")},
     abandoned |-> FALSE]

(* Buffers that a kernel still lists and the program has released.         *)
Dangling(k) == {b \in execData[k] : object[b] # "LIVE"}

OpenObjects == {o \in Objects : status[o] = "live"}

(* Fault: the scratch allocation is listed whether there is one or not. *)
KernelBatchUnchecked(k, args, found) ==
    LET resident == KernelMembers(k)
            \cup {PointerTo(m) : m \in ContextMembers \ {"pins"}}
    IN  [lists |-> resident \cup {DataOf(b) : b \in execData[k] \ Dangling(k)}
                       \cup {found[b] : b \in Dangling(k)},
         fetches |-> resident \cup {DataOf(b) : b \in args},
         abandoned |-> FALSE]

(* The execBuffer of populateAndSubmitExecBuffer: all of execData, also    *)
(* buffers behind arguments that are null in this launch. found is what    *)
(* the handle read from a released buffer object names.                    *)
KernelBatch(k, args, found) ==
    LET resident == KernelMembers(k)
            \cup {PointerTo(m) : m \in ContextMembers \ {"pins", "scratch"}}
            \cup (IF "scratch" \in members THEN {Member("scratch")} ELSE {})
    IN  [lists |-> resident \cup {DataOf(b) : b \in execData[k] \ Dangling(k)}
                       \cup {found[b] : b \in Dangling(k)},
         fetches |-> resident \cup {DataOf(b) : b \in args},
         abandoned |-> FALSE]

Busy(o) == \E i \in DOMAIN queue : o \in queue[i].lists

CanFail == failures < MaxFailures /\ failures' = failures + 1

-----------------------------------------------------------------------------
Init ==
    /\ context = "NONE" /\ deviceContext = FALSE
    /\ drmContexts = 0 /\ persistent = FALSE
    /\ object = [x \in Buffers \cup Kernels |-> "NEW"]
    /\ execData = [k \in Kernels |-> {}]
    /\ members = {} /\ scratchTotal = 0
    /\ status = [o \in Objects |-> "none"]
    /\ twice = {} /\ refused = {}
    /\ queue = <<>>
    /\ pc = "program" /\ launch = NoLaunch
    /\ doomed = <<>> /\ return = "program"
    /\ failures = 0

Allocated(objects) ==
    status' = [o \in Objects |-> IF o \in objects THEN "live" ELSE status[o]]

(* The objects of a call that fails at its last step, the one given: the   *)
(* step leaves no memory behind, but when the address heap is full         *)
(* allocateBufferObject frees the memory and closes the handle and the     *)
(* destructor does both again.                                             *)
AllocatedUpTo(objects, failing) ==
    \/ Allocated(objects) /\ UNCHANGED <<twice, refused>>
    \/ /\ Softpinned(failing)
       /\ status' = [o \in Objects |-> IF o = failing THEN "closed"
                        ELSE IF o \in objects THEN "live" ELSE status[o]]
       /\ twice' = twice \cup {failing}
       /\ refused' = refused \cup {failing}

-----------------------------------------------------------------------------
(* Fault: device->context is set when everything succeeded. *)
MarkDeviceLast == deviceContext' = (context' = "OPEN")

(* device->context is set before the context is created, and never cleared. *)
MarkDevice == deviceContext' = TRUE

(* CreateContext. *)
ContextCreated ==
    /\ pc = "program" /\ ~deviceContext
    /\ context' = "OPEN" /\ MarkDevice
    /\ drmContexts' = drmContexts + 1
    /\ persistent' \in BOOLEAN
    /\ members' = {"preemption", "tag", "pins"}
    /\ Allocated({Member(m) : m \in members'})
    /\ UNCHANGED <<object, execData, scratchTotal, twice, refused, queue, thread,
                   failures>>

(* It fails with or without a context in the kernel driver, and with some  *)
(* of the reusable buffer objects. Nothing is given back.                  *)
ContextCreationFails ==
    /\ pc = "program" /\ ~deviceContext /\ CanFail
    /\ context' = "LOST" /\ MarkDevice
    /\ \/ UNCHANGED <<drmContexts, members, status>>
       \/ /\ drmContexts' = drmContexts + 1
          /\ \E n \in 0..2 :
               members' = {<<"preemption", "tag", "pins">>[i] : i \in 1..n}
          /\ Allocated({Member(m) : m \in members'})
    /\ UNCHANGED <<persistent, object, execData, scratchTotal, twice, refused, queue,
                   thread>>

(* CreateBuffer: allocateAndPinDataBuffer submits a batch of one           *)
(* instruction to have the buffer bound, and does not wait for it.         *)
CreateBuffer(b) ==
    /\ pc = "program" /\ context = "OPEN" /\ object[b] = "NEW"
    /\ object' = [object EXCEPT ![b] = "LIVE"]
    /\ Allocated({DataOf(b)})
    /\ queue' = Append(queue, PinBatch(b))
    /\ UNCHANGED <<context, deviceContext, drmContexts, persistent, execData, members,
                   scratchTotal, twice, refused, thread, failures>>

CreateBufferFails(b) ==
    /\ pc = "program" /\ context = "OPEN" /\ object[b] = "NEW" /\ CanFail
    /\ object' = [object EXCEPT ![b] = "LOST"]
    /\ Allocated({}) \/ Allocated({DataOf(b)})
    /\ UNCHANGED <<context, deviceContext, drmContexts, persistent, execData, members,
                   scratchTotal, twice, refused, queue, thread>>

(* BuildKernel: the first one on a context also allocates the system       *)
(* routine (SIP) that preemption runs.                                     *)
BuildKernel(k) ==
    /\ pc = "program" /\ context = "OPEN" /\ object[k] = "NEW"
    /\ object' = [object EXCEPT ![k] = "LIVE"]
    /\ members' = members \cup {"sip"}
    /\ Allocated(KernelMembers(k) \cup {Member("sip")})
    /\ UNCHANGED <<context, deviceContext, drmContexts, persistent, execData,
                   scratchTotal, twice, refused, queue, thread, failures>>

(* Fault: a kernel without system routine is returned all the same. *)
BuildKernelFailsLate(k) ==
    /\ pc = "program" /\ context = "OPEN" /\ object[k] = "NEW" /\ CanFail
    /\ object' = [object EXCEPT ![k] = "LIVE"]
    /\ "sip" \notin members
    /\ AllocatedUpTo(KernelMembers(k), Member("sip"))
    /\ UNCHANGED <<context, deviceContext, drmContexts, persistent, execData, members,
                   scratchTotal, queue, thread>>

(* Compilation and decoding, the constant surface, the code, the system    *)
(* routine, the dump: what was allocated before stays.                     *)
BuildKernelFails(k) ==
    /\ pc = "program" /\ context = "OPEN" /\ object[k] = "NEW" /\ CanFail
    /\ object' = [object EXCEPT ![k] = "LOST"]
    /\ \/ /\ AllocatedUpTo({}, Null)
          /\ UNCHANGED members
       \/ /\ AllocatedUpTo(KernelMembers(k) \ {IsaOf(k)}, IsaOf(k))
          /\ UNCHANGED members
       \/ /\ "sip" \notin members
          /\ AllocatedUpTo(KernelMembers(k), Member("sip"))
          /\ UNCHANGED members
       \/ /\ AllocatedUpTo(KernelMembers(k) \cup {Member("sip")}, Null)
          /\ members' = members \cup {"sip"}
    /\ UNCHANGED <<context, deviceContext, drmContexts, persistent, execData,
                   scratchTotal, queue, thread>>

-----------------------------------------------------------------------------
(* Destroy some objects and go on with the next step. *)
Destroy(objects, next) ==
    /\ doomed' = objects /\ return' = next
    /\ pc' = IF objects = <<>> THEN next ELSE "destroying"

(* alignedFree comes first in the destructor. *)
FreeMemory ==
    /\ pc = "destroying" /\ status[Head(doomed)] # "freed"
    /\ status' = [status EXCEPT ![Head(doomed)] = "freed"]
    /\ twice' = IF status[Head(doomed)] = "live" THEN twice
                ELSE twice \cup {Head(doomed)}
    /\ UNCHANGED <<api, members, scratchTotal, refused, queue, thread, failures>>

(* Fault: the handle is closed without a wait. *)
DeleteHandleAtOnce ==
    /\ pc = "destroying" /\ status[Head(doomed)] = "freed"
    /\ status' = [status EXCEPT ![Head(doomed)] = "closed"]
    /\ Destroy(Tail(doomed), return)
    /\ UNCHANGED <<api, members, scratchTotal, twice, refused, queue, launch, failures>>

(* deleteHandle: the handle is closed when the GPU is done with the        *)
(* object.                                                                 *)
DeleteHandle ==
    /\ pc = "destroying" /\ status[Head(doomed)] = "freed"
    /\ ~Busy(Head(doomed))
    /\ status' = [status EXCEPT ![Head(doomed)] = "closed"]
    /\ Destroy(Tail(doomed), return)
    /\ UNCHANGED <<api, members, scratchTotal, twice, refused, queue, launch, failures>>

(* A wait that fails is only logged. *)
DeleteHandleUnwaited ==
    /\ pc = "destroying" /\ status[Head(doomed)] = "freed" /\ CanFail
    /\ status' = [status EXCEPT ![Head(doomed)] = "unwaited"]
    /\ Destroy(Tail(doomed), return)
    /\ UNCHANGED <<api, members, scratchTotal, twice, refused, queue, launch>>

ReleaseBuffer(b) ==
    /\ pc = "program" /\ object[b] = "LIVE"
    /\ object' = [object EXCEPT ![b] = "RELEASED"]
    /\ Destroy(<<DataOf(b)>>, "program")
    /\ UNCHANGED <<context, deviceContext, drmContexts, persistent, execData, memory,
                   queue, launch, failures>>

(* Fault: the constant surface is a plain pointer. *)
DoomedWithKernelCodeOnly(k) == <<IsaOf(k)>>

DoomedWithKernel(k) ==
    IF k \in WithConstants THEN <<IsaOf(k), ConstantsOf(k)>> ELSE <<IsaOf(k)>>

ReleaseKernel(k) ==
    /\ pc = "program" /\ object[k] = "LIVE"
    /\ object' = [object EXCEPT ![k] = "RELEASED"]
    /\ execData' = [execData EXCEPT ![k] = {}]
    /\ Destroy(DoomedWithKernel(k), "program")
    /\ UNCHANGED <<context, deviceContext, drmContexts, persistent, memory, queue,
                   launch, failures>>

(* The destructor of the context destroys the DRM context first: "a        *)
(* non-persistent context gets destroyed immediately", and its batches     *)
(* with it. A failure is only logged (34-36), and the context stays.       *)
ReleaseContext ==
    /\ pc = "program" /\ context = "OPEN"
    /\ context' = "CLOSED"
    /\ \/ /\ drmContexts' = drmContexts - 1
          /\ queue' = IF persistent THEN queue ELSE <<>>
          /\ UNCHANGED failures
       \/ CanFail /\ UNCHANGED <<drmContexts, queue>>
    /\ Destroy(DestructionOrder, "program")
    /\ members' = {}
    /\ UNCHANGED <<deviceContext, persistent, object, execData, scratchTotal, status,
                   twice, refused, launch>>

-----------------------------------------------------------------------------
(* ExecuteKernel, once the work groups are valid. setArgBuffer put the     *)
(* arguments in execData. A null argument leaves its entry as it was: these *)
(* are the buffers kept, all of them when no other argument is a buffer.   *)
ExecuteKernel(k, args, kept) ==
    /\ pc = "program" /\ context = "OPEN" /\ object[k] = "LIVE"
    /\ \A b \in args : object[b] = "LIVE"
    /\ kept \subseteq execData[k]
    /\ args = {} => kept = execData[k]
    /\ execData' = [execData EXCEPT ![k] = args \cup kept]
    /\ pc' = "scratch"
    /\ launch' = [kernel |-> k, args |-> args]
    /\ UNCHANGED <<context, deviceContext, drmContexts, persistent, object, memory, queue,
                   doomed, return, failures>>

Return == pc' = "program" /\ launch' = NoLaunch

(* createScratchAllocation resets an allocation that is too small. *)
ResetScratch ==
    /\ pc = "scratch"
    /\ IF ScratchNeed[launch.kernel] <= scratchTotal
       THEN /\ pc' = "construct"
            /\ UNCHANGED <<members, doomed, return>>
       ELSE /\ members' = members \ {"scratch"}
            /\ Destroy(Owned("scratch"), "newScratch")
    /\ UNCHANGED <<api, scratchTotal, status, twice, refused, queue, launch, failures>>

CreateScratchAllocation ==
    /\ pc = "newScratch"
    /\ pc' = "construct"
    /\ members' = members \cup {"scratch"}
    /\ Allocated({Member("scratch")})
    /\ scratchTotal' = ScratchNeed[launch.kernel]
    /\ UNCHANGED <<api, twice, refused, queue, launch, doomed, return, failures>>

(* Fault: the pointer is not cleared by a failed allocation. *)
ScratchAllocationFailsStale ==
    /\ pc = "newScratch" /\ CanFail
    /\ Return
    /\ members' = members \cup {"scratch"}
    /\ UNCHANGED <<api, scratchTotal, status, twice, refused, queue, doomed, return>>

ScratchAllocationFails ==
    /\ pc = "newScratch" /\ CanFail
    /\ Return
    /\ UNCHANGED <<api, memory, queue, doomed, return>>

(* The heaps and streams are allocated by the first launch that gets here. *)
ConstructBufferObjects ==
    /\ pc = "construct"
    /\ pc' = "submit"
    /\ members' = members \cup {"heaps", "streams"}
    /\ Allocated({Member("heaps"), Member("streams")})
    /\ UNCHANGED <<api, scratchTotal, twice, refused, queue, launch, doomed, return, failures>>

ConstructBufferObjectsFails ==
    /\ pc = "construct" /\ CanFail
    /\ \/ /\ "heaps" \notin members
          /\ AllocatedUpTo({}, Member("heaps"))
          /\ UNCHANGED members
       \/ /\ "streams" \notin members
          /\ members' = members \cup {"heaps"}
          /\ AllocatedUpTo({Member("heaps")}, Member("streams"))
    /\ Return
    /\ UNCHANGED <<api, scratchTotal, queue, doomed, return>>

(* fillExecObject reads the handle of every object listed. What it reads   *)
(* from a released one is undefined: the handle of any open object, if its *)
(* number or the memory was taken again, or of none.                       *)
SubmitExecBuffer ==
    /\ pc = "submit"
    /\ pc' = "wait"
    /\ \E found \in [Dangling(launch.kernel) -> OpenObjects] :
         queue' = Append(queue, KernelBatch(launch.kernel, launch.args, found))
    /\ UNCHANGED <<api, memory, launch, doomed, return, failures>>

(* The kernel driver refuses a batch that lists a handle that is not open. *)
SubmitRefused ==
    /\ pc = "submit" /\ Dangling(launch.kernel) # {}
    /\ Return
    /\ UNCHANGED <<api, memory, queue, doomed, return, failures>>

SubmitFails ==
    /\ pc = "submit" /\ CanFail
    /\ Return
    /\ UNCHANGED <<api, memory, queue, doomed, return>>

(* Fault: the call returns when the batch is submitted. *)
FinishExecutionAtOnce ==
    /\ pc = "wait"
    /\ Return
    /\ UNCHANGED <<api, memory, queue, doomed, return, failures>>

(* finishExecution waits for the stream that starts the batch. *)
FinishExecution ==
    /\ pc = "wait" /\ ~Busy(Member("streams"))
    /\ Return
    /\ UNCHANGED <<api, memory, queue, doomed, return, failures>>

(* The call fails and leaves its batch behind, perhaps still queued. *)
WaitFails ==
    /\ pc = "wait" /\ CanFail
    /\ Return
    /\ queue' = [i \in DOMAIN queue |->
          [queue[i] EXCEPT !.abandoned = @ \/ Member("streams") \in queue[i].lists]]
    /\ UNCHANGED <<api, memory, doomed, return>>

(* The engine finishes the oldest batch, or a reset drops it. *)
GpuRetires ==
    /\ queue # <<>>
    /\ queue' = Tail(queue)
    /\ UNCHANGED <<api, memory, thread, failures>>

Next ==
    \/ ContextCreated \/ ContextCreationFails \/ ReleaseContext
    \/ \E b \in Buffers : CreateBuffer(b) \/ CreateBufferFails(b) \/ ReleaseBuffer(b)
    \/ \E k \in Kernels : BuildKernel(k) \/ BuildKernelFails(k) \/ ReleaseKernel(k)
    \/ FreeMemory \/ DeleteHandle \/ DeleteHandleUnwaited
    \/ \E k \in Kernels, args, kept \in SUBSET Buffers : ExecuteKernel(k, args, kept)
    \/ ResetScratch \/ CreateScratchAllocation \/ ScratchAllocationFails
    \/ ConstructBufferObjects \/ ConstructBufferObjectsFails
    \/ SubmitExecBuffer \/ SubmitRefused \/ SubmitFails
    \/ FinishExecution \/ WaitFails
    \/ GpuRetires

Spec == Init /\ [][Next]_vars

-----------------------------------------------------------------------------
(* That no batch lists Null says that no pointer of the exec buffer is     *)
(* null: fillExecObject dereferences all of them.                          *)
TypeOK ==
    /\ context \in {"NONE", "LOST", "OPEN", "CLOSED"}
    /\ deviceContext \in BOOLEAN /\ persistent \in BOOLEAN
    /\ drmContexts \in Nat
    /\ object \in [Buffers \cup Kernels -> {"NEW", "LIVE", "LOST", "RELEASED"}]
    /\ execData \in [Kernels -> SUBSET Buffers]
    /\ members \subseteq ContextMembers
    /\ scratchTotal \in Nat
    /\ status \in [Objects -> {"none", "live", "freed", "closed", "unwaited"}]
    /\ twice \subseteq Objects /\ refused \subseteq Objects
    /\ \A i \in DOMAIN queue :
         /\ queue[i].lists \subseteq Objects
         /\ queue[i].fetches \subseteq queue[i].lists
         /\ queue[i].abandoned \in BOOLEAN
    /\ pc \in {"program", "destroying", "scratch", "newScratch", "construct",
               "submit", "wait"}
    /\ pc = "program" => launch = NoLaunch
    /\ (pc = "destroying") = (doomed # <<>>)
    /\ Range(doomed) \subseteq Objects
    /\ failures \in 0..MaxFailures

(***************************************************************************)
(* The destructor frees memory before it waits for the GPU (55-62), and    *)
(* the batch that pins a buffer is not waited for (buffer.cpp:41). Still,  *)
(* whatever a batch fetches is there as long as the batch may run, unless  *)
(* ExecuteKernel returned an error after giving up its wait, or the        *)
(* context is closed and the kernel driver finishes its batches or did not *)
(* destroy it.                                                             *)
(***************************************************************************)
Outlived == context = "CLOSED" /\ (persistent \/ drmContexts > 0)

FetchedMemoryLives ==
    \A i \in DOMAIN queue :
        ~queue[i].abandoned /\ ~Outlived =>
            \A o \in queue[i].fetches : status[o] = "live"

(* The kernel driver never holds a batch that lists an object whose handle *)
(* was closed meanwhile, in any order of launches and releases, also for   *)
(* batches that were given up or list a wrong object ("Make sure the BO    *)
(* isn't used anymore", 60), unless the wait of the destructor itself      *)
(* failed. What it refuses to take is in LaunchesListLiveBuffers.          *)
HandlesOutliveBatches ==
    \A i \in DOMAIN queue : \A o \in queue[i].lists :
        status[o] \in {"live", "freed", "unwaited"}

(* A launch gives the kernel driver no buffer that was released: the       *)
(* destructor closed its handle only after making "sure the BO isn't used  *)
(* anymore" (60). Not so: the code keeps the buffer of an argument that is *)
(* null now (kernel.cpp:791), lists it (845) and reads it (890).           *)
LaunchesListLiveBuffers == pc = "submit" => Dangling(launch.kernel) = {}

(* A kernel that can be launched has a system routine, although only the   *)
(* first BuildKernel of a context allocates it and that call may have      *)
(* failed before, at or after it (gpgpu_api.cpp:78); every launch reads    *)
(* its address (807) and lists it (862).                                   *)
LaunchableKernelsHaveSip ==
    context = "OPEN" /\ (\E k \in Kernels : object[k] = "LIVE") =>
        "sip" \in members /\ status[Member("sip")] = "live"

(* Between calls, memory that is not released belongs to an object that    *)
(* the program can still release, or to one whose creation failed: these   *)
(* leak (gpgpu_api.cpp 53-58, 72-87 and 106-108), and nothing else.        *)
Owner(o) ==
    \/ \E m \in members : o = Member(m) /\ context \in {"OPEN", "LOST"}
    \/ \E b \in Buffers : o = DataOf(b) /\ object[b] \in {"LIVE", "LOST"}
    \/ \E k \in Kernels : o \in KernelMembers(k) /\ object[k] \in {"LIVE", "LOST"}

OnlyFailedCreationsLeak ==
    pc = "program" => \A o \in Objects : status[o] \in {"live", "freed"} => Owner(o)

(* At most one context per device is open in the kernel driver, also after *)
(* a creation that failed half way, which is why device->context must be   *)
(* set first (gpgpu_api.cpp:52).                                           *)
OneContextPerDevice == drmContexts <= 1

(* Memory is freed and a handle closed twice only for an object that the   *)
(* address heap refused (137-141).                                         *)
DestroyedOnce == twice \subseteq refused
=============================================================================
