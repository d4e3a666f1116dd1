----------------------------- MODULE Dispatcher -----------------------------
(***************************************************************************)
(* One context (CommandDispatcherGen9) executing kernels: the stages of    *)
(* ExecuteKernel in the calling thread, and the GPU, which runs what the   *)
(* kernel driver queued while the thread goes on.                          *)
(*                                                                         *)
(* Every call appends a block to each of five heaps - surface state (ssh), *)
(* indirect object (ioh), dynamic state (dsh), the task command stream and *)
(* the command stream receiver (csr) - and the blocks point at each other: *)
(*                                                                         *)
(*   batch -> csr block -> task block -> interface descriptor (dsh)        *)
(*                                   |         -> binding table (ssh)      *)
(*                                   -> indirect data (ioh)                *)
(*                                                                         *)
(* A pointer is computed from the cursor of the other heap at the moment   *)
(* it is written. A heap is a set of blocks; writing over part of a block  *)
(* destroys it. Addresses are offsets into the buffer object of the heap.  *)
(* A block carries the number of the ExecuteKernel call that wrote it,     *)
(* which the hardware does not see.                                        *)
(***************************************************************************)
EXTENDS GpuCommands, LaunchGrid, Sequences, FiniteSets

CONSTANTS
    Kernels,         \* kernels a program has built for this context
    KernelInfo,      \* what the patch tokens say of them
    NoKernel,        \* model value: CommandDispatcher::kernel is nullptr
    ComputeUnits,    \* hardware threads that need scratch space, see createScratchAllocation
    MaxExecutions,   \* bound: number of ExecuteKernel calls
    MaxFailures      \* bound: number of failing ioctls, allocations and GPU resets

Heaps  == {"ssh", "ioh", "dsh", "task", "csr"}
Stages == {"scratch", "newScratch"} \cup Heaps \cup {"submit", "finish"}

HeapBytes == 16 * PageSize

(***************************************************************************)
(* The part of KernelFromPatchtokens that the dispatcher reads. bindings   *)
(* is the number of binding table entries, table their offset in the       *)
(* surface state heap of sshSize bytes that the compiler emitted; scratch  *)
(* is zero for a kernel without a media VFE state token.                   *)
(***************************************************************************)
KernelData ==
    [required : RequiredSizes, simd : {1, 8, 16, 32}, channels : 0..3,
     crossThread : Nat, bindings : Nat, sshSize : Nat, table : Nat,
     scratch : Nat, slm : Nat]

(* The compiler lays the binding table out behind the surface states. *)
CompilerLayout(info) ==
    /\ info.table = info.bindings * RENDER_SURFACE_STATE_Size
    /\ info.sshSize = info.table + info.bindings * BINDING_TABLE_STATE_Size

ASSUME DispatcherAssumption ==
    /\ NoKernel \notin Kernels
    /\ KernelInfo \in [Kernels -> KernelData]
    /\ \A k \in Kernels : CompilerLayout(KernelInfo[k])
    /\ ComputeUnits \in Nat \ {0}
    /\ MaxExecutions \in Nat
    /\ MaxFailures \in Nat

VARIABLES
    pc,              \* stage of ExecuteKernel the calling thread is in, or "idle"
    result,          \* what the latest call returned, "NONE" while it runs
    call,            \* number of the latest call
    failures,        \* failures so far, for the bound
    failuresBefore,  \* failures before the latest call started, or only logged by it
    kernel,          \* CommandDispatcher::kernel
    grid,            \* workItemsPerWorkGroup, globalWorkItems, numWorkGroups
    payload,         \* hwThreadsPerWorkGroup and the sizes of the indirect data
    allocated,       \* heaps whose buffer object exists
    offset,          \* BufferObject::offset of each heap
    taskOffset,      \* BufferObject::currentTaskOffset of the command streams
    mem,             \* blocks in each heap
    slm,             \* CommandDispatcher::sharedLocalMemorySize
    scratch,         \* size of scratchAllocation, zero for nullptr
    scratchTotal,    \* currentScratchSpaceTotal
    perThreadScratchSpace,
    completionTag,   \* CommandDispatcher::completionTag
    tag,             \* the value in the tag buffer
    queue,           \* batches the kernel driver holds, oldest first
    ran              \* calls whose batch the GPU ran to its end

control   == <<pc, result, call, failures, failuresBefore>>
request   == <<kernel, grid>>
heaps     == <<allocated, offset, taskOffset, mem>>
scratches == <<scratch, scratchTotal, perThreadScratchSpace>>
device    == <<tag, queue, ran>>
vars == <<control, request, payload, heaps, slm, scratches, completionTag, device>>

Info == KernelInfo[kernel]

-----------------------------------------------------------------------------
(* Blocks and memory *)

Block(lo, hi, cmd) == [lo |-> lo, hi |-> hi, call |-> call, cmd |-> cmd]

(* Storing bytes lo .. end-1 destroys the blocks they touch. *)
Write(blocks, end, block) ==
    {b \in blocks : b.hi <= block.lo \/ end <= b.lo} \cup {block}

(* Fault: the surface state heap is filled from its first byte. *)
CursorFromZero(h) == IF h \in allocated THEN offset[h] ELSE 0

(* The cursor of a heap; the first 64 bytes of the surface state heap stay free. *)
Cursor(h) ==
    IF h \in allocated THEN offset[h]
    ELSE IF h = "ssh" THEN RENDER_SURFACE_STATE_Size ELSE 0

Advance(h, to) ==
    /\ allocated' = allocated \cup {h}
    /\ offset' = [offset EXCEPT ![h] = to]

(* What is found at an address, and behind the start of a batch. *)
At(h, address) == {b \in mem[h] : b.lo = address}

CsrOf(batch)  == {c \in At("csr", batch.start) : c.hi = batch.start + batch.length}
TaskOf(batch) == UNION {At("task", c.cmd.task) : c \in CsrOf(batch)}

(* Hardware threads of one work group and the bytes of its indirect data. *)
HwThreads(info, items) == (info.simd + Volume(items) - 1) \div info.simd

LocalIdBytes(info) ==
    (IF info.simd = 32 THEN 2 ELSE 1) * GRFSize
        * (IF info.simd = 1 THEN 1 ELSE info.channels)

(* The generator stores three channels for every thread, present or not. *)
GeneratedBytes(info, items) ==
    IF info.simd = 1 THEN Volume(items) * GRFSize
    ELSE HwThreads(info, items) * 3 * (IF info.simd = 32 THEN 64 ELSE 32)

PayloadOf(info, items) ==
    [threads |-> HwThreads(info, items),
     crossThread |-> info.crossThread,
     perThread |-> HwThreads(info, items) * LocalIdBytes(info),
     idSize |-> IF LocalIdBytes(info) < GRFSize THEN GRFSize ELSE LocalIdBytes(info)]

IndirectLength == AlignUp(payload.crossThread + payload.perThread, CacheLineSize)

(* Scratch space of a kernel, and what one kernel adds to the power-of-two  *)
(* code of PerThreadScratchSpace (below the hardware's two megabytes).     *)
RequiredScratch(info) == AlignUp(info.scratch * ComputeUnits, PageSize)

ScratchLevels(bytes) ==
    Cardinality({i \in 1..11 : (bytes \div KiloByte) \div (2 ^ i) > 0})

-----------------------------------------------------------------------------
(* Leaving ExecuteKernel *)

Proceed(from, to) ==
    /\ pc = from
    /\ pc' = to
    /\ UNCHANGED <<result, call, failures, failuresBefore>>

Leave(from, code) ==
    /\ pc = from
    /\ pc' = "idle"
    /\ result' = code
    /\ UNCHANGED <<call, failuresBefore>>

Fail(from, code) ==
    /\ failures < MaxFailures
    /\ failures' = failures + 1
    /\ Leave(from, code)

-----------------------------------------------------------------------------
(* The calling thread *)

Init ==
    /\ pc = "idle" /\ result = "NONE" /\ call = 0 /\ failures = 0 /\ failuresBefore = 0
    /\ kernel = NoKernel /\ grid = InitialGrid
    /\ payload = [threads |-> 0, crossThread |-> 0, perThread |-> 0, idSize |-> 0]
    /\ allocated = {}
    /\ offset = [h \in Heaps |-> 0]
    /\ taskOffset = [h \in {"task", "csr"} |-> 0]
    /\ mem = [h \in Heaps |-> {}]
    /\ slm = 0
    /\ scratch = 0 /\ scratchTotal = 0 /\ perThreadScratchSpace = 0
    /\ completionTag = 0 /\ tag = 0
    /\ queue = <<>>
    /\ ran = {}

(* ExecuteKernel up to the end of validateWorkGroups. *)
ExecuteKernel(k, req) ==
    /\ pc = "idle"
    /\ call < MaxExecutions
    /\ call' = call + 1
    /\ failuresBefore' = failures
    /\ kernel' = k
    /\ grid' = ValidatedGrid(grid, req, KernelInfo[k].required)
    /\ LET code == ValidationCode(req, KernelInfo[k].required)
       IN  IF code = "SUCCESS" THEN pc' = "scratch" /\ result' = "NONE"
                               ELSE pc' = "idle" /\ result' = code
    /\ UNCHANGED <<failures, payload, heaps, slm, scratches, completionTag, device>>

(* createScratchAllocation: grow-only. *)
KeepScratch ==
    /\ Proceed("scratch", "ssh")
    /\ RequiredScratch(Info) <= scratchTotal
    /\ UNCHANGED scratches

(* The batch lists the present scratch allocation: each is larger than all *)
(* before it.                                                              *)
ListsScratch(batch) ==
    scratch # 0 /\ \E c \in CsrOf(batch) : c.cmd.scratch = scratch

(* Fault: the thread polls the tag instead of waiting for the buffer. *)
ResetScratchPolling ==
    /\ Proceed("scratch", "newScratch")
    /\ RequiredScratch(Info) > scratchTotal
    /\ scratch = 0 \/ tag = completionTag
    /\ scratch' = 0
    /\ UNCHANGED <<scratchTotal, perThreadScratchSpace>>

(* An allocation that is too small goes first. Its destructor waits,       *)
(* without a timeout, for the batches that list it, which earlier calls    *)
(* may have given up.                                                      *)
ResetScratch ==
    /\ Proceed("scratch", "newScratch")
    /\ RequiredScratch(Info) > scratchTotal
    /\ \A i \in DOMAIN queue : ~ListsScratch(queue[i])
    /\ scratch' = 0
    /\ UNCHANGED <<scratchTotal, perThreadScratchSpace>>

(* The wait of the destructor fails: logged, and not a failure of the call. *)
ResetScratchUnwaited ==
    /\ pc = "scratch" /\ pc' = "newScratch"
    /\ RequiredScratch(Info) > scratchTotal
    /\ scratch # 0 /\ scratch' = 0
    /\ failures < MaxFailures
    /\ failures' = failures + 1 /\ failuresBefore' = failuresBefore + 1
    /\ UNCHANGED <<result, call, scratchTotal, perThreadScratchSpace>>

(* Fault: the new size is not recorded. *)
GrowScratchUnrecorded ==
    /\ Proceed("newScratch", "ssh")
    /\ scratch' = RequiredScratch(Info)
    /\ perThreadScratchSpace' = perThreadScratchSpace + ScratchLevels(Info.scratch)
    /\ UNCHANGED scratchTotal

GrowScratch ==
    /\ Proceed("newScratch", "ssh")
    /\ scratch' = RequiredScratch(Info)
    /\ scratchTotal' = RequiredScratch(Info)
    /\ perThreadScratchSpace' = perThreadScratchSpace + ScratchLevels(Info.scratch)

LoseScratch ==
    /\ Fail("newScratch", "BUFFER_ALLOCATION_FAILED")
    /\ UNCHANGED scratches

CreateScratchAllocation ==
    /\ \/ KeepScratch \/ ResetScratch \/ ResetScratchUnwaited
       \/ GrowScratch \/ LoseScratch
    /\ UNCHANGED <<request, payload, heaps, slm, completionTag, device>>

(* The buffer object of a heap is allocated by the first call that needs it. *)
HeapAllocationFails(h) ==
    /\ h \notin allocated
    /\ Fail(h, "BUFFER_ALLOCATION_FAILED")
    /\ UNCHANGED <<request, payload, heaps, slm, scratches, completionTag, device>>

CreateSurfaceStateHeap ==
    LET lo == Cursor("ssh")
        hi == AlignUp(lo + Info.bindings * RENDER_SURFACE_STATE_Size
                         + Info.bindings * BINDING_TABLE_STATE_Size, CacheLineSize)
    IN  /\ Proceed("ssh", "ioh")
        /\ IF Info.bindings = 0
           THEN Advance("ssh", lo) /\ UNCHANGED mem
           ELSE /\ Advance("ssh", hi)
                /\ mem' = [mem EXCEPT !["ssh"] =
                     Write(@, lo + Info.sshSize,
                           Block(lo, hi, [kernel |-> kernel, table |-> lo + Info.table]))]
        /\ UNCHANGED <<request, payload, taskOffset, slm, scratches, completionTag, device>>

(* Fault: the cursor is not moved past the local ids. *)
CreateIndirectObjectHeapShort ==
    LET lo == Cursor("ioh")
        ids == lo + Info.crossThread
        next == PayloadOf(Info, grid.items)
        hi == AlignUp(ids + next.perThread, CacheLineSize)
    IN  /\ Proceed("ioh", "dsh")
        /\ payload' = next
        /\ Advance("ioh", AlignUp(ids, CacheLineSize))
        /\ mem' = [mem EXCEPT !["ioh"] =
             Write(@, ids + GeneratedBytes(Info, grid.items),
                   Block(lo, hi, [kernel |-> kernel, grid |-> grid]))]
        /\ UNCHANGED <<request, taskOffset, slm, scratches, completionTag, device>>

CreateIndirectObjectHeap ==
    LET lo == Cursor("ioh")
        ids == lo + Info.crossThread
        next == PayloadOf(Info, grid.items)
        hi == AlignUp(ids + next.perThread, CacheLineSize)
    IN  /\ Proceed("ioh", "dsh")
        /\ payload' = next
        /\ Advance("ioh", hi)
        /\ mem' = [mem EXCEPT !["ioh"] =
             Write(@, ids + GeneratedBytes(Info, grid.items),
                   Block(lo, hi, [kernel |-> kernel, grid |-> grid]))]
        /\ UNCHANGED <<request, taskOffset, slm, scratches, completionTag, device>>

CreateDynamicStateHeap ==
    LET lo == Cursor("dsh")
        hi == AlignUp(lo + INTERFACE_DESCRIPTOR_DATA_Size, CacheLineSize)
    IN  /\ Proceed("dsh", "task")
        /\ slm' = AlignUp(Info.slm, KiloByte)
        /\ Advance("dsh", hi)
        /\ mem' = [mem EXCEPT !["dsh"] =
             Write(@, lo + INTERFACE_DESCRIPTOR_DATA_Size,
                   Block(lo, hi, [kernel |-> kernel, threads |-> payload.threads,
                                  table |-> offset["ssh"] - CacheLineSize,
                                  slm |-> slm' > 0]))]
        /\ UNCHANGED <<request, payload, taskOffset, scratches, completionTag, device>>

(* Fault: currentTaskOffset is not reset before a stream is appended. *)
AppendStreamNoReset(h, bytes, cmd) ==
    LET lo == Cursor(h)
        hi == AlignUp(lo + bytes, CacheLineSize)
    IN  /\ Advance(h, hi)
        /\ taskOffset' = [taskOffset EXCEPT ![h] = @ + hi - lo]
        /\ mem' = [mem EXCEPT ![h] = Write(@, hi, Block(lo, hi, cmd))]

(* Fault: the stream is padded to two cache lines. *)
AppendStreamWide(h, bytes, cmd) ==
    LET lo == Cursor(h)
        hi == AlignUp(lo + bytes, 2 * CacheLineSize)
    IN  /\ Advance(h, hi)
        /\ taskOffset' = [taskOffset EXCEPT ![h] = hi - lo]
        /\ mem' = [mem EXCEPT ![h] = Write(@, hi, Block(lo, hi, cmd))]

(* Appends a stream of the given length and pads it to a cache line. *)
AppendStream(h, bytes, cmd) ==
    LET lo == Cursor(h)
        hi == AlignUp(lo + bytes, CacheLineSize)
    IN  /\ Advance(h, hi)
        /\ taskOffset' = [taskOffset EXCEPT ![h] = hi - lo]
        /\ mem' = [mem EXCEPT ![h] = Write(@, hi, Block(lo, hi, cmd))]

(* The commands of the task stream, for the tag its last command writes. *)
TaskStream(immediate) ==
    [descriptor |-> offset["dsh"] - AlignUp(INTERFACE_DESCRIPTOR_DATA_Size, CacheLineSize),
     indirect |-> offset["ioh"] - IndirectLength,
     length |-> IndirectLength,
     width |-> ThreadWidthField(payload.threads - 1),
     groups |-> grid.groups,
     tag |-> immediate]

(* Fault: the command takes the tag before it is incremented. *)
CreateCommandStreamTaskOldTag ==
    /\ Proceed("task", "csr")
    /\ completionTag' = completionTag + 1
    /\ AppendStream("task", TaskBytes, TaskStream(completionTag))
    /\ UNCHANGED <<request, payload, slm, scratches, device>>

(* Fault: the tag is not incremented. *)
CreateCommandStreamTaskSameTag ==
    /\ Proceed("task", "csr")
    /\ AppendStream("task", TaskBytes, TaskStream(completionTag))
    /\ UNCHANGED <<request, payload, slm, scratches, completionTag, device>>

CreateCommandStreamTask ==
    /\ Proceed("task", "csr")
    /\ completionTag' = completionTag + 1
    /\ AppendStream("task", TaskBytes, TaskStream(completionTag'))
    /\ UNCHANGED <<request, payload, slm, scratches, device>>

CreateCommandStreamReceiver ==
    /\ Proceed("csr", "submit")
    /\ AppendStream("csr", CsrBytes,
         [task |-> offset["task"] - taskOffset["task"],
          scratch |-> scratch,
          perThread |-> perThreadScratchSpace,
          slm |-> slm > 0])
    /\ UNCHANGED <<request, payload, slm, scratches, completionTag, device>>

(* populateAndSubmitExecBuffer: DRM_IOCTL_I915_GEM_EXECBUFFER2. *)
SubmitExecBuffer ==
    /\ Proceed("submit", "finish")
    /\ queue' = Append(queue, [call |-> call,
                               start |-> offset["csr"] - taskOffset["csr"],
                               length |-> AlignUp(taskOffset["csr"], 8)])
    /\ UNCHANGED <<request, payload, heaps, slm, scratches, completionTag, tag, ran>>

SubmitFails ==
    /\ Fail("submit", "GEM_EXECBUFFER_FAILED")
    /\ UNCHANGED <<request, payload, heaps, slm, scratches, completionTag, device>>

(* Fault: the tag is not looked at after the wait. *)
FinishExecutionUnchecked ==
    /\ queue = <<>>
    /\ Leave("finish", "SUCCESS")
    /\ UNCHANGED <<failures, request, payload, heaps, slm, scratches, completionTag, device>>

(* finishExecution: the wait returns when no batch that uses the csr buffer is left. *)
FinishExecution ==
    /\ queue = <<>>
    /\ Leave("finish", IF tag = completionTag THEN "SUCCESS" ELSE "POST_SYNC_OPERATION_FAILED")
    /\ UNCHANGED <<failures, request, payload, heaps, slm, scratches, completionTag, device>>

(* Fault: the code of a failed submission is returned for a failed wait. *)
WaitFailsAsSubmission ==
    /\ Fail("finish", "GEM_EXECBUFFER_FAILED")
    /\ UNCHANGED <<request, payload, heaps, slm, scratches, completionTag, device>>

WaitFails ==
    /\ Fail("finish", "POST_SYNC_OPERATION_FAILED")
    /\ UNCHANGED <<request, payload, heaps, slm, scratches, completionTag, device>>

-----------------------------------------------------------------------------
(***************************************************************************)
(* The GPU behind the kernel driver. A batch reads the csr block at its    *)
(* start address, follows the batch buffer start to a task block, and ends *)
(* by writing the tag of that block. A batch that hangs is dropped by a    *)
(* reset of the engine: it retires without writing its tag.                *)
(***************************************************************************)
GpuRunsBatch ==
    /\ queue # <<>>
    /\ \E t \in TaskOf(Head(queue)) : tag' = t.cmd.tag
    /\ ran' = ran \cup {Head(queue).call}
    /\ queue' = Tail(queue)
    /\ UNCHANGED <<control, request, payload, heaps, slm, scratches, completionTag>>

GpuResets ==
    /\ queue # <<>>
    /\ failures < MaxFailures
    /\ failures' = failures + 1
    /\ queue' = Tail(queue)
    /\ UNCHANGED <<pc, result, call, failuresBefore, request, payload, heaps, slm, scratches, completionTag,
                   tag, ran>>

-----------------------------------------------------------------------------
Stage ==
    \/ CreateScratchAllocation
    \/ \E h \in Heaps : HeapAllocationFails(h)
    \/ CreateSurfaceStateHeap
    \/ CreateIndirectObjectHeap
    \/ CreateDynamicStateHeap
    \/ CreateCommandStreamTask
    \/ CreateCommandStreamReceiver
    \/ SubmitExecBuffer
    \/ SubmitFails
    \/ FinishExecution
    \/ WaitFails

Gpu == GpuRunsBatch \/ GpuResets

Next ==
    \/ \E k \in Kernels, req \in Requests : ExecuteKernel(k, req)
    \/ Stage
    \/ Gpu

Spec == Init /\ [][Next]_vars

(* The thread runs on, and the engine runs or is reset: hang check of the kernel driver. *)
FairSpec == Spec /\ WF_vars(Stage) /\ WF_vars(Gpu)

-----------------------------------------------------------------------------
SurfaceTable == [kernel : Kernels, table : Nat]
IndirectData == [kernel : Kernels, grid : Grid]
Descriptor   == [kernel : Kernels, threads : Nat, table : Nat, slm : BOOLEAN]
TaskCommands == [descriptor : Nat, indirect : Nat, length : Nat, width : 0..63,
                 groups : Sizes, tag : Nat]
CsrCommands  == [task : Nat, scratch : Nat, perThread : Nat, slm : BOOLEAN]

Batches == [call : Nat, start : Nat, length : Nat]

Blocks(cmds) == [lo : Nat, hi : Nat, call : Nat, cmd : cmds]

Codes == {"NONE", "SUCCESS", "UNSUPPORTED_HARDWARE", "INVALID_WORK_SIZE",
          "INVALID_WORK_GROUP_SIZE", "BUFFER_ALLOCATION_FAILED",
          "GEM_EXECBUFFER_FAILED", "POST_SYNC_OPERATION_FAILED"}

TypeOK ==
    /\ pc \in Stages \cup {"idle"}
    /\ result \in Codes
    /\ call \in Nat /\ failures \in Nat /\ failuresBefore \in Nat
    /\ kernel \in Kernels \cup {NoKernel}
    /\ pc # "idle" => kernel \in Kernels
    /\ grid \in Grid
    /\ payload \in [threads : Nat, crossThread : Nat, perThread : Nat, idSize : Nat]
    /\ allocated \subseteq Heaps
    /\ offset \in [Heaps -> Nat]
    /\ taskOffset \in [{"task", "csr"} -> Nat]
    /\ DOMAIN mem = Heaps
    /\ mem["ssh"]  \subseteq Blocks(SurfaceTable)
    /\ mem["ioh"]  \subseteq Blocks(IndirectData)
    /\ mem["dsh"]  \subseteq Blocks(Descriptor)
    /\ mem["task"] \subseteq Blocks(TaskCommands)
    /\ mem["csr"]  \subseteq Blocks(CsrCommands)
    /\ slm \in Nat
    /\ scratch \in Nat /\ scratchTotal \in Nat /\ perThreadScratchSpace \in Nat
    /\ completionTag \in Nat /\ tag \in Nat
    /\ queue \in Seq(Batches)
    /\ ran \subseteq Nat

(***************************************************************************)
(* What the GPU finds when it follows the pointers of a batch: every block *)
(* was written by the call that submitted the batch, for the same kernel   *)
(* and the same grid; the binding table is found where the descriptor says *)
(* it is, as long as it fits the one cache line that createDynamicStateHeap*)
(* looks back.                                                             *)
(***************************************************************************)
TableFits(info) ==
    info.bindings \in 1..(CacheLineSize \div BINDING_TABLE_STATE_Size)

Coherent(batch) ==
    \E c \in CsrOf(batch) : \E t \in At("task", c.cmd.task) :
    \E d \in At("dsh", t.cmd.descriptor), i \in At("ioh", t.cmd.indirect) :
        LET info == KernelInfo[d.cmd.kernel]
        IN  /\ \A b \in {c, t, d, i} : b.call = batch.call
            /\ i.cmd.kernel = d.cmd.kernel
            /\ i.hi = i.lo + t.cmd.length
            /\ i.cmd.grid.groups = t.cmd.groups
            /\ d.cmd.threads = HwThreads(info, i.cmd.grid.items)
            /\ d.cmd.threads \in 1..64 => t.cmd.width + 1 = d.cmd.threads
            /\ d.cmd.slm = (info.slm > 0) /\ c.cmd.slm = d.cmd.slm
            /\ TableFits(info) =>
                 \E s \in mem["ssh"] : /\ s.call = batch.call
                                       /\ s.cmd.kernel = d.cmd.kernel
                                       /\ s.cmd.table = d.cmd.table

(* Whatever failed before and whatever the thread is building meanwhile,   *)
(* every batch that the GPU may still read is coherent. Left out are the   *)
(* binding table of more than sixteen entries, which does not begin in the *)
(* cache line looked back to, and the thread width of groups of more than  *)
(* sixty-four threads, which its six bits do not hold.                     *)
InFlightCoherent == \A i \in DOMAIN queue : Coherent(queue[i])

(* No step of a later call writes over a block of an earlier one: heaps    *)
(* are append-only, which is what allows a call that gave up waiting to    *)
(* leave its batch running.                                                *)
BlocksSurvive == [][\A h \in Heaps : mem[h] \subseteq mem'[h]]_vars

(* ExecuteKernel returns SUCCESS only if the GPU ran this very batch to    *)
(* its end; a batch dropped by a reset, or the tag of another batch, is    *)
(* never taken for it.                                                     *)
SuccessMeansRan == result = "SUCCESS" => call \in ran

(* A call during which nothing failed does not report a failure, whatever  *)
(* earlier calls left behind.                                              *)
NoSpuriousFailure ==
    result \in {"BUFFER_ALLOCATION_FAILED", "GEM_EXECBUFFER_FAILED",
                "POST_SYNC_OPERATION_FAILED"} => failures > failuresBefore

(* A batch runs at most once, in the order of submission, and writes a tag *)
(* that no other batch and no earlier value of the buffer can be mistaken  *)
(* for.                                                                    *)
TagsIdentifyBatches ==
    /\ tag <= completionTag
    /\ \A i \in DOMAIN queue : \A t \in TaskOf(queue[i]) :
         /\ tag < t.cmd.tag
         /\ queue[i].call \notin ran
         /\ \A j \in DOMAIN queue : \A u \in TaskOf(queue[j]) :
              i < j => t.cmd.tag < u.cmd.tag

(* The scratch accounting: a live allocation has the recorded size, and    *)
(* once the scratch stage is passed that size is enough for the kernel.    *)
ScratchAccounted ==
    /\ scratch # 0 => scratch = scratchTotal
    /\ pc \in Stages \ {"scratch", "newScratch"} => RequiredScratch(Info) <= scratchTotal

(* Private memory is available: a kernel that needs scratch space finds an  *)
(* allocation of at least that size behind the media VFE state of its      *)
(* batch ("Support for all address space qualifiers (global, constant,     *)
(* local, private)", README.md:7).                                         *)
ScratchAvailable ==
    \A i \in DOMAIN queue : \A c \in CsrOf(queue[i]) :
    \A t \in At("task", c.cmd.task) : \A d \in At("dsh", t.cmd.descriptor) :
        RequiredScratch(KernelInfo[d.cmd.kernel]) <= c.cmd.scratch

(* The private memory that PerThreadScratchSpace lets the hardware threads *)
(* use, a power of two of kilobytes for each of them, is within the        *)
(* scratch allocation (same promise).                                      *)
PerThreadScratchFits ==
    \A i \in DOMAIN queue : \A c \in CsrOf(queue[i]) :
        c.cmd.scratch # 0 =>
            ComputeUnits * KiloByte * 2 ^ c.cmd.perThread <= c.cmd.scratch

(* Nothing is written beyond the end of a heap's buffer object, which no   *)
(* stage looks at, in the calls the run is bounded to; the local ids may   *)
(* take more than the cursor is moved by.                                  *)
BlocksInsideHeap ==
    /\ \A h \in Heaps : \A b \in mem[h] : b.hi <= HeapBytes
    /\ \A b \in mem["ioh"] :
         LET info == KernelInfo[b.cmd.kernel]
         IN  b.lo + info.crossThread + GeneratedBytes(info, b.cmd.grid.items) <= HeapBytes

(***************************************************************************)
(* Dispatcher implements KernelLaunch. The job of a batch is what the GPU  *)
(* finds by following its pointers through the heaps as they are now: the  *)
(* kernel of the descriptor, the kernel and the grid that the indirect     *)
(* data was written for, and the groups the walker starts. What the call   *)
(* asked for is the grid that validateWorkGroups left, with the sizes of   *)
(* earlier calls in dimensions the request does not name.                  *)
(***************************************************************************)
Job(descriptorKernel, dataKernel, sizes, groups) ==
    [descriptorKernel |-> descriptorKernel, dataKernel |-> dataKernel,
     sizes |-> sizes, groups |-> groups]

AllJobs == [descriptorKernel : Kernels, dataKernel : Kernels, sizes : Grid, groups : Sizes]

JobsFound(batch) ==
    UNION {UNION {{Job(d.cmd.kernel, i.cmd.kernel, i.cmd.grid, t.cmd.groups) :
                      d \in At("dsh", t.cmd.descriptor), i \in At("ioh", t.cmd.indirect)} :
                  t \in At("task", c.cmd.task)} :
           c \in CsrOf(batch)}

PhaseOf ==
    CASE pc = "finish" -> "launched"
      [] pc \in Stages \ {"finish"} -> "running"
      [] pc = "idle" /\ result = "NONE" -> "none"
      [] pc = "idle" /\ result = "SUCCESS" -> "succeeded"
      [] pc = "idle" /\ result = "POST_SYNC_OPERATION_FAILED" -> "unknown"
      [] OTHER -> "failed"

Abstract == INSTANCE KernelLaunch WITH
    Jobs <- AllJobs, NoJob <- NoKernel,
    latest <- call, phase <- PhaseOf,
    asked <- IF pc = "idle" THEN NoKernel ELSE Job(kernel, kernel, grid, grid.groups),
    pending <- [n \in DOMAIN queue |-> [call |-> queue[n].call, jobs |-> JobsFound(queue[n])]]

ImplementsKernelLaunch == Abstract!Spec

(* Every call returns. It waits without a timeout in two places: for its   *)
(* batch, and before scratch space is replaced for batches that earlier    *)
(* calls gave up. Neither waits for something that cannot come.            *)
CallReturns == (pc # "idle") ~> (pc = "idle")
=============================================================================
