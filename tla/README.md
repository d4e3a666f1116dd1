# A TLA+ model of gpgpu-intel

gpgpu-intel is a userspace driver that runs compute kernels on Intel GPUs
(`src/driver`, C++). A program creates a context on a device, builds kernels and
buffers for it, sets kernel arguments and calls `ExecuteKernel`, which writes a
batch buffer, submits it to the i915 kernel driver and waits for the GPU. This
directory holds a specification of that driver, the TLC configurations that
check it and proofs that TLAPS checks.

## Inventory

| part | state it keeps | operations | made correct by |
|---|---|---|---|
| Launch grid (`validateWorkGroups`) | three arrays of sizes that survive the call | validate, assign | an accepted call launches what it asked for; no division by zero |
| Command dispatcher, Gen9 (`commandDispatcherGen9.cpp`) | five heaps with cursors, scratch allocation and its accounting, tag counter | the stages of `ExecuteKernel` | the GPU finds consistent blocks; heaps only grow; results tell the truth; calls return |
| Local id generator (446-542) | none | SIMD and scalar variant | every work item of a group gets its id once |
| Kernel arguments (`kernel.cpp` 714-807) | set marks, cross thread data, surface states, resident buffers, local memory size | set argument, reset marks | what is referenced is resident; the first acceptable call counts; local arguments do not overlap |
| Buffer objects (`BufferObject`, `buffer.cpp`) | host memory, i915 handle, GPU address | allocate, pin, release | memory and handle outlive their use by the GPU |
| API objects (`gpgpu_api.cpp`) | one context per device, ownership of objects | create, build, release | released once, nothing else leaks, a launchable kernel has all it needs |
| Softpin heap (`device.cpp` 335-392) | bounds of a 4 GB address window | initialise, allocate | regions are disjoint, inside the window, at offsets that reach them |
| GPU and i915 | queue of batches, tag buffer, busy objects | run a batch, reset the engine, wait | external |
| Patch token decoder (`kernel.cpp` 384-617) | pointers into the kernel binary | decode, validate | not modelled, see below |
| Device discovery (`device.cpp`) | hardware description | a chain of ioctls | not modelled: early returns without state |
| Compiler interface, hardware tables, ioctl declarations, Xe2 skeleton | - | - | not modelled: no logic, or not finished |

How they interact: `ExecuteKernel` runs synchronously in the calling thread; the
only concurrency is between that thread and the GPU, through the queue of the
kernel driver, the memory of the heaps and the tag buffer. Everything fails by an
early return that leaves the members of the context as they are, so the next
call meets what the failed one left. A wait that fails returns while the batch
is still in the queue. `CreateBuffer` submits a batch and does not wait at all.
Destructors free memory and wait for the GPU afterwards; one of them runs inside
`ExecuteKernel`, when scratch space is replaced by more (331). The list of what is hard
to test is in `PROJECT.json` under `hazards`, each with its line.

## Modules

- `GpuCommands` - sizes of the commands and indirect states, `AlignUp`, the
  width of the thread counter of the walker.
- `LaunchGrid` - `ValidationCode` and `ValidatedGrid`: the error code of
  `validateWorkGroups` and the arrays it leaves, as pure operators. The loop is
  stated by the set of dimensions it rejects; `Accepted` and `Assigned` are the
  dimensions it reaches before it stops.
- `WorkGroups` - one context and a sequence of `ExecuteKernel` calls that only
  validate; `deepest` remembers which dimensions a call ever named.
- `Dispatcher` - one action per stage of `ExecuteKernel`, with the GPU and its
  resets as actions of their own. It EXTENDS the two modules above.
- `KernelLaunch` - abstract: a launch reaches the GPU as one job, runs at most
  once and as it was asked for; success means it ran, an error that nothing was
  submitted, an error of the wait that it may or may not run. `Dispatcher`
  implements it (`ImplementsKernelLaunch`).
- `LocalIds` - the two generators, one action per loop, with the arithmetic that
  the compiler makes of the vector types, and the execution mask of the walker.
- `KernelArgs` - one kernel object over `SetKernelArg`, `ExecuteKernel` and
  `ReleaseBuffer`.
- `Lifetimes` - contexts, kernels and buffers of one device with the memory they
  own, creations that fail at every stage, destructors step by step, launches as
  far as they concern memory, and the GPU.
- `AddressSpace` - abstract: an allocator that hands out disjoint pages of a
  window and refuses only when what was ever handed out leaves no room.
- `SoftpinHeap` - `HeapAllocator` of `device.h`, which implements it
  (`ImplementsAddressSpace`).
- `MCWorkGroups`, `MCDispatcher`, `MCLocalIds`, `MCKernelArgs`, `MCLifetimes` -
  values of the constants; those of `SoftpinHeap` are in its `.cfg`.
- `LaunchGridProofs`, `WorkGroupsProofs`, `DispatcherProofs`,
  `DispatcherResultProofs`, `SoftpinHeapProofs`, `KernelArgsProofs`,
  `LifetimesProofs`, `LocalIdsProofs` - theorems.

What `KernelLaunch` calls asked for is the grid as `validateWorkGroups` left it, so
sizes of an earlier call that were kept are part of what was asked. Whether the grid
is the caller's request is a question of its own, `GridIsTheRequest` in `WorkGroups`.

`KernelLaunch` and `AddressSpace` translate no code, they state what the code
promises; the definitions of the other modules name their lines in `PROJECT.json`.

Operators whose comment begins with `Fault:` are mutated forms of the definition
that follows them. They are not part of the specification; a property is worth
its run because TLC finds it violated when the fault takes the definition's place.

### Dispatcher and the code

| variable | code |
|---|---|
| `pc`, `result`, `call` | the stage of `ExecuteKernel` (`gpgpu_api.cpp` 127-151, `constructBufferObjects`), its return value, a call counter |
| `kernel`, `grid` | `kernel` and the three size arrays |
| `payload` | `hwThreadsPerWorkGroup`, `crossThreadDataSize`, `perThreadDataSize`, `localIDSizePerThread` |
| `allocated`, `offset`, `taskOffset` | the five `unique_ptr`s to buffer objects, their `offset` and `currentTaskOffset` |
| `mem` | contents of the buffer objects, as blocks with an extent and the pointers in them |
| `slm`, `scratch`, `scratchTotal`, `perThreadScratchSpace`, `completionTag` | the members of the same names |
| `queue`, `tag`, `ran` | batches in i915, the value in the tag buffer, the calls whose batch ran |
| `failures`, `failuresBefore` | for the bound, and to tell which call failed |

Each action is one function, with the allocation of its heap as the alternative
that fails (`HeapAllocationFails`). A heap is a set of blocks; `Write` removes
the blocks it touches, so that overlap is visible. The cursor is moved by the
code's own arithmetic on the sizes of the real structures. Pointers are kept as
offsets in a buffer object: base addresses are constant as long as the context
lives. Stage `scratch` decides, and if the allocation is too small releases it: that
waits for every queued batch that lists it (`ResetScratch`), or the wait fails and is
only logged (`ResetScratchUnwaited`); stage `newScratch` allocates. What the GPU reads is found by following the pointers (`CsrOf`, `TaskOf`,
`Coherent`), never from the call number that blocks carry for the properties.

`ImplementsKernelLaunch` maps the state of the dispatcher to a launch: its phase is
the stage of the call, and the job of a queued batch is what the GPU finds in the
heaps *now*, by following the pointers from the batch (`JobsFound`). A heap that
were written over, a wrong pointer or a result that says too much is a step that
`KernelLaunch` does not have.

### KernelArgs and the code

`argIsSet`, `crossThreadData`, `surfaceState`, `execData` and
`sharedLocalMemorySize` are the members of those names, indexed by argument;
`firstValid`, `refused` and `localSize` remember the calls for the properties. A
value argument has two elements, so that short sizes copy only a part. The offset
of a local argument is read back through a `char*`: `SignedChar`.

### Lifetimes and the code

| variable | code |
|---|---|
| `context`, `deviceContext` | what the program has of its context; `device->context` is not null |
| `drmContexts`, `persistent` | contexts of i915; whether i915 finishes the batches of a closed one |
| `object` | what the program has of each buffer and kernel |
| `execData` | the buffers in `execData` of each kernel, by pointer: also those behind an argument that is null now, and those released |
| `members`, `scratchTotal` | the `unique_ptr` members of the context that are not null; `currentScratchSpaceTotal` |
| `status` | of a buffer object: memory and handle exist, memory freed, handle closed, or closed after a wait that failed |
| `twice`, `refused` | buffer objects destroyed twice; those the address heap had no room for |
| `queue` | batches with the objects they list, those they fetch from, and whether the call that submitted them gave up |
| `pc`, `launch`, `doomed`, `return` | the calling thread: in the program, in a stage of `ExecuteKernel`, or in a destructor with these objects to go |

The three heaps are one object and the two streams another, since they are
allocated and destroyed together or not at all for the properties; the device is
one with mid-thread preemption, where the system routine is listed (861-863).
A batch that pins a buffer lists the buffer and fetches only the batch itself.
A launch lists all of `execData`. For a buffer that was released `fillExecObject`
reads a handle from freed memory: `SubmitExecBuffer` lets it name any open object,
`SubmitRefused` none, and i915 takes no batch with a handle that is not open. When
the destruction of the DRM context fails, `drmContexts` and `queue` stay as they are
and the members are destroyed all the same.

### LocalIds and the code

`__m128i` and `__m256i` are vectors of `long long` in `utils.h` (11-12), so the
operators `>=`, `-=` and `+=` of the template act on lanes of four ids:
`GreaterEqual`, `Minus` and `Plus` say so, `Borrow` and `Carry` being what one
element of a lane takes from or hands to the next. The model was compared with the compiled
functions on thirteen work groups, right and wrong ones alike, and agrees on every
stored id.

## Runs

| run | asks | bounds |
|---|---|---|
| `WorkGroups` | is the grid of an accepted call what it asked for, after any calls before it | 18 requests: sizes that divide and do not, a zero at every position, no work, null pointers, 0 and 4 dimensions; two kernels, one with a required size; any number of calls |
| `WorkGroupsStale` (violation) | is it the whole grid it asked for | the same |
| `Dispatcher` | coherence, append-only heaps, truthful results, tags, scratch accounting; does it keep the promise of `KernelLaunch`; does every call return | 3 calls, 4 kernels (16, 17, 3 and no bindings; SIMD 1, 8, 16, 32; one, three or no channels of local ids; with and without scratch and local memory), 3 requests, 2 failures, fairness |
| `DispatcherCapacity` | how many calls fit | 204 calls of one kernel, the number at which the command stream receiver (320 bytes a call) is full |
| `DispatcherScratchLost` (violation) | does a kernel with private memory get scratch space | 3 calls, 1 failure |
| `DispatcherScratchCode` (violation) | does the scratch allocation cover what the hardware is told | 2 calls |
| `SoftpinHeap` | are addresses disjoint, reachable by offset, and refused only when used up | three objects of 40 and 100 pages in a window of 240 pages, so that it fills after two to six allocations and releases happen between them; 23-bit addresses in 26-bit words |
| `LocalIds` | has every work item its id, once; does the generator end | 80 groups of all four SIMD sizes: rows that end inside a pass, a thread or a lane, several rows and planes, full groups |
| `LocalIdsAnySize` (violation) | also when x is no multiple of four | the groups of the vector generator |
| `KernelArgs` | which call counts, what is resident, where local arguments lie | kernels with two buffers, a value and a buffer, two local arguments around a value; five local sizes around the sign bit of a byte; two buffers, two values; four local calls, so that both arguments are set in two launches |
| `Lifetimes` | does memory outlive its use, what leaks, what is destroyed twice | two buffers, two kernels (one with constants and more scratch), two failures, every order of calls |
| `LifetimesReleased` (violation) | does a launch list only buffers that the program has not released | the same, without failures |

The bounds of `Dispatcher` are enough for the cases that matter: a third call
builds while a first and a second are in the queue (the second failure makes the
first call give up its wait and a reset or a second lost wait hits the other),
every heap is allocated late because of an earlier failure, and every kernel can
follow every other, with a larger or smaller need of scratch: the third call replaces
the scratch space that the batch of a call that gave up still lists. TLC's deadlock check
is off where a program that makes no more calls stops.

Two failures in `Lifetimes` reach what one cannot: a wait given up and then a
scratch allocation that fails, a build that finds the address heap full and later
a second one. Each object is created at most once, so a run is a program that
creates two buffers and two kernels and uses them in every order; the queue is
bounded by that too, except for launches given up, of which there are at most two.
The buffers are interchangeable (`SYMMETRY`): no definition tells them apart. In
`KernelArgs` the local calls are bounded because `sharedLocalMemorySize` only
grows; all else is finite.

Fairness (`FairSpec`): the calling thread is scheduled (`WF(Stage)`), and the
engine runs the oldest batch or i915's hang check resets it (`WF(Gpu)`).
`ExecuteKernel` blocks in two places, both without a timeout: in `finishExecution`
for its own batch, and in the destructor of a scratch allocation that is replaced,
for batches that earlier calls gave up. Without the second fairness condition a call
need not return from either; i915 enables the hang check unless configured otherwise.
Calls are never forced.
The generator of local ids is a loop of the calling thread: `WF(Next)`.

### What the runs found

- A call with fewer dimensions than an earlier one on the context, accepted or
  rejected half way, launches the earlier sizes in the dimensions it does not name
  (`commandDispatcherGen9.cpp` 268-292); `GridIsTheRequest`.
- A failed scratch allocation leaves `currentScratchSpaceTotal` at the size of the
  allocation that was released; a later kernel that needs no more runs without
  scratch (331-335); `ScratchAvailable`. `ScratchAccounted` is what does hold.
- `perThreadScratchSpace` adds up over kernels (338-340); `PerThreadScratchFits`.
- The vectors of the local id generator hold `long long`s (`utils.h` 11-12), so ids
  are compared and subtracted four at a time. Groups whose x is a multiple of four
  are right (`IdsOfWholeLanes`), others are not (`IdsOfAnyGroup`; 6 x 2 x 2 with
  SIMD 8). The run shows the vector generator. The scalar one has the bounds of x and
  z exchanged (530-537) and is right only when they are equal; `IdsOfWholeLanes` is
  limited to that case for SIMD 1.
- An argument that is set to null keeps its earlier buffer in `execData`
  (`kernel.cpp` 791). When that buffer has been released, the next launch reads the
  freed `BufferObject` (890) and hands i915 a handle that was closed;
  `LaunchesListLiveBuffers`. A batch that i915 takes all the same never outlives a
  handle it lists (`HandlesOutliveBatches`).

The last call that fits (`DispatcherCapacity`) is the limit the repository's
README names in its to-do list; nothing in the code notices it.

What holds, and under which conditions, says as much. Two local arguments never
overlap and are always covered (`LocalArgsDisjoint`, `LocalArgsCovered`), in every
order and although their offset is read as one byte: the sum that
`sharedLocalMemorySize` becomes over the launches reserves too much, not too little.
The repository's README lists "There is an issue with local memory when running
kernels in a loop" (line 62, and a comment at `kernel.cpp` 749) without saying which:
with two local arguments it is neither an overlap nor too little memory. What does
happen in a loop is that the size grows with every launch, past what the hardware has.
A refused argument can shut out the corrected call, and only that
(`FirstValidCallCounts`). Memory freed before the wait of its destructor is never
read by the GPU (`FetchedMemoryLives`), because `ExecuteKernel` has waited already
and a pin batch fetches nothing from its buffer; the exceptions are a launch whose
wait failed and a closed context that i915 keeps running or did not destroy. The address heap running full is
the only way to free memory twice (`DestroyedOnce`), and a creation that fails the
only way to lose it (`OnlyFailedCreationsLeak`).

## Proofs

TLAPS checks the following for every value of the constants: any kernels, requests,
buffers and sizes, any number of calls and of failures, every width of an address.
Every safety property that a passing run checks is a theorem, and so are both
refinements.

| module | theorems about properties | under |
|---|---|---|
| `WorkGroupsProofs` | `TypeOK`, `RequestedDimensionsExact`, `UntouchedDimensionsAreOne`, `GroupsAreBounded` | - |
| `DispatcherProofs` | `TypeOK`, `InFlightCoherent`, `BlocksSurvive`, `ScratchAccounted` | - |
| `DispatcherProofs` | `BlocksInsideHeap` | `CallsFit` |
| `DispatcherResultProofs` | `TagsIdentifyBatches`, `SuccessMeansRan`, `NoSpuriousFailure` | - |
| `DispatcherResultProofs` | `ImplementsKernelLaunch` | `CrossThreadData` |
| `SoftpinHeapProofs` | `TypeOK`, `OffsetsReachObjects`, `ImplementsAddressSpace` | - |
| `KernelArgsProofs` | `FirstValidCallCounts`, `ResidentWhatIsReferenced` | - |
| `KernelArgsProofs` | `TypeOK`, `LocalArgsDisjoint`, `LocalArgsCovered` | `AtMostTwoLocals` |
| `LifetimesProofs` | `TypeOK`, `FetchedMemoryLives`, `HandlesOutliveBatches`, `LaunchableKernelsHaveSip`, `OnlyFailedCreationsLeak`, `OneContextPerDevice`, `DestroyedOnce` | - |
| `LocalIdsProofs` | `TypeOK`, `IdsOfWholeLanes` | - |

The three conditions of the last column are about constants, and needed:

- `CallsFit`: each heap has room for as many calls as there are, every one counted
  with the kernel and the work group that take most. The code checks nothing of the
  kind, so something has to be said of the calls. A work group may be made of sizes
  of several requests (`GridIsTheRequest` is violated), which `Groups` allows for.
  Without a condition on kernels, `StreamsHold204Calls` says that the streams
  and the dynamic state heap hold any 204 calls. With its 204 calls of `vecadd`
  the run `DispatcherCapacity` satisfies `CallsFit`.
- `CrossThreadData`: every kernel has cross thread data. A kernel with none and no
  local ids would get an empty block of indirect data at the address of the next
  call's; the GPU reads nothing there, but the job found would be two.
- `AtMostTwoLocals`: of three local arguments two may overlap (a hazard listed at
  `kernel.cpp` 763).

Assumptions on constants are types and what the code's values satisfy:
`CompilerLayout`, that the graphics compiler puts the binding table behind the
surface states; in `Lifetimes` that no buffer is a kernel, and that null is no object
(`NullAssumption`); in `LocalIds` at most 1024 work items in a dimension
(`LaunchesAssumption`), so that ids fit sixteen bits; in `SoftpinHeap` powers of two
large enough for each other (`SoftpinAssumption`). The bounds `MaxExecutions`,
`MaxFailures` and `MaxCalls` are any natural numbers.

### Dispatcher

The invariant of `WorkGroups` is inductive because no rejected call stores a zero
local size.

`InFlightCoherent` speaks of submitted batches and says nothing of the one being
built, so it is not inductive. `DispatcherInv` adds

- `Layout`: every cursor is a multiple of a cache line and above every block of
  its heap, and an unallocated heap is empty (so a write never touches a block:
  lemma `AppendBlock`);
- for each stage the call has passed, the block it wrote and the address at which
  the later stages will look for it: `TableReady`, `IndirectReady`,
  `DescriptorReady`, `TaskReady`, `ReceiverReady`. These relate the cursor at the
  time of writing to the look back of the later stage (`TableAt`, `IndirectAt`,
  `DescriptorAt`, `StreamAt`).

`CoherentSurvives` says that a coherent batch stays coherent when blocks are
added, so with append-only heaps no later call can disturb it; a new batch is
coherent by the five facts (`SubmitExecBufferStep`). `TableInLastLine` is where
the limit of sixteen bindings enters.

`CapacityInv` bounds a cursor by the number of calls that may have written to its
heap, `Spent`, which counts the present call only from the stage of that heap on: a
call that fails early has used less than a complete one, never more, and a retry
after a failed allocation starts at the same place.

`ResultInv` (in `DispatcherResultProofs`) is about which batch is whose:

- `Separate`: the blocks of a stream are not empty and begin at different addresses,
  so what the GPU finds at an address is one block;
- `TaskOrder`: a later call has a higher tag, and every tag is at most
  `completionTag`;
- `QueueOrder`: batches are queued in the order of calls, and what ran came before;
- `TagSource`: the value in the tag buffer is zero or was written by a batch that
  ran; `FinishPending`: while a call waits, its batch is queued, or its tag is
  written, or something failed.

With an empty queue, a tag equal to `completionTag` can only come from the batch of
this call (`SuccessMeansRan`), and any other tag means that the batch was lost to a
failure during the call (`NoSpuriousFailure`). For the refinement `DataInv` extends
`Separate` to the descriptors and the indirect data, where `CrossThreadData` is
needed; then the job of a queued batch is one (`JobsSurvive`), it does not change while
later calls build, and each step of the dispatcher is the step of `KernelLaunch` of
the same meaning or a stutter.

### The address heap

`HeapInv` of `SoftpinHeapProofs` says where the bounds of the heap are once it is
set up (`allocatedSize` is what `pRightBound` came down by), that every region lies
between `pRightBound` and the high end of the window, at page boundaries and in
canonical form, and that no two regions share an address. The first part makes
a new region, cut off below all others, disjoint from them; `CanonicalRoundTrip` is
the fact about canonical addresses, for every width. For `AddressSpace` the step that
allocates, refuses or releases is the step of the same name, and the initialisation
is a stutter.

### KernelArgs

`ArgsInv` adds that marks and calls agree (`MarkInv`): a marked argument has had an
acceptable call or a refused one, and an acceptable call leaves its argument marked.
The buffers listed need no strengthening: one handler sets the surface, the pointer
and the exec data of an argument, and null alone leaves the last as it was.

`LocalInv` says of two local arguments that the first is at offset zero, the second at
the size of the first, rounded up, and that `sharedLocalMemorySize` reaches to the end
of both and is past the second's offset in whole kilobytes. That last part is what
makes up for the offset that is read as a signed character: a negative reading falls
short of the offset by no more than the distance to the next multiple of 256, and
the sum has been rounded up further than that when the first argument was set.

### Lifetimes

`LifeInv` relates what points to memory and the state of that memory:

- `ContextInv`, `LaunchInv`: which members exist in which phase; what a call in
  progress uses is not released before it returns, for calls and destructors
  share the thread;
- `HeldInv`: what the program or a member points to is allocated;
- `DoomedInv`: the list of a destructor names each object once, nothing on it is
  pointed to any more, and only the first can be half destroyed;
- `OwnedInv`: the converse of `HeldInv`; what is allocated is pointed to, on that
  list, or was left by a failed creation;
- `QueueInv`: what a batch lists is allocated, or freed while its destructor waits,
  or its wait failed; what is fetched beyond the pinning objects belongs to the call
  that waits, or to one that gave up; without an open context there are batches only
  of one that i915 has kept (`Outlived`).

`HeldInv` and `DoomedInv` together give `DestroyedOnce`, `OwnedInv` gives
`OnlyFailedCreationsLeak`, and `QueueInv` the two properties of memory and handles.
A launch that lists a released buffer keeps `QueueInv` because i915 takes only open
handles, and an open object is allocated or its destructor is still to come; that
launches list no such buffer is what does not hold (`LifetimesReleased`).

### LocalIds

`LocalIdInv` says of a group whose rows fill whole lanes (or, for SIMD 1, whose x and
z are equal) that

- the x of the four elements of a lane count up from a multiple of four, y and z
  are the same for all four (`InLanes`); so no comparison, and no borrow of a
  subtraction, tells the elements of a lane apart (`AlignedComparison`,
  `PlusElements`, `MinusElements`);
- `Place`, x + X (y + Y z), of the ids of a channel is thread * simd + pass *
  channels + element: a wrap round takes X from x and adds one to y, or takes Y from
  y and adds one to z, and keeps the place (`WrapElements`);
- every channel of the passes and threads done is stored, with the ids of its place.

When the generator is done, `Place` is a bijection between the enabled channels and
the work items, which is `IdsOfWholeLanes`; that each id occurs once follows by
counting. `IdsOfAnyGroup` fails where the first part does.

### Only model-checked

The liveness properties `CallReturns` and `GenerationEnds`: fairness and ENABLED are
outside of what the prover handles. `GenerationEnds` is known for the 80 groups of its
run and for no others. The five properties that are violated are shown by
counterexample.

## What is not modelled

- Contents of surface states and of the constants patched into the cross thread
  data, and fields of commands that only configure the hardware. 32-bit wrap of
  `completionTag` and of sizes, 64-bit wrap of the product of the local sizes (280).
- The binding table of a kernel with more than sixteen entries: the descriptor points
  to its last cache line (559), so the table is not found; and the thread width of
  groups of more than 64 hardware threads (628). `InFlightCoherent` leaves both out.
- In `Dispatcher` a kernel is what its patch tokens say; that arguments change its
  local memory size is in `KernelArgs`, and its buffer objects are in `Lifetimes`.
- The patch token decoder and the calls into the compiler: the decoder is one pass
  over a list that the compiler wrote, without interaction; what a build allocates
  and where it fails is in `Lifetimes`. Local memory that a kernel declares itself,
  beside local arguments, is not in `KernelArgs`.
- Device discovery, `CreateDevices` and `ReleaseDevices`: ioctls with early returns.
  Several devices, which share the compiler interfaces.
- Use by the program of objects after their release; the driver's own, of a buffer in
  `execData`, is modelled, but not that reading it may end the process, nor what i915
  makes of an object that is listed twice or at another address. Kernels and buffers
  of another context, null handles. Several threads in one context: the code has no locks and no promise
  about them.
- That i915 ends the batches of a non-persistent context with the context is taken
  from the comment at `commandDispatcherGen9.cpp` 176-179.
- The Xe2 dispatcher (a skeleton), example programs, scripts and the generated HTML
  pages with their JavaScript.

## Plan

1. `PatchTokens`: the order in which tokens create and overwrite arguments
   (`kernel.cpp` 384-563).
2. `KernelArgs` with three local arguments, as a violation of what holds of two;
   several devices in `Lifetimes`, which share the compiler interfaces.
3. 32-bit wrap of `completionTag` and of the sizes in the heaps.
