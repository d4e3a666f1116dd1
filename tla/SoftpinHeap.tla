---------------------------- MODULE SoftpinHeap ----------------------------
(***************************************************************************)
(* The heap of GPU addresses of one device (HeapAllocator in device.h):    *)
(* kernel code and indirect data must lie within four gigabytes above a    *)
(* base address that the hardware adds to the offsets in its commands.     *)
(* Regions are cut off downwards from the right bound. Addresses are       *)
(* computed in 48 bits and handed out in canonical form, the highest bit   *)
(* extended to 64.                                                         *)
(*                                                                         *)
(* The width of an address and the size of the heap are constants, so that *)
(* TLC can count that far; in the code they are the ones in brackets.      *)
(***************************************************************************)
EXTENDS GpuCommands

CONSTANTS
    Objects,         \* buffer objects a program has at a time
    ObjectSizes,     \* BufferObject::size
    GttSizes,        \* what I915_CONTEXT_PARAM_GTT_SIZE may answer
    HalfRange,       \* half of the GPU's address range [2^47]
    Word,            \* values of a uint64_t [2^64]
    GraphicsHeapSize \* gfxHeapSize [2^32]

MegaByte    == 1024 * KiloByte
PageSize64k == 64 * KiloByte

ASSUME SoftpinAssumption ==
    /\ ObjectSizes \subseteq Nat \ {0}
    /\ GttSizes \subseteq Nat
    /\ HalfRange \in Nat /\ Word \in Nat /\ GraphicsHeapSize \in Nat
    /\ HalfRange % PageSize = 0 /\ GraphicsHeapSize % PageSize = 0
    /\ GraphicsHeapSize > MegaByte + PageSize64k
    /\ 2 * GraphicsHeapSize <= HalfRange
    /\ HalfRange > 0 /\ Word > 0 /\ Word % (2 * HalfRange) = 0

VARIABLES
    status,          \* what initHeapAllocatorForSoftpinning returned, "NONE" before
    gpuBaseAddress, pLeftBound, pRightBound, availableSize, allocatedSize,
    regions,         \* address and size of the softpinned objects that exist
    answer           \* the latest allocation and whether it succeeded

heap == <<gpuBaseAddress, pLeftBound, pRightBound, availableSize, allocatedSize>>
vars == <<status, heap, regions, answer>>

-----------------------------------------------------------------------------
Canonize(address) ==
    IF address < HalfRange THEN address ELSE address + (Word - 2 * HalfRange)

Decanonize(address) == address % (2 * HalfRange)

(* Difference of two uint64_t. *)
Minus(a, b) == IF a >= b THEN a - b ELSE a - b + Word

-----------------------------------------------------------------------------
Init ==
    /\ status = "NONE"
    /\ gpuBaseAddress = 0 /\ pLeftBound = 0 /\ pRightBound = 0
    /\ availableSize = 0 /\ allocatedSize = 0
    /\ regions = {}
    /\ answer = [length |-> 0, granted |-> FALSE]

(* The early returns of initHeapAllocatorForSoftpinning. *)
HeapAllocatorFails ==
    /\ status = "NONE"
    /\ \/ status' \in {"QUERY_FAILED", "SOFTPIN_NOT_SUPPORTED"}
       \/ \E size \in GttSizes \ {2 * HalfRange} : status' = "UNSUPPORTED_HARDWARE"
    /\ UNCHANGED <<heap, regions, answer>>

(* Only an address space of 48 bits is accepted. *)
InitHeapAllocatorForSoftpinning ==
    /\ status = "NONE"
    /\ 2 * HalfRange \in GttSizes
    /\ status' = "SUCCESS"
    /\ gpuBaseAddress' = HalfRange + GraphicsHeapSize
    /\ pLeftBound' = gpuBaseAddress' + MegaByte
    /\ pRightBound' = gpuBaseAddress' + GraphicsHeapSize - PageSize64k
    /\ availableSize' = pRightBound' - pLeftBound'
    /\ allocatedSize' = 0
    /\ UNCHANGED <<regions, answer>>

(* Fault: the base address is handed out as it was computed. *)
AllocateRawBase(bo, size) ==
    LET sizeToAllocate == AlignUp(size, PageSize)
    IN  /\ status = "SUCCESS"
        /\ \A r \in regions : r.object # bo
        /\ pLeftBound + sizeToAllocate <= pRightBound
        /\ pRightBound' = pRightBound - sizeToAllocate
        /\ availableSize' = availableSize - sizeToAllocate
        /\ allocatedSize' = allocatedSize + sizeToAllocate
        /\ regions' = regions \cup
             {[object |-> bo, size |-> size,
               gpuAddress |-> Canonize(pRightBound'),
               gpuBaseAddress |-> gpuBaseAddress]}
        /\ answer' = [length |-> size, granted |-> TRUE]
        /\ UNCHANGED <<status, gpuBaseAddress, pLeftBound>>

(* Fault: the left bound is not looked at. *)
AllocateUnbounded(bo, size) ==
    LET sizeToAllocate == AlignUp(size, PageSize)
    IN  /\ status = "SUCCESS"
        /\ \A r \in regions : r.object # bo
        /\ pRightBound' = pRightBound - sizeToAllocate
        /\ availableSize' = availableSize - sizeToAllocate
        /\ allocatedSize' = allocatedSize + sizeToAllocate
        /\ regions' = regions \cup
             {[object |-> bo, size |-> size,
               gpuAddress |-> Canonize(pRightBound'),
               gpuBaseAddress |-> Canonize(gpuBaseAddress)]}
        /\ answer' = [length |-> size, granted |-> TRUE]
        /\ UNCHANGED <<status, gpuBaseAddress, pLeftBound>>

(* allocateBufferObject for a buffer type that needs the graphics base address. *)
AllocateHeapMemoryForSoftpinning(bo, size) ==
    LET sizeToAllocate == AlignUp(size, PageSize)
    IN  /\ status = "SUCCESS"
        /\ \A r \in regions : r.object # bo
        /\ pLeftBound + sizeToAllocate <= pRightBound
        /\ pRightBound' = pRightBound - sizeToAllocate
        /\ availableSize' = availableSize - sizeToAllocate
        /\ allocatedSize' = allocatedSize + sizeToAllocate
        /\ regions' = regions \cup
             {[object |-> bo, size |-> size,
               gpuAddress |-> Canonize(pRightBound'),
               gpuBaseAddress |-> Canonize(gpuBaseAddress)]}
        /\ answer' = [length |-> size, granted |-> TRUE]
        /\ UNCHANGED <<status, gpuBaseAddress, pLeftBound>>

(* BUFFER_ALLOCATION_FAILED: the window is used up. *)
HeapExhausted(size) ==
    /\ status = "SUCCESS"
    /\ pLeftBound + AlignUp(size, PageSize) > pRightBound
    /\ answer' = [length |-> size, granted |-> FALSE]
    /\ UNCHANGED <<status, heap, regions>>

(* Fault: the space of a released object is given back to the right bound. *)
ReleaseReturningSpace(bo) ==
    /\ \E r \in regions :
         /\ r.object = bo
         /\ pRightBound' = pRightBound + AlignUp(r.size, PageSize)
         /\ availableSize' = availableSize + AlignUp(r.size, PageSize)
         /\ allocatedSize' = allocatedSize - AlignUp(r.size, PageSize)
    /\ regions' = {r \in regions : r.object # bo}
    /\ UNCHANGED <<status, gpuBaseAddress, pLeftBound, answer>>

(* The destructor of a buffer object leaves the heap as it is. *)
ReleaseBufferObject(bo) ==
    /\ \E r \in regions : r.object = bo
    /\ regions' = {r \in regions : r.object # bo}
    /\ UNCHANGED <<status, heap, answer>>

Next ==
    \/ HeapAllocatorFails
    \/ InitHeapAllocatorForSoftpinning
    \/ \E bo \in Objects, size \in ObjectSizes : AllocateHeapMemoryForSoftpinning(bo, size)
    \/ \E size \in ObjectSizes : HeapExhausted(size)
    \/ \E bo \in Objects : ReleaseBufferObject(bo)

Spec == Init /\ [][Next]_vars

-----------------------------------------------------------------------------
Statuses == {"NONE", "SUCCESS", "QUERY_FAILED", "SOFTPIN_NOT_SUPPORTED",
             "UNSUPPORTED_HARDWARE"}

TypeOK ==
    /\ status \in Statuses
    /\ gpuBaseAddress \in Nat /\ pLeftBound \in Nat /\ pRightBound \in Nat
    /\ availableSize \in Nat /\ allocatedSize \in Nat
    /\ regions \subseteq [object : Objects, size : ObjectSizes,
                          gpuAddress : Nat, gpuBaseAddress : Nat]
    /\ answer \in [length : Nat, granted : BOOLEAN]

(***************************************************************************)
(* Commands name a softpinned object by its offset from the base address:  *)
(* gpuAddress - gpuBaseAddress in createDynamicStateHeap, in               *)
(* createCommandStreamTask and for the SIP kernel, with the base address   *)
(* in STATE_BASE_ADDRESS. The last two keep 32 bits of it. The offset is   *)
(* positive, the whole object lies below four gigabytes ("a positive       *)
(* offset from the Graphics Base Address", device.cpp:343), and base plus  *)
(* offset is where the object is.                                          *)
(***************************************************************************)
OffsetsReachObjects ==
    \A r \in regions :
        LET offset == Minus(r.gpuAddress, r.gpuBaseAddress)
        IN  /\ offset > 0
            /\ offset + r.size <= GraphicsHeapSize
            /\ Decanonize(r.gpuBaseAddress) + offset = Decanonize(r.gpuAddress)

(* The promise of the heap: live regions are disjoint, aligned and inside  *)
(* the window, and allocation fails only when all that was ever handed out *)
(* leaves no room ("You would need to allocate 4 GB of memory",            *)
(* device.cpp:387).                                                        *)
Bounds == [Low |-> HalfRange + GraphicsHeapSize + MegaByte,
           High |-> HalfRange + 2 * GraphicsHeapSize - PageSize64k]

Placed ==
    {[object |-> r.object,
      lo |-> Decanonize(r.gpuAddress),
      hi |-> Decanonize(r.gpuAddress) + AlignUp(r.size, PageSize)] : r \in regions}

Promise == INSTANCE AddressSpace WITH
    Low <- Bounds.Low, High <- Bounds.High, Page <- PageSize, Lengths <- ObjectSizes,
    live <- Placed, handedOut <- allocatedSize

ImplementsAddressSpace == Promise!Spec
=============================================================================
