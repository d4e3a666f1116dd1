-------------------------- MODULE DispatcherProofs --------------------------
(***************************************************************************)
(* What holds of Dispatcher for every set of kernels, every launch request *)
(* and every number of calls and failures.                                 *)
(*                                                                         *)
(* InFlightCoherent is not inductive: it says nothing of the call that is  *)
(* being built. The strengthening DispatcherInv adds where each heap's     *)
(* cursor stands relative to its blocks (Layout) and, for every stage the  *)
(* call has passed, the block it has written and where the later stages    *)
(* will look for it (TableReady to ReceiverReady). The last part counts    *)
(* how much of each heap the calls have used (CapacityInv).                *)
(***************************************************************************)
EXTENDS Dispatcher, LaunchGridProofs, FiniteSetTheorems, SequenceTheorems

(* Heaps are filled from the bottom: whatever is at or above the cursor is *)
(* free, and the cursor is at the beginning of a cache line.               *)
Layout ==
    \A h \in Heaps :
        /\ offset[h] % CacheLineSize = 0
        /\ h \in allocated => (h = "ssh" => offset[h] >= CacheLineSize)
        /\ h \notin allocated => mem[h] = {}
        /\ \A b \in mem[h] : b.hi <= offset[h]

AfterSsh  == {"ioh", "dsh", "task", "csr", "submit", "finish"}
AfterIoh  == {"dsh", "task", "csr", "submit", "finish"}
AfterDsh  == {"task", "csr", "submit", "finish"}
AfterTask == {"csr", "submit", "finish"}
AfterCsr  == {"submit", "finish"}

TableAt    == offset["ssh"] - CacheLineSize
IndirectAt == offset["ioh"] - IndirectLength
DescriptorAt == offset["dsh"] - AlignUp(INTERFACE_DESCRIPTOR_DATA_Size, CacheLineSize)
StreamAt(h) == offset[h] - taskOffset[h]

TableReady ==
    pc \in AfterSsh =>
        /\ "ssh" \in allocated
        /\ TableFits(Info) =>
             \E s \in mem["ssh"] : /\ s.call = call
                                   /\ s.cmd.kernel = kernel
                                   /\ s.cmd.table = TableAt

IndirectReady ==
    pc \in AfterIoh =>
        /\ payload = PayloadOf(Info, grid.items)
        /\ \E i \in mem["ioh"] : /\ i.call = call
                                 /\ i.lo = IndirectAt /\ i.hi = offset["ioh"]
                                 /\ i.cmd = [kernel |-> kernel, grid |-> grid]

DescriptorReady ==
    pc \in AfterDsh =>
        /\ slm = AlignUp(Info.slm, KiloByte)
        /\ \E d \in mem["dsh"] : /\ d.call = call
                                 /\ d.lo = DescriptorAt
                                 /\ d.cmd = [kernel |-> kernel, threads |-> payload.threads,
                                             table |-> TableAt, slm |-> slm > 0]

TaskReady ==
    pc \in AfterTask =>
        \E t \in mem["task"] : /\ t.call = call
                               /\ t.lo = StreamAt("task")
                               /\ t.cmd = TaskStream(completionTag)

ReceiverReady ==
    pc \in AfterCsr =>
        /\ taskOffset["csr"] % CacheLineSize = 0
        /\ \E c \in mem["csr"] : /\ c.call = call
                                 /\ c.lo = StreamAt("csr") /\ c.hi = offset["csr"]
                                 /\ c.cmd.task = StreamAt("task")
                                 /\ c.cmd.slm = (slm > 0)

DispatcherInv ==
    /\ TypeOK
    /\ Layout
    /\ TableReady /\ IndirectReady /\ DescriptorReady /\ TaskReady /\ ReceiverReady
    /\ InFlightCoherent

-----------------------------------------------------------------------------
(* Arithmetic *)

LEMMA Subtract ==
    \A a, b \in Nat : \A c : c = a + b => c - a = b /\ c - b = a
  OBVIOUS

LEMMA LineUp ==
    ASSUME NEW n \in Nat
    PROVE  /\ AlignUp(n, CacheLineSize) \in Nat
           /\ AlignUp(n, CacheLineSize) >= n
           /\ AlignUp(n, CacheLineSize) % CacheLineSize = 0
  BY DEF AlignUp, CacheLineSize

LEMMA LineUpShift ==
    ASSUME NEW lo \in Nat, lo % CacheLineSize = 0, NEW n \in Nat
    PROVE  AlignUp(lo + n, CacheLineSize) = lo + AlignUp(n, CacheLineSize)
  BY DEF AlignUp, CacheLineSize

LEMMA EightUp ==
    ASSUME NEW n \in Nat, n % CacheLineSize = 0
    PROVE  AlignUp(n, 8) = n
  BY DEF AlignUp, CacheLineSize

LEMMA KiloUp ==
    ASSUME NEW n \in Nat
    PROVE  /\ AlignUp(n, KiloByte) \in Nat
           /\ AlignUp(n, KiloByte) > 0 <=> n > 0
  BY DEF AlignUp, KiloByte

LEMMA PageUp ==
    ASSUME NEW n \in Nat
    PROVE  AlignUp(n, PageSize) \in Nat
  BY DEF AlignUp, PageSize, KiloByte

LEMMA TaskLength == TaskBytes \in Nat
  BY DEF TaskBytes, MEDIA_STATE_FLUSH_Size, MEDIA_INTERFACE_DESCRIPTOR_LOAD_Size,
         GPGPU_WALKER_Size, PIPE_CONTROL_Size, MI_BATCH_BUFFER_END_Size

LEMMA CsrLength == CsrBytes \in Nat
  BY DEF CsrBytes, PIPELINE_SELECT_Size, MI_LOAD_REGISTER_IMM_Size, PIPE_CONTROL_Size,
         GPGPU_CSR_BASE_ADDRESS_Size, MEDIA_VFE_STATE_Size, STATE_BASE_ADDRESS_Size,
         STATE_SIP_Size, MI_BATCH_BUFFER_START_Size

(* A stream ends at the next cache line. *)
LEMMA StreamEnd ==
    ASSUME NEW lo \in Nat, lo % CacheLineSize = 0, NEW bytes \in Nat
    PROVE  LET hi == AlignUp(lo + bytes, CacheLineSize)
           IN  /\ hi \in Nat /\ lo <= hi /\ hi % CacheLineSize = 0
               /\ (hi - lo) % CacheLineSize = 0
<1>1. /\ AlignUp(bytes, CacheLineSize) \in Nat
      /\ AlignUp(bytes, CacheLineSize) % CacheLineSize = 0
  BY LineUp
<1>2. /\ AlignUp(lo + bytes, CacheLineSize) = lo + AlignUp(bytes, CacheLineSize)
      /\ AlignUp(lo + bytes, CacheLineSize) % CacheLineSize = 0
  <2>1. lo + bytes \in Nat
    OBVIOUS
  <2>  QED  BY <2>1, LineUpShift, LineUp
<1>3. AlignUp(lo + bytes, CacheLineSize) - lo = AlignUp(bytes, CacheLineSize)
  <2>1. /\ AlignUp(bytes, CacheLineSize) \in Nat
        /\ AlignUp(lo + bytes, CacheLineSize) = lo + AlignUp(bytes, CacheLineSize)
    BY <1>1, <1>2
  <2>  QED  BY <2>1, Subtract, Zenon
<1>  QED  BY <1>1, <1>2, <1>3

(* A binding table of at most sixteen entries shares its last cache line   *)
(* with nothing but the padding, which is what the look back by one cache  *)
(* line in createDynamicStateHeap relies on.                               *)
LEMMA TableInLastLine ==
    ASSUME NEW lo \in Nat, lo % CacheLineSize = 0,
           NEW n \in 1..(CacheLineSize \div BINDING_TABLE_STATE_Size)
    PROVE  AlignUp(lo + n * RENDER_SURFACE_STATE_Size + n * BINDING_TABLE_STATE_Size,
                   CacheLineSize) - CacheLineSize = lo + n * RENDER_SURFACE_STATE_Size
  BY DEF AlignUp, CacheLineSize, BINDING_TABLE_STATE_Size, RENDER_SURFACE_STATE_Size

-----------------------------------------------------------------------------
(* Kernels *)

LEMMA InfoType ==
    ASSUME TypeOK, pc # "idle"
    PROVE  /\ kernel \in Kernels
           /\ Info \in KernelData
           /\ CompilerLayout(Info)
  BY DispatcherAssumption DEF TypeOK, Info

LEMMA ThreadsType ==
    ASSUME NEW info \in KernelData, NEW items \in Sizes
    PROVE  HwThreads(info, items) \in Nat
<1>1. Volume(items) \in Nat  BY VolumeInNat
<1>2. info.simd \in {1, 8, 16, 32}  BY DEF KernelData
<1>  QED  BY <1>1, <1>2 DEF HwThreads

LEMMA LocalIdBytesType ==
    ASSUME NEW info \in KernelData
    PROVE  LocalIdBytes(info) \in Nat
<1>1. info.channels \in Nat  BY DEF KernelData
<1>  QED  BY <1>1 DEF LocalIdBytes, GRFSize

LEMMA PayloadType ==
    ASSUME NEW info \in KernelData, NEW items \in Sizes
    PROVE  /\ PayloadOf(info, items) \in
                [threads : Nat, crossThread : Nat, perThread : Nat, idSize : Nat]
           /\ PayloadOf(info, items).crossThread = info.crossThread
           /\ PayloadOf(info, items).threads = HwThreads(info, items)
<1>1. HwThreads(info, items) \in Nat /\ LocalIdBytes(info) \in Nat
  BY ThreadsType, LocalIdBytesType
<1>2. HwThreads(info, items) * LocalIdBytes(info) \in Nat
  BY <1>1
<1>3. info.crossThread \in Nat
  BY DEF KernelData
<1>  QED  BY <1>1, <1>2, <1>3 DEF PayloadOf, GRFSize

LEMMA ScratchType ==
    ASSUME NEW info \in KernelData
    PROVE  /\ RequiredScratch(info) \in Nat
           /\ ScratchLevels(info.scratch) \in Nat
<1>1. info.scratch \in Nat /\ ComputeUnits \in Nat
  BY DispatcherAssumption DEF KernelData
<1>2. info.scratch * ComputeUnits \in Nat
  BY <1>1
<1>3. RequiredScratch(info) \in Nat
  BY <1>2, PageUp DEF RequiredScratch
<1>4. IsFiniteSet(1..11)
  <2>1. 1 \in Int /\ 11 \in Int  OBVIOUS
  <2>  QED  BY <2>1, FS_Interval, Zenon
<1>5. IsFiniteSet({i \in 1..11 : (info.scratch \div KiloByte) \div (2 ^ i) > 0})
  BY <1>4, FS_Subset
<1>  QED  BY <1>3, <1>5, FS_CardinalityType DEF ScratchLevels

-----------------------------------------------------------------------------
(* Appending a block to a heap *)

LEMMA BlockType ==
    ASSUME TypeOK, NEW h \in Heaps, NEW b \in mem[h]
    PROVE  b.lo \in Nat /\ b.hi \in Nat /\ b.call \in Nat
<1>1. h = "ssh" \/ h = "ioh" \/ h = "dsh" \/ h = "task" \/ h = "csr"
  BY DEF Heaps
<1>2. \/ b \in Blocks(SurfaceTable) \/ b \in Blocks(IndirectData) \/ b \in Blocks(Descriptor)
      \/ b \in Blocks(TaskCommands) \/ b \in Blocks(CsrCommands)
  BY <1>1 DEF TypeOK
<1>  QED  BY <1>2 DEF Blocks

LEMMA CursorFacts ==
    ASSUME TypeOK, Layout, NEW h \in Heaps
    PROVE  /\ Cursor(h) \in Nat
           /\ Cursor(h) % CacheLineSize = 0
           /\ h = "ssh" => Cursor(h) >= CacheLineSize
           /\ \A b \in mem[h] : b.hi <= Cursor(h)
  BY DEF TypeOK, Layout, Cursor, CacheLineSize, RENDER_SURFACE_STATE_Size

LEMMA WriteAppends ==
    ASSUME NEW blocks, NEW end, NEW block, \A b \in blocks : b.hi <= block.lo
    PROVE  Write(blocks, end, block) = blocks \cup {block}
  BY DEF Write

(* The cursor moves up to a cache line above the new block; nothing else   *)
(* in the heap changes.                                                    *)
LEMMA AppendBlock ==
    ASSUME TypeOK, Layout,
           NEW h \in Heaps, NEW hi \in Nat, NEW end, NEW block,
           Cursor(h) <= hi, hi % CacheLineSize = 0,
           block.lo = Cursor(h), block.hi = hi,
           Advance(h, hi),
           mem' = [mem EXCEPT ![h] = Write(@, end, block)]
    PROVE  /\ Layout'
           /\ allocated' \subseteq Heaps /\ h \in allocated'
           /\ offset' \in [Heaps -> Nat] /\ offset'[h] = hi
           /\ DOMAIN mem' = Heaps /\ mem'[h] = mem[h] \cup {block}
           /\ allocated \subseteq allocated'
           /\ \A g \in Heaps \ {h} : offset'[g] = offset[g] /\ mem'[g] = mem[g]
<1>1. Write(mem[h], end, block) = mem[h] \cup {block}
  BY CursorFacts, WriteAppends
<1>2. /\ allocated' = allocated \cup {h}
      /\ offset' = [offset EXCEPT ![h] = hi]
      /\ allocated \subseteq Heaps /\ offset \in [Heaps -> Nat] /\ DOMAIN mem = Heaps
  BY DEF Advance, TypeOK
<1>3. /\ DOMAIN mem' = Heaps /\ mem'[h] = mem[h] \cup {block}
      /\ \A g \in Heaps \ {h} : mem'[g] = mem[g]
  BY <1>1, <1>2
<1>4. /\ offset' \in [Heaps -> Nat] /\ offset'[h] = hi
      /\ \A g \in Heaps \ {h} : offset'[g] = offset[g]
  BY <1>2
<1>5. Layout'
  <2> SUFFICES ASSUME NEW g \in Heaps
               PROVE  /\ offset'[g] % CacheLineSize = 0
                      /\ g \in allocated' => (g = "ssh" => offset'[g] >= CacheLineSize)
                      /\ g \notin allocated' => mem'[g] = {}
                      /\ \A b \in mem'[g] : b.hi <= offset'[g]
    BY DEF Layout
  <2>1. CASE g # h
    BY <2>1, <1>2, <1>3, <1>4 DEF Layout
  <2>2. CASE g = h
    <3>1. h = "ssh" => hi >= CacheLineSize
      BY CursorFacts DEF CacheLineSize
    <3>2. \A b \in mem[h] : b.hi <= hi
      <4> SUFFICES ASSUME NEW b \in mem[h] PROVE b.hi <= hi
        OBVIOUS
      <4>1. b.hi <= Cursor(h) /\ Cursor(h) \in Nat
        BY CursorFacts
      <4>2. b.hi \in Nat
        BY BlockType
      <4>  QED  BY <4>1, <4>2
    <3>  QED  BY <2>2, <3>1, <3>2, <1>2, <1>3, <1>4
  <2>  QED  BY <2>1, <2>2
<1>  QED  BY <1>2, <1>3, <1>4, <1>5

(* What the GPU may read stays as it was written: coherence of a batch     *)
(* needs blocks to be there and never needs one to be absent.              *)
LEMMA CoherentSurvives ==
    ASSUME \A h \in Heaps : mem[h] \subseteq mem'[h],
           NEW batch, Coherent(batch)
    PROVE  Coherent(batch)'
  BY DEF Coherent, CsrOf, At, Heaps

LEMMA InFlightSurvives ==
    ASSUME \A h \in Heaps : mem[h] \subseteq mem'[h],
           queue' = queue, InFlightCoherent
    PROVE  InFlightCoherent'
  BY CoherentSurvives DEF InFlightCoherent

-----------------------------------------------------------------------------
(* The initial state *)

LEMMA InitialGridType == InitialGrid \in Grid
  BY DEF InitialGrid, Grid, Sizes

LEMMA InitDispatcherInv == Init => DispatcherInv
<1> SUFFICES ASSUME Init PROVE DispatcherInv
  OBVIOUS
<1>1. TypeOK
  BY InitialGridType DEF Init, TypeOK, Codes, Heaps
<1>2. Layout
  BY DEF Init, Layout, CacheLineSize
<1>3. TableReady /\ IndirectReady /\ DescriptorReady /\ TaskReady /\ ReceiverReady
  BY DEF Init, TableReady, IndirectReady, DescriptorReady, TaskReady, ReceiverReady,
         AfterSsh, AfterIoh, AfterDsh, AfterTask, AfterCsr
<1>4. InFlightCoherent
  BY DEF Init, InFlightCoherent
<1>  QED  BY <1>1, <1>2, <1>3, <1>4 DEF DispatcherInv

-----------------------------------------------------------------------------
(* Steps that leave the heaps alone *)

LEMMA OutsideTheHeaps ==
    ASSUME DispatcherInv, TypeOK', UNCHANGED heaps, queue' = queue, pc' \notin AfterSsh
    PROVE  DispatcherInv'
<1>1. Layout'
  BY DEF DispatcherInv, Layout, heaps
<1>2. (TableReady /\ IndirectReady /\ DescriptorReady /\ TaskReady /\ ReceiverReady)'
  BY DEF TableReady, IndirectReady, DescriptorReady, TaskReady, ReceiverReady,
         AfterSsh, AfterIoh, AfterDsh, AfterTask, AfterCsr
<1>3. InFlightCoherent'
  BY InFlightSurvives DEF DispatcherInv, heaps
<1>  QED  BY <1>1, <1>2, <1>3 DEF DispatcherInv

LEMMA ExecuteKernelStep ==
    ASSUME DispatcherInv, NEW k \in Kernels, NEW req \in Requests, ExecuteKernel(k, req)
    PROVE  DispatcherInv'
<1>1. TypeOK /\ UNCHANGED heaps /\ queue' = queue
  BY DEF DispatcherInv, ExecuteKernel, device
<1>2. KernelInfo[k].required \in Sizes /\ req \in Request
  BY DispatcherAssumption, RequestsAssumption DEF KernelData
<1>3. grid' \in Grid
  BY <1>1, <1>2, ValidatedGridType DEF ExecuteKernel, TypeOK
<1>4. /\ pc' \in {"scratch", "idle"}
      /\ result' \in Codes
  BY DEF ExecuteKernel, ValidationCode, Codes
<1>5. TypeOK'
  <2>1. /\ call \in Nat /\ call' = call + 1 /\ failures' = failures
        /\ failuresBefore' = failures /\ kernel' = k
        /\ UNCHANGED <<payload, slm, completionTag>> /\ UNCHANGED scratches
        /\ UNCHANGED device
    BY <1>1 DEF ExecuteKernel, TypeOK
  <2>2. call' \in Nat /\ kernel' \in Kernels /\ pc' \in Stages \cup {"idle"}
    BY <1>4, <2>1 DEF Stages
  <2>  HIDE DEF Stages
  <2>  QED  BY <1>1, <1>3, <1>4, <2>1, <2>2 DEF TypeOK, heaps, scratches, device
<1>  QED  BY <1>1, <1>4, <1>5, OutsideTheHeaps DEF AfterSsh

LEMMA CreateScratchAllocationStep ==
    ASSUME DispatcherInv, CreateScratchAllocation
    PROVE  DispatcherInv'
<1>1. /\ TypeOK /\ UNCHANGED heaps /\ queue' = queue
      /\ pc \in {"scratch", "newScratch"} /\ pc' \in {"newScratch", "ssh", "idle"}
  BY DEF DispatcherInv, CreateScratchAllocation, KeepScratch, ResetScratch, ResetScratchUnwaited,
         GrowScratch, LoseScratch, Proceed, Fail, Leave, device
<1>2. RequiredScratch(Info) \in Nat /\ ScratchLevels(Info.scratch) \in Nat
  BY <1>1, InfoType, ScratchType
<1>3. /\ scratch' \in Nat /\ scratchTotal' \in Nat /\ perThreadScratchSpace' \in Nat
      /\ result' \in Codes /\ failures' \in Nat /\ failuresBefore' \in Nat
      /\ call' = call
  <2>1. CASE KeepScratch
    BY <1>1, <2>1 DEF KeepScratch, Proceed, scratches, TypeOK
  <2>2. CASE ResetScratch
    BY <1>1, <2>2 DEF ResetScratch, Proceed, TypeOK
  <2>3. CASE ResetScratchUnwaited
    BY <1>1, <2>3 DEF ResetScratchUnwaited, TypeOK
  <2>4. CASE GrowScratch
    BY <1>1, <1>2, <2>4, SMTT(30) DEF GrowScratch, Proceed, TypeOK
  <2>5. CASE LoseScratch
    BY <1>1, <2>5 DEF LoseScratch, Fail, Leave, scratches, TypeOK, Codes
  <2>  QED  BY <2>1, <2>2, <2>3, <2>4, <2>5 DEF CreateScratchAllocation
<1>4. TypeOK'
  BY <1>1, <1>3 DEF CreateScratchAllocation, TypeOK, request, heaps, device, Stages, Heaps
<1>  QED  BY <1>1, <1>4, OutsideTheHeaps DEF AfterSsh

LEMMA FailureStep ==
    ASSUME DispatcherInv,
           \/ \E h \in Heaps : HeapAllocationFails(h)
           \/ SubmitFails \/ FinishExecution \/ WaitFails
    PROVE  DispatcherInv'
<1>1. /\ TypeOK /\ pc' = "idle" /\ result' \in Codes
      /\ failures' \in Nat /\ call' = call /\ failuresBefore' = failuresBefore
      /\ UNCHANGED <<request, payload, heaps, slm, scratches, completionTag, device>>
  <2>0. TypeOK
    BY DEF DispatcherInv
  <2>1. CASE \E h \in Heaps : HeapAllocationFails(h)
    BY <2>0, <2>1, SMTT(30) DEF HeapAllocationFails, Fail, Leave, TypeOK, Codes
  <2>2. CASE SubmitFails
    BY <2>0, <2>2, SMTT(30) DEF SubmitFails, Fail, Leave, TypeOK, Codes
  <2>3. CASE FinishExecution
    BY <2>0, <2>3 DEF FinishExecution, Leave, TypeOK, Codes
  <2>4. CASE WaitFails
    BY <2>0, <2>4, SMTT(30) DEF WaitFails, Fail, Leave, TypeOK, Codes
  <2>  QED  BY <2>1, <2>2, <2>3, <2>4
<1>2. TypeOK'
  BY <1>1 DEF TypeOK, request, heaps, scratches, device
<1>  QED  BY <1>1, <1>2, OutsideTheHeaps DEF AfterSsh, device

-----------------------------------------------------------------------------
(* The queue *)

LEMMA QueueTail ==
    ASSUME TypeOK, queue # <<>>
    PROVE  /\ Head(queue) \in Batches /\ Head(queue) = queue[1] /\ 1 \in DOMAIN queue
           /\ Tail(queue) \in Seq(Batches)
           /\ \A i \in DOMAIN Tail(queue) : /\ i + 1 \in DOMAIN queue
                                            /\ Tail(queue)[i] = queue[i + 1]
<1>1. queue \in Seq(Batches)  BY DEF TypeOK
<1>2. Len(queue) \in Nat \ {0} /\ DOMAIN queue = 1..Len(queue)
  BY <1>1, EmptySeq, LenProperties
<1>3. /\ Head(queue) \in Batches /\ Tail(queue) \in Seq(Batches)
      /\ Len(Tail(queue)) = Len(queue) - 1
      /\ \A i \in 1..Len(Tail(queue)) : Tail(queue)[i] = queue[i + 1]
  BY <1>1, HeadTailProperties
<1>4. DOMAIN Tail(queue) = 1..Len(Tail(queue))
  BY <1>3, LenProperties
<1>5. Head(queue) = queue[1]
  BY <1>1
<1>  QED  BY <1>2, <1>3, <1>4, <1>5

LEMMA QueueAppend ==
    ASSUME TypeOK, NEW batch \in Batches
    PROVE  /\ Append(queue, batch) \in Seq(Batches)
           /\ \A i \in DOMAIN Append(queue, batch) :
                \/ i \in DOMAIN queue /\ Append(queue, batch)[i] = queue[i]
                \/ i = Len(queue) + 1 /\ Append(queue, batch)[i] = batch
<1>1. queue \in Seq(Batches)  BY DEF TypeOK
<1>2. /\ Append(queue, batch) \in Seq(Batches)
      /\ Len(Append(queue, batch)) = Len(queue) + 1
      /\ \A i \in 1..Len(queue) : Append(queue, batch)[i] = queue[i]
      /\ Append(queue, batch)[Len(queue) + 1] = batch
  BY <1>1, AppendProperties
<1>3. /\ Len(queue) \in Nat /\ DOMAIN queue = 1..Len(queue)
      /\ DOMAIN Append(queue, batch) = 1..(Len(queue) + 1)
  BY <1>1, <1>2, LenProperties
<1>  QED  BY <1>2, <1>3

LEMMA SubmitExecBufferStep ==
    ASSUME DispatcherInv, SubmitExecBuffer
    PROVE  DispatcherInv'
<1>1. /\ TypeOK /\ Layout /\ InFlightCoherent
      /\ TableReady /\ IndirectReady /\ DescriptorReady /\ TaskReady /\ ReceiverReady
      /\ pc = "submit" /\ pc' = "finish"
      /\ UNCHANGED <<result, call, failures, failuresBefore>>
      /\ UNCHANGED <<request, payload, heaps, slm, scratches, completionTag, tag, ran>>
  BY DEF DispatcherInv, SubmitExecBuffer, Proceed
<1> DEFINE batch == [call |-> call, start |-> StreamAt("csr"),
                     length |-> AlignUp(taskOffset["csr"], 8)]
<1>2. queue' = Append(queue, batch)
  BY DEF SubmitExecBuffer, StreamAt
<1>3. PICK c \in mem["csr"] :
        /\ c.call = call
        /\ c.lo = StreamAt("csr") /\ c.hi = offset["csr"]
        /\ c.cmd.task = StreamAt("task")
        /\ c.cmd.slm = (slm > 0)
  BY <1>1 DEF ReceiverReady, AfterCsr
<1>4. /\ StreamAt("csr") \in Nat
      /\ AlignUp(taskOffset["csr"], 8) = taskOffset["csr"]
      /\ taskOffset["csr"] \in Nat /\ offset["csr"] \in Nat
  <2>1. taskOffset["csr"] \in Nat /\ taskOffset["csr"] % CacheLineSize = 0
    BY <1>1 DEF TypeOK, ReceiverReady, AfterCsr
  <2>2. c.lo \in Nat
    BY <1>1, BlockType DEF Heaps
  <2>  QED  BY <1>1, <1>3, <2>1, <2>2, EightUp DEF TypeOK, Heaps
<1>5. batch \in Batches
  BY <1>1, <1>4 DEF TypeOK, Batches
<1>6. TypeOK'
  <2>1. queue' \in Seq(Batches)
    BY <1>1, <1>2, <1>5, QueueAppend
  <2>  QED  BY <1>1, <2>1 DEF TypeOK, Stages, request, heaps, scratches
<1>7. Coherent(batch)
  <2>1. c \in CsrOf(batch)
    BY <1>3, <1>4 DEF CsrOf, At, StreamAt
  <2>2. PICK t \in mem["task"] : /\ t.call = call
                                 /\ t.lo = StreamAt("task")
                                 /\ t.cmd = TaskStream(completionTag)
    BY <1>1 DEF TaskReady, AfterTask
  <2>3. PICK d \in mem["dsh"] :
          /\ d.call = call
          /\ d.lo = DescriptorAt
          /\ d.cmd = [kernel |-> kernel, threads |-> payload.threads,
                      table |-> TableAt, slm |-> slm > 0]
    BY <1>1 DEF DescriptorReady, AfterDsh
  <2>4. PICK i \in mem["ioh"] : /\ i.call = call
                                /\ i.lo = IndirectAt /\ i.hi = offset["ioh"]
                                /\ i.cmd = [kernel |-> kernel, grid |-> grid]
    BY <1>1 DEF IndirectReady, AfterIoh
  <2>5. /\ t \in At("task", c.cmd.task)
        /\ d \in At("dsh", t.cmd.descriptor)
        /\ i \in At("ioh", t.cmd.indirect)
    BY <1>3, <2>2, <2>3, <2>4 DEF At, TaskStream, DescriptorAt, IndirectAt
  <2>6. /\ t.cmd.length = IndirectLength /\ t.cmd.groups = grid.groups
        /\ t.cmd.width = ThreadWidthField(payload.threads - 1)
    BY <2>2 DEF TaskStream
  <2>7. /\ payload.threads = HwThreads(Info, grid.items) /\ payload.threads \in Nat
        /\ IndirectLength \in Nat
    <3>1. payload = PayloadOf(Info, grid.items) /\ grid.items \in Sizes
      BY <1>1 DEF IndirectReady, AfterIoh, TypeOK, Grid
    <3>2. payload.threads = HwThreads(Info, grid.items) /\ payload.threads \in Nat
      BY <1>1, <3>1, InfoType, PayloadType
    <3>3. payload.crossThread + payload.perThread \in Nat
      BY <1>1, SMTT(30) DEF TypeOK
    <3>  QED  BY <3>2, <3>3, LineUp DEF IndirectLength
  <2>8. offset["ioh"] = IndirectAt + IndirectLength
    BY <1>1, <2>7 DEF IndirectAt, TypeOK, Heaps
  <2>9. payload.threads \in 1..64 =>
          ThreadWidthField(payload.threads - 1) + 1 = payload.threads
    BY <2>7 DEF ThreadWidthField
  <2>10. (slm > 0) = (Info.slm > 0)
    <3>1. slm = AlignUp(Info.slm, KiloByte) /\ Info.slm \in Nat
      BY <1>1, InfoType DEF DescriptorReady, AfterDsh, KernelData
    <3>  QED  BY <3>1, KiloUp
  <2>11. TableFits(Info) => \E s \in mem["ssh"] : /\ s.call = call
                                                 /\ s.cmd.kernel = kernel
                                                 /\ s.cmd.table = TableAt
    BY <1>1 DEF TableReady, AfterSsh
  <2>12. /\ \A b \in {c, t, d, i} : b.call = batch.call
         /\ i.cmd.kernel = d.cmd.kernel
         /\ i.hi = i.lo + t.cmd.length
         /\ i.cmd.grid.groups = t.cmd.groups
         /\ d.cmd.threads = HwThreads(Info, i.cmd.grid.items)
         /\ d.cmd.threads \in 1..64 => t.cmd.width + 1 = d.cmd.threads
         /\ KernelInfo[d.cmd.kernel] = Info
    BY <1>3, <2>2, <2>3, <2>4, <2>6, <2>7, <2>8, <2>9 DEF Info
  <2>13. d.cmd.slm = (Info.slm > 0) /\ c.cmd.slm = d.cmd.slm
    BY <1>3, <2>3, <2>10
  <2>14. TableFits(Info) => \E s \in mem["ssh"] : /\ s.call = batch.call
                                                 /\ s.cmd.kernel = d.cmd.kernel
                                                 /\ s.cmd.table = d.cmd.table
    BY <2>3, <2>11
  <2>  QED  BY <2>1, <2>5, <2>12, <2>13, <2>14 DEF Coherent
<1>8. InFlightCoherent'
  <2>1. \A i \in DOMAIN queue' : queue'[i] = batch \/ \E j \in DOMAIN queue : queue'[i] = queue[j]
    BY <1>1, <1>2, <1>5, QueueAppend
  <2>2. \A i \in DOMAIN queue' : Coherent(queue'[i])
    BY <1>1, <1>7, <2>1 DEF InFlightCoherent
  <2>3. mem' = mem
    BY <1>1 DEF heaps
  <2>  QED  BY <2>2, <2>3 DEF InFlightCoherent, Coherent, CsrOf, At
<1>9. Layout'
  BY <1>1 DEF Layout, heaps
<1>10. TableReady' /\ IndirectReady' /\ DescriptorReady' /\ TaskReady' /\ ReceiverReady'
  BY <1>1 DEF TableReady, IndirectReady, DescriptorReady, TaskReady, ReceiverReady,
       AfterSsh, AfterIoh, AfterDsh, AfterTask, AfterCsr, heaps, request, Info, TableAt,
       IndirectAt, DescriptorAt, StreamAt, IndirectLength, TaskStream
<1>  QED  BY <1>6, <1>8, <1>9, <1>10 DEF DispatcherInv

LEMMA GpuStep ==
    ASSUME DispatcherInv, Gpu
    PROVE  DispatcherInv'
<1>1. /\ TypeOK /\ Layout /\ InFlightCoherent
      /\ TableReady /\ IndirectReady /\ DescriptorReady /\ TaskReady /\ ReceiverReady
      /\ queue # <<>> /\ queue' = Tail(queue)
      /\ UNCHANGED <<pc, result, call, failuresBefore>>
      /\ UNCHANGED <<request, payload, heaps, slm, scratches, completionTag>>
  BY DEF DispatcherInv, Gpu, GpuRunsBatch, GpuResets, control
<1>2. Head(queue) \in Batches /\ queue' \in Seq(Batches)
  BY <1>1, QueueTail
<1>3. failures' \in Nat /\ tag' \in Nat /\ ran' \subseteq Nat
  <2>1. CASE GpuRunsBatch
    <3>1. PICK t \in TaskOf(Head(queue)) : tag' = t.cmd.tag
      BY <2>1 DEF GpuRunsBatch
    <3>2. t \in mem["task"]
      BY DEF TaskOf, At
    <3>3. t.cmd.tag \in Nat
      BY <1>1, <3>2 DEF TypeOK, Blocks, TaskCommands
    <3>  QED  BY <1>1, <1>2, <2>1, <3>1, <3>3 DEF GpuRunsBatch, control, TypeOK, Batches
  <2>2. CASE GpuResets
    BY <1>1, <2>2 DEF GpuResets, TypeOK
  <2>  QED  BY <2>1, <2>2 DEF Gpu
<1>4. TypeOK'
  BY <1>1, <1>2, <1>3 DEF TypeOK, request, heaps, scratches
<1>5. InFlightCoherent'
  <2>1. \A i \in DOMAIN queue' : \E j \in DOMAIN queue : queue'[i] = queue[j]
    BY <1>1, QueueTail
  <2>2. mem' = mem
    BY <1>1 DEF heaps
  <2>3. \A i \in DOMAIN queue' : Coherent(queue'[i])
    BY <1>1, <2>1 DEF InFlightCoherent
  <2>  QED  BY <2>2, <2>3 DEF InFlightCoherent, Coherent, CsrOf, At
<1>6. Layout'
  BY <1>1 DEF Layout, heaps
<1>7. TableReady' /\ IndirectReady' /\ DescriptorReady' /\ TaskReady' /\ ReceiverReady'
  BY <1>1 DEF TableReady, IndirectReady, DescriptorReady, TaskReady, ReceiverReady,
       heaps, request, Info, TableAt, IndirectAt, DescriptorAt, StreamAt, IndirectLength,
       TaskStream
<1>  QED  BY <1>4, <1>5, <1>6, <1>7 DEF DispatcherInv

-----------------------------------------------------------------------------
(* The stages that append to a heap *)

LEMMA CreateSurfaceStateHeapStep ==
    ASSUME DispatcherInv, CreateSurfaceStateHeap
    PROVE  DispatcherInv'
<1> DEFINE lo == Cursor("ssh")
           hi == AlignUp(lo + Info.bindings * RENDER_SURFACE_STATE_Size
                            + Info.bindings * BINDING_TABLE_STATE_Size, CacheLineSize)
           block == Block(lo, hi, [kernel |-> kernel, table |-> lo + Info.table])
<1>1. /\ TypeOK /\ Layout /\ InFlightCoherent
      /\ pc = "ssh" /\ pc' = "ioh"
      /\ UNCHANGED <<result, call, failures, failuresBefore>>
      /\ UNCHANGED <<request, payload, taskOffset, slm, scratches, completionTag, device>>
  BY DEF DispatcherInv, CreateSurfaceStateHeap, Proceed
<1>2. /\ kernel \in Kernels /\ Info \in KernelData /\ CompilerLayout(Info)
      /\ Info.bindings \in Nat /\ Info.table \in Nat
      /\ Info.table = Info.bindings * RENDER_SURFACE_STATE_Size
  BY <1>1, InfoType DEF KernelData, CompilerLayout
<1>3. lo \in Nat /\ lo % CacheLineSize = 0 /\ lo >= CacheLineSize
  BY <1>1, CursorFacts DEF Heaps
<1>4. hi \in Nat /\ lo <= hi /\ hi % CacheLineSize = 0
  <2>1. lo + Info.bindings * RENDER_SURFACE_STATE_Size
           + Info.bindings * BINDING_TABLE_STATE_Size \in Nat
    BY <1>2, <1>3 DEF RENDER_SURFACE_STATE_Size, BINDING_TABLE_STATE_Size
  <2>2. lo + Info.bindings * RENDER_SURFACE_STATE_Size
           + Info.bindings * BINDING_TABLE_STATE_Size >= lo
    BY <1>2, <1>3 DEF RENDER_SURFACE_STATE_Size, BINDING_TABLE_STATE_Size
  <2> HIDE DEF lo
  <2>  QED  BY <1>3, <2>1, <2>2, LineUp
<1>5. Info' = Info /\ kernel' = kernel /\ call' = call
  BY <1>1 DEF Info, request
<1>6. ASSUME TypeOK', Layout', "ssh" \in allocated',
             \A h \in Heaps : mem[h] \subseteq mem'[h],
             TableFits(Info) => \E s \in mem'["ssh"] : /\ s.call = call
                                                       /\ s.cmd.kernel = kernel
                                                       /\ s.cmd.table = TableAt'
      PROVE  DispatcherInv'
  <2>1. InFlightCoherent'
    BY <1>1, <1>6, InFlightSurvives DEF device
  <2>2. TableReady'
    BY <1>5, <1>6 DEF TableReady, TableFits
  <2>3. IndirectReady' /\ DescriptorReady' /\ TaskReady' /\ ReceiverReady'
    BY <1>1 DEF IndirectReady, DescriptorReady, TaskReady, ReceiverReady,
                AfterIoh, AfterDsh, AfterTask, AfterCsr
  <2>  QED  BY <1>6, <2>1, <2>2, <2>3 DEF DispatcherInv
<1>7. CASE Info.bindings = 0
  <2>1. Advance("ssh", lo) /\ mem' = mem
    BY <1>7 DEF CreateSurfaceStateHeap
  <2>2. /\ allocated' = allocated \cup {"ssh"} /\ allocated' \subseteq Heaps
        /\ offset' \in [Heaps -> Nat] /\ offset'["ssh"] = lo
        /\ \A g \in Heaps \ {"ssh"} : offset'[g] = offset[g]
    BY <1>1, <1>3, <2>1 DEF Advance, TypeOK, Heaps
  <2>3. \A b \in mem["ssh"] : b.hi <= lo
    BY <1>1, CursorFacts DEF Heaps
  <2>4. Layout'
    BY <1>1, <1>3, <2>1, <2>2, <2>3 DEF Layout
  <2>5. TypeOK'
    BY <1>1, <2>1, <2>2 DEF TypeOK, Stages, Heaps, request, scratches, device
  <2>6. ~TableFits(Info)
    BY <1>7 DEF TableFits
  <2>  QED  BY <1>6, <2>1, <2>2, <2>4, <2>5, <2>6
<1>8. CASE Info.bindings # 0
  <2>1. /\ Advance("ssh", hi)
        /\ mem' = [mem EXCEPT !["ssh"] = Write(@, lo + Info.sshSize, block)]
    BY <1>8 DEF CreateSurfaceStateHeap
  <2>2. block.lo = lo /\ block.hi = hi /\ block.call = call
        /\ block.cmd = [kernel |-> kernel, table |-> lo + Info.table]
    BY DEF Block
  <2> HIDE DEF lo, hi, block
  <2>3. /\ Layout'
        /\ allocated' \subseteq Heaps /\ "ssh" \in allocated'
        /\ offset' \in [Heaps -> Nat] /\ offset'["ssh"] = hi
        /\ DOMAIN mem' = Heaps /\ mem'["ssh"] = mem["ssh"] \cup {block}
        /\ \A g \in Heaps \ {"ssh"} : mem'[g] = mem[g]
    <3>1. "ssh" \in Heaps /\ block.lo = Cursor("ssh") /\ Cursor("ssh") <= hi
      BY <1>4, <2>2 DEF Heaps, lo
    <3>  QED  BY <1>1, <1>4, <2>1, <2>2, <3>1, AppendBlock, ZenonT(30)
  <2>4. block \in Blocks(SurfaceTable)
    <3>1. block = [lo |-> lo, hi |-> hi, call |-> call,
                   cmd |-> [kernel |-> kernel, table |-> lo + Info.table]]
      BY DEF block, Block
    <3>2. lo + Info.table \in Nat
      BY <1>2, <1>3
    <3>  QED  BY <1>1, <1>2, <1>3, <1>4, <3>1, <3>2 DEF Blocks, SurfaceTable, TypeOK
  <2>5. TypeOK'
    BY <1>1, <2>3, <2>4 DEF TypeOK, Stages, Heaps, request, scratches, device
  <2>6. TableFits(Info) => block.cmd.kernel = kernel /\ block.cmd.table = TableAt'
    <3> SUFFICES ASSUME TableFits(Info)
                 PROVE  block.cmd.kernel = kernel /\ block.cmd.table = TableAt'
      OBVIOUS
    <3>1. hi - CacheLineSize = lo + Info.bindings * RENDER_SURFACE_STATE_Size
      BY <1>3, TableInLastLine DEF TableFits, hi
    <3>  QED  BY <1>2, <2>2, <2>3, <3>1 DEF TableAt
  <2>7. \A h \in Heaps : mem[h] \subseteq mem'[h]
    BY <2>3
  <2>  QED  BY <1>6, <2>2, <2>3, <2>5, <2>6, <2>7
<1>  QED  BY <1>7, <1>8

LEMMA CreateIndirectObjectHeapStep ==
    ASSUME DispatcherInv, CreateIndirectObjectHeap
    PROVE  DispatcherInv'
<1> DEFINE lo == Cursor("ioh")
           next == PayloadOf(Info, grid.items)
           hi == AlignUp(lo + Info.crossThread + next.perThread, CacheLineSize)
           block == Block(lo, hi, [kernel |-> kernel, grid |-> grid])
           end == lo + Info.crossThread + GeneratedBytes(Info, grid.items)
<1>1. /\ TypeOK /\ Layout /\ InFlightCoherent /\ TableReady
      /\ pc = "ioh" /\ pc' = "dsh"
      /\ UNCHANGED <<result, call, failures, failuresBefore>>
      /\ UNCHANGED <<request, taskOffset, slm, scratches, completionTag, device>>
      /\ payload' = next
      /\ Advance("ioh", hi)
      /\ mem' = [mem EXCEPT !["ioh"] = Write(@, end, block)]
  BY DEF DispatcherInv, CreateIndirectObjectHeap, Proceed
<1>2. /\ kernel \in Kernels /\ Info \in KernelData
      /\ Info.crossThread \in Nat /\ grid \in Grid /\ grid.items \in Sizes
  BY <1>1, InfoType DEF KernelData, TypeOK, Grid
<1>3. /\ next \in [threads : Nat, crossThread : Nat, perThread : Nat, idSize : Nat]
      /\ next.crossThread = Info.crossThread
  BY <1>2, PayloadType
<1>4. lo \in Nat /\ lo % CacheLineSize = 0
  BY <1>1, CursorFacts DEF Heaps
<1>5. /\ hi = lo + IndirectLength' /\ IndirectLength' \in Nat
      /\ hi \in Nat /\ lo <= hi /\ hi % CacheLineSize = 0
  <2> HIDE DEF lo, next
  <2>1. Info.crossThread + next.perThread \in Nat
    BY <1>2, <1>3
  <2>2. IndirectLength' = AlignUp(Info.crossThread + next.perThread, CacheLineSize)
    BY <1>1, <1>3 DEF IndirectLength
  <2>3. lo + Info.crossThread + next.perThread = lo + (Info.crossThread + next.perThread)
    BY <1>2, <1>3, <1>4
  <2>4. hi = lo + IndirectLength' /\ IndirectLength' \in Nat
    BY <1>4, <2>1, <2>2, <2>3, LineUpShift, LineUp
  <2>5. hi % CacheLineSize = 0
    BY <1>4, <2>1, <2>3, LineUp
  <2>  QED  BY <1>4, <2>4, <2>5
<1>6. block = [lo |-> lo, hi |-> hi, call |-> call, cmd |-> [kernel |-> kernel, grid |-> grid]]
  BY DEF Block
<1> HIDE DEF lo, hi, next, block, end
<1>7. /\ Layout'
      /\ allocated' \subseteq Heaps /\ "ioh" \in allocated'
      /\ offset' \in [Heaps -> Nat] /\ offset'["ioh"] = hi
      /\ DOMAIN mem' = Heaps /\ mem'["ioh"] = mem["ioh"] \cup {block}
      /\ allocated \subseteq allocated'
      /\ \A g \in Heaps \ {"ioh"} : offset'[g] = offset[g] /\ mem'[g] = mem[g]
  <2>1. "ioh" \in Heaps /\ block.lo = Cursor("ioh") /\ block.hi = hi /\ Cursor("ioh") <= hi
    BY <1>5, <1>6 DEF Heaps, lo
  <2>2. /\ TypeOK /\ Layout /\ Advance("ioh", hi)
        /\ mem' = [mem EXCEPT !["ioh"] = Write(mem["ioh"], end, block)]
    BY <1>1
  <2>  QED  BY <1>5, <2>1, <2>2, AppendBlock
<1>8. block \in Blocks(IndirectData)
  BY <1>1, <1>2, <1>4, <1>5, <1>6 DEF Blocks, IndirectData, TypeOK
<1>9. TypeOK'
  BY <1>1, <1>3, <1>7, <1>8 DEF TypeOK, Stages, Heaps, request, scratches, device
<1>10. InFlightCoherent'
  BY <1>1, <1>7, InFlightSurvives DEF device
<1>11. TableReady'
  BY <1>1, <1>7 DEF TableReady, AfterSsh, Heaps, Info, TableAt, request
<1>12. IndirectReady'
  <2>1. IndirectAt' = lo
    <3>1. IndirectAt' = hi - IndirectLength'
      BY <1>7 DEF IndirectAt
    <3>2. lo \in Nat /\ IndirectLength' \in Nat /\ hi = lo + IndirectLength'
      BY <1>4, <1>5
    <3>  QED  BY <3>1, <3>2, Subtract, Zenon
  <2>2. block \in mem'["ioh"] /\ block.call = call' /\ block.lo = IndirectAt'
        /\ block.hi = offset'["ioh"] /\ block.cmd = [kernel |-> kernel, grid |-> grid]'
    BY <1>1, <1>6, <1>7, <2>1 DEF request
  <2>3. payload' = PayloadOf(Info, grid.items)'
    BY <1>1 DEF request, Info, PayloadOf, HwThreads, LocalIdBytes, next
  <2>  QED  BY <2>2, <2>3 DEF IndirectReady
<1>13. DescriptorReady' /\ TaskReady' /\ ReceiverReady'
  BY <1>1 DEF DescriptorReady, TaskReady, ReceiverReady, AfterDsh, AfterTask, AfterCsr
<1>  QED  BY <1>7, <1>9, <1>10, <1>11, <1>12, <1>13 DEF DispatcherInv

LEMMA CreateDynamicStateHeapStep ==
    ASSUME DispatcherInv, CreateDynamicStateHeap
    PROVE  DispatcherInv'
<1> DEFINE lo == Cursor("dsh")
           hi == AlignUp(lo + INTERFACE_DESCRIPTOR_DATA_Size, CacheLineSize)
           cmds == [kernel |-> kernel, threads |-> payload.threads,
                    table |-> offset["ssh"] - CacheLineSize, slm |-> slm' > 0]
           block == Block(lo, hi, cmds)
<1>1. /\ TypeOK /\ Layout /\ InFlightCoherent /\ TableReady /\ IndirectReady
      /\ pc = "dsh" /\ pc' = "task"
      /\ UNCHANGED <<result, call, failures, failuresBefore>>
      /\ UNCHANGED <<request, payload, taskOffset, scratches, completionTag, device>>
      /\ slm' = AlignUp(Info.slm, KiloByte)
      /\ Advance("dsh", hi)
      /\ mem' = [mem EXCEPT !["dsh"] = Write(@, lo + INTERFACE_DESCRIPTOR_DATA_Size, block)]
  BY DEF DispatcherInv, CreateDynamicStateHeap, Proceed
<1>2. kernel \in Kernels /\ Info \in KernelData /\ Info.slm \in Nat /\ slm' \in Nat
  BY <1>1, InfoType, KiloUp DEF KernelData
<1>3. lo \in Nat /\ lo % CacheLineSize = 0
  BY <1>1, CursorFacts DEF Heaps
<1>4. /\ hi = lo + AlignUp(INTERFACE_DESCRIPTOR_DATA_Size, CacheLineSize)
      /\ hi \in Nat /\ lo <= hi /\ hi % CacheLineSize = 0
  <2> HIDE DEF lo
  <2>1. INTERFACE_DESCRIPTOR_DATA_Size \in Nat
    BY DEF INTERFACE_DESCRIPTOR_DATA_Size
  <2>2. lo + INTERFACE_DESCRIPTOR_DATA_Size \in Nat
    BY <1>3, <2>1
  <2>3. /\ AlignUp(INTERFACE_DESCRIPTOR_DATA_Size, CacheLineSize) \in Nat
        /\ hi % CacheLineSize = 0
    BY <2>1, <2>2, LineUp
  <2>4. hi = lo + AlignUp(INTERFACE_DESCRIPTOR_DATA_Size, CacheLineSize)
    BY <1>3, <2>1, LineUpShift
  <2> HIDE DEF hi
  <2>  QED  BY <1>3, <2>3, <2>4
<1>5. offset["ssh"] - CacheLineSize \in Nat
  <2>1. "ssh" \in allocated /\ offset["ssh"] \in Nat
    BY <1>1 DEF TableReady, AfterSsh, TypeOK, Heaps
  <2>2. offset["ssh"] >= CacheLineSize
    BY <1>1, <2>1 DEF Layout, Heaps
  <2>  QED  BY <2>1, <2>2 DEF CacheLineSize
<1>6. block = [lo |-> lo, hi |-> hi, call |-> call, cmd |-> cmds]
  BY DEF Block
<1>7. cmds \in Descriptor
  BY <1>1, <1>2, <1>5 DEF Descriptor, TypeOK
<1> HIDE DEF lo, hi, block
<1>8. /\ Layout'
      /\ allocated' \subseteq Heaps /\ "dsh" \in allocated'
      /\ offset' \in [Heaps -> Nat] /\ offset'["dsh"] = hi
      /\ DOMAIN mem' = Heaps /\ mem'["dsh"] = mem["dsh"] \cup {block}
      /\ allocated \subseteq allocated'
      /\ \A g \in Heaps \ {"dsh"} : offset'[g] = offset[g] /\ mem'[g] = mem[g]
  <2>1. "dsh" \in Heaps /\ block.lo = Cursor("dsh") /\ block.hi = hi /\ Cursor("dsh") <= hi
    BY <1>4, <1>6 DEF Heaps, lo
  <2>2. /\ TypeOK /\ Layout /\ Advance("dsh", hi)
        /\ mem' = [mem EXCEPT !["dsh"] =
                     Write(mem["dsh"], lo + INTERFACE_DESCRIPTOR_DATA_Size, block)]
    BY <1>1
  <2>  QED  BY <1>4, <2>1, <2>2, AppendBlock
<1>9. block \in Blocks(Descriptor)
  BY <1>1, <1>3, <1>4, <1>6, <1>7 DEF Blocks, TypeOK
<1>10. TypeOK'
  BY <1>1, <1>2, <1>8, <1>9 DEF TypeOK, Stages, Heaps, request, scratches, device
<1>11. InFlightCoherent'
  BY <1>1, <1>8, InFlightSurvives DEF device
<1>12. TableReady'
  BY <1>1, <1>8 DEF TableReady, AfterSsh, Heaps, Info, TableAt, request
<1>13. IndirectReady'
  BY <1>1, <1>8 DEF IndirectReady, AfterIoh, Heaps, Info, IndirectAt, IndirectLength, request
<1>14. DescriptorReady'
  <2>1. DescriptorAt' = lo
    BY <1>3, <1>4, <1>8 DEF DescriptorAt, AlignUp, INTERFACE_DESCRIPTOR_DATA_Size, CacheLineSize
  <2>2. cmds = [kernel |-> kernel, threads |-> payload.threads,
                table |-> TableAt, slm |-> slm > 0]'
    BY <1>1, <1>8 DEF TableAt, Heaps, request
  <2>3. slm' = AlignUp(Info.slm, KiloByte)'
    BY <1>1 DEF Info, request
  <2>4. block \in mem'["dsh"] /\ block.call = call' /\ block.lo = DescriptorAt'
        /\ block.cmd = cmds
    BY <1>1, <1>6, <1>8, <2>1
  <2>  QED  BY <2>2, <2>3, <2>4 DEF DescriptorReady
<1>15. TaskReady' /\ ReceiverReady'
  BY <1>1 DEF TaskReady, ReceiverReady, AfterTask, AfterCsr
<1>  QED  BY <1>8, <1>10, <1>11, <1>12, <1>13, <1>14, <1>15 DEF DispatcherInv

LEMMA CreateCommandStreamTaskStep ==
    ASSUME DispatcherInv, CreateCommandStreamTask
    PROVE  DispatcherInv'
<1> DEFINE lo == Cursor("task")
           hi == AlignUp(lo + TaskBytes, CacheLineSize)
           cmds == TaskStream(completionTag')
           block == Block(lo, hi, cmds)
<1>1. /\ TypeOK /\ Layout /\ InFlightCoherent
      /\ TableReady /\ IndirectReady /\ DescriptorReady
      /\ pc = "task" /\ pc' = "csr"
      /\ UNCHANGED <<result, call, failures, failuresBefore>>
      /\ UNCHANGED <<request, payload, slm, scratches, device>>
      /\ completionTag' = completionTag + 1
      /\ Advance("task", hi)
      /\ taskOffset' = [taskOffset EXCEPT !["task"] = hi - lo]
      /\ mem' = [mem EXCEPT !["task"] = Write(@, hi, block)]
  BY DEF DispatcherInv, CreateCommandStreamTask, Proceed, AppendStream
<1>2. lo \in Nat /\ lo % CacheLineSize = 0
  BY <1>1, CursorFacts DEF Heaps
<1>3. hi \in Nat /\ lo <= hi /\ hi % CacheLineSize = 0
  BY <1>2, StreamEnd, TaskLength
<1>4. cmds \in TaskCommands
  <2>1. DescriptorAt \in Nat
    BY <1>1, BlockType DEF DescriptorReady, AfterDsh, Heaps
  <2>2. IndirectAt \in Nat
    BY <1>1, BlockType DEF IndirectReady, AfterIoh, Heaps
  <2>3. IndirectLength \in Nat
    <3>1. payload.crossThread + payload.perThread \in Nat
      BY <1>1 DEF TypeOK
    <3>  QED  BY <3>1, LineUp DEF IndirectLength
  <2>4. ThreadWidthField(payload.threads - 1) \in 0..63
    <3>1. payload.threads \in Nat
      BY <1>1 DEF TypeOK
    <3>  QED  BY <3>1 DEF ThreadWidthField
  <2>5. grid.groups \in Sizes /\ completionTag' \in Nat
    BY <1>1 DEF TypeOK, Grid
  <2>  QED  BY <2>1, <2>2, <2>3, <2>4, <2>5
            DEF TaskCommands, TaskStream, DescriptorAt, IndirectAt
<1>5. block = [lo |-> lo, hi |-> hi, call |-> call, cmd |-> cmds]
  BY DEF Block
<1> HIDE DEF lo, hi, cmds, block
<1>6. /\ Layout'
      /\ allocated' \subseteq Heaps
      /\ offset' \in [Heaps -> Nat] /\ offset'["task"] = hi
      /\ DOMAIN mem' = Heaps /\ mem'["task"] = mem["task"] \cup {block}
      /\ allocated \subseteq allocated'
      /\ \A g \in Heaps \ {"task"} : offset'[g] = offset[g] /\ mem'[g] = mem[g]
  <2>1. "task" \in Heaps /\ block.lo = Cursor("task") /\ block.hi = hi /\ Cursor("task") <= hi
    BY <1>3, <1>5 DEF Heaps, lo
  <2>2. /\ TypeOK /\ Layout /\ Advance("task", hi)
        /\ mem' = [mem EXCEPT !["task"] = Write(mem["task"], hi, block)]
    BY <1>1
  <2>  QED  BY <1>3, <2>1, <2>2, AppendBlock, ZenonT(30)
<1>7. taskOffset' \in [{"task", "csr"} -> Nat] /\ taskOffset'["task"] = hi - lo
  BY <1>1, <1>2, <1>3 DEF TypeOK
<1>8. block \in Blocks(TaskCommands)
  BY <1>1, <1>2, <1>3, <1>4, <1>5 DEF Blocks, TypeOK
<1>9. TypeOK'
  BY <1>1, <1>6, <1>7, <1>8, SMTT(30) DEF TypeOK, Stages, Heaps, request, scratches, device
<1>10. InFlightCoherent'
  BY <1>1, <1>6, InFlightSurvives DEF device
<1>11. TableReady'
  BY <1>1, <1>6 DEF TableReady, AfterSsh, Heaps, Info, TableAt, request
<1>12. IndirectReady'
  BY <1>1, <1>6 DEF IndirectReady, AfterIoh, Heaps, Info, IndirectAt, IndirectLength, request
<1>13. DescriptorReady'
  BY <1>1, <1>6 DEF DescriptorReady, AfterDsh, Heaps, Info, DescriptorAt, TableAt, request
<1>14. TaskReady'
  <2>1. StreamAt("task")' = lo
    <3>1. offset'["task"] = hi /\ taskOffset'["task"] = hi - lo
      BY <1>6, <1>7
    <3>  QED  BY <1>2, <1>3, <3>1 DEF StreamAt
  <2>2. cmds = TaskStream(completionTag)'
    BY <1>1, <1>6 DEF cmds, TaskStream, IndirectLength, Heaps, request
  <2>3. block \in mem'["task"] /\ block.call = call' /\ block.lo = StreamAt("task")'
        /\ block.cmd = TaskStream(completionTag)'
    BY <1>1, <1>5, <1>6, <2>1, <2>2
  <2>  QED  BY <2>3 DEF TaskReady
<1>15. ReceiverReady'
  BY <1>1 DEF ReceiverReady, AfterCsr
<1>  QED  BY <1>6, <1>9, <1>10, <1>11, <1>12, <1>13, <1>14, <1>15 DEF DispatcherInv

LEMMA CreateCommandStreamReceiverStep ==
    ASSUME DispatcherInv, CreateCommandStreamReceiver
    PROVE  DispatcherInv'
<1> DEFINE lo == Cursor("csr")
           hi == AlignUp(lo + CsrBytes, CacheLineSize)
           cmds == [task |-> StreamAt("task"), scratch |-> scratch,
                    perThread |-> perThreadScratchSpace, slm |-> slm > 0]
           block == Block(lo, hi, cmds)
<1>1. /\ TypeOK /\ Layout /\ InFlightCoherent
      /\ TableReady /\ IndirectReady /\ DescriptorReady /\ TaskReady
      /\ pc = "csr" /\ pc' = "submit"
      /\ UNCHANGED <<result, call, failures, failuresBefore>>
      /\ UNCHANGED <<request, payload, slm, scratches, completionTag, device>>
      /\ Advance("csr", hi)
      /\ taskOffset' = [taskOffset EXCEPT !["csr"] = hi - lo]
      /\ mem' = [mem EXCEPT !["csr"] = Write(@, hi, block)]
  BY DEF DispatcherInv, CreateCommandStreamReceiver, Proceed, AppendStream, StreamAt
<1>2. lo \in Nat /\ lo % CacheLineSize = 0
  BY <1>1, CursorFacts DEF Heaps
<1>3. /\ hi \in Nat /\ lo <= hi /\ hi % CacheLineSize = 0
      /\ (hi - lo) % CacheLineSize = 0
  BY <1>2, StreamEnd, CsrLength
<1>4. cmds \in CsrCommands
  <2>1. StreamAt("task") \in Nat
    BY <1>1, BlockType DEF TaskReady, AfterTask, Heaps
  <2>  QED  BY <1>1, <2>1 DEF CsrCommands, TypeOK
<1>5. block = [lo |-> lo, hi |-> hi, call |-> call, cmd |-> cmds]
  BY DEF Block
<1> HIDE DEF lo, hi, block
<1>6. /\ Layout'
      /\ allocated' \subseteq Heaps
      /\ offset' \in [Heaps -> Nat] /\ offset'["csr"] = hi
      /\ DOMAIN mem' = Heaps /\ mem'["csr"] = mem["csr"] \cup {block}
      /\ allocated \subseteq allocated'
      /\ \A g \in Heaps \ {"csr"} : offset'[g] = offset[g] /\ mem'[g] = mem[g]
  <2>1. "csr" \in Heaps /\ block.lo = Cursor("csr") /\ block.hi = hi /\ Cursor("csr") <= hi
    BY <1>3, <1>5 DEF Heaps, lo
  <2>2. /\ TypeOK /\ Layout /\ Advance("csr", hi)
        /\ mem' = [mem EXCEPT !["csr"] = Write(mem["csr"], hi, block)]
    BY <1>1
  <2>  QED  BY <1>3, <2>1, <2>2, AppendBlock, ZenonT(30)
<1>7. /\ taskOffset' \in [{"task", "csr"} -> Nat]
      /\ taskOffset'["csr"] = hi - lo /\ taskOffset'["task"] = taskOffset["task"]
  BY <1>1, <1>2, <1>3 DEF TypeOK
<1>8. block \in Blocks(CsrCommands)
  BY <1>1, <1>2, <1>3, <1>4, <1>5 DEF Blocks, TypeOK
<1>9. TypeOK'
  BY <1>1, <1>6, <1>7, <1>8 DEF TypeOK, Stages, Heaps, request, scratches, device
<1>10. InFlightCoherent'
  BY <1>1, <1>6, InFlightSurvives DEF device
<1>11. TableReady'
  BY <1>1, <1>6 DEF TableReady, AfterSsh, Heaps, Info, TableAt, request
<1>12. IndirectReady'
  BY <1>1, <1>6 DEF IndirectReady, AfterIoh, Heaps, Info, IndirectAt, IndirectLength, request
<1>13. DescriptorReady'
  BY <1>1, <1>6 DEF DescriptorReady, AfterDsh, Heaps, Info, DescriptorAt, TableAt, request
<1>14. StreamAt("task")' = StreamAt("task")
  BY <1>6, <1>7 DEF StreamAt, Heaps
<1>15. TaskReady'
  <2>1. TaskStream(completionTag)' = TaskStream(completionTag)
    BY <1>1, <1>6 DEF TaskStream, IndirectLength, Heaps, request
  <2>  QED  BY <1>1, <1>6, <1>14, <2>1 DEF TaskReady, AfterTask, Heaps
<1>16. ReceiverReady'
  <2>1. StreamAt("csr")' = lo /\ taskOffset'["csr"] % CacheLineSize = 0
    <3>1. offset'["csr"] = hi /\ taskOffset'["csr"] = hi - lo
      BY <1>6, <1>7
    <3>  QED  BY <1>2, <1>3, <3>1 DEF StreamAt
  <2>2. /\ block \in mem'["csr"] /\ block.call = call' /\ block.lo = StreamAt("csr")'
        /\ block.hi = offset'["csr"] /\ block.cmd.task = StreamAt("task")'
        /\ block.cmd.slm = (slm' > 0)
    BY <1>1, <1>5, <1>6, <1>14, <2>1
  <2>  QED  BY <2>1, <2>2 DEF ReceiverReady
<1>  QED  BY <1>6, <1>9, <1>10, <1>11, <1>12, <1>13, <1>15, <1>16 DEF DispatcherInv

-----------------------------------------------------------------------------
(* The theorems *)

LEMMA StepDispatcherInv == DispatcherInv /\ [Next]_vars => DispatcherInv'
<1> SUFFICES ASSUME DispatcherInv, [Next]_vars
             PROVE  DispatcherInv'
  OBVIOUS
<1>1. CASE \E k \in Kernels, req \in Requests : ExecuteKernel(k, req)
  BY <1>1, ExecuteKernelStep
<1>2. CASE CreateScratchAllocation
  BY <1>2, CreateScratchAllocationStep
<1>3. CASE \/ \E h \in Heaps : HeapAllocationFails(h)
           \/ SubmitFails \/ FinishExecution \/ WaitFails
  BY <1>3, FailureStep
<1>4. CASE CreateSurfaceStateHeap
  BY <1>4, CreateSurfaceStateHeapStep
<1>5. CASE CreateIndirectObjectHeap
  BY <1>5, CreateIndirectObjectHeapStep
<1>6. CASE CreateDynamicStateHeap
  BY <1>6, CreateDynamicStateHeapStep
<1>7. CASE CreateCommandStreamTask
  BY <1>7, CreateCommandStreamTaskStep
<1>8. CASE CreateCommandStreamReceiver
  BY <1>8, CreateCommandStreamReceiverStep
<1>9. CASE SubmitExecBuffer
  BY <1>9, SubmitExecBufferStep
<1>10. CASE Gpu
  BY <1>10, GpuStep
<1>11. CASE UNCHANGED vars
  <2>1. /\ UNCHANGED <<control, request, payload, heaps, slm, scratches, completionTag, device>>
        /\ DispatcherInv
    BY <1>11 DEF vars
  <2>2. TypeOK' /\ Layout'
    BY <2>1 DEF DispatcherInv, TypeOK, Layout, control, request, heaps, scratches, device
  <2>3. TableReady' /\ IndirectReady' /\ DescriptorReady' /\ TaskReady' /\ ReceiverReady'
    BY <2>1 DEF DispatcherInv, TableReady, IndirectReady, DescriptorReady, TaskReady,
         ReceiverReady, control, heaps, request, Info, TableAt, IndirectAt, DescriptorAt,
         StreamAt, IndirectLength, TaskStream
  <2>4. InFlightCoherent'
    BY <2>1, InFlightSurvives DEF DispatcherInv, heaps, device
  <2>  QED  BY <2>2, <2>3, <2>4 DEF DispatcherInv
<1>  QED  BY <1>1, <1>2, <1>3, <1>4, <1>5, <1>6, <1>7, <1>8, <1>9, <1>10, <1>11
          DEF Next, Stage

(* DispatcherInv holds in every state of every execution. *)
THEOREM DispatcherInvariant == Spec => []DispatcherInv
  BY InitDispatcherInv, StepDispatcherInv, PTL DEF Spec

(* The state of a context keeps its types, for any kernels and requests:   *)
(* no cursor and no pointer computed from cursors becomes negative.        *)
THEOREM DispatcherTypeCorrect == Spec => []TypeOK
<1>1. DispatcherInv => TypeOK
  BY DEF DispatcherInv
<1>  QED  BY <1>1, DispatcherInvariant, PTL

(* Whatever fails and however calls and batches overlap, the GPU finds     *)
(* behind every queued batch the blocks that the submitting call wrote.    *)
THEOREM InFlightCoherentTheorem == Spec => []InFlightCoherent
<1>1. DispatcherInv => InFlightCoherent
  BY DEF DispatcherInv
<1>  QED  BY <1>1, DispatcherInvariant, PTL

-----------------------------------------------------------------------------
(* Heaps are append-only *)

LEMMA AppendOnly ==
    ASSUME TypeOK, Layout, NEW g \in Heaps, NEW end, NEW hi, NEW cmd,
           mem' = [mem EXCEPT ![g] = Write(mem[g], end, Block(Cursor(g), hi, cmd))]
    PROVE  \A h \in Heaps : mem[h] \subseteq mem'[h]
<1> DEFINE block == Block(Cursor(g), hi, cmd)
<1>1. Write(mem[g], end, block) = mem[g] \cup {block}
  BY CursorFacts, WriteAppends DEF Block
<1>2. DOMAIN mem = Heaps
  BY DEF TypeOK
<1>  QED  BY <1>1, <1>2

LEMMA AppendOnlyStep ==
    ASSUME DispatcherInv, Next
    PROVE  \A h \in Heaps : mem[h] \subseteq mem'[h]
<1>1. TypeOK /\ Layout
  BY DEF DispatcherInv
<1>0. \A h \in {"ssh", "ioh", "dsh", "task", "csr"} : h \in Heaps
  BY DEF Heaps
<1>2. CASE CreateSurfaceStateHeap
  <2>1. CASE mem' = mem
    BY <2>1
  <2>2. CASE mem' # mem
    <3>1. PICK end, hi, cmd : mem' = [mem EXCEPT !["ssh"] =
                                        Write(mem["ssh"], end, Block(Cursor("ssh"), hi, cmd))]
      BY <1>2, <2>2 DEF CreateSurfaceStateHeap
    <3>  QED  BY <1>1, <1>0, <3>1, AppendOnly
  <2>  QED  BY <2>1, <2>2
<1>3. CASE CreateIndirectObjectHeap
  <2>1. PICK end, hi, cmd : mem' = [mem EXCEPT !["ioh"] =
                                      Write(mem["ioh"], end, Block(Cursor("ioh"), hi, cmd))]
    BY <1>3 DEF CreateIndirectObjectHeap
  <2>  QED  BY <1>1, <1>0, <2>1, AppendOnly
<1>4. CASE CreateDynamicStateHeap
  <2>1. PICK end, hi, cmd : mem' = [mem EXCEPT !["dsh"] =
                                      Write(mem["dsh"], end, Block(Cursor("dsh"), hi, cmd))]
    BY <1>4 DEF CreateDynamicStateHeap
  <2>  QED  BY <1>1, <1>0, <2>1, AppendOnly
<1>5. CASE CreateCommandStreamTask
  <2>1. PICK end, hi, cmd : mem' = [mem EXCEPT !["task"] =
                                      Write(mem["task"], end, Block(Cursor("task"), hi, cmd))]
    BY <1>5 DEF CreateCommandStreamTask, AppendStream
  <2>  QED  BY <1>1, <1>0, <2>1, AppendOnly
<1>6. CASE CreateCommandStreamReceiver
  <2>1. PICK end, hi, cmd : mem' = [mem EXCEPT !["csr"] =
                                      Write(mem["csr"], end, Block(Cursor("csr"), hi, cmd))]
    BY <1>6 DEF CreateCommandStreamReceiver, AppendStream
  <2>  QED  BY <1>1, <1>0, <2>1, AppendOnly
<1>7. CASE \/ \E k \in Kernels, req \in Requests : ExecuteKernel(k, req)
           \/ CreateScratchAllocation
           \/ \E h \in Heaps : HeapAllocationFails(h)
           \/ SubmitExecBuffer \/ SubmitFails \/ FinishExecution \/ WaitFails
           \/ Gpu
  <2>1. mem' = mem
    BY <1>7 DEF ExecuteKernel, CreateScratchAllocation, HeapAllocationFails, SubmitExecBuffer,
         SubmitFails, FinishExecution, WaitFails, Gpu, GpuRunsBatch, GpuResets, heaps
  <2>  QED  BY <2>1
<1>  QED  BY <1>2, <1>3, <1>4, <1>5, <1>6, <1>7 DEF Next, Stage

(* No step of any call destroys a block of an earlier one, whatever the    *)
(* number of calls: only the end of a buffer object ends the heap.         *)
THEOREM BlocksSurviveTheorem == Spec => BlocksSurvive
<1>1. DispatcherInv /\ [Next]_vars => [\A h \in Heaps : mem[h] \subseteq mem'[h]]_vars
  <2> SUFFICES ASSUME DispatcherInv, [Next]_vars
               PROVE  [\A h \in Heaps : mem[h] \subseteq mem'[h]]_vars
    OBVIOUS
  <2>1. CASE Next
    BY <2>1, AppendOnlyStep
  <2>2. CASE UNCHANGED vars
    BY <2>2
  <2>  QED  BY <2>1, <2>2
<1>  QED  BY <1>1, DispatcherInvariant, PTL DEF Spec, BlocksSurvive

-----------------------------------------------------------------------------
(* Scratch space *)

LEMMA ScratchStep ==
    ASSUME DispatcherInv, ScratchAccounted, [Next]_vars
    PROVE  ScratchAccounted'
<1>1. CASE \E k \in Kernels, req \in Requests : ExecuteKernel(k, req)
  <2>1. UNCHANGED scratches /\ pc' \notin Stages \ {"scratch", "newScratch"}
    BY <1>1 DEF ExecuteKernel, Stages, Heaps
  <2>  QED  BY <2>1 DEF ScratchAccounted, scratches
<1>2. CASE CreateScratchAllocation
  <2>1. pc \in {"scratch", "newScratch"} /\ Info' = Info
    BY <1>2 DEF CreateScratchAllocation, KeepScratch, ResetScratch, ResetScratchUnwaited,
         GrowScratch, LoseScratch, Proceed, Fail, Leave, Info, request
  <2>2. RequiredScratch(Info)' = RequiredScratch(Info) /\ RequiredScratch(Info) \in Nat
    BY <2>1, InfoType, ScratchType DEF DispatcherInv, RequiredScratch
  <2>3. CASE KeepScratch
    BY <2>2, <2>3 DEF KeepScratch, ScratchAccounted, scratches
  <2>4. CASE GrowScratch
    BY <2>2, <2>4 DEF GrowScratch, ScratchAccounted
  <2>5. CASE LoseScratch
    BY <2>2, <2>5 DEF LoseScratch, Fail, Leave, ScratchAccounted, scratches, Stages, Heaps
  <2>6. CASE ResetScratch \/ ResetScratchUnwaited
    BY <2>6 DEF ResetScratch, ResetScratchUnwaited, Proceed, ScratchAccounted
  <2>  QED  BY <1>2, <2>3, <2>4, <2>5, <2>6 DEF CreateScratchAllocation
<1>3. CASE \/ \E h \in Heaps : HeapAllocationFails(h)
           \/ SubmitFails \/ FinishExecution \/ WaitFails
  <2>1. UNCHANGED scratches /\ pc' = "idle"
    BY <1>3 DEF HeapAllocationFails, SubmitFails, FinishExecution, WaitFails, Fail, Leave
  <2>  QED  BY <2>1 DEF ScratchAccounted, scratches, Stages, Heaps
<1>4. CASE \/ CreateSurfaceStateHeap \/ CreateIndirectObjectHeap \/ CreateDynamicStateHeap
           \/ CreateCommandStreamTask \/ CreateCommandStreamReceiver \/ SubmitExecBuffer
           \/ Gpu \/ UNCHANGED vars
  <2>1. UNCHANGED scratches /\ Info' = Info
    BY <1>4 DEF CreateSurfaceStateHeap, CreateIndirectObjectHeap, CreateDynamicStateHeap,
         CreateCommandStreamTask, CreateCommandStreamReceiver, SubmitExecBuffer,
         Gpu, GpuRunsBatch, GpuResets, vars, request, Info
  <2>2. pc' \in Stages \ {"scratch", "newScratch"} => pc \in Stages \ {"scratch", "newScratch"}
    BY <1>4 DEF CreateSurfaceStateHeap, CreateIndirectObjectHeap, CreateDynamicStateHeap,
         CreateCommandStreamTask, CreateCommandStreamReceiver, SubmitExecBuffer, Proceed,
         Gpu, GpuRunsBatch, GpuResets, vars, control, Stages, Heaps
  <2>  QED  BY <2>1, <2>2 DEF ScratchAccounted, scratches, RequiredScratch
<1>  QED  BY <1>1, <1>2, <1>3, <1>4 DEF Next, Stage

(* Past its scratch stage a call has as much scratch space recorded as its *)
(* kernel needs, and an allocation that is there has the recorded size.    *)
(* That it is there does not follow, see the run DispatcherScratchLost.    *)
THEOREM ScratchAccountedTheorem == Spec => []ScratchAccounted
<1>1. Init => ScratchAccounted
  BY DEF Init, ScratchAccounted, Stages, Heaps
<1>2. DispatcherInv /\ ScratchAccounted /\ [Next]_vars => ScratchAccounted'
  BY ScratchStep
<1>  QED  BY <1>1, <1>2, DispatcherInvariant, PTL DEF Spec

-----------------------------------------------------------------------------
(* How many calls fit the heaps *)

(* A work group is put together from sizes of this request and earlier     *)
(* ones, or the initial ones.                                              *)
Groups ==
    {items \in Sizes : \A d \in Dims :
        items[d] = 1 \/ \E req \in Requests : items[d] = req.local[d]}

(* In whole cache lines, s bytes of heap h are enough for a call, whatever *)
(* its kernel and its work group.                                          *)
Serves(h, s) ==
    /\ s % CacheLineSize = 0
    /\ h = "ssh" => \A k \in Kernels :
         KernelInfo[k].bindings * RENDER_SURFACE_STATE_Size
             + KernelInfo[k].bindings * BINDING_TABLE_STATE_Size <= s
    /\ h = "ioh" => \A k \in Kernels, items \in Groups :
         LET info == KernelInfo[k]
         IN  /\ info.crossThread + PayloadOf(info, items).perThread <= s
             /\ info.crossThread + GeneratedBytes(info, items) <= s
    /\ h = "dsh" => INTERFACE_DESCRIPTOR_DATA_Size <= s
    /\ h = "task" => TaskBytes <= s
    /\ h = "csr" => CsrBytes <= s

(* The calls of a context fit heap h, if each takes as much as any can.    *)
HoldsCalls(h) ==
    \E s \in Nat : Serves(h, s) /\ CacheLineSize + MaxExecutions * s <= HeapBytes

CallsFit == \A h \in Heaps : HoldsCalls(h)

(* The stages of a call before it has written to heap h; Spent is the      *)
(* number of calls that may have written to it.                            *)
UpTo(h) ==
    {"scratch", "newScratch"} \cup (IF h = "ssh" THEN {"ssh"}
                                    ELSE IF h = "ioh" THEN {"ssh", "ioh"}
                                    ELSE IF h = "dsh" THEN {"ssh", "ioh", "dsh"}
                                    ELSE IF h = "task" THEN {"ssh", "ioh", "dsh", "task"}
                                    ELSE {"ssh", "ioh", "dsh", "task", "csr"})

Spent(h) == IF pc \in UpTo(h) THEN call - 1 ELSE call

CallInv ==
    /\ call <= MaxExecutions
    /\ pc # "idle" => call > 0
    /\ grid.items \in Groups

(* A call takes at most s bytes of the heap, and the first line of the     *)
(* surface state heap is left out.                                         *)
Used(h, s) ==
    /\ Cursor(h) <= CacheLineSize + Spent(h) * s
    /\ h = "ioh" => \A b \in mem["ioh"] :
         LET info == KernelInfo[b.cmd.kernel]
         IN  b.lo + info.crossThread + GeneratedBytes(info, b.cmd.grid.items)
                 <= CacheLineSize + MaxExecutions * s

LEMMA TimesMonotone ==
    ASSUME NEW a \in Nat, NEW b \in Nat, NEW s \in Nat, a <= b
    PROVE  a * s \in Nat /\ b * s \in Nat /\ a * s <= b * s
<1>1. PICK d \in Nat : b = a + d
  <2>1. b - a \in Nat /\ b = a + (b - a)
    OBVIOUS
  <2>  QED  BY <2>1
<1>2. d * s \in Nat /\ a * s \in Nat /\ (a + d) * s = a * s + d * s
  OBVIOUS
<1>  QED  BY <1>1, <1>2

LEMMA TimesNext ==
    ASSUME NEW a \in Nat, NEW s \in Nat
    PROVE  (a + 1) * s = a * s + s
  OBVIOUS

(* What is rounded up to a cache line stays below a bound of whole lines.  *)
LEMMA LineUpBelow ==
    ASSUME NEW lo \in Nat, lo % CacheLineSize = 0, NEW n \in Nat,
           NEW s \in Nat, s % CacheLineSize = 0, n <= s
    PROVE  AlignUp(lo + n, CacheLineSize) <= lo + s
<1>1. AlignUp(n, CacheLineSize) <= s
  BY DEF AlignUp, CacheLineSize
<1>2. AlignUp(lo + n, CacheLineSize) = lo + AlignUp(n, CacheLineSize)
  BY LineUpShift
<1>3. AlignUp(n, CacheLineSize) \in Nat
  BY LineUp
<1>  QED  BY <1>1, <1>2, <1>3

LEMMA InitialGroup == InitialGrid.items \in Groups
  BY DEF InitialGrid, Groups, Sizes

LEMMA GroupsStay ==
    ASSUME NEW g \in Grid, g.items \in Groups, NEW req \in Requests, NEW required \in Sizes
    PROVE  ValidatedGrid(g, req, required).items \in Groups
<1> DEFINE v == ValidatedGrid(g, req, required)
<1>1. req \in Request
  BY RequestsAssumption
<1>2. v.items \in Sizes
  BY <1>1, ValidatedGridType DEF Grid
<1>3. ASSUME NEW d \in Dims PROVE v.items[d] = g.items[d] \/ v.items[d] = req.local[d]
  <2>1. CASE ~ReachesLoop(req)
    BY <2>1 DEF ValidatedGrid
  <2>2. CASE ReachesLoop(req) /\ ValidationCode(req, required) = "SUCCESS"
    BY <1>1, <2>2, ValidatedGridSuccess
  <2>3. CASE ReachesLoop(req) /\ ValidationCode(req, required) # "SUCCESS"
    <3>1. v = LoopGrid(g, req, required)
      BY <2>3 DEF ValidatedGrid
    <3>2. LoopGrid(g, req, required).items[d] =
             IF d \in Accepted(req, required) THEN req.local[d] ELSE g.items[d]
      BY DEF LoopGrid, Grid
    <3>  QED  BY <3>1, <3>2
  <2>  QED  BY <2>1, <2>2, <2>3
<1>  QED  BY <1>2, <1>3 DEF Groups

LEMMA CallInvInit == Init => CallInv
  BY InitialGroup, DispatcherAssumption DEF Init, CallInv

LEMMA CallStep ==
    ASSUME TypeOK, CallInv, [Next]_vars
    PROVE  CallInv'
<1>1. ASSUME NEW k \in Kernels, NEW req \in Requests, ExecuteKernel(k, req) PROVE CallInv'
  <2>1. KernelInfo[k].required \in Sizes
    BY DispatcherAssumption, RequestsAssumption DEF KernelData
  <2>2. grid'.items \in Groups
    BY <1>1, <2>1, GroupsStay DEF ExecuteKernel, TypeOK, CallInv
  <2>  QED  BY <1>1, <2>2, DispatcherAssumption DEF ExecuteKernel, CallInv, TypeOK
<1>2. CASE Stage
  <2>1. call' = call /\ grid' = grid /\ pc # "idle"
    BY <1>2 DEF Stage, CreateScratchAllocation, KeepScratch, ResetScratch,
         ResetScratchUnwaited, GrowScratch, LoseScratch, HeapAllocationFails,
         CreateSurfaceStateHeap, CreateIndirectObjectHeap,
         CreateDynamicStateHeap, CreateCommandStreamTask, CreateCommandStreamReceiver,
         SubmitExecBuffer, SubmitFails, FinishExecution, WaitFails, Proceed, Fail, Leave,
         request, Heaps
  <2>  QED  BY <2>1 DEF CallInv
<1>3. CASE Gpu \/ UNCHANGED vars
  BY <1>3 DEF Gpu, GpuRunsBatch, GpuResets, vars, control, request, CallInv
<1>  QED  BY <1>1, <1>2, <1>3 DEF Next

LEMMA SpentType ==
    ASSUME TypeOK, CallInv, NEW h \in Heaps
    PROVE  Spent(h) \in Nat /\ Spent(h) <= MaxExecutions
<1>1. "idle" \notin UpTo(h)
  BY DEF UpTo
<1>2. call \in Nat /\ MaxExecutions \in Nat
  BY DispatcherAssumption DEF TypeOK
<1>  QED  BY <1>1, <1>2 DEF Spent, CallInv

(* The heap that the step of a stage writes to. *)
Creates(h) ==
    \/ h = "ssh" /\ CreateSurfaceStateHeap
    \/ h = "ioh" /\ CreateIndirectObjectHeap
    \/ h = "dsh" /\ CreateDynamicStateHeap
    \/ h = "task" /\ CreateCommandStreamTask
    \/ h = "csr" /\ CreateCommandStreamReceiver

LEMMA CreationSpends ==
    ASSUME TypeOK, CallInv, NEW h \in Heaps, Creates(h)
    PROVE  Spent(h)' = Spent(h) + 1
<1>1. call' = call /\ call \in Nat
  BY DEF Creates, CreateSurfaceStateHeap, CreateIndirectObjectHeap, CreateDynamicStateHeap,
       CreateCommandStreamTask, CreateCommandStreamReceiver, Proceed, TypeOK
<1>2. pc \in UpTo(h)
  BY DEF Creates, CreateSurfaceStateHeap, CreateIndirectObjectHeap, CreateDynamicStateHeap,
       CreateCommandStreamTask, CreateCommandStreamReceiver, Proceed, UpTo, Heaps
<1>3. pc' \notin UpTo(h)
  BY DEF Creates, CreateSurfaceStateHeap, CreateIndirectObjectHeap, CreateDynamicStateHeap,
       CreateCommandStreamTask, CreateCommandStreamReceiver, Proceed, UpTo, Heaps
<1>  QED  BY <1>1, <1>2, <1>3 DEF Spent

LEMMA OtherStepSpends ==
    ASSUME TypeOK, CallInv, [Next]_vars, NEW h \in Heaps
    PROVE  Spent(h) <= Spent(h)'
<1>1. call \in Nat
  BY DEF TypeOK
<1>2. ASSUME NEW k \in Kernels, NEW req \in Requests, ExecuteKernel(k, req)
      PROVE  Spent(h) <= Spent(h)'
  <2>1. pc = "idle" /\ call' = call + 1
    BY <1>2 DEF ExecuteKernel
  <2>2. "idle" \notin UpTo(h)
    BY DEF UpTo
  <2>  QED  BY <1>1, <2>1, <2>2 DEF Spent
<1>3. CASE Stage
  <2>1. call' = call
    BY <1>3 DEF Stage, CreateScratchAllocation, KeepScratch, ResetScratch,
         ResetScratchUnwaited, GrowScratch, LoseScratch, HeapAllocationFails,
         CreateSurfaceStateHeap, CreateIndirectObjectHeap,
         CreateDynamicStateHeap, CreateCommandStreamTask, CreateCommandStreamReceiver,
         SubmitExecBuffer, SubmitFails, FinishExecution, WaitFails, Proceed, Fail, Leave
  <2>2. pc' \in UpTo(h) => pc \in UpTo(h)
    <3>1. \/ pc' = "idle"
          \/ <<pc, pc'>> \in {<<"scratch", "newScratch">>, <<"scratch", "ssh">>,
                              <<"newScratch", "ssh">>, <<"ssh", "ioh">>, <<"ioh", "dsh">>,
                              <<"dsh", "task">>, <<"task", "csr">>, <<"csr", "submit">>,
                              <<"submit", "finish">>}
      BY <1>3 DEF Stage, CreateScratchAllocation, KeepScratch, ResetScratch,
           ResetScratchUnwaited, GrowScratch, LoseScratch, HeapAllocationFails,
           CreateSurfaceStateHeap, CreateIndirectObjectHeap,
           CreateDynamicStateHeap, CreateCommandStreamTask, CreateCommandStreamReceiver,
           SubmitExecBuffer, SubmitFails, FinishExecution, WaitFails, Proceed, Fail, Leave
    <3>  QED  BY <3>1 DEF UpTo, Heaps
  <2>  QED  BY <1>1, <2>1, <2>2 DEF Spent
<1>4. CASE Gpu \/ UNCHANGED vars
  BY <1>1, <1>4 DEF Gpu, GpuRunsBatch, GpuResets, vars, control, Spent
<1>  QED  BY <1>2, <1>3, <1>4 DEF Next

(* A heap is as it was unless its own stage writes to it. *)
LEMMA OtherHeapStays ==
    ASSUME TypeOK, [Next]_vars, NEW h \in Heaps, ~Creates(h)
    PROVE  Cursor(h)' = Cursor(h) /\ mem'[h] = mem[h]
<1>1. ASSUME NEW g \in Heaps \ {h}, NEW to, Advance(g, to),
             mem' = mem \/ \E blocks : mem' = [mem EXCEPT ![g] = blocks]
      PROVE  Cursor(h)' = Cursor(h) /\ mem'[h] = mem[h]
  <2>1. (h \in allocated') <=> (h \in allocated)
    BY <1>1 DEF Advance
  <2>2. offset'[h] = offset[h]
    BY <1>1 DEF Advance, TypeOK
  <2>3. mem'[h] = mem[h]
    BY <1>1 DEF TypeOK
  <2>  QED  BY <2>1, <2>2, <2>3 DEF Cursor
<1>2. CASE CreateSurfaceStateHeap
  <2>1. "ssh" \in Heaps \ {h}
    BY <1>2 DEF Creates, Heaps
  <2>2. \E to : Advance("ssh", to)
    BY <1>2 DEF CreateSurfaceStateHeap
  <2>3. mem' = mem \/ \E blocks : mem' = [mem EXCEPT !["ssh"] = blocks]
    BY <1>2 DEF CreateSurfaceStateHeap
  <2>  QED  BY <1>1, <2>1, <2>2, <2>3
<1>3. CASE CreateIndirectObjectHeap
  <2>1. "ioh" \in Heaps \ {h}
    BY <1>3 DEF Creates, Heaps
  <2>2. \E to : Advance("ioh", to)
    BY <1>3 DEF CreateIndirectObjectHeap
  <2>3. \E blocks : mem' = [mem EXCEPT !["ioh"] = blocks]
    BY <1>3 DEF CreateIndirectObjectHeap
  <2>  QED  BY <1>1, <2>1, <2>2, <2>3
<1>4. CASE CreateDynamicStateHeap
  <2>1. "dsh" \in Heaps \ {h}
    BY <1>4 DEF Creates, Heaps
  <2>2. \E to : Advance("dsh", to)
    BY <1>4 DEF CreateDynamicStateHeap
  <2>3. \E blocks : mem' = [mem EXCEPT !["dsh"] = blocks]
    BY <1>4 DEF CreateDynamicStateHeap
  <2>  QED  BY <1>1, <2>1, <2>2, <2>3
<1>5. CASE CreateCommandStreamTask
  <2>1. "task" \in Heaps \ {h}
    BY <1>5 DEF Creates, Heaps
  <2>2. \E to : Advance("task", to)
    BY <1>5 DEF CreateCommandStreamTask, AppendStream
  <2>3. \E blocks : mem' = [mem EXCEPT !["task"] = blocks]
    BY <1>5 DEF CreateCommandStreamTask, AppendStream
  <2>  QED  BY <1>1, <2>1, <2>2, <2>3
<1>6. CASE CreateCommandStreamReceiver
  <2>1. "csr" \in Heaps \ {h}
    BY <1>6 DEF Creates, Heaps
  <2>2. \E to : Advance("csr", to)
    BY <1>6 DEF CreateCommandStreamReceiver, AppendStream
  <2>3. \E blocks : mem' = [mem EXCEPT !["csr"] = blocks]
    BY <1>6 DEF CreateCommandStreamReceiver, AppendStream
  <2>  QED  BY <1>1, <2>1, <2>2, <2>3
<1>7. CASE \/ \E k \in Kernels, req \in Requests : ExecuteKernel(k, req)
           \/ CreateScratchAllocation
           \/ \E g \in Heaps : HeapAllocationFails(g)
           \/ SubmitExecBuffer \/ SubmitFails \/ FinishExecution \/ WaitFails
           \/ Gpu \/ UNCHANGED vars
  <2>1. UNCHANGED heaps
    BY <1>7 DEF ExecuteKernel, CreateScratchAllocation, HeapAllocationFails, SubmitExecBuffer,
         SubmitFails, FinishExecution, WaitFails, Gpu, GpuRunsBatch, GpuResets, vars
  <2>  QED  BY <2>1 DEF heaps, Cursor
<1>  QED  BY <1>2, <1>3, <1>4, <1>5, <1>6, <1>7 DEF Next, Stage

(* The stage of a heap moves its cursor by at most what serves a call. *)
LEMMA CreationAdvances ==
    ASSUME TypeOK, Layout, CallInv, NEW h \in Heaps, Creates(h),
           NEW s \in Nat, Serves(h, s)
    PROVE  Cursor(h)' <= Cursor(h) + s
<1>1. Cursor(h) \in Nat /\ Cursor(h) % CacheLineSize = 0 /\ s % CacheLineSize = 0
  BY CursorFacts DEF Serves
<1>2. ASSUME NEW n \in Nat, n <= s, Advance(h, AlignUp(Cursor(h) + n, CacheLineSize))
      PROVE  Cursor(h)' <= Cursor(h) + s
  <2>1. Cursor(h)' = AlignUp(Cursor(h) + n, CacheLineSize)
    BY <1>2 DEF Advance, TypeOK, Cursor
  <2>  QED  BY <1>1, <1>2, <2>1, LineUpBelow
<1>3. pc # "idle"
  BY DEF Creates, CreateSurfaceStateHeap, CreateIndirectObjectHeap, CreateDynamicStateHeap,
       CreateCommandStreamTask, CreateCommandStreamReceiver, Proceed
<1>4. kernel \in Kernels /\ Info \in KernelData /\ Info = KernelInfo[kernel]
  BY <1>3, InfoType DEF Info
<1>5. CASE h = "ssh" /\ CreateSurfaceStateHeap
  <2> DEFINE n == Info.bindings * RENDER_SURFACE_STATE_Size
                      + Info.bindings * BINDING_TABLE_STATE_Size
  <2>1. Info.bindings \in Nat
    BY <1>4 DEF KernelData
  <2>2. n \in Nat /\ n <= s
    BY <1>4, <1>5, <2>1 DEF Serves, RENDER_SURFACE_STATE_Size, BINDING_TABLE_STATE_Size
  <2>3. CASE Info.bindings = 0
    <3>1. Advance("ssh", Cursor("ssh"))
      BY <1>5, <2>3 DEF CreateSurfaceStateHeap
    <3>2. Cursor(h)' = Cursor(h)
      BY <1>5, <3>1 DEF Advance, TypeOK, Cursor
    <3>  QED  BY <1>1, <3>2
  <2>4. CASE Info.bindings # 0
    <3>1. Cursor("ssh") + Info.bindings * RENDER_SURFACE_STATE_Size
              + Info.bindings * BINDING_TABLE_STATE_Size = Cursor("ssh") + n
      BY <1>1, <1>5, <2>1 DEF RENDER_SURFACE_STATE_Size, BINDING_TABLE_STATE_Size
    <3>2. Advance("ssh", AlignUp(Cursor("ssh") + n, CacheLineSize))
      BY <1>5, <2>4, <3>1 DEF CreateSurfaceStateHeap
    <3>  QED  BY <1>2, <1>5, <2>2, <3>2
  <2>  QED  BY <2>3, <2>4
<1>6. CASE h = "ioh" /\ CreateIndirectObjectHeap
  <2> DEFINE per == PayloadOf(Info, grid.items).perThread
             n == Info.crossThread + per
  <2>1. grid.items \in Sizes /\ grid.items \in Groups
    BY DEF TypeOK, Grid, CallInv
  <2>2. per \in Nat /\ Info.crossThread \in Nat
    BY <1>4, <2>1, PayloadType DEF KernelData
  <2>3. n <= s
    BY <1>4, <1>6, <2>1 DEF Serves
  <2>4. Advance("ioh", AlignUp(Cursor("ioh") + Info.crossThread + per, CacheLineSize))
    BY <1>6 DEF CreateIndirectObjectHeap
  <2> HIDE DEF per
  <2>5. n \in Nat /\ Cursor("ioh") + Info.crossThread + per = Cursor("ioh") + n
    BY <1>1, <1>6, <2>2
  <2>  QED  BY <1>2, <1>6, <2>3, <2>4, <2>5
<1>7. CASE h = "dsh" /\ CreateDynamicStateHeap
  <2>1. Advance("dsh", AlignUp(Cursor("dsh") + INTERFACE_DESCRIPTOR_DATA_Size, CacheLineSize))
    BY <1>7 DEF CreateDynamicStateHeap
  <2>2. INTERFACE_DESCRIPTOR_DATA_Size \in Nat /\ INTERFACE_DESCRIPTOR_DATA_Size <= s
    BY <1>7 DEF Serves, INTERFACE_DESCRIPTOR_DATA_Size
  <2>  QED  BY <1>2, <1>7, <2>1, <2>2
<1>8. CASE h = "task" /\ CreateCommandStreamTask
  <2>1. Advance("task", AlignUp(Cursor("task") + TaskBytes, CacheLineSize))
    BY <1>8 DEF CreateCommandStreamTask, AppendStream
  <2>  QED  BY <1>2, <1>8, <2>1, TaskLength DEF Serves
<1>9. CASE h = "csr" /\ CreateCommandStreamReceiver
  <2>1. Advance("csr", AlignUp(Cursor("csr") + CsrBytes, CacheLineSize))
    BY <1>9 DEF CreateCommandStreamReceiver, AppendStream
  <2>  QED  BY <1>2, <1>9, <2>1, CsrLength DEF Serves
<1>  QED  BY <1>5, <1>6, <1>7, <1>8, <1>9 DEF Creates

(* Where the bytes stored for a block of indirect data end. *)
StoredEnd(b) ==
    b.lo + KernelInfo[b.cmd.kernel].crossThread
         + GeneratedBytes(KernelInfo[b.cmd.kernel], b.cmd.grid.items)

LEMMA GeneratedType ==
    ASSUME NEW info \in KernelData, NEW items \in Sizes
    PROVE  GeneratedBytes(info, items) \in Nat
  BY VolumeInNat, ThreadsType DEF GeneratedBytes, GRFSize

LEMMA StoredEndType ==
    ASSUME TypeOK, NEW b \in mem["ioh"]
    PROVE  StoredEnd(b) \in Nat
<1>1. /\ b.lo \in Nat /\ b.cmd.kernel \in Kernels /\ b.cmd.grid.items \in Sizes
  BY DEF TypeOK, Blocks, IndirectData, Grid
<1>2. KernelInfo[b.cmd.kernel] \in KernelData
  BY <1>1, DispatcherAssumption
<1>  QED  BY <1>1, <1>2, GeneratedType DEF StoredEnd, KernelData

LEMMA CreationStores ==
    ASSUME TypeOK, Layout, CallInv, CreateIndirectObjectHeap,
           NEW s \in Nat, Serves("ioh", s)
    PROVE  \A b \in mem'["ioh"] :
               b \in mem["ioh"] \/ StoredEnd(b) <= Cursor("ioh") + s
<1> DEFINE lo == Cursor("ioh")
           hi == AlignUp(lo + Info.crossThread + PayloadOf(Info, grid.items).perThread,
                         CacheLineSize)
           block == Block(lo, hi, [kernel |-> kernel, grid |-> grid])
           end == lo + Info.crossThread + GeneratedBytes(Info, grid.items)
<1>1. kernel \in Kernels /\ Info \in KernelData /\ Info = KernelInfo[kernel]
  <2>1. pc # "idle"
    BY DEF CreateIndirectObjectHeap, Proceed
  <2>  QED  BY <2>1, InfoType DEF Info
<1>2. grid.items \in Sizes /\ grid.items \in Groups
  BY DEF TypeOK, Grid, CallInv
<1>3. mem' = [mem EXCEPT !["ioh"] = Write(mem["ioh"], end, block)]
  BY DEF CreateIndirectObjectHeap
<1>4. mem'["ioh"] = Write(mem["ioh"], end, block)
  BY <1>3 DEF TypeOK, Heaps
<1>5. StoredEnd(block) = lo + Info.crossThread + GeneratedBytes(Info, grid.items)
  BY <1>1 DEF StoredEnd, Block
<1>6. Info.crossThread + GeneratedBytes(Info, grid.items) <= s
  BY <1>1, <1>2 DEF Serves
<1>7. lo \in Nat /\ Info.crossThread \in Nat /\ GeneratedBytes(Info, grid.items) \in Nat
  BY <1>1, <1>2, CursorFacts, GeneratedType DEF Heaps, KernelData
<1>8. StoredEnd(block) <= lo + s
  <2> HIDE DEF lo, block
  <2>  QED  BY <1>5, <1>6, <1>7
<1>9. \A b \in mem'["ioh"] : b \in mem["ioh"] \/ b = block
  <2> HIDE DEF end, block
  <2>  QED  BY <1>4 DEF Write
<1> HIDE DEF block
<1>  QED  BY <1>8, <1>9 DEF lo

LEMMA UsedStep ==
    ASSUME DispatcherInv, CallInv, [Next]_vars, CallInv', TypeOK',
           NEW h \in Heaps, NEW s \in Nat, Serves(h, s), Used(h, s)
    PROVE  Used(h, s)'
<1>1. TypeOK /\ Layout
  BY DEF DispatcherInv
<1>2. /\ Spent(h) \in Nat /\ Spent(h) <= MaxExecutions
      /\ Spent(h)' \in Nat /\ Spent(h)' <= MaxExecutions
      /\ MaxExecutions \in Nat
  <2>1. Spent(h) \in Nat /\ Spent(h) <= MaxExecutions
    BY <1>1, SpentType
  <2>2. (Spent(h) \in Nat /\ Spent(h) <= MaxExecutions)'
    <3>1. "idle" \notin UpTo(h)
      BY DEF UpTo
    <3>2. call' \in Nat /\ MaxExecutions \in Nat
      BY DispatcherAssumption DEF TypeOK
    <3>3. call' <= MaxExecutions /\ (pc' # "idle" => call' > 0)
      BY DEF CallInv
    <3>4. Spent(h)' = IF pc' \in UpTo(h) THEN call' - 1 ELSE call'
      BY DEF Spent, UpTo
    <3>5. Spent(h)' \in Nat /\ Spent(h)' <= MaxExecutions
      <4>1. CASE pc' \in UpTo(h)
        <5>1. call' > 0 /\ Spent(h)' = call' - 1
          BY <3>1, <3>3, <3>4, <4>1
        <5>2. \A n, m \in Nat : n > 0 /\ n <= m => n - 1 \in Nat /\ n - 1 <= m
          OBVIOUS
        <5>3. call' - 1 \in Nat /\ call' - 1 <= MaxExecutions
          BY <3>2, <3>3, <5>1, <5>2
        <5>  QED  BY <5>1, <5>3, Zenon
      <4>2. CASE pc' \notin UpTo(h)
        BY <3>2, <3>3, <3>4, <4>2
      <4>  QED  BY <4>1, <4>2
    <3>  QED  BY <3>5
  <2>  QED  BY <2>1, <2>2, DispatcherAssumption
<1>3. Cursor(h) \in Nat /\ Cursor(h) <= CacheLineSize + Spent(h) * s /\ CacheLineSize \in Nat
  BY <1>1, CursorFacts DEF Used, CacheLineSize
<1>4. CASE ~Creates(h)
  <2>1. Cursor(h)' = Cursor(h) /\ mem'[h] = mem[h]
    BY <1>1, <1>4, OtherHeapStays
  <2>2. Spent(h) * s \in Nat /\ Spent(h)' * s \in Nat /\ Spent(h) * s <= Spent(h)' * s
    BY <1>1, <1>2, OtherStepSpends, TimesMonotone
  <2>3. Cursor(h)' <= CacheLineSize + Spent(h)' * s
    BY <1>3, <2>1, <2>2
  <2>  QED  BY <2>1, <2>3 DEF Used
<1>5. CASE Creates(h)
  <2>1. Spent(h)' = Spent(h) + 1 /\ Cursor(h)' <= Cursor(h) + s
    BY <1>1, <1>5, CreationSpends, CreationAdvances
  <2>2. (Spent(h) + 1) * s = Spent(h) * s + s /\ Spent(h) * s \in Nat
    BY <1>2, TimesNext
  <2>3. Cursor(h)' \in Nat
    <3>1. \A g \in Heaps : offset'[g] \in Nat
      BY DEF TypeOK
    <3>  QED  BY <3>1 DEF Cursor, RENDER_SURFACE_STATE_Size
  <2>4. Cursor(h) + s <= CacheLineSize + Spent(h)' * s
    BY <1>3, <2>1, <2>2
  <2>5. Spent(h)' * s \in Nat
    BY <1>2
  <2>6. Cursor(h)' <= CacheLineSize + Spent(h)' * s
    BY <1>3, <2>1, <2>3, <2>4, <2>5
  <2>7. ASSUME h = "ioh", NEW b \in mem'["ioh"]
        PROVE  StoredEnd(b) <= CacheLineSize + MaxExecutions * s
    <3>1. CASE b \in mem["ioh"]
      BY <2>7, <3>1 DEF Used, StoredEnd
    <3>2. CASE b \notin mem["ioh"]
      <4>1. CreateIndirectObjectHeap
        BY <1>5, <2>7 DEF Creates
      <4>2. StoredEnd(b) <= Cursor(h) + s
        BY <1>1, <2>7, <3>2, <4>1, CreationStores
      <4>3. Spent(h)' * s <= MaxExecutions * s /\ MaxExecutions * s \in Nat
        BY <1>2, TimesMonotone
      <4>4. StoredEnd(b) \in Nat
        <5>1. /\ b.lo \in Nat /\ b.cmd.kernel \in Kernels /\ b.cmd.grid.items \in Sizes
          BY <2>7 DEF TypeOK, Blocks, IndirectData, Grid
        <5>2. KernelInfo[b.cmd.kernel] \in KernelData
          BY <5>1, DispatcherAssumption
        <5>  QED  BY <5>1, <5>2, GeneratedType DEF StoredEnd, KernelData
      <4>  QED  BY <1>3, <2>4, <2>5, <4>2, <4>3, <4>4
    <3>  QED  BY <3>1, <3>2
  <2>  QED  BY <2>6, <2>7 DEF Used, StoredEnd
<1>  QED  BY <1>4, <1>5

LEMMA CallInvariant == Spec => []CallInv
<1>1. DispatcherInv /\ CallInv /\ [Next]_vars => CallInv'
  BY CallStep DEF DispatcherInv
<1>  QED  BY <1>1, CallInvInit, DispatcherInvariant, PTL DEF Spec

(* Nothing is stored beyond the end of heap h. *)
Inside(h) ==
    /\ \A b \in mem[h] : b.hi <= HeapBytes
    /\ h = "ioh" => \A b \in mem["ioh"] : StoredEnd(b) <= HeapBytes

(* Every heap that holds the calls of the context takes what serves them.  *)
Share(h) ==
    CHOOSE s \in Nat : Serves(h, s) /\ CacheLineSize + MaxExecutions * s <= HeapBytes

CapacityInv == \A h \in Heaps : HoldsCalls(h) => Used(h, Share(h))

LEMMA ShareFits ==
    ASSUME NEW h \in Heaps, HoldsCalls(h)
    PROVE  /\ Share(h) \in Nat /\ Serves(h, Share(h))
           /\ CacheLineSize + MaxExecutions * Share(h) <= HeapBytes
  BY DEF HoldsCalls, Share

LEMMA CapacityInit ==
    ASSUME Init PROVE CapacityInv
<1> SUFFICES ASSUME NEW h \in Heaps, HoldsCalls(h) PROVE Used(h, Share(h))
  BY DEF CapacityInv
<1>1. Cursor(h) <= CacheLineSize /\ Spent(h) = 0 /\ mem[h] = {}
  BY DEF Init, Cursor, Spent, UpTo, CacheLineSize, RENDER_SURFACE_STATE_Size
<1>2. 0 * Share(h) = 0
  BY ShareFits
<1>  QED  BY <1>1, <1>2 DEF Used, CacheLineSize

LEMMA CapacityStep ==
    ASSUME DispatcherInv, TypeOK', CallInv, CallInv', CapacityInv, [Next]_vars
    PROVE  CapacityInv'
<1> SUFFICES ASSUME NEW h \in Heaps, HoldsCalls(h) PROVE Used(h, Share(h))'
  BY DEF CapacityInv
<1>1. Used(h, Share(h))
  BY DEF CapacityInv
<1>  QED  BY <1>1, ShareFits, UsedStep

(* In every state each heap that holds the calls has used no more than its *)
(* share for the calls so far.                                             *)
THEOREM CapacityInvariant == Spec => []CapacityInv
<1>1. DispatcherInv /\ DispatcherInv' /\ CallInv /\ CallInv' /\ CapacityInv /\ [Next]_vars
          => CapacityInv'
  BY CapacityStep DEF DispatcherInv
<1>2. Init => CapacityInv
  BY CapacityInit
<1>  QED  BY <1>1, <1>2, CallInvariant, DispatcherInvariant, PTL DEF Spec

(* A heap that holds the calls of a context holds all that they store. *)
LEMMA HeapHolds ==
    ASSUME DispatcherInv, CallInv, CapacityInv, NEW h \in Heaps, HoldsCalls(h)
    PROVE  Inside(h)
<1> DEFINE s == Share(h)
<1>1. /\ s \in Nat /\ Serves(h, s) /\ CacheLineSize + MaxExecutions * s <= HeapBytes
      /\ Used(h, s)
  BY ShareFits DEF CapacityInv
<1> HIDE DEF s
<1>2. TypeOK /\ Layout
  BY DEF DispatcherInv
<1>3. /\ Spent(h) * s \in Nat /\ MaxExecutions * s \in Nat
      /\ Spent(h) * s <= MaxExecutions * s
  BY <1>1, <1>2, SpentType, TimesMonotone, DispatcherAssumption
<1>4. HeapBytes \in Nat /\ CacheLineSize \in Nat
  BY DEF HeapBytes, PageSize, KiloByte, CacheLineSize
<1>5. Cursor(h) \in Nat /\ Cursor(h) <= HeapBytes
  <2>1. Cursor(h) \in Nat /\ Cursor(h) <= CacheLineSize + Spent(h) * s
    BY <1>1, <1>2, CursorFacts DEF Used
  <2>  QED  BY <1>1, <1>3, <1>4, <2>1
<1>6. ASSUME NEW b \in mem[h] PROVE b.hi <= HeapBytes
  <2>1. b.hi <= Cursor(h) /\ b.hi \in Nat
    BY <1>2, CursorFacts, BlockType
  <2>  QED  BY <1>4, <1>5, <2>1
<1>7. ASSUME h = "ioh", NEW b \in mem["ioh"] PROVE StoredEnd(b) <= HeapBytes
  <2>1. StoredEnd(b) <= CacheLineSize + MaxExecutions * s
    BY <1>1, <1>7 DEF Used, StoredEnd
  <2>2. StoredEnd(b) \in Nat
    BY <1>2, <1>7, StoredEndType
  <2>  QED  BY <1>1, <1>3, <1>4, <2>1, <2>2
<1>  QED  BY <1>6, <1>7 DEF Inside

(* If a heap has room for as many calls as there are, each with the kernel *)
(* and the work group that take most, no call stores anything beyond the   *)
(* end of a heap, whatever fails in between; in the code nothing checks it.*)
THEOREM BlocksInsideHeapTheorem == CallsFit /\ Spec => []BlocksInsideHeap
<1> SUFFICES ASSUME CallsFit PROVE Spec => []BlocksInsideHeap
  OBVIOUS
<1>1. ASSUME DispatcherInv, CallInv, CapacityInv PROVE BlocksInsideHeap
  <2>1. \A h \in Heaps : Inside(h)
    BY <1>1, HeapHolds DEF CallsFit
  <2>  QED  BY <2>1 DEF Inside, BlocksInsideHeap, StoredEnd, Heaps
<1>2. DispatcherInv /\ CallInv /\ CapacityInv => BlocksInsideHeap
  BY <1>1
<1>  QED  BY <1>2, DispatcherInvariant, CallInvariant, CapacityInvariant, PTL

Streaming == {"dsh", "task", "csr"}

StreamsInsideHeap == \A h \in Streaming : \A b \in mem[h] : b.hi <= HeapBytes

(* Any 204 calls fit the command streams and the dynamic state heap: what  *)
(* they store does not depend on the kernel or the work group.             *)
THEOREM StreamsHold204Calls == MaxExecutions <= 204 /\ Spec => []StreamsInsideHeap
<1> SUFFICES ASSUME MaxExecutions <= 204 PROVE Spec => []StreamsInsideHeap
  OBVIOUS
<1>1. ASSUME NEW h \in Streaming PROVE HoldsCalls(h)
  <2>1. Serves(h, 320)
    BY DEF Serves, Streaming, CacheLineSize, INTERFACE_DESCRIPTOR_DATA_Size,
         TaskBytes, MEDIA_STATE_FLUSH_Size, MEDIA_INTERFACE_DESCRIPTOR_LOAD_Size,
         GPGPU_WALKER_Size, PIPE_CONTROL_Size, MI_BATCH_BUFFER_END_Size,
         CsrBytes, PIPELINE_SELECT_Size, MI_LOAD_REGISTER_IMM_Size, GPGPU_CSR_BASE_ADDRESS_Size,
         MEDIA_VFE_STATE_Size, STATE_BASE_ADDRESS_Size, STATE_SIP_Size, MI_BATCH_BUFFER_START_Size
  <2>2. CacheLineSize + MaxExecutions * 320 <= HeapBytes
    BY DispatcherAssumption DEF CacheLineSize, HeapBytes, PageSize, KiloByte
  <2>  QED  BY <2>1, <2>2 DEF HoldsCalls
<1>2. ASSUME DispatcherInv, CallInv, CapacityInv PROVE StreamsInsideHeap
  <2>1. \A h \in Streaming : Inside(h)
    BY <1>1, <1>2, HeapHolds DEF Streaming, Heaps
  <2>  QED  BY <2>1 DEF Inside, StreamsInsideHeap
<1>3. DispatcherInv /\ CallInv /\ CapacityInv => StreamsInsideHeap
  BY <1>2
<1>  QED  BY <1>3, DispatcherInvariant, CallInvariant, CapacityInvariant, PTL
=============================================================================
