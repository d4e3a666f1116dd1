----------------------- MODULE DispatcherResultProofs -----------------------
(***************************************************************************)
(* What ExecuteKernel returns, for every set of kernels and every number   *)
(* of calls and failures: SUCCESS only for a batch that ran, a failure     *)
(* only if something failed, and no batch mistaken for another.            *)
(*                                                                         *)
(* The tag buffer is all the calling thread sees of the GPU, so the        *)
(* strengthening ResultInv relates the tag to the batches: streams do not  *)
(* share an address (Separate), later calls write higher tags (TaskOrder), *)
(* queued calls are later than the ones that ran (QueueOrder), the tag in  *)
(* the buffer comes from a batch that ran (TagSource), and a call that     *)
(* waits is queued, done or has seen a failure (FinishPending).            *)
(***************************************************************************)
EXTENDS DispatcherProofs

(* Blocks of a heap begin at different addresses. That none is empty makes *)
(* it inductive: the next block begins where the last one ends.            *)
Separate(h) ==
    /\ \A b \in mem[h] : b.lo < b.hi
    /\ \A b, c \in mem[h] : b.lo = c.lo => b = c

BeforeTask == {"scratch", "newScratch", "ssh", "ioh", "dsh", "task"}

TaskOrder ==
    /\ \A t \in mem["task"] :
         /\ t.cmd.tag > 0 /\ t.cmd.tag <= completionTag
         /\ t.call <= call
         /\ pc \in BeforeTask => t.call < call
    /\ \A t, u \in mem["task"] :
         \/ t = u
         \/ t.call < u.call /\ t.cmd.tag < u.cmd.tag
         \/ u.call < t.call /\ u.cmd.tag < t.cmd.tag

QueueOrder ==
    /\ \A i \in DOMAIN queue :
         /\ queue[i].call <= call
         /\ pc \in Stages \ {"finish"} => queue[i].call < call
         /\ \A r \in ran : r < queue[i].call
         /\ \A j \in DOMAIN queue : i < j => queue[i].call < queue[j].call
    /\ \A r \in ran : /\ r <= call
                      /\ pc \in Stages \ {"finish"} => r < call

TagSource ==
    \/ tag = 0
    \/ \E t \in mem["task"] : t.cmd.tag = tag /\ t.call \in ran

FinishPending ==
    pc = "finish" =>
        \/ \E i \in DOMAIN queue : queue[i].call = call
        \/ tag = completionTag
        \/ failures > failuresBefore

ResultInv ==
    /\ Separate("task") /\ Separate("csr")
    /\ TaskOrder /\ QueueOrder /\ TagSource /\ FinishPending
    /\ failuresBefore <= failures
    /\ SuccessMeansRan /\ NoSpuriousFailure

-----------------------------------------------------------------------------
(* What the steps leave alone *)

LEMMA OtherHeaps ==
    ASSUME TypeOK, NEW g \in Heaps, NEW blocks, mem' = [mem EXCEPT ![g] = blocks]
    PROVE  \A h \in Heaps \ {g} : mem'[h] = mem[h]
  BY DEF TypeOK

Streams == {"task", "csr"}

LEMMA ExecuteKernelFrame ==
    ASSUME NEW k \in Kernels, NEW req \in Requests, ExecuteKernel(k, req)
    PROVE  /\ pc = "idle" /\ call' = call + 1 /\ failuresBefore' = failures
           /\ \/ pc' = "scratch" /\ result' = "NONE"
              \/ pc' = "idle" /\ result' \in {"UNSUPPORTED_HARDWARE", "INVALID_WORK_SIZE",
                                             "INVALID_WORK_GROUP_SIZE"}
           /\ UNCHANGED <<failures, completionTag, mem, tag, queue, ran>>
  BY DEF ExecuteKernel, ValidationCode, heaps, device

(* The stages before the task stream. *)
LEMMA EarlyStageFrame ==
    ASSUME TypeOK,
           \/ CreateScratchAllocation \/ CreateSurfaceStateHeap
           \/ CreateIndirectObjectHeap \/ CreateDynamicStateHeap
    PROVE  /\ pc \in BeforeTask /\ (pc' \in BeforeTask \/ pc' = "idle")
           /\ UNCHANGED <<call, completionTag, tag, queue, ran>>
           /\ \/ UNCHANGED <<result, failures, failuresBefore>>
              \/ /\ result' = result
                 /\ failures' = failures + 1 /\ failuresBefore' = failuresBefore + 1
              \/ /\ pc' = "idle" /\ result' = "BUFFER_ALLOCATION_FAILED"
                 /\ failures' = failures + 1 /\ failuresBefore' = failuresBefore
           /\ \A h \in Streams : mem'[h] = mem[h]
<1>1. CASE CreateScratchAllocation
  BY <1>1 DEF CreateScratchAllocation, KeepScratch, ResetScratch, ResetScratchUnwaited,
       GrowScratch, LoseScratch, Proceed, Fail, Leave, BeforeTask, heaps, device
<1>2. CASE CreateSurfaceStateHeap
  <2>1. \A h \in Streams : mem'[h] = mem[h]
    <3>1. mem' = mem \/ \E blocks : mem' = [mem EXCEPT !["ssh"] = blocks]
      BY <1>2 DEF CreateSurfaceStateHeap
    <3>  QED  BY <3>1, OtherHeaps DEF Heaps, Streams
  <2>  QED  BY <1>2, <2>1 DEF CreateSurfaceStateHeap, Proceed, BeforeTask, device
<1>3. CASE CreateIndirectObjectHeap
  <2>1. \A h \in Streams : mem'[h] = mem[h]
    <3>1. \E blocks : mem' = [mem EXCEPT !["ioh"] = blocks]
      BY <1>3 DEF CreateIndirectObjectHeap
    <3>  QED  BY <3>1, OtherHeaps DEF Heaps, Streams
  <2>  QED  BY <1>3, <2>1 DEF CreateIndirectObjectHeap, Proceed, BeforeTask, device
<1>4. CASE CreateDynamicStateHeap
  <2>1. \A h \in Streams : mem'[h] = mem[h]
    <3>1. \E blocks : mem' = [mem EXCEPT !["dsh"] = blocks]
      BY <1>4 DEF CreateDynamicStateHeap
    <3>  QED  BY <3>1, OtherHeaps DEF Heaps, Streams
  <2>  QED  BY <1>4, <2>1 DEF CreateDynamicStateHeap, Proceed, BeforeTask, device
<1>  QED  BY <1>1, <1>2, <1>3, <1>4

(* A stream appended is one block above all others. *)
LEMMA StreamAppended ==
    ASSUME TypeOK, Layout, NEW h \in Streams, NEW bytes \in Nat \ {0}, NEW cmd,
           AppendStream(h, bytes, cmd)
    PROVE  /\ \E b : /\ b.lo = Cursor(h) /\ b.lo < b.hi
                     /\ b.call = call /\ b.cmd = cmd
                     /\ mem'[h] = mem[h] \cup {b}
           /\ \A g \in Heaps \ {h} : mem'[g] = mem[g]
<1> DEFINE lo == Cursor(h)
           hi == AlignUp(lo + bytes, CacheLineSize)
           block == Block(lo, hi, cmd)
<1>1. lo \in Nat /\ h \in Heaps
  BY CursorFacts DEF Heaps, Streams
<1>2. lo < hi
  <2>1. lo + bytes \in Nat
    BY <1>1
  <2>2. AlignUp(lo + bytes, CacheLineSize) \in Nat /\ AlignUp(lo + bytes, CacheLineSize) >= lo + bytes
    BY <2>1, LineUp
  <2> HIDE DEF lo
  <2>  QED  BY <1>1, <2>2
<1>3. mem' = [mem EXCEPT ![h] = Write(mem[h], hi, block)]
  BY DEF AppendStream
<1>4. block.lo = lo /\ block.hi = hi /\ block.call = call /\ block.cmd = cmd
  BY DEF Block
<1>5. Write(mem[h], hi, block) = mem[h] \cup {block}
  BY <1>1, <1>4, CursorFacts, WriteAppends
<1> HIDE DEF lo, hi, block
<1>6. mem'[h] = mem[h] \cup {block}
  BY <1>1, <1>3, <1>5 DEF TypeOK
<1>7. block.lo = Cursor(h)
  BY <1>4 DEF lo
<1>8. \A g \in Heaps \ {h} : mem'[g] = mem[g]
  BY <1>1, <1>3, OtherHeaps
<1>  QED  BY <1>2, <1>4, <1>6, <1>7, <1>8

LEMMA TaskStreamAppended ==
    ASSUME TypeOK, Layout, CreateCommandStreamTask
    PROVE  /\ pc = "task" /\ pc' = "csr" /\ completionTag' = completionTag + 1
           /\ UNCHANGED <<result, call, failures, failuresBefore, tag, queue, ran>>
           /\ \E b : /\ b.lo = Cursor("task") /\ b.lo < b.hi
                     /\ b.call = call /\ b.cmd.tag = completionTag'
                     /\ mem'["task"] = mem["task"] \cup {b}
           /\ \A g \in Heaps \ {"task"} : mem'[g] = mem[g]
<1>1. TaskBytes \in Nat \ {0}
  BY DEF TaskBytes, MEDIA_STATE_FLUSH_Size, MEDIA_INTERFACE_DESCRIPTOR_LOAD_Size,
         GPGPU_WALKER_Size, PIPE_CONTROL_Size, MI_BATCH_BUFFER_END_Size
<1>2. /\ AppendStream("task", TaskBytes, TaskStream(completionTag'))
      /\ "task" \in Streams
  BY DEF CreateCommandStreamTask, Streams
<1>3. TaskStream(completionTag').tag = completionTag'
  BY DEF TaskStream
<1>4. /\ \E b : /\ b.lo = Cursor("task") /\ b.lo < b.hi
                /\ b.call = call /\ b.cmd = TaskStream(completionTag')
                /\ mem'["task"] = mem["task"] \cup {b}
      /\ \A g \in Heaps \ {"task"} : mem'[g] = mem[g]
  BY <1>1, <1>2, StreamAppended
<1>  QED  BY <1>3, <1>4 DEF CreateCommandStreamTask, Proceed, device

LEMMA ReceiverAppended ==
    ASSUME TypeOK, Layout, CreateCommandStreamReceiver
    PROVE  /\ pc = "csr" /\ pc' = "submit"
           /\ UNCHANGED <<result, call, failures, failuresBefore, completionTag, tag, queue, ran>>
           /\ \E b : /\ b.lo = Cursor("csr") /\ b.lo < b.hi
                     /\ mem'["csr"] = mem["csr"] \cup {b}
           /\ \A g \in Heaps \ {"csr"} : mem'[g] = mem[g]
<1>1. CsrBytes \in Nat \ {0}
  BY DEF CsrBytes, PIPELINE_SELECT_Size, MI_LOAD_REGISTER_IMM_Size, PIPE_CONTROL_Size,
         GPGPU_CSR_BASE_ADDRESS_Size, MEDIA_VFE_STATE_Size, STATE_BASE_ADDRESS_Size,
         STATE_SIP_Size, MI_BATCH_BUFFER_START_Size
<1> DEFINE cmds == [task |-> offset["task"] - taskOffset["task"], scratch |-> scratch,
                    perThread |-> perThreadScratchSpace, slm |-> slm > 0]
<1>2. AppendStream("csr", CsrBytes, cmds) /\ "csr" \in Streams
  BY DEF CreateCommandStreamReceiver, Streams
<1> HIDE DEF cmds
<1>3. /\ \E b : /\ b.lo = Cursor("csr") /\ b.lo < b.hi
                /\ b.call = call /\ b.cmd = cmds
                /\ mem'["csr"] = mem["csr"] \cup {b}
      /\ \A g \in Heaps \ {"csr"} : mem'[g] = mem[g]
  BY <1>1, <1>2, StreamAppended
<1>  QED  BY <1>3 DEF CreateCommandStreamReceiver, Proceed, device

LEMMA FailureFrame ==
    ASSUME (\E h \in Heaps : HeapAllocationFails(h)) \/ SubmitFails \/ WaitFails
    PROVE  /\ pc' = "idle"
           /\ result' \notin {"SUCCESS"} /\ failures' = failures + 1
           /\ UNCHANGED <<call, failuresBefore, completionTag, mem, tag, queue, ran>>
  BY DEF HeapAllocationFails, SubmitFails, WaitFails, Fail, Leave, heaps, device

-----------------------------------------------------------------------------
(* The streams and the queue *)

LEMMA SeparateAppend ==
    ASSUME TypeOK, Layout, NEW h \in Heaps, Separate(h),
           NEW b, b.lo = Cursor(h), b.lo < b.hi, mem'[h] = mem[h] \cup {b}
    PROVE  Separate(h)'
<1>1. \A c \in mem[h] : c.lo # b.lo
  <2> SUFFICES ASSUME NEW c \in mem[h] PROVE c.lo # b.lo
    OBVIOUS
  <2>1. c.lo < c.hi /\ c.hi <= Cursor(h)
    BY CursorFacts DEF Separate
  <2>2. c.lo \in Nat /\ c.hi \in Nat /\ Cursor(h) \in Nat
    BY BlockType, CursorFacts
  <2>  QED  BY <2>1, <2>2
<1>  QED  BY <1>1 DEF Separate

(* A block that is there is the one found at its address, now and later.   *)
LEMMA SeparateAt ==
    ASSUME NEW h \in Heaps, Separate(h), NEW b \in mem[h]
    PROVE  At(h, b.lo) = {b}
  BY DEF Separate, At

(* What is found behind a queued batch is what its own call wrote.         *)
LEMMA TaskOfQueued ==
    ASSUME ResultInv, NEW batch, Coherent(batch)
    PROVE  \E t \in mem["task"] : TaskOf(batch) = {t} /\ t.call = batch.call
<1>0. PICK c \in CsrOf(batch) : \E t \in At("task", c.cmd.task) : t.call = batch.call
  BY DEF Coherent
<1>1. PICK t \in At("task", c.cmd.task) : t.call = batch.call
  BY <1>0
<1>2. c \in mem["csr"] /\ t \in mem["task"] /\ c.lo = batch.start /\ t.lo = c.cmd.task
  BY DEF CsrOf, At
<1>3. At("csr", batch.start) = {c} /\ At("task", c.cmd.task) = {t}
  BY <1>2, SeparateAt DEF ResultInv, Heaps
<1>4. CsrOf(batch) = {c}
  BY <1>1, <1>3 DEF CsrOf
<1>5. TaskOf(batch) = {t}
  BY <1>3, <1>4 DEF TaskOf
<1>  QED  BY <1>1, <1>2, <1>5

(* Steps that touch neither the streams nor what the GPU works on. *)
LEMMA QuietStep ==
    ASSUME ResultInv,
           UNCHANGED <<call, completionTag, tag, queue, ran>>,
           \A h \in Streams : mem'[h] = mem[h],
           pc' \in BeforeTask => pc \in BeforeTask,
           pc' \in Stages \ {"finish"} => pc \in Stages \ {"finish"}
    PROVE  /\ Separate("task")' /\ Separate("csr")'
           /\ TaskOrder' /\ QueueOrder' /\ TagSource'
<1>1. Separate("task")' /\ Separate("csr")'
  BY DEF ResultInv, Separate, Streams
<1>2. TaskOrder'
  BY DEF ResultInv, TaskOrder, Streams
<1>3. QueueOrder'
  BY DEF ResultInv, QueueOrder
<1>4. TagSource'
  BY DEF ResultInv, TagSource, Streams
<1>  QED  BY <1>1, <1>2, <1>3, <1>4

LEMMA Numbers ==
    ASSUME TypeOK
    PROVE  /\ call \in Nat /\ failures \in Nat /\ failuresBefore \in Nat
           /\ completionTag \in Nat /\ tag \in Nat /\ ran \subseteq Nat
           /\ \A t \in mem["task"] : t.call \in Nat /\ t.cmd.tag \in Nat
           /\ \A i \in DOMAIN queue : queue[i].call \in Nat
<1>1. \A t \in mem["task"] : t.call \in Nat /\ t.cmd.tag \in Nat
  BY DEF TypeOK, Blocks, TaskCommands
<1>2. \A i \in DOMAIN queue : queue[i].call \in Nat
  <2>1. queue \in Seq(Batches)
    BY DEF TypeOK
  <2>2. \A i \in DOMAIN queue : queue[i] \in Batches
    BY <2>1, ElementOfSeq, LenProperties
  <2>  QED  BY <2>2 DEF Batches
<1>  QED  BY <1>1, <1>2 DEF TypeOK

-----------------------------------------------------------------------------
(* The steps *)

LEMMA InitResultInv == Init => ResultInv
  BY DEF Init, ResultInv, Separate, TaskOrder, QueueOrder, TagSource, FinishPending,
         SuccessMeansRan, NoSpuriousFailure, Heaps, BeforeTask, Stages

LEMMA ExecuteKernelResult ==
    ASSUME DispatcherInv, ResultInv,
           NEW k \in Kernels, NEW req \in Requests, ExecuteKernel(k, req)
    PROVE  ResultInv'
<1>1. TypeOK
  BY DEF DispatcherInv
<1>2. /\ call' = call + 1 /\ failuresBefore' = failures
      /\ pc' \in {"scratch", "idle"}
      /\ result' \in {"NONE", "UNSUPPORTED_HARDWARE", "INVALID_WORK_SIZE",
                     "INVALID_WORK_GROUP_SIZE"}
      /\ UNCHANGED <<failures, completionTag, mem, tag, queue, ran>>
  BY ExecuteKernelFrame
<1>3. Separate("task")' /\ Separate("csr")' /\ TagSource'
  BY <1>2 DEF ResultInv, Separate, TagSource
<1>4. TaskOrder'
  BY <1>1, <1>2, Numbers DEF ResultInv, TaskOrder
<1>5. QueueOrder'
  BY <1>1, <1>2, Numbers DEF ResultInv, QueueOrder
<1>6. FinishPending' /\ (failuresBefore <= failures)'
  BY <1>1, <1>2, Numbers DEF FinishPending
<1>7. SuccessMeansRan' /\ NoSpuriousFailure'
  BY <1>2 DEF SuccessMeansRan, NoSpuriousFailure
<1>  QED  BY <1>3, <1>4, <1>5, <1>6, <1>7 DEF ResultInv

LEMMA EarlyStageResult ==
    ASSUME DispatcherInv, ResultInv,
           \/ CreateScratchAllocation \/ CreateSurfaceStateHeap
           \/ CreateIndirectObjectHeap \/ CreateDynamicStateHeap
    PROVE  ResultInv'
<1>1. TypeOK
  BY DEF DispatcherInv
<1>2. /\ pc \in BeforeTask /\ (pc' \in BeforeTask \/ pc' = "idle")
      /\ UNCHANGED <<call, completionTag, tag, queue, ran>>
      /\ \/ UNCHANGED <<result, failures, failuresBefore>>
         \/ /\ result' = result
            /\ failures' = failures + 1 /\ failuresBefore' = failuresBefore + 1
         \/ /\ result' = "BUFFER_ALLOCATION_FAILED"
            /\ failures' = failures + 1 /\ failuresBefore' = failuresBefore
      /\ \A h \in Streams : mem'[h] = mem[h]
  BY <1>1, EarlyStageFrame
<1>3. /\ Separate("task")' /\ Separate("csr")'
      /\ TaskOrder' /\ QueueOrder' /\ TagSource'
  BY <1>2, QuietStep DEF BeforeTask, Stages, Heaps
<1>4. FinishPending'
  BY <1>2 DEF FinishPending, BeforeTask
<1>5. (failuresBefore <= failures)' /\ SuccessMeansRan' /\ NoSpuriousFailure'
  BY <1>1, <1>2, Numbers DEF ResultInv, SuccessMeansRan, NoSpuriousFailure
<1>  QED  BY <1>3, <1>4, <1>5 DEF ResultInv

LEMMA TaskStreamResult ==
    ASSUME DispatcherInv, ResultInv, CreateCommandStreamTask
    PROVE  ResultInv'
<1>1. TypeOK /\ Layout
  BY DEF DispatcherInv
<1>2. /\ pc = "task" /\ pc' = "csr" /\ completionTag' = completionTag + 1
      /\ UNCHANGED <<result, call, failures, failuresBefore, tag, queue, ran>>
      /\ \A g \in Heaps \ {"task"} : mem'[g] = mem[g]
  BY <1>1, TaskStreamAppended
<1>3. PICK b : /\ b.lo = Cursor("task") /\ b.lo < b.hi
               /\ b.call = call /\ b.cmd.tag = completionTag'
               /\ mem'["task"] = mem["task"] \cup {b}
  BY <1>1, TaskStreamAppended
<1>4. Separate("task")'
  BY <1>1, <1>3, SeparateAppend DEF ResultInv, Heaps
<1>5. Separate("csr")'
  BY <1>2 DEF ResultInv, Separate, Heaps
<1>6. TaskOrder'
  <2>1. \A t \in mem["task"] : /\ t.cmd.tag > 0 /\ t.cmd.tag < b.cmd.tag
                               /\ t.cmd.tag <= completionTag' /\ t.call < b.call
    BY <1>1, <1>2, <1>3, Numbers DEF ResultInv, TaskOrder, BeforeTask
  <2>2. b.cmd.tag > 0 /\ b.cmd.tag <= completionTag' /\ b.call <= call
    BY <1>1, <1>2, <1>3, Numbers
  <2>3. \A t \in mem'["task"] : t.cmd.tag > 0 /\ t.cmd.tag <= completionTag' /\ t.call <= call'
    BY <1>2, <1>3, <2>1, <2>2 DEF ResultInv, TaskOrder
  <2>4. \A t, u \in mem'["task"] :
          \/ t = u
          \/ t.call < u.call /\ t.cmd.tag < u.cmd.tag
          \/ u.call < t.call /\ u.cmd.tag < t.cmd.tag
    BY <1>3, <2>1 DEF ResultInv, TaskOrder
  <2>  QED  BY <1>2, <2>3, <2>4 DEF TaskOrder, BeforeTask
<1>7. QueueOrder'
  BY <1>2 DEF ResultInv, QueueOrder, Stages, Heaps
<1>8. TagSource'
  BY <1>2, <1>3 DEF ResultInv, TagSource
<1>9. FinishPending' /\ (failuresBefore <= failures)'
  BY <1>2 DEF ResultInv, FinishPending
<1>10. SuccessMeansRan' /\ NoSpuriousFailure'
  BY <1>2 DEF ResultInv, SuccessMeansRan, NoSpuriousFailure
<1>  QED  BY <1>4, <1>5, <1>6, <1>7, <1>8, <1>9, <1>10 DEF ResultInv

LEMMA ReceiverResult ==
    ASSUME DispatcherInv, ResultInv, CreateCommandStreamReceiver
    PROVE  ResultInv'
<1>1. TypeOK /\ Layout
  BY DEF DispatcherInv
<1>2. /\ pc = "csr" /\ pc' = "submit"
      /\ UNCHANGED <<result, call, failures, failuresBefore, completionTag, tag, queue, ran>>
      /\ mem'["task"] = mem["task"]
  BY <1>1, ReceiverAppended DEF Heaps
<1>3. PICK b : /\ b.lo = Cursor("csr") /\ b.lo < b.hi
               /\ mem'["csr"] = mem["csr"] \cup {b}
  BY <1>1, ReceiverAppended
<1>4. Separate("csr")'
  BY <1>1, <1>3, SeparateAppend DEF ResultInv, Heaps
<1>5. Separate("task")' /\ TagSource'
  BY <1>2 DEF ResultInv, Separate, TagSource
<1>6. TaskOrder' /\ QueueOrder'
  BY <1>2 DEF ResultInv, TaskOrder, QueueOrder, BeforeTask, Stages, Heaps
<1>7. FinishPending' /\ (failuresBefore <= failures)'
  BY <1>2 DEF ResultInv, FinishPending
<1>8. SuccessMeansRan' /\ NoSpuriousFailure'
  BY <1>2 DEF ResultInv, SuccessMeansRan, NoSpuriousFailure
<1>  QED  BY <1>4, <1>5, <1>6, <1>7, <1>8 DEF ResultInv

LEMMA SubmitResult ==
    ASSUME DispatcherInv, ResultInv, SubmitExecBuffer
    PROVE  ResultInv'
<1> DEFINE batch == [call |-> call, start |-> offset["csr"] - taskOffset["csr"],
                     length |-> AlignUp(taskOffset["csr"], 8)]
<1>1. /\ TypeOK /\ pc = "submit" /\ pc' = "finish" /\ queue' = Append(queue, batch)
      /\ UNCHANGED <<result, call, failures, failuresBefore, completionTag, mem, tag, ran>>
  BY DEF DispatcherInv, SubmitExecBuffer, Proceed, heaps
<1>2. queue' \in Seq(Batches) /\ batch.call = call
  <2>1. TypeOK'
    BY SubmitExecBufferStep DEF DispatcherInv
  <2>  QED  BY <2>1 DEF TypeOK
<1> HIDE DEF batch
<1>3. /\ DOMAIN queue = 1..Len(queue) /\ DOMAIN queue' = 1..(Len(queue) + 1)
      /\ Len(queue) \in Nat
      /\ \A i \in DOMAIN queue : queue'[i] = queue[i]
      /\ queue'[Len(queue) + 1] = batch
  <2>1. queue \in Seq(Batches)
    BY <1>1 DEF TypeOK
  <2>2. Len(queue) \in Nat /\ DOMAIN queue = 1..Len(queue)
    BY <2>1, LenProperties
  <2>  QED  BY <1>1, <2>1, <2>2
<1>4. \A i \in DOMAIN queue : queue[i].call < call
  BY <1>1 DEF ResultInv, QueueOrder, Stages
<1>5. \A r \in ran : r < call
  BY <1>1 DEF ResultInv, QueueOrder, Stages
<1>6. QueueOrder'
  <2>1. \A i \in DOMAIN queue' : /\ queue'[i].call <= call
                                 /\ \A r \in ran : r < queue'[i].call
    BY <1>1, <1>2, <1>3, <1>4, <1>5, Numbers DEF ResultInv, QueueOrder
  <2>2. \A i, j \in DOMAIN queue' : i < j => queue'[i].call < queue'[j].call
    <3> SUFFICES ASSUME NEW i \in DOMAIN queue', NEW j \in DOMAIN queue', i < j
                 PROVE  queue'[i].call < queue'[j].call
      OBVIOUS
    <3>1. i \in DOMAIN queue
      BY <1>3
    <3>2. CASE j \in DOMAIN queue
      BY <1>3, <3>1, <3>2 DEF ResultInv, QueueOrder
    <3>3. CASE j = Len(queue) + 1
      BY <1>2, <1>3, <1>4, <3>1, <3>3
    <3>  QED  BY <1>3, <3>2, <3>3
  <2>3. \A r \in ran : r <= call
    BY DEF ResultInv, QueueOrder
  <2>  QED  BY <1>1, <2>1, <2>2, <2>3 DEF QueueOrder
<1>7. FinishPending'
  <2>1. Len(queue) + 1 \in DOMAIN queue' /\ queue'[Len(queue) + 1].call = call'
    BY <1>1, <1>2, <1>3
  <2>  QED  BY <2>1 DEF FinishPending
<1>8. Separate("task")' /\ Separate("csr")' /\ TaskOrder' /\ TagSource'
  BY <1>1 DEF ResultInv, Separate, TaskOrder, TagSource, BeforeTask
<1>9. (failuresBefore <= failures)' /\ SuccessMeansRan' /\ NoSpuriousFailure'
  BY <1>1 DEF ResultInv, SuccessMeansRan, NoSpuriousFailure
<1>  QED  BY <1>6, <1>7, <1>8, <1>9 DEF ResultInv

LEMMA FailureResult ==
    ASSUME DispatcherInv, ResultInv,
           (\E h \in Heaps : HeapAllocationFails(h)) \/ SubmitFails \/ WaitFails
    PROVE  ResultInv'
<1>1. /\ TypeOK /\ pc' = "idle"
      /\ result' # "SUCCESS" /\ failures' = failures + 1
      /\ UNCHANGED <<call, failuresBefore, completionTag, mem, tag, queue, ran>>
  BY FailureFrame DEF DispatcherInv
<1>2. /\ Separate("task")' /\ Separate("csr")'
      /\ TaskOrder' /\ QueueOrder' /\ TagSource'
  BY <1>1, QuietStep DEF BeforeTask, Stages, Heaps
<1>3. FinishPending' /\ SuccessMeansRan'
  BY <1>1 DEF FinishPending, SuccessMeansRan
<1>4. (failuresBefore <= failures)' /\ NoSpuriousFailure'
  BY <1>1, Numbers DEF ResultInv, NoSpuriousFailure
<1>  QED  BY <1>2, <1>3, <1>4 DEF ResultInv

(* The tag a waiting call looks for is in the buffer only after its own    *)
(* batch ran, and unless something failed it is there once the queue is    *)
(* empty.                                                                  *)
LEMMA FinishResult ==
    ASSUME DispatcherInv, ResultInv, FinishExecution
    PROVE  ResultInv'
<1>1. /\ TypeOK /\ TaskReady /\ pc = "finish" /\ pc' = "idle" /\ queue = <<>>
      /\ result' = IF tag = completionTag THEN "SUCCESS" ELSE "POST_SYNC_OPERATION_FAILED"
      /\ UNCHANGED <<call, failures, failuresBefore, completionTag, mem, tag, queue, ran>>
  BY DEF DispatcherInv, FinishExecution, Leave, heaps, device
<1>2. /\ Separate("task")' /\ Separate("csr")'
      /\ TaskOrder' /\ QueueOrder' /\ TagSource'
  BY <1>1, QuietStep DEF BeforeTask, Stages, Heaps
<1>3. SuccessMeansRan'
  <2> SUFFICES ASSUME tag = completionTag PROVE call \in ran
    BY <1>1 DEF SuccessMeansRan
  <2>1. PICK t \in mem["task"] : t.call = call /\ t.cmd.tag = completionTag
    BY <1>1 DEF TaskReady, AfterTask, TaskStream
  <2>2. tag # 0
    BY <1>1, <2>1, Numbers DEF ResultInv, TaskOrder
  <2>3. PICK u \in mem["task"] : u.cmd.tag = tag /\ u.call \in ran
    BY <2>2 DEF ResultInv, TagSource
  <2>4. t = u
    BY <1>1, <2>1, <2>3, Numbers DEF ResultInv, TaskOrder
  <2>  QED  BY <2>1, <2>3, <2>4
<1>4. NoSpuriousFailure'
  <2>1. tag # completionTag => failures > failuresBefore
    BY <1>1 DEF ResultInv, FinishPending
  <2>  QED  BY <1>1, <2>1 DEF NoSpuriousFailure
<1>5. FinishPending' /\ (failuresBefore <= failures)'
  BY <1>1 DEF ResultInv, FinishPending
<1>  QED  BY <1>2, <1>3, <1>4, <1>5 DEF ResultInv

(* What the tags say of the batches in the queue. *)
LEMMA QueuedTags ==
    ASSUME DispatcherInv, ResultInv, NEW i \in DOMAIN queue
    PROVE  \E t \in mem["task"] : /\ TaskOf(queue[i]) = {t}
                                 /\ t.call = queue[i].call
                                 /\ tag < t.cmd.tag
<1>1. PICK t \in mem["task"] : TaskOf(queue[i]) = {t} /\ t.call = queue[i].call
  BY TaskOfQueued DEF DispatcherInv, InFlightCoherent
<1>2. TypeOK /\ t.cmd.tag > 0
  BY DEF DispatcherInv, ResultInv, TaskOrder
<1>3. CASE tag = 0
  BY <1>1, <1>2, <1>3
<1>4. CASE tag # 0
  <2>1. PICK u \in mem["task"] : u.cmd.tag = tag /\ u.call \in ran
    BY <1>4 DEF ResultInv, TagSource
  <2>2. u.call < t.call
    BY <1>1, <2>1 DEF ResultInv, QueueOrder
  <2>3. u.cmd.tag < t.cmd.tag
    BY <1>2, <2>2, Numbers DEF ResultInv, TaskOrder
  <2>  QED  BY <1>1, <2>1, <2>3
<1>  QED  BY <1>3, <1>4

LEMMA TagsIdentifyBatchesLemma ==
    ASSUME DispatcherInv, ResultInv
    PROVE  TagsIdentifyBatches
<1>1. TypeOK
  BY DEF DispatcherInv
<1>2. tag <= completionTag
  <2>1. tag = 0 \/ \E t \in mem["task"] : t.cmd.tag = tag
    BY DEF ResultInv, TagSource
  <2>  QED  BY <1>1, <2>1, Numbers DEF ResultInv, TaskOrder
<1>3. ASSUME NEW i \in DOMAIN queue, NEW t \in TaskOf(queue[i])
      PROVE  tag < t.cmd.tag /\ queue[i].call \notin ran
  <2>1. tag < t.cmd.tag
    BY QueuedTags
  <2>2. \A r \in ran : r < queue[i].call
    BY DEF ResultInv, QueueOrder
  <2>  QED  BY <1>1, <2>1, <2>2, Numbers
<1>4. ASSUME NEW i \in DOMAIN queue, NEW t \in TaskOf(queue[i]),
             NEW j \in DOMAIN queue, NEW u \in TaskOf(queue[j]), i < j
      PROVE  t.cmd.tag < u.cmd.tag
  <2>1. t \in mem["task"] /\ t.call = queue[i].call
    BY QueuedTags
  <2>2. u \in mem["task"] /\ u.call = queue[j].call
    BY QueuedTags
  <2>3. t.call < u.call
    BY <1>4, <2>1, <2>2 DEF ResultInv, QueueOrder
  <2>  QED  BY <1>1, <2>1, <2>2, <2>3, Numbers DEF ResultInv, TaskOrder
<1>  QED  BY <1>2, <1>3, <1>4 DEF TagsIdentifyBatches

(* The engine takes the oldest batch from the queue. *)
LEMMA Retired ==
    ASSUME TypeOK, ResultInv, queue # <<>>, queue' = Tail(queue)
    PROVE  /\ Head(queue) = queue[1] /\ 1 \in DOMAIN queue
           /\ \A i \in DOMAIN queue : i = 1 \/ (i - 1 \in DOMAIN queue' /\ queue'[i - 1] = queue[i])
           /\ \A i \in DOMAIN queue' : /\ i + 1 \in DOMAIN queue /\ queue'[i] = queue[i + 1]
                                       /\ queue[1].call < queue'[i].call
<1>1. queue \in Seq(Batches)
  BY DEF TypeOK
<1>2. /\ Len(queue) \in Nat \ {0} /\ DOMAIN queue = 1..Len(queue)
      /\ DOMAIN queue' = 1..(Len(queue) - 1)
      /\ \A i \in 1..(Len(queue) - 1) : queue'[i] = queue[i + 1]
      /\ Head(queue) = queue[1]
  <2>1. Len(queue) \in Nat \ {0} /\ DOMAIN queue = 1..Len(queue)
    BY <1>1, EmptySeq, LenProperties
  <2>2. /\ queue' \in Seq(Batches) /\ Len(queue') = Len(queue) - 1
        /\ \A i \in 1..Len(queue') : queue'[i] = queue[i + 1]
    BY <1>1, HeadTailProperties
  <2>3. DOMAIN queue' = 1..Len(queue')
    BY <2>2, LenProperties
  <2>  QED  BY <1>1, <2>1, <2>2, <2>3
<1>3. \A i \in DOMAIN queue' : queue[1].call < queue'[i].call
  BY <1>2 DEF ResultInv, QueueOrder
<1>  QED  BY <1>2, <1>3

LEMMA GpuRunsBatchResult ==
    ASSUME DispatcherInv, ResultInv, GpuRunsBatch
    PROVE  ResultInv'
<1>1. /\ TypeOK /\ TaskReady /\ queue # <<>> /\ queue' = Tail(queue)
      /\ ran' = ran \cup {Head(queue).call}
      /\ UNCHANGED <<pc, result, call, failures, failuresBefore, completionTag, mem>>
  BY DEF DispatcherInv, GpuRunsBatch, control, heaps
<1>2. /\ Head(queue) = queue[1] /\ 1 \in DOMAIN queue
      /\ \A i \in DOMAIN queue : i = 1 \/ (i - 1 \in DOMAIN queue' /\ queue'[i - 1] = queue[i])
      /\ \A i \in DOMAIN queue' : /\ i + 1 \in DOMAIN queue /\ queue'[i] = queue[i + 1]
                                  /\ queue[1].call < queue'[i].call
  BY <1>1, Retired
<1>3. PICK t \in mem["task"] : /\ TaskOf(queue[1]) = {t} /\ t.call = queue[1].call
                               /\ tag < t.cmd.tag
  BY <1>2, QueuedTags
<1>4. tag' = t.cmd.tag /\ t.call \in ran'
  BY <1>1, <1>2, <1>3 DEF GpuRunsBatch
<1>5. Separate("task")' /\ Separate("csr")' /\ TaskOrder'
  BY <1>1 DEF ResultInv, Separate, TaskOrder
<1>6. QueueOrder'
  <2>1. \A r \in ran' : /\ r <= call
                        /\ pc \in Stages \ {"finish"} => r < call
                        /\ \A i \in DOMAIN queue' : r < queue'[i].call
    BY <1>1, <1>2 DEF ResultInv, QueueOrder
  <2>2. \A i \in DOMAIN queue' :
          /\ queue'[i].call <= call
          /\ pc \in Stages \ {"finish"} => queue'[i].call < call
    BY <1>2 DEF ResultInv, QueueOrder
  <2>3. \A i, j \in DOMAIN queue' : i < j => queue'[i].call < queue'[j].call
    <3>1. \A i \in DOMAIN queue' : i \in Int
      <4>1. TypeOK' /\ queue' \in Seq(Batches)
        BY GpuStep DEF Gpu, DispatcherInv, TypeOK
      <4>2. DOMAIN queue' = 1..Len(queue')
        BY <4>1, LenProperties
      <4>  QED  BY <4>2
    <3>2. \A i, j \in DOMAIN queue' : i < j => i + 1 < j + 1
      BY <3>1
    <3>  QED  BY <1>2, <3>2 DEF ResultInv, QueueOrder
  <2>  QED  BY <1>1, <2>1, <2>2, <2>3 DEF QueueOrder
<1>7. TagSource'
  BY <1>1, <1>4 DEF TagSource
<1>8. FinishPending'
  <2> SUFFICES ASSUME pc = "finish", failures <= failuresBefore
               PROVE  (\E i \in DOMAIN queue' : queue'[i].call = call) \/ tag' = completionTag
    BY <1>1, Numbers DEF FinishPending
  <2>1. PICK u \in mem["task"] : u.call = call /\ u.cmd.tag = completionTag
    BY <1>1 DEF TaskReady, AfterTask, TaskStream
  <2>2. CASE tag = completionTag
    BY <1>1, <1>3, <2>2, Numbers DEF ResultInv, TaskOrder
  <2>3. CASE queue[1].call = call
    <3>1. t.call = u.call /\ t.call \in Nat
      BY <1>1, <1>3, <2>1, <2>3, Numbers
    <3>2. t = u \/ t.call < u.call \/ u.call < t.call
      BY DEF ResultInv, TaskOrder
    <3>3. t = u
      BY <3>1, <3>2
    <3>  QED  BY <1>4, <2>1, <3>3
  <2>4. CASE \E i \in DOMAIN queue : i # 1 /\ queue[i].call = call
    BY <1>2, <2>4
  <2>  QED  BY <1>1, <2>2, <2>3, <2>4, Numbers DEF ResultInv, FinishPending
<1>9. (failuresBefore <= failures)' /\ SuccessMeansRan' /\ NoSpuriousFailure'
  BY <1>1 DEF ResultInv, SuccessMeansRan, NoSpuriousFailure
<1>  QED  BY <1>5, <1>6, <1>7, <1>8, <1>9 DEF ResultInv

LEMMA GpuResetsResult ==
    ASSUME DispatcherInv, ResultInv, GpuResets
    PROVE  ResultInv'
<1>1. /\ TypeOK /\ queue # <<>> /\ queue' = Tail(queue) /\ failures' = failures + 1
      /\ UNCHANGED <<pc, result, call, failuresBefore, completionTag, mem, tag, ran>>
  BY DEF DispatcherInv, GpuResets, heaps
<1>2. \A i \in DOMAIN queue' : i + 1 \in DOMAIN queue /\ queue'[i] = queue[i + 1]
  BY <1>1, Retired
<1>3. Separate("task")' /\ Separate("csr")' /\ TaskOrder' /\ TagSource'
  BY <1>1 DEF ResultInv, Separate, TaskOrder, TagSource
<1>4. QueueOrder'
  <2>1. \A i \in DOMAIN queue' : i \in Int
    <3>1. TypeOK' /\ queue' \in Seq(Batches)
      BY GpuStep DEF Gpu, DispatcherInv, TypeOK
    <3>2. DOMAIN queue' = 1..Len(queue')
      BY <3>1, LenProperties
    <3>  QED  BY <3>2
  <2>2. \A i, j \in DOMAIN queue' : i < j => i + 1 < j + 1
    BY <2>1
  <2>  QED  BY <1>1, <1>2, <2>2 DEF ResultInv, QueueOrder
<1>5. FinishPending' /\ (failuresBefore <= failures)' /\ NoSpuriousFailure'
  BY <1>1, Numbers DEF ResultInv, FinishPending, NoSpuriousFailure
<1>6. SuccessMeansRan'
  BY <1>1 DEF ResultInv, SuccessMeansRan
<1>  QED  BY <1>3, <1>4, <1>5, <1>6 DEF ResultInv

LEMMA StepResultInv ==
    ASSUME DispatcherInv, ResultInv, [Next]_vars
    PROVE  ResultInv'
<1>1. CASE \E k \in Kernels, req \in Requests : ExecuteKernel(k, req)
  BY <1>1, ExecuteKernelResult
<1>2. CASE \/ CreateScratchAllocation \/ CreateSurfaceStateHeap
           \/ CreateIndirectObjectHeap \/ CreateDynamicStateHeap
  BY <1>2, EarlyStageResult
<1>3. CASE CreateCommandStreamTask
  BY <1>3, TaskStreamResult
<1>4. CASE CreateCommandStreamReceiver
  BY <1>4, ReceiverResult
<1>5. CASE SubmitExecBuffer
  BY <1>5, SubmitResult
<1>6. CASE (\E h \in Heaps : HeapAllocationFails(h)) \/ SubmitFails \/ WaitFails
  BY <1>6, FailureResult
<1>7. CASE FinishExecution
  BY <1>7, FinishResult
<1>8. CASE Gpu
  BY <1>8, GpuRunsBatchResult, GpuResetsResult DEF Gpu
<1>9. CASE UNCHANGED vars
  <2>1. /\ UNCHANGED <<pc, result, call, failures, failuresBefore, completionTag, mem>>
        /\ UNCHANGED <<tag, queue, ran>>
    BY <1>9 DEF vars, control, heaps, device
  <2>  QED  BY <2>1 DEF ResultInv, Separate, TaskOrder, QueueOrder, TagSource, FinishPending,
                SuccessMeansRan, NoSpuriousFailure
<1>  QED  BY <1>1, <1>2, <1>3, <1>4, <1>5, <1>6, <1>7, <1>8, <1>9 DEF Next, Stage

-----------------------------------------------------------------------------
(* The theorems *)

(* ResultInv holds in every state of every execution. *)
THEOREM ResultInvariant == Spec => []ResultInv
<1>1. DispatcherInv /\ ResultInv /\ [Next]_vars => ResultInv'
  BY StepResultInv
<1>  QED  BY <1>1, InitResultInv, DispatcherInvariant, PTL DEF Spec

(* A batch writes a tag that is higher than the tag in the buffer and      *)
(* lower than the tags of the batches behind it, and has not run before:   *)
(* comparing one number is enough to recognise the batch.                  *)
THEOREM TagsIdentifyBatchesTheorem == Spec => []TagsIdentifyBatches
<1>1. DispatcherInv /\ ResultInv => TagsIdentifyBatches
  BY TagsIdentifyBatchesLemma
<1>  QED  BY <1>1, DispatcherInvariant, ResultInvariant, PTL

(* ExecuteKernel returns SUCCESS only if its own batch ran to its end,     *)
(* also when earlier calls gave up waiting and left batches behind.        *)
THEOREM SuccessMeansRanTheorem == Spec => []SuccessMeansRan
<1>1. ResultInv => SuccessMeansRan
  BY DEF ResultInv
<1>  QED  BY <1>1, ResultInvariant, PTL

(* ExecuteKernel reports a failure of allocation, submission or wait only  *)
(* if something failed during the call.                                    *)
THEOREM NoSpuriousFailureTheorem == Spec => []NoSpuriousFailure
<1>1. ResultInv => NoSpuriousFailure
  BY DEF ResultInv
<1>  QED  BY <1>1, ResultInvariant, PTL

-----------------------------------------------------------------------------
(***************************************************************************)
(* Dispatcher implements KernelLaunch. Two facts are needed besides: the   *)
(* blocks of the dynamic state heap and of the indirect object heap are    *)
(* separate too (DataInv). For the latter every kernel has to have cross   *)
(* thread data, otherwise two calls may find their empty indirect data at  *)
(* the same address.                                                       *)
(***************************************************************************)
CrossThreadData == \A k \in Kernels : KernelInfo[k].crossThread > 0

DataInv == Separate("dsh") /\ Separate("ioh")

LEMMA DataStep ==
    ASSUME CrossThreadData, DispatcherInv, DataInv, [Next]_vars
    PROVE  DataInv'
<1>1. TypeOK /\ Layout
  BY DEF DispatcherInv
<1>2. ASSUME UNCHANGED <<mem["dsh"], mem["ioh"]>> PROVE DataInv'
  BY <1>2 DEF DataInv, Separate
<1>3. CASE CreateIndirectObjectHeap
  <2> DEFINE lo == Cursor("ioh")
             next == PayloadOf(Info, grid.items)
             hi == AlignUp(lo + Info.crossThread + next.perThread, CacheLineSize)
             block == Block(lo, hi, [kernel |-> kernel, grid |-> grid])
             end == lo + Info.crossThread + GeneratedBytes(Info, grid.items)
  <2>1. mem' = [mem EXCEPT !["ioh"] = Write(mem["ioh"], end, block)]
    BY <1>3 DEF CreateIndirectObjectHeap
  <2>2. lo < hi
    <3>1. lo \in Nat
      BY <1>1, CursorFacts DEF Heaps
    <3>2. pc # "idle" /\ grid.items \in Sizes
      BY <1>1, <1>3 DEF CreateIndirectObjectHeap, Proceed, TypeOK, Grid
    <3>3. kernel \in Kernels /\ Info \in KernelData
      BY <1>1, <3>2, InfoType
    <3>4. Info.crossThread \in Nat /\ Info.crossThread > 0
      BY <3>3 DEF CrossThreadData, KernelData, Info
    <3>5. next.perThread \in Nat
      BY <3>2, <3>3, PayloadType
    <3> HIDE DEF lo, next
    <3>6. lo + Info.crossThread + next.perThread \in Nat
      BY <3>1, <3>4, <3>5
    <3>7. lo + Info.crossThread + next.perThread > lo
      BY <3>1, <3>4, <3>5
    <3>8. hi \in Nat /\ hi >= lo + Info.crossThread + next.perThread
      BY <3>6, LineUp
    <3> HIDE DEF hi
    <3>  QED  BY <3>1, <3>6, <3>7, <3>8
  <2>3. block.lo = lo /\ block.hi = hi
    BY DEF Block
  <2>4. Write(mem["ioh"], end, block) = mem["ioh"] \cup {block}
    BY <1>1, <2>3, CursorFacts, WriteAppends DEF Heaps
  <2> HIDE DEF hi, block, end
  <2>5. mem'["ioh"] = mem["ioh"] \cup {block} /\ mem'["dsh"] = mem["dsh"]
    BY <1>1, <2>1, <2>4 DEF TypeOK, Heaps
  <2>6. Separate("ioh")'
    BY <1>1, <2>2, <2>3, <2>5, SeparateAppend DEF DataInv, Heaps
  <2>  QED  BY <2>5, <2>6 DEF DataInv, Separate
<1>4. CASE CreateDynamicStateHeap
  <2> DEFINE lo == Cursor("dsh")
             hi == AlignUp(lo + INTERFACE_DESCRIPTOR_DATA_Size, CacheLineSize)
             block == Block(lo, hi, [kernel |-> kernel, threads |-> payload.threads,
                                     table |-> offset["ssh"] - CacheLineSize, slm |-> slm' > 0])
             end == lo + INTERFACE_DESCRIPTOR_DATA_Size
  <2>1. mem' = [mem EXCEPT !["dsh"] = Write(mem["dsh"], end, block)]
    BY <1>4 DEF CreateDynamicStateHeap
  <2>2. lo < hi
    <3>1. lo \in Nat
      BY <1>1, CursorFacts DEF Heaps
    <3> HIDE DEF lo
    <3>2. end \in Nat /\ end > lo
      BY <3>1 DEF INTERFACE_DESCRIPTOR_DATA_Size
    <3>3. hi \in Nat /\ hi >= end
      BY <3>2, LineUp
    <3> HIDE DEF hi, end
    <3>  QED  BY <3>1, <3>2, <3>3
  <2>3. block.lo = lo /\ block.hi = hi
    BY DEF Block
  <2>4. Write(mem["dsh"], end, block) = mem["dsh"] \cup {block}
    BY <1>1, <2>3, CursorFacts, WriteAppends DEF Heaps
  <2> HIDE DEF hi, block, end
  <2>5. mem'["dsh"] = mem["dsh"] \cup {block} /\ mem'["ioh"] = mem["ioh"]
    BY <1>1, <2>1, <2>4 DEF TypeOK, Heaps
  <2>6. Separate("dsh")'
    BY <1>1, <2>2, <2>3, <2>5, SeparateAppend DEF DataInv, Heaps
  <2>  QED  BY <2>5, <2>6 DEF DataInv, Separate
<1>5. CASE CreateSurfaceStateHeap
  <2>1. mem' = mem \/ \E blocks : mem' = [mem EXCEPT !["ssh"] = blocks]
    BY <1>5 DEF CreateSurfaceStateHeap
  <2>  QED  BY <1>1, <1>2, <2>1, OtherHeaps DEF Heaps
<1>6. CASE CreateCommandStreamTask
  BY <1>1, <1>2, <1>6, TaskStreamAppended DEF Heaps
<1>7. CASE CreateCommandStreamReceiver
  BY <1>1, <1>2, <1>7, ReceiverAppended DEF Heaps
<1>8. CASE \/ \E k \in Kernels, req \in Requests : ExecuteKernel(k, req)
           \/ CreateScratchAllocation
           \/ \E h \in Heaps : HeapAllocationFails(h)
           \/ SubmitExecBuffer \/ SubmitFails \/ FinishExecution \/ WaitFails
           \/ Gpu \/ UNCHANGED vars
  <2>1. mem' = mem
    BY <1>8 DEF ExecuteKernel, CreateScratchAllocation, HeapAllocationFails, SubmitExecBuffer,
         SubmitFails, FinishExecution, WaitFails, Gpu, GpuRunsBatch, GpuResets, heaps, vars
  <2>  QED  BY <1>2, <2>1
<1>  QED  BY <1>3, <1>4, <1>5, <1>6, <1>7, <1>8 DEF Next, Stage

(* A function on 1..n+1 continues one on 1..n, or is continued by it. *)
LEMMA MappedAppend ==
    ASSUME NEW n \in Nat, NEW f, NEW g,
           f = [i \in 1..n |-> f[i]], g = [i \in 1..(n + 1) |-> g[i]],
           \A i \in 1..n : g[i] = f[i]
    PROVE  g = Append(f, g[n + 1])
<1> DEFINE T == {g[i] : i \in 1..(n + 1)}
<1>0. (\A i \in 1..(n + 1) : g[i] \in T) /\ n + 1 \in 1..(n + 1) /\ 1..n \subseteq 1..(n + 1)
  OBVIOUS
<1> HIDE DEF T
<1>1. f \in [1..n -> T] /\ g \in [1..(n + 1) -> T] /\ g[n + 1] \in T
  BY <1>0
<1>2. f \in Seq(T) /\ g \in Seq(T) /\ g[n + 1] \in T
  <2>1. n + 1 \in Nat
    OBVIOUS
  <2>  QED  BY <1>1, <2>1, SeqDef
<1>3. Len(f) = n /\ Len(g) = n + 1
  <2>1. DOMAIN f = 1..n /\ DOMAIN g = 1..(n + 1)
    BY <1>1
  <2>2. Len(f) \in Nat /\ Len(g) \in Nat /\ DOMAIN f = 1..Len(f) /\ DOMAIN g = 1..Len(g)
    BY <1>2, LenProperties
  <2>  QED  BY <2>1, <2>2
<1>4. /\ Append(f, g[n + 1]) \in Seq(T) /\ Len(Append(f, g[n + 1])) = n + 1
      /\ \A i \in 1..n : Append(f, g[n + 1])[i] = f[i]
      /\ Append(f, g[n + 1])[n + 1] = g[n + 1]
  BY <1>2, <1>3, AppendProperties
<1>5. \A i \in 1..(n + 1) : g[i] = Append(f, g[n + 1])[i]
  <2> SUFFICES ASSUME NEW i \in 1..(n + 1) PROVE g[i] = Append(f, g[n + 1])[i]
    OBVIOUS
  <2>1. i \in 1..n \/ i = n + 1
    OBVIOUS
  <2>  QED  BY <1>4, <2>1
<1>  QED  BY <1>2, <1>3, <1>4, <1>5, SeqEqual

LEMMA MappedTail ==
    ASSUME NEW n \in Nat, NEW f, NEW g,
           f = [i \in 1..(n + 1) |-> f[i]], g = [i \in 1..n |-> g[i]],
           \A i \in 1..n : g[i] = f[i + 1]
    PROVE  f # <<>> /\ Head(f) = f[1] /\ g = Tail(f)
<1> DEFINE T == {f[i] : i \in 1..(n + 1)}
<1>0. (\A i \in 1..(n + 1) : f[i] \in T) /\ \A i \in 1..n : i + 1 \in 1..(n + 1)
  OBVIOUS
<1> HIDE DEF T
<1>1. f \in [1..(n + 1) -> T] /\ g \in [1..n -> T]
  BY <1>0
<1>2. f \in Seq(T) /\ g \in Seq(T)
  <2>1. n + 1 \in Nat
    OBVIOUS
  <2>  QED  BY <1>1, <2>1, SeqDef
<1>3. Len(g) = n /\ Len(f) = n + 1
  <2>1. DOMAIN g = 1..n /\ DOMAIN f = 1..(n + 1)
    BY <1>1
  <2>2. Len(f) \in Nat /\ Len(g) \in Nat /\ DOMAIN f = 1..Len(f) /\ DOMAIN g = 1..Len(g)
    BY <1>2, LenProperties
  <2>  QED  BY <2>1, <2>2
<1>4. f # <<>>
  BY <1>3, EmptySeq
<1>5. /\ Tail(f) \in Seq(T) /\ Len(Tail(f)) = n
      /\ \A i \in 1..n : Tail(f)[i] = f[i + 1]
  BY <1>2, <1>3, <1>4, HeadTailProperties
<1>6. g = Tail(f)
  BY <1>2, <1>3, <1>5, SeqEqual
<1>7. Head(f) = f[1]
  BY <1>2
<1>  QED  BY <1>4, <1>6, <1>7

(* What following the pointers of a batch through a memory m comes to. *)
LEMMA JobFound ==
    ASSUME NEW m, NEW batch,
           \A h \in {"ioh", "dsh", "task", "csr"} : \A b, e \in m[h] : b.lo = e.lo => b = e,
           NEW c \in m["csr"], NEW t \in m["task"], NEW d \in m["dsh"], NEW i \in m["ioh"],
           c.lo = batch.start, c.hi = batch.start + batch.length,
           t.lo = c.cmd.task, d.lo = t.cmd.descriptor, i.lo = t.cmd.indirect
    PROVE  UNION {UNION {{Job(v.cmd.kernel, w.cmd.kernel, w.cmd.grid, u.cmd.groups) :
                             v \in {b \in m["dsh"] : b.lo = u.cmd.descriptor},
                             w \in {b \in m["ioh"] : b.lo = u.cmd.indirect}} :
                         u \in {b \in m["task"] : b.lo = x.cmd.task}} :
                  x \in {y \in {b \in m["csr"] : b.lo = batch.start} :
                            y.hi = batch.start + batch.length}}
             = {Job(d.cmd.kernel, i.cmd.kernel, i.cmd.grid, t.cmd.groups)}
<1>1. {y \in {b \in m["csr"] : b.lo = batch.start} : y.hi = batch.start + batch.length} = {c}
  OBVIOUS
<1>2. {b \in m["task"] : b.lo = c.cmd.task} = {t}
  OBVIOUS
<1>3. {b \in m["dsh"] : b.lo = t.cmd.descriptor} = {d}
  OBVIOUS
<1>4. {b \in m["ioh"] : b.lo = t.cmd.indirect} = {i}
  OBVIOUS
<1>  QED  BY <1>1, <1>2, <1>3, <1>4

SeparateHeaps == \A h \in {"ioh", "dsh", "task", "csr"} : Separate(h)

(* The job of a queued batch does not change while blocks are appended. *)
LEMMA JobsSurvive ==
    ASSUME SeparateHeaps, SeparateHeaps', \A h \in Heaps : mem[h] \subseteq mem'[h],
           NEW batch, Coherent(batch)
    PROVE  JobsFound(batch)' = JobsFound(batch)
<1>1. PICK c \in CsrOf(batch) : \E t \in At("task", c.cmd.task) :
        \E d \in At("dsh", t.cmd.descriptor), i \in At("ioh", t.cmd.indirect) : TRUE
  BY SMTT(30) DEF Coherent
<1>2. PICK t \in At("task", c.cmd.task) :
        \E d \in At("dsh", t.cmd.descriptor), i \in At("ioh", t.cmd.indirect) : TRUE
  BY <1>1
<1>3. PICK d \in At("dsh", t.cmd.descriptor), i \in At("ioh", t.cmd.indirect) : TRUE
  BY <1>2
<1>4. /\ c \in mem["csr"] /\ t \in mem["task"] /\ d \in mem["dsh"] /\ i \in mem["ioh"]
      /\ c.lo = batch.start /\ c.hi = batch.start + batch.length
      /\ t.lo = c.cmd.task /\ d.lo = t.cmd.descriptor /\ i.lo = t.cmd.indirect
  BY DEF CsrOf, At
<1>5. c \in mem'["csr"] /\ t \in mem'["task"] /\ d \in mem'["dsh"] /\ i \in mem'["ioh"]
  BY <1>4 DEF Heaps
<1>6. /\ \A h \in {"ioh", "dsh", "task", "csr"} : \A b, e \in mem[h] : b.lo = e.lo => b = e
      /\ \A h \in {"ioh", "dsh", "task", "csr"} : \A b, e \in mem'[h] : b.lo = e.lo => b = e
  BY DEF SeparateHeaps, Separate
<1>7. JobsFound(batch) = {Job(d.cmd.kernel, i.cmd.kernel, i.cmd.grid, t.cmd.groups)}
  BY <1>4, <1>6, JobFound, SMTT(30) DEF JobsFound, CsrOf, At
<1>8. JobsFound(batch)' = {Job(d.cmd.kernel, i.cmd.kernel, i.cmd.grid, t.cmd.groups)}
  BY <1>4, <1>5, <1>6, JobFound, SMTT(30) DEF JobsFound, CsrOf, At
<1>  QED  BY <1>7, <1>8

(* The batch a call submits is the job it was asked for. *)
LEMMA JobSubmitted ==
    ASSUME DispatcherInv, SeparateHeaps, pc = "submit",
           NEW batch, batch.start = StreamAt("csr"), batch.length = AlignUp(taskOffset["csr"], 8)
    PROVE  JobsFound(batch) = {Job(kernel, kernel, grid, grid.groups)}
<1>1. /\ TypeOK /\ IndirectReady /\ DescriptorReady /\ TaskReady /\ ReceiverReady
  BY DEF DispatcherInv
<1>2. PICK c \in mem["csr"] : /\ c.lo = StreamAt("csr") /\ c.hi = offset["csr"]
                              /\ c.cmd.task = StreamAt("task")
  BY <1>1 DEF ReceiverReady, AfterCsr
<1>3. PICK t \in mem["task"] : t.lo = StreamAt("task") /\ t.cmd = TaskStream(completionTag)
  BY <1>1 DEF TaskReady, AfterTask
<1>4. PICK d \in mem["dsh"] : d.lo = DescriptorAt /\ d.cmd.kernel = kernel
  BY <1>1 DEF DescriptorReady, AfterDsh
<1>5. PICK i \in mem["ioh"] : i.lo = IndirectAt /\ i.cmd = [kernel |-> kernel, grid |-> grid]
  BY <1>1 DEF IndirectReady, AfterIoh
<1>6. batch.start + batch.length = offset["csr"]
  <2>1. taskOffset["csr"] \in Nat /\ taskOffset["csr"] % CacheLineSize = 0
    BY <1>1 DEF TypeOK, ReceiverReady, AfterCsr
  <2>2. offset["csr"] \in Nat
    BY <1>1 DEF TypeOK, Heaps
  <2>3. batch.length = taskOffset["csr"]
    BY <2>1, EightUp
  <2>  QED  BY <2>1, <2>2, <2>3 DEF StreamAt
<1>7. /\ t.cmd.descriptor = DescriptorAt /\ t.cmd.indirect = IndirectAt
      /\ t.cmd.groups = grid.groups
  BY <1>3 DEF TaskStream, DescriptorAt, IndirectAt
<1>8. \A h \in {"ioh", "dsh", "task", "csr"} : \A b, e \in mem[h] : b.lo = e.lo => b = e
  BY DEF SeparateHeaps, Separate
<1>9. /\ c.lo = batch.start /\ c.hi = batch.start + batch.length /\ t.lo = c.cmd.task
      /\ d.lo = t.cmd.descriptor /\ i.lo = t.cmd.indirect
  BY <1>2, <1>3, <1>4, <1>5, <1>6, <1>7
<1>10. JobsFound(batch) = {Job(d.cmd.kernel, i.cmd.kernel, i.cmd.grid, t.cmd.groups)}
  BY <1>8, <1>9, JobFound, SMTT(30) DEF JobsFound, CsrOf, At
<1>  QED  BY <1>4, <1>5, <1>7, <1>10

Pending == [n \in DOMAIN queue |-> [call |-> queue[n].call, jobs |-> JobsFound(queue[n])]]
Asked == IF pc = "idle" THEN NoKernel ELSE Job(kernel, kernel, grid, grid.groups)

LEMMA PhaseCases ==
    ASSUME NEW p, NEW r
    PROVE  LET phase == CASE p = "finish" -> "launched"
                          [] p \in Stages \ {"finish"} -> "running"
                          [] p = "idle" /\ r = "NONE" -> "none"
                          [] p = "idle" /\ r = "SUCCESS" -> "succeeded"
                          [] p = "idle" /\ r = "POST_SYNC_OPERATION_FAILED" -> "unknown"
                          [] OTHER -> "failed"
           IN  /\ p = "finish" => phase = "launched"
               /\ p \in Stages \ {"finish"} => phase = "running"
               /\ p = "idle" => phase # "running" /\ phase # "launched"
               /\ p = "idle" /\ r = "SUCCESS" => phase = "succeeded"
               /\ p = "idle" /\ r = "POST_SYNC_OPERATION_FAILED" => phase = "unknown"
               /\ p = "idle" /\ r \notin {"NONE", "SUCCESS", "POST_SYNC_OPERATION_FAILED"}
                    => phase = "failed"
  BY DEF Stages, Heaps

LEMMA PhaseNow ==
    /\ pc = "finish" => PhaseOf = "launched"
    /\ pc \in Stages \ {"finish"} => PhaseOf = "running"
    /\ pc = "idle" => PhaseOf # "running" /\ PhaseOf # "launched"
  BY PhaseCases DEF PhaseOf

LEMMA PhaseNext ==
    /\ pc' = "finish" => PhaseOf' = "launched"
    /\ pc' \in Stages \ {"finish"} => PhaseOf' = "running"
    /\ pc' = "idle" /\ result' = "SUCCESS" => PhaseOf' = "succeeded"
    /\ pc' = "idle" /\ result' = "POST_SYNC_OPERATION_FAILED" => PhaseOf' = "unknown"
    /\ pc' = "idle" /\ result' \notin {"NONE", "SUCCESS", "POST_SYNC_OPERATION_FAILED"}
         => PhaseOf' = "failed"
  BY PhaseCases DEF PhaseOf

RefinementInv == DispatcherInv /\ ResultInv /\ DataInv

LEMMA RefinementFacts ==
    ASSUME RefinementInv
    PROVE  /\ DispatcherInv /\ ResultInv /\ TypeOK /\ SeparateHeaps
           /\ \A n \in DOMAIN queue : Coherent(queue[n])
  BY DEF RefinementInv, DispatcherInv, ResultInv, DataInv, SeparateHeaps, InFlightCoherent

(* The job of a batch in the queue is the same after the step. *)
LEMMA JobsStay ==
    ASSUME RefinementInv, RefinementInv', Next, NEW batch, Coherent(batch)
    PROVE  JobsFound(batch)' = JobsFound(batch)
<1>1. \A h \in Heaps : mem[h] \subseteq mem'[h]
  BY AppendOnlyStep DEF RefinementInv
<1>2. SeparateHeaps /\ SeparateHeaps'
  BY DEF RefinementInv, ResultInv, DataInv, SeparateHeaps
<1>  QED  BY <1>1, <1>2, JobsSurvive

LEMMA PendingStays ==
    ASSUME RefinementInv, RefinementInv', Next, queue' = queue
    PROVE  Pending' = Pending
<1>1. \A n \in DOMAIN queue : JobsFound(queue[n])' = JobsFound(queue[n])
  <2> SUFFICES ASSUME NEW n \in DOMAIN queue
               PROVE  JobsFound(queue[n])' = JobsFound(queue[n])
    OBVIOUS
  <2> DEFINE batch == queue[n]
  <2>1. Coherent(batch) /\ batch' = batch
    BY RefinementFacts
  <2>2. JobsFound(batch)' = JobsFound(batch)
    BY <2>1, JobsStay
  <2>  QED  BY <2>2
<1>  QED  BY <1>1 DEF Pending

(* ExecuteKernel is a call or is rejected. *)
LEMMA ExecuteKernelRefines ==
    ASSUME RefinementInv, RefinementInv',
           NEW k \in Kernels, NEW req \in Requests, ExecuteKernel(k, req)
    PROVE  Abstract!Next
<1>1. /\ pc = "idle" /\ call' = call + 1
      /\ \/ pc' = "scratch" /\ result' = "NONE"
         \/ pc' = "idle" /\ result' \in {"UNSUPPORTED_HARDWARE", "INVALID_WORK_SIZE",
                                        "INVALID_WORK_GROUP_SIZE"}
      /\ queue' = queue /\ ran' = ran
  BY ExecuteKernelFrame
<1>2. Next
  BY DEF Next
<1>3. Pending' = Pending
  BY <1>1, <1>2, PendingStays
<1>4. PhaseOf \notin {"running", "launched"}
  BY <1>1, PhaseNow
<1>5. CASE pc' = "scratch"
  <2>1. PhaseOf' = "running"
    BY <1>5, PhaseNext DEF Stages
  <2>2. Asked' \in AllJobs
    <3>1. kernel' \in Kernels /\ grid' \in Grid /\ grid'.groups \in Sizes
      <4>1. TypeOK'
        BY DEF RefinementInv, DispatcherInv
      <4>  QED  BY <1>5, <4>1 DEF TypeOK, Grid
    <3>2. Asked' = Job(kernel', kernel', grid', grid'.groups)
      BY <1>5 DEF Asked, Job
    <3>  QED  BY <3>1, <3>2 DEF AllJobs, Job
  <2>  QED  BY <1>1, <1>3, <1>4, <2>1, <2>2
            DEF Abstract!Next, Abstract!Call, Abstract!Returned, Pending, Asked
<1>6. CASE pc' = "idle"
  <2>1. PhaseOf' = "failed"
    BY <1>1, <1>6, PhaseNext
  <2>2. Asked' = Asked
    BY <1>1, <1>6 DEF Asked
  <2>  QED  BY <1>1, <1>3, <1>4, <2>1, <2>2
            DEF Abstract!Next, Abstract!Reject, Abstract!Returned, Pending, Asked
<1>  QED  BY <1>1, <1>5, <1>6

(* The stages are not seen from outside. *)
LEMMA StageRefines ==
    ASSUME RefinementInv, RefinementInv', Next,
           pc \in Stages \ {"finish"}, pc' \in Stages \ {"finish"},
           UNCHANGED <<call, kernel, grid, queue, ran>>
    PROVE  UNCHANGED Abstract!vars
<1>1. PhaseOf = "running" /\ PhaseOf' = "running"
  BY PhaseNow, PhaseNext
<1>2. Asked' = Asked
  BY DEF Asked, Stages, Heaps, Job
<1>3. Pending' = Pending
  BY PendingStays
<1>  QED  BY <1>1, <1>2, <1>3 DEF Abstract!vars, Pending, Asked

(* The mapped queue when the heaps do not change. *)
LEMMA PendingEntry ==
    ASSUME mem' = mem, NEW n \in DOMAIN queue', NEW batch, queue'[n] = batch
    PROVE  Pending'[n] = [call |-> batch.call, jobs |-> JobsFound(batch)]
  BY DEF Pending, JobsFound, CsrOf, At

LEMMA SubmitRefines ==
    ASSUME RefinementInv, SubmitExecBuffer
    PROVE  Abstract!Next
<1> DEFINE batch == [call |-> call, start |-> StreamAt("csr"),
                     length |-> AlignUp(taskOffset["csr"], 8)]
           last == Len(queue) + 1
<1>1. /\ pc = "submit" /\ pc' = "finish" /\ queue' = Append(queue, batch)
      /\ UNCHANGED <<call, kernel, grid, mem, ran>>
  BY DEF SubmitExecBuffer, Proceed, StreamAt, request, heaps
<1>2. queue \in Seq(Batches)
  BY RefinementFacts DEF TypeOK
<1>3. PhaseOf = "running" /\ PhaseOf' = "launched"
  BY <1>1, PhaseNow, PhaseNext DEF Stages
<1>4. Asked = Job(kernel, kernel, grid, grid.groups) /\ Asked' = Asked
  BY <1>1 DEF Asked, Job
<1>5. batch.call = call /\ JobsFound(batch) = {Asked}
  <2>1. /\ batch.start = StreamAt("csr") /\ batch.length = AlignUp(taskOffset["csr"], 8)
        /\ batch.call = call
    OBVIOUS
  <2> HIDE DEF batch
  <2>  QED  BY <1>1, <1>4, <2>1, JobSubmitted, RefinementFacts
<1> HIDE DEF batch
<1>6. /\ Len(queue) \in Nat /\ DOMAIN queue = 1..Len(queue) /\ DOMAIN queue' = 1..last
      /\ \A n \in DOMAIN queue : queue'[n] = queue[n]
      /\ queue'[last] = batch
  <2>1. Len(queue) \in Nat /\ DOMAIN queue = 1..Len(queue)
    BY <1>2, LenProperties
  <2>  QED  BY <1>1, <1>2, <2>1
<1>7. \A n \in DOMAIN queue : Pending'[n] = Pending[n]
  <2> SUFFICES ASSUME NEW n \in DOMAIN queue PROVE Pending'[n] = Pending[n]
    OBVIOUS
  <2>1. n \in DOMAIN queue' /\ queue'[n] = queue[n]
    BY <1>6
  <2>2. Pending'[n] = [call |-> queue[n].call, jobs |-> JobsFound(queue[n])]
    BY <1>1, <2>1, PendingEntry
  <2>  QED  BY <2>2 DEF Pending
<1>8. Pending'[last] = [call |-> call, jobs |-> {Asked}]
  <2>1. last \in DOMAIN queue'
    BY <1>6
  <2>2. queue'[last] = batch /\ mem' = mem
    BY <1>1, <1>6
  <2> HIDE DEF last
  <2>3. Pending'[last] = [call |-> batch.call, jobs |-> JobsFound(batch)]
    BY <2>1, <2>2, PendingEntry
  <2>  QED  BY <1>5, <2>3
<1>9. Pending' = Append(Pending, [call |-> call, jobs |-> {Asked}])
  <2>1. Pending = [n \in 1..Len(queue) |-> Pending[n]]
    BY <1>6 DEF Pending
  <2>2. Pending' = [n \in 1..last |-> Pending'[n]]
    BY <1>6 DEF Pending
  <2>3. Len(queue) \in Nat /\ \A n \in 1..Len(queue) : Pending'[n] = Pending[n]
    BY <1>6, <1>7
  <2>4. Pending' = Append(Pending, Pending'[last])
    BY <2>1, <2>2, <2>3, MappedAppend
  <2>  QED  BY <1>8, <2>4
<1>  QED  BY <1>1, <1>3, <1>4, <1>9 DEF Abstract!Next, Abstract!Launch, Pending, Asked

(* A call that fails before its submission was never launched. *)
LEMMA FailureRefines ==
    ASSUME RefinementInv,
           \/ LoseScratch /\ CreateScratchAllocation
           \/ \E h \in Heaps : HeapAllocationFails(h)
           \/ SubmitFails
    PROVE  Abstract!Next
<1>1. /\ pc \in Stages \ {"finish"} /\ pc' = "idle"
      /\ result' \in {"BUFFER_ALLOCATION_FAILED", "GEM_EXECBUFFER_FAILED"}
      /\ UNCHANGED <<call, mem, queue, ran>>
  BY DEF LoseScratch, CreateScratchAllocation, HeapAllocationFails, SubmitFails, Fail, Leave,
         Stages, Heaps, heaps, device
<1>2. PhaseOf = "running" /\ PhaseOf' = "failed" /\ Asked' = NoKernel
  BY <1>1, PhaseNow, PhaseNext DEF Asked
<1>3. Pending' = Pending
  BY <1>1 DEF Pending, JobsFound, CsrOf, At
<1>  QED  BY <1>1, <1>2, <1>3
          DEF Abstract!Next, Abstract!Fail, Abstract!Return, Pending, Asked

(* What the wait returns. *)
LEMMA FinishRefines ==
    ASSUME RefinementInv, RefinementInv', FinishExecution \/ WaitFails
    PROVE  Abstract!Next
<1>1. /\ pc = "finish" /\ pc' = "idle"
      /\ result' \in {"SUCCESS", "POST_SYNC_OPERATION_FAILED"}
      /\ UNCHANGED <<call, mem, queue, ran>>
  BY DEF FinishExecution, WaitFails, Fail, Leave, heaps, device
<1>2. PhaseOf = "launched" /\ Asked' = NoKernel
  BY <1>1, PhaseNow DEF Asked
<1>3. Pending' = Pending
  BY <1>1 DEF Pending, JobsFound, CsrOf, At
<1>4. CASE result' = "SUCCESS"
  <2>1. PhaseOf' = "succeeded"
    BY <1>1, <1>4, PhaseNext
  <2>2. call \in ran
    BY <1>1, <1>4 DEF RefinementInv, ResultInv, SuccessMeansRan
  <2>  QED  BY <1>1, <1>2, <1>3, <2>1, <2>2
            DEF Abstract!Next, Abstract!Succeed, Abstract!Return, Pending, Asked
<1>5. CASE result' = "POST_SYNC_OPERATION_FAILED"
  <2>1. PhaseOf' = "unknown"
    BY <1>1, <1>5, PhaseNext
  <2>  QED  BY <1>1, <1>2, <1>3, <2>1
            DEF Abstract!Next, Abstract!GiveUp, Abstract!Return, Pending, Asked
<1>  QED  BY <1>1, <1>4, <1>5

(* The GPU runs the oldest job or loses it. *)
LEMMA GpuRefines ==
    ASSUME RefinementInv, Gpu
    PROVE  Abstract!Next
<1>1. /\ queue # <<>> /\ queue' = Tail(queue)
      /\ UNCHANGED <<pc, result, call, kernel, grid, mem>>
      /\ ran' = ran \/ ran' = ran \cup {Head(queue).call}
  BY DEF Gpu, GpuRunsBatch, GpuResets, control, request, heaps
<1>2. queue \in Seq(Batches)
  BY RefinementFacts DEF TypeOK
<1> DEFINE n == Len(queue) - 1
<1>3. /\ n \in Nat /\ DOMAIN queue = 1..(n + 1) /\ DOMAIN queue' = 1..n
      /\ \A i \in 1..n : i + 1 \in DOMAIN queue /\ queue'[i] = queue[i + 1]
      /\ Head(queue) = queue[1] /\ 1 \in DOMAIN queue
  <2>1. Len(queue) \in Nat \ {0} /\ DOMAIN queue = 1..Len(queue)
    BY <1>1, <1>2, EmptySeq, LenProperties
  <2>2. /\ Tail(queue) \in Seq(Batches) /\ Len(Tail(queue)) = n
        /\ \A i \in 1..Len(Tail(queue)) : Tail(queue)[i] = queue[i + 1]
    BY <1>1, <1>2, HeadTailProperties
  <2>3. DOMAIN Tail(queue) = 1..n
    BY <2>2, LenProperties
  <2>4. Head(queue) = queue[1]
    BY <1>2
  <2>  QED  BY <1>1, <2>1, <2>2, <2>3, <2>4
<1> HIDE DEF n
<1>4. ASSUME NEW i \in 1..n PROVE Pending'[i] = Pending[i + 1]
  <2>1. i \in DOMAIN queue' /\ queue'[i] = queue[i + 1] /\ i + 1 \in DOMAIN queue
    BY <1>3
  <2>2. Pending'[i] = [call |-> queue[i + 1].call, jobs |-> JobsFound(queue[i + 1])]
    BY <1>1, <2>1, PendingEntry
  <2>  QED  BY <2>1, <2>2 DEF Pending
<1>5. Pending # <<>> /\ Head(Pending) = Pending[1] /\ Pending' = Tail(Pending)
  <2>1. Pending = [i \in 1..(n + 1) |-> Pending[i]]
    BY <1>3 DEF Pending
  <2>2. Pending' = [i \in 1..n |-> Pending'[i]]
    BY <1>3 DEF Pending
  <2>  QED  BY <1>3, <1>4, <2>1, <2>2, MappedTail, ZenonT(30)
<1>6. Head(Pending).call = Head(queue).call
  BY <1>3, <1>5 DEF Pending
<1>7. PhaseOf' = PhaseOf /\ Asked' = Asked
  BY <1>1 DEF PhaseOf, Asked, Job
<1>8. CASE ran' = ran
  BY <1>1, <1>5, <1>7, <1>8 DEF Abstract!Next, Abstract!Lose, Pending, Asked
<1>9. CASE ran' = ran \cup {Head(queue).call}
  BY <1>1, <1>5, <1>6, <1>7, <1>9 DEF Abstract!Next, Abstract!Run, Pending, Asked
<1>  QED  BY <1>1, <1>8, <1>9

LEMMA InitRefines == Init => Abstract!Init
<1> SUFFICES ASSUME Init PROVE Abstract!Init
  OBVIOUS
<1>1. pc = "idle" /\ result = "NONE" /\ call = 0 /\ queue = <<>> /\ ran = {}
  BY DEF Init
<1>2. PhaseOf = "none"
  BY <1>1 DEF PhaseOf, Stages, Heaps
<1>3. [n \in DOMAIN queue |-> [call |-> queue[n].call, jobs |-> JobsFound(queue[n])]] = <<>>
  BY <1>1
<1>  QED  BY <1>1, <1>2, <1>3 DEF Abstract!Init

LEMMA StepRefines ==
    ASSUME RefinementInv, RefinementInv', [Next]_vars
    PROVE  [Abstract!Next]_(Abstract!vars)
<1>1. CASE \E k \in Kernels, req \in Requests : ExecuteKernel(k, req)
  BY <1>1, ExecuteKernelRefines
<1>2. CASE \/ LoseScratch /\ CreateScratchAllocation
           \/ \E h \in Heaps : HeapAllocationFails(h)
           \/ SubmitFails
  BY <1>2, FailureRefines
<1>3. CASE \/ /\ KeepScratch \/ ResetScratch \/ ResetScratchUnwaited \/ GrowScratch
              /\ CreateScratchAllocation
           \/ CreateSurfaceStateHeap \/ CreateIndirectObjectHeap \/ CreateDynamicStateHeap
           \/ CreateCommandStreamTask \/ CreateCommandStreamReceiver
  <2>1. /\ pc \in Stages \ {"finish"} /\ pc' \in Stages \ {"finish"}
        /\ UNCHANGED <<call, kernel, grid, queue, ran>>
    BY <1>3 DEF CreateScratchAllocation, KeepScratch, ResetScratch, ResetScratchUnwaited,
         GrowScratch, CreateSurfaceStateHeap, CreateIndirectObjectHeap, CreateDynamicStateHeap, CreateCommandStreamTask,
         CreateCommandStreamReceiver, Proceed, Stages, Heaps, request, device
  <2>2. Next
    BY <1>3 DEF Next, Stage
  <2>  QED  BY <2>1, <2>2, StageRefines
<1>4. CASE SubmitExecBuffer
  BY <1>4, SubmitRefines
<1>5. CASE FinishExecution \/ WaitFails
  BY <1>5, FinishRefines
<1>6. CASE Gpu
  BY <1>6, GpuRefines
<1>7. CASE UNCHANGED vars
  <2>1. UNCHANGED <<pc, result, call, kernel, grid, mem, queue, ran>>
    BY <1>7 DEF vars, control, request, heaps, device
  <2>2. UNCHANGED <<call, PhaseOf, Asked, Pending, ran>>
    BY <2>1 DEF PhaseOf, Asked, Job, Pending, JobsFound, CsrOf, At
  <2>  QED  BY <2>2 DEF Abstract!vars, Pending, Asked
<1>  QED  BY <1>1, <1>2, <1>3, <1>4, <1>5, <1>6, <1>7 DEF Next, Stage, CreateScratchAllocation

(* Dispatcher implements KernelLaunch: for kernels that have cross thread  *)
(* data, whatever is built, fails, runs or is lost meanwhile, the program  *)
(* sees each call launch the job it asked for at most once, and run it     *)
(* unchanged and in order or lose it.                                      *)
THEOREM Refinement == CrossThreadData /\ Spec => ImplementsKernelLaunch
<1>1. Init => DataInv
  BY DEF Init, DataInv, Separate, Heaps
<1>2. CrossThreadData /\ DispatcherInv /\ DataInv /\ [Next]_vars => DataInv'
  BY DataStep
<1>3. CrossThreadData => CrossThreadData'
  BY DEF CrossThreadData
<1>4. DispatcherInv /\ ResultInv /\ DataInv => RefinementInv
  BY DEF RefinementInv
<1>5. RefinementInv /\ RefinementInv' /\ [Next]_vars => [Abstract!Next]_(Abstract!vars)
  BY StepRefines
<1>  QED  BY <1>1, <1>2, <1>3, <1>4, <1>5, InitRefines, DispatcherInvariant, ResultInvariant, PTL
          DEF Spec, ImplementsKernelLaunch, Abstract!Spec

=============================================================================
