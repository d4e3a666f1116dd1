---------------------------- MODULE MCDispatcher ----------------------------
(* Small values for the constants of Dispatcher. *)
EXTENDS Dispatcher

Triple(x, y, z) == [d \in Dims |-> IF d = 0 THEN x ELSE IF d = 1 THEN y ELSE z]

AnySize == Triple(0, 0, 0)

Ask(dim, global, local) ==
    [work_dim |-> dim, hasGlobal |-> TRUE, global |-> global,
     hasLocal |-> TRUE, local |-> local]

(* One hardware thread, three hardware threads in two dimensions, and a    *)
(* request whose sizes do not divide.                                      *)
LaunchRequests ==
    {Ask(1, Triple(16, 1, 1), Triple(8, 1, 1)),
     Ask(2, Triple(16, 4, 1), Triple(8, 3, 1)),
     Ask(2, Triple(16, 6, 1), Triple(8, 3, 1))}

Compiled(simd, channels, crossThread, bindings, perThread, localMem) ==
    [required |-> AnySize, simd |-> simd, channels |-> channels,
     crossThread |-> crossThread, bindings |-> bindings,
     sshSize |-> bindings * 68, table |-> bindings * 64,
     scratch |-> perThread, slm |-> localMem]

(* Two buffers, no scratch; sixteen bindings (the last count that fits one *)
(* cache line), one channel of local ids, local memory and scratch space;  *)
(* seventeen bindings; none.                                               *)
KernelCatalogue ==
    [vecadd |-> Compiled(16, 3, 96, 3, 0, 0),
     local  |-> Compiled(8, 1, 160, 16, 1024, 100),
     wide   |-> Compiled(32, 3, 64, 17, 2048, 0),
     plain  |-> Compiled(1, 0, 32, 0, 4096, 0)]

SmallUnits == 4
InfoOf(names) == [k \in names |-> KernelCatalogue[k]]
AllKernels == DOMAIN KernelCatalogue
AllKernelInfo == InfoOf(AllKernels)
ScratchKernels == {"wide", "plain"}
ScratchKernelInfo == InfoOf(ScratchKernels)
OneKernel == {"vecadd"}
OneKernelInfo == InfoOf(OneKernel)
OneRequest == {Ask(1, Triple(16, 1, 1), Triple(8, 1, 1))}
NoRequiredSizes == {AnySize}
=============================================================================
