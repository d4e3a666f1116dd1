---------------------------- MODULE MCLifetimes ----------------------------
(* Two kernels for Lifetimes: the second needs more scratch space and has  *)
(* constants.                                                              *)
EXTENDS Lifetimes

BufferSymmetry == Permutations(Buffers)

MCKernels == {"plain", "private"}
MCWithConstants == {"private"}
MCScratchNeed == [k \in MCKernels |-> IF k = "private" THEN 2 ELSE 1]
=============================================================================
