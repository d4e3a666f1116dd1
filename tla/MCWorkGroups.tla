---------------------------- MODULE MCWorkGroups ----------------------------
(* Small values for the constants of WorkGroups. *)
EXTENDS WorkGroups

Triple(x, y, z) == [d \in Dims |-> IF d = 0 THEN x ELSE IF d = 1 THEN y ELSE z]

Ask(dim, global, local) ==
    [work_dim |-> dim, hasGlobal |-> TRUE, global |-> global,
     hasLocal |-> TRUE, local |-> local]

(* Sizes that divide and sizes that do not, a zero in every position the   *)
(* loop can stop at, products at the limit and above it, no work at all,  *)
(* null pointers, no dimension at all and one dimension too many.         *)
AskedRequests ==
    {Ask(1, Triple(4, 1, 1), Triple(lx, 1, 1)) : lx \in {0, 1, 4}}
    \cup {Ask(2, Triple(4, gy, 1), Triple(2, ly, 1)) : gy \in {2, 3}, ly \in {0, 2}}
    \cup {Ask(3, Triple(2, 2, 4), Triple(lx, 1, lz)) : lx \in {1, 2}, lz \in {0, 2, 4}}
    \cup {Ask(1, Triple(0, 1, 1), Triple(1, 1, 1)),
          Ask(0, Triple(2, 2, 2), Triple(1, 1, 1)),
          Ask(4, Triple(2, 2, 2), Triple(1, 1, 1)),
          [Ask(1, Triple(2, 1, 1), Triple(1, 1, 1)) EXCEPT !.hasGlobal = FALSE],
          [Ask(1, Triple(2, 1, 1), Triple(1, 1, 1)) EXCEPT !.hasLocal = FALSE]}

NoRequiredSize == Triple(0, 0, 0)
KernelRequiredSizes == {NoRequiredSize, Triple(2, 1, 1)}
=============================================================================
