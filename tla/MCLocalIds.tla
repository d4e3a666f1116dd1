----------------------------- MODULE MCLocalIds -----------------------------
(* Work groups for LocalIds. *)
EXTENDS LocalIds, TLC

Size(x, y, z) == (0 :> x) @@ (1 :> y) @@ (2 :> z)

Group(width, x, y, z) == [simd |-> width, size |-> Size(x, y, z)]

(* Rows shorter and longer than a thread, that end inside a thread, a pass *)
(* or a lane of four; several planes.                                      *)
MCLaunches ==
    {Group(width, x, y, z) : width \in {8, 16, 32}, x \in {4, 12, 20}, y \in 1..3, z \in 1..2}
        \cup {Group(width, x, 2, 2) : width \in {8, 16, 32}, x \in {1, 2, 3, 5, 6, 36}}
        \cup {Group(8, 1, 1, 1), Group(16, 32, 1, 1), Group(32, 4, 4, 1), Group(32, 64, 1, 1)}
        \cup {Group(1, 1, 1, 1), Group(1, 2, 3, 2), Group(1, 3, 2, 3), Group(1, 2, 1, 1)}

VectorLaunches == {group \in MCLaunches : group.simd # 1}
=============================================================================
