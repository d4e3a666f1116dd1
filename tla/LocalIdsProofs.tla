--------------------------- MODULE LocalIdsProofs ---------------------------
(***************************************************************************)
(* The local ids, for every SIMD size and every work group: the vectors    *)
(* stay in their sixteen bits (LocalIdsTypeCorrect), and a group whose     *)
(* rows fill whole lanes gets the ids of all its items, each of them once  *)
(* (IdsOfWholeLanesTheorem).                                               *)
(***************************************************************************)
EXTENDS LocalIds, FiniteSetTheorems, TLAPS

(* The stages of the two generators and how far they can be.               *)
StageInv ==
    /\ stage \in {"skip", "first", "threads"} => launch.simd # 1 /\ pass < Passes
    /\ stage \in {"skip", "first"} => thread = 0
    /\ stage = "skip" => pass = 0
    /\ stage = "threads" => thread <= Threads
    /\ stage = "scalar" => launch.simd = 1 /\ pass = 0
    /\ stage = "done" =>
         IF launch.simd = 1 THEN pass = 0 /\ thread = Items ELSE pass = Passes /\ thread = 0

-----------------------------------------------------------------------------
(* The elements of a lane are equal, or count up from a multiple of four   *)
(* by s: no comparison with a multiple of four falls into the lane.        *)
Level(v) == \A e \in Elements : v[e] = v[LaneOf(e)]

Aligned(v, s) ==
    \A e \in Elements : v[LaneOf(e)] % 4 = 0 /\ v[e] = v[LaneOf(e)] + s * (e % 4)

InLanes(p, s) == Aligned(p[0], s) /\ Level(p[1]) /\ Level(p[2])

(* The place of an item in its group, counted along x, then y, then z.     *)
Place(x, y, z) == x + X * (y + Y * z)

At(p, e) == Place(p[0][e], p[1][e], p[2][e])

(* A thread is a SIMD size ahead of the thread before it.                  *)
SkipInv ==
    /\ InLanes(skip, 0)
    /\ \A e \in Elements :
         /\ At(skip, e) = launch.simd
         /\ skip[1][e] < Y
         /\ stage # "skip" => skip[0][e] < X

(* The channels of a thread hold consecutive items.                        *)
ChannelInv ==
    /\ InLanes(ids, 1)
    /\ \A e \in Elements :
         /\ At(ids, e) = thread * launch.simd + pass * NumChannels + e
         /\ ids[1][e] < Y
         /\ stage = "threads" => ids[0][e] < X

(* What is stored for a channel is the item it stands for.                 *)
StoredInv ==
    \A place \in DOMAIN ioh :
        /\ place \in Nat \X Nat
        /\ ioh[place][0] < X /\ ioh[place][1] < Y
        /\ Place(ioh[place][0], ioh[place][1], ioh[place][2]) = place[1] * launch.simd + place[2]

(* The channels of the passes done, and of the threads of the present one. *)
ProgressInv ==
    \A t \in 0..(Threads - 1), c \in 0..(launch.simd - 1) :
        \/ c < pass * NumChannels
        \/ t < thread /\ c < (pass + 1) * NumChannels
        => <<t, c>> \in DOMAIN ioh

(* What holds of a group whose rows fill whole lanes.                      *)
WholeInv ==
    /\ launch.simd # 1 => SkipInv /\ ChannelInv
    /\ StoredInv
    /\ ProgressInv

(* The inductive invariant. *)
LocalIdInv ==
    /\ TypeOK
    /\ StageInv
    /\ WholeLanes => WholeInv

-----------------------------------------------------------------------------
(* Arithmetic, with numbers in place of state functions. *)

LEMMA ProductPositive ==
    ASSUME NEW a \in Nat \ {0}, NEW b \in Nat \ {0}
    PROVE  a * b \in Nat \ {0}
OBVIOUS

(* A product grows with its factor. *)
LEMMA ProductMonotone ==
    ASSUME NEW a \in Nat, NEW b \in Int, NEW c \in Int, b <= c
    PROVE  a * b <= a * c
<1>1. PICK d \in Nat : c = b + d
    <2>1. c - b \in Nat /\ c = b + (c - b)
        OBVIOUS
    <2> QED BY <2>1
<1>2. a * d \in Nat
    OBVIOUS
<1>3. a * (b + d) = a * b + a * d
    OBVIOUS
<1>4. a * b \in Int
    OBVIOUS
<1> QED BY <1>1, <1>2, <1>3, <1>4

(* Quotient and remainder are what they are by their range. *)
LEMMA Division ==
    ASSUME NEW n \in Nat, NEW d \in Nat \ {0}
    PROVE  /\ n \div d \in Nat /\ n % d \in 0..(d - 1)
           /\ n = d * (n \div d) + (n % d)
OBVIOUS

LEMMA DivisionUnique ==
    ASSUME NEW d \in Nat \ {0}, NEW q \in Int, NEW r \in 0..(d - 1),
           NEW u \in Int, NEW s \in 0..(d - 1), d * q + r = d * u + s
    PROVE  q = u /\ r = s
<1>1. ASSUME NEW a \in Int, NEW b \in Int, NEW i \in 0..(d - 1), NEW j \in 0..(d - 1),
             d * a + i = d * b + j, a < b
      PROVE  FALSE
    <2>1. d * (a + 1) <= d * b
        BY <1>1, ProductMonotone
    <2>2. d * (a + 1) = d * a + d
        OBVIOUS
    <2>3. d * a \in Int /\ d * b \in Int
        OBVIOUS
    <2> QED BY <1>1, <2>1, <2>2, <2>3
<1>2. q = u
    BY <1>1
<1> QED BY <1>2

(* Dividing twice is dividing by the product. *)
LEMMA DivisionTwice ==
    ASSUME NEW n \in Nat, NEW a \in Nat \ {0}, NEW b \in Nat \ {0}
    PROVE  n \div (a * b) = (n \div a) \div b
<1> DEFINE q == n \div a
           u == q \div b
<1>1. q \in Nat /\ n % a \in 0..(a - 1) /\ n = a * q + (n % a)
    BY Division
<1>2. u \in Nat /\ q % b \in 0..(b - 1) /\ q = b * u + (q % b)
    BY <1>1, Division
<1>3. a * b \in Nat \ {0}
    BY ProductPositive
<1>4. /\ n \div (a * b) \in Nat /\ n % (a * b) \in 0..(a * b - 1)
      /\ n = (a * b) * (n \div (a * b)) + (n % (a * b))
    BY <1>3, Division
<1> HIDE DEF q, u
<1>5. PICK r \in 0..(a - 1) : n = a * q + r
    BY <1>1
<1>6. PICK s \in 0..(b - 1) : q = b * u + s
    BY <1>2
<1>7. a * s + r \in 0..(a * b - 1)
    <2>1. a * s <= a * (b - 1)
        BY ProductMonotone
    <2>2. a * (b - 1) = a * b - a
        OBVIOUS
    <2>3. a * s \in Nat /\ a * b \in Nat
        OBVIOUS
    <2> QED BY <2>1, <2>2, <2>3
<1>8. n = (a * b) * u + (a * s + r)
    <2>1. n = a * (b * u + s) + r
        BY <1>5, <1>6
    <2>2. a * (b * u + s) = a * (b * u) + a * s
        BY <1>2
    <2>3. a * (b * u) = (a * b) * u
        BY <1>2
    <2> QED BY <1>2, <2>1, <2>2, <2>3
<1>9. PICK c \in Nat \ {0} : c = a * b
    BY <1>3
<1>10. n \div c = u
    <2>1. PICK v \in Nat, w \in 0..(c - 1) : v = n \div c /\ n = c * v + w
        BY <1>4, <1>9
    <2>2. PICK y \in 0..(c - 1) : y = a * s + r
        BY <1>7, <1>9
    <2>3. c * v + w = c * u + y
        BY <1>8, <1>9, <2>1, <2>2
    <2> QED BY <1>2, <2>1, <2>3, DivisionUnique
<1> QED BY <1>9, <1>10 DEF q, u

(* The last coordinate of a work item of a x b x c items.                  *)
LEMMA QuotientBelow ==
    ASSUME NEW n \in Nat, NEW a \in Nat \ {0}, NEW b \in Nat \ {0}, NEW c \in Nat,
           n < c * (b * a)
    PROVE  n \div (a * b) \in Nat /\ n \div (a * b) < c
<1>1. PICK d \in Nat \ {0} : d = a * b
    BY ProductPositive
<1>2. c * (b * a) = d * c
    BY <1>1
<1>3. n \div d \in Nat /\ n = d * (n \div d) + (n % d) /\ n % d \in 0..(d - 1)
    BY <1>1, Division
<1>4. ASSUME c <= n \div d PROVE FALSE
    <2>1. d * c <= d * (n \div d)
        BY <1>3, <1>4, ProductMonotone
    <2>2. d * c \in Nat /\ d * (n \div d) \in Nat
        BY <1>3
    <2> QED BY <1>2, <1>3, <2>1, <2>2
<1> QED BY <1>1, <1>3, <1>4

-----------------------------------------------------------------------------
(* A launch, and the lanes of its vectors. *)

LEMMA LaunchParts ==
    ASSUME NEW S, NEW D, NEW R, NEW l \in [simd : S, size : [D -> R]]
    PROVE  l.simd \in S /\ \A d \in D : l.size[d] \in R
OBVIOUS

LEMMA LaunchTypes ==
    ASSUME launch \in Launches
    PROVE  /\ launch.simd \in {1, 8, 16, 32}
           /\ X \in 1..1024 /\ Y \in 1..1024 /\ Z \in 1..1024
           /\ Items \in Nat \ {0} /\ Items = X * (Y * Z)
           /\ Threads \in 1..Items
           /\ Threads * launch.simd >= Items
           /\ (Threads - 1) * launch.simd < Items
           /\ NumChannels \in {8, 16}
           /\ IF launch.simd = 1 THEN Passes = 0 /\ Threads = Items
              ELSE Passes \in 1..2 /\ Passes * NumChannels = launch.simd
<1>1. launch \in [simd : {1, 8, 16, 32}, size : [Dims -> 1..1024]]
    BY LaunchesAssumption, SMTT(30)
<1>2. launch.simd \in {1, 8, 16, 32} /\ X \in 1..1024 /\ Y \in 1..1024 /\ Z \in 1..1024
    BY <1>1, SMTT(30) DEF X, Y, Z, Dims
<1>3. Items \in Nat \ {0} /\ Items = X * (Y * Z)
    <2>1. X * Y \in Nat \ {0} /\ Y * Z \in Nat \ {0}
        BY <1>2, ProductPositive
    <2> QED BY <1>2, <2>1, ProductPositive DEF Items
<1>4. /\ Threads \in 1..Items
      /\ Threads * launch.simd >= Items
      /\ (Threads - 1) * launch.simd < Items
      /\ launch.simd = 1 => Threads = Items
    <2> DEFINE n == Items
    <2>1. n \in Nat \ {0} /\ Threads = (launch.simd + n - 1) \div launch.simd
        BY <1>3 DEF Threads
    <2> HIDE DEF n
    <2>2. /\ Threads \in 1..n
          /\ Threads * launch.simd >= n
          /\ (Threads - 1) * launch.simd < n
          /\ launch.simd = 1 => Threads = n
        <3>1. CASE launch.simd = 1
            BY <2>1, <3>1
        <3>2. CASE launch.simd = 8
            BY <2>1, <3>2
        <3>3. CASE launch.simd = 16
            BY <2>1, <3>3
        <3>4. CASE launch.simd = 32
            BY <2>1, <3>4
        <3> QED BY <1>2, <3>1, <3>2, <3>3, <3>4
    <2> QED BY <2>2 DEF n
<1>5. /\ NumChannels \in {8, 16}
      /\ IF launch.simd = 1 THEN Passes = 0
         ELSE Passes \in 1..2 /\ Passes * NumChannels = launch.simd
    BY <1>2 DEF NumChannels, Passes
<1> QED BY <1>2, <1>3, <1>4, <1>5

LEMMA SizeTypes ==
    ASSUME launch \in Launches
    PROVE  /\ X \in Nat \ {0} /\ X <= 1024
           /\ Y \in Nat \ {0} /\ Y <= 1024
           /\ Z \in Nat \ {0} /\ Z <= 1024
<1>1. X \in 1..1024 /\ Y \in 1..1024 /\ Z \in 1..1024
    BY LaunchTypes
<1> QED BY ONLY <1>1

LEMMA Lanes ==
    ASSUME launch \in Launches, NEW e \in Elements
    PROVE  /\ e \in 0..15 /\ LaneOf(e) \in 0..15
           /\ LaneOf(e) \in Elements /\ LaneOf(e) + 3 \in Elements
           /\ LaneOf(e) <= e /\ e <= LaneOf(e) + 3 /\ e % 4 = e - LaneOf(e)
           /\ LaneOf(e) % 4 = 0 /\ (LaneOf(e) + 3) % 4 = 3
           /\ \A i \in LaneOf(e)..(LaneOf(e) + 3) : i \in Elements /\ LaneOf(i) = LaneOf(e)
           /\ \A i \in LaneOf(e)..(e - 1) : i \in Elements
<1>1. NumChannels \in {8, 16}
    BY LaunchTypes
<1> QED BY <1>1 DEF Elements, LaneOf

(* A comparison that no lane straddles compares the elements.              *)
LEMMA CompareElements ==
    ASSUME launch \in Launches,
           NEW v \in [Elements -> Nat], NEW k \in Nat, k < 32768,
           \A e \in Elements :
               /\ v[e] < 32768
               /\ v[e] >= k <=> v[LaneOf(e)] >= k
               /\ v[LaneOf(e) + 3] = k => v[e] = k
    PROVE  \A e \in Elements : GreaterEqual(v, SetAll(k))[e] <=> v[e] >= k
<1> SUFFICES ASSUME NEW e \in Elements
             PROVE  GreaterEqual(v, SetAll(k))[e] <=> v[e] >= k
    OBVIOUS
<1> DEFINE lane == LaneOf(e)..(LaneOf(e) + 3)
<1>0. \A i \in lane : i \in Elements /\ i \in Int /\ LaneOf(i) = LaneOf(e)
    BY Lanes
<1>1. \A i \in lane : /\ i \in Elements /\ v[i] \in Nat /\ v[i] < 32768
                      /\ Signed(i, v[i]) = v[i] /\ Signed(i, SetAll(k)[i]) = k
                      /\ SetAll(k)[i] = k
                      /\ v[i] >= k <=> v[LaneOf(e)] >= k
                      /\ v[LaneOf(e) + 3] = k => v[i] = k
    BY <1>0 DEF Signed, SetAll, Width
<1>2. /\ e \in lane /\ LaneOf(e) + 3 \in lane /\ LaneOf(e) \in lane /\ LaneOf(e) \in Int
    <2>1. e \in 0..15 /\ LaneOf(e) \in 0..15 /\ LaneOf(e) <= e /\ e <= LaneOf(e) + 3
        BY Lanes
    <2> QED BY ONLY <2>1
<1>3. GreaterEqual(v, SetAll(k))[e]
        <=> \/ \A i \in lane : v[i] = k
            \/ \E i \in lane : v[i] > k /\ \A j \in (i + 1)..(LaneOf(e) + 3) : v[j] = SetAll(k)[j]
    BY <1>1 DEF GreaterEqual
<1>4. CASE v[e] >= k
    <2>1. v[LaneOf(e) + 3] >= k
        BY <1>1, <1>2, <1>4
    <2>2. CASE v[LaneOf(e) + 3] = k
        BY <1>1, <1>2, <1>3, <1>4, <2>2
    <2>3. CASE v[LaneOf(e) + 3] > k
        BY <1>1, <1>2, <1>3, <1>4, <2>3
    <2> QED BY <1>1, <1>2, <2>1, <2>2, <2>3
<1>5. CASE ~(v[e] >= k)
    BY <1>1, <1>2, <1>3, <1>5
<1> QED BY <1>4, <1>5

(* Sums that fit their elements do not carry, differences do not borrow.   *)
LEMMA PlusElements ==
    ASSUME launch \in Launches,
           NEW v \in [Elements -> Nat], NEW w \in [Elements -> Nat],
           \A e \in Elements : v[e] + w[e] < Width
    PROVE  \A e \in Elements : Plus(v, w)[e] = v[e] + w[e]
<1> SUFFICES ASSUME NEW e \in Elements
             PROVE  Plus(v, w)[e] = v[e] + w[e]
    OBVIOUS
<1>1. \A i \in LaneOf(e)..(e - 1) : i \in Elements
    BY Lanes
<1>2. ~Carry(v, w, e)
    BY <1>1 DEF Carry, Width
<1>3. v[e] \in Nat /\ w[e] \in Nat /\ v[e] + w[e] < 65536
    BY DEF Width
<1> QED BY <1>2, <1>3 DEF Plus, Width

LEMMA MinusElements ==
    ASSUME launch \in Launches,
           NEW v \in [Elements -> Nat], NEW w \in [Elements -> Nat],
           \A e \in Elements : v[e] < Width /\ v[e] >= w[e]
    PROVE  \A e \in Elements : Minus(v, w)[e] = v[e] - w[e]
<1> SUFFICES ASSUME NEW e \in Elements
             PROVE  Minus(v, w)[e] = v[e] - w[e]
    OBVIOUS
<1>1. \A i \in LaneOf(e)..(e - 1) : i \in Elements
    BY Lanes
<1>2. ~Borrow(v, w, e)
    BY <1>1 DEF Borrow, Width
<1>3. v[e] \in Nat /\ v[e] < 65536 /\ w[e] \in Nat /\ v[e] >= w[e]
    BY DEF Width
<1> QED BY <1>2, <1>3 DEF Minus, Width

-----------------------------------------------------------------------------
(* The vectors stay in their sixteen bits. *)

Vectors == [Elements -> 0..(Width - 1)]

LEMMA Below ==
    ASSUME NEW w \in Nat \ {0}
    PROVE  /\ \A n : n \in 0..(w - 1) <=> (n \in Nat /\ n < w)
           /\ \A n \in Int : n % w \in 0..(w - 1)
<1>1. \A n \in Int : n % w \in 0..(w - 1)
    OBVIOUS
<1>2. ASSUME NEW n, n \in 0..(w - 1) PROVE n \in Nat /\ n < w
    BY <1>2
<1>3. ASSUME NEW n, n \in Nat, n < w PROVE n \in 0..(w - 1)
    BY <1>3
<1> QED BY <1>1, <1>2, <1>3

LEMMA SixteenBits ==
    /\ \A n : n \in 0..(Width - 1) <=> (n \in Nat /\ n < 65536)
    /\ \A n \in Int : n % Width \in 0..(Width - 1)
<1>1. Width \in Nat \ {0}
    BY DEF Width
<1>2. /\ \A n : n \in 0..(Width - 1) <=> (n \in Nat /\ n < Width)
      /\ \A n \in Int : n % Width \in 0..(Width - 1)
    BY <1>1, Below
<1>3. Width = 65536
    BY DEF Width
<1>4. ASSUME NEW n
      PROVE  (n \in Nat /\ n < Width) <=> (n \in Nat /\ n < 65536)
    BY <1>3
<1> QED BY <1>2, <1>4

LEMMA ElementTypes ==
    ASSUME NEW v \in Vectors, NEW e \in Elements
    PROVE  v[e] \in Nat /\ v[e] < 65536
BY SixteenBits DEF Vectors

LEMMA VectorTypes ==
    ASSUME launch \in Launches
    PROVE  /\ \A v \in Vectors, w \in Vectors :
                Plus(v, w) \in Vectors /\ Minus(v, w) \in Vectors
           /\ \A v \in Vectors, w \in Vectors : \A mask : Blend(v, w, mask) \in Vectors
           /\ \A k \in Nat : k <= 1024 => SetAll(k) \in Vectors
<1>1. ASSUME NEW v \in Vectors, NEW w \in Vectors
      PROVE  Plus(v, w) \in Vectors /\ Minus(v, w) \in Vectors
    <2>1. ASSUME NEW e \in Elements
          PROVE  /\ (v[e] + w[e] + (IF Carry(v, w, e) THEN 1 ELSE 0)) % Width \in 0..(Width - 1)
                 /\ (v[e] - w[e] - (IF Borrow(v, w, e) THEN 1 ELSE 0)) % Width \in 0..(Width - 1)
        <3>1. v[e] \in Nat /\ w[e] \in Nat
            BY ElementTypes
        <3> QED BY <3>1, SixteenBits
    <2> QED BY <2>1 DEF Plus, Minus, Vectors
<1>2. ASSUME NEW v \in Vectors, NEW w \in Vectors, NEW mask
      PROVE  Blend(v, w, mask) \in Vectors
    BY DEF Blend, Vectors
<1>3. ASSUME NEW k \in Nat, k <= 1024
      PROVE  SetAll(k) \in Vectors
    <2>1. k \in 0..(Width - 1)
        BY <1>3, SixteenBits
    <2> QED BY <2>1 DEF SetAll, Vectors
<1> QED BY <1>1, <1>2, <1>3

LEMMA WrapTypes ==
    ASSUME launch \in Launches,
           NEW p \in [Dims -> Vectors], NEW q \in [Dims -> Vectors]
    PROVE  Wrap(p) \in [Dims -> Vectors] /\ AddIds(p, q) \in [Dims -> Vectors]
<1>1. 0 \in Dims /\ 1 \in Dims /\ 2 \in Dims /\ \A d \in Dims : d \in {0, 1, 2}
    BY DEF Dims
<1>2. /\ SetAll(0) \in Vectors /\ SetAll(1) \in Vectors
      /\ SetAll(X) \in Vectors /\ SetAll(Y) \in Vectors
    <2>1. ASSUME NEW k, k \in Nat, k <= 1024 PROVE SetAll(k) \in Vectors
        BY <2>1, VectorTypes
    <2>2. 0 \in Nat /\ 0 <= 1024 /\ 1 \in Nat /\ 1 <= 1024
        OBVIOUS
    <2>3. X \in Nat /\ X <= 1024 /\ Y \in Nat /\ Y <= 1024
        BY SizeTypes
    <2>4. SetAll(0) \in Vectors /\ SetAll(1) \in Vectors
        BY <2>1, <2>2
    <2>5. SetAll(X) \in Vectors /\ SetAll(Y) \in Vectors
        BY <2>1, <2>3
    <2> QED BY <2>4, <2>5
<1>3. CarriedY(p) \in Vectors
    BY <1>1, <1>2, VectorTypes DEF CarriedY
<1>4. /\ Minus(p[0], Blend(SetAll(X), SetAll(0), XWrap(p))) \in Vectors
      /\ Minus(CarriedY(p), Blend(SetAll(Y), SetAll(0), YWrap(p))) \in Vectors
      /\ Plus(p[2], Blend(SetAll(1), SetAll(0), YWrap(p))) \in Vectors
    BY <1>1, <1>2, <1>3, VectorTypes
<1>5. Wrap(p) \in [Dims -> Vectors]
    <2>1. \A d \in Dims : Wrap(p)[d] \in Vectors
        BY <1>1, <1>4 DEF Wrap
    <2> QED BY <2>1 DEF Wrap
<1>6. AddIds(p, q) \in [Dims -> Vectors]
    <2>1. \A d \in Dims : Plus(p[d], q[d]) \in Vectors
        BY VectorTypes
    <2> QED BY <2>1 DEF AddIds
<1> QED BY <1>5, <1>6

LEMMA InitialTypes ==
    ASSUME launch \in Launches, NEW n \in 0..2
    PROVE  InitialLocalID(n) \in [Dims -> Vectors]
<1>1. NumChannels \in {8, 16}
    BY LaunchTypes
<1>2. ASSUME NEW e \in Elements
      PROVE  n * NumChannels + e \in 0..(Width - 1)
    <2>1. e \in 0..15 /\ n * NumChannels \in 0..32
        BY <1>1 DEF Elements
    <2> QED BY <2>1, SixteenBits
<1>3. SetAll(0) \in Vectors
    BY VectorTypes
<1> QED BY <1>2, <1>3 DEF InitialLocalID, Vectors

(* What Store adds, and that it leaves what was there.                     *)
LEMMA Stores ==
    ASSUME NEW channels
    PROVE  /\ DOMAIN Store(channels) = DOMAIN ioh \cup DOMAIN channels
           /\ \A place \in DOMAIN channels : Store(channels)[place] = channels[place]
           /\ \A place \in DOMAIN ioh \ DOMAIN channels : Store(channels)[place] = ioh[place]
BY DEF Store

-----------------------------------------------------------------------------
(* The type invariant and the stages, step by step. *)

LEMMA SameLaunch ==
    ASSUME launch' = launch
    PROVE  /\ X' = X /\ Y' = Y /\ Z' = Z
           /\ Items' = Items /\ Threads' = Threads
           /\ NumChannels' = NumChannels /\ Passes' = Passes
           /\ Elements' = Elements /\ Vectors' = Vectors /\ WholeLanes' = WholeLanes
BY DEF X, Y, Z, Items, Threads, NumChannels, Passes, Elements, Vectors, WholeLanes

(* TypeOK without what the launch fixes. *)
LEMMA Typed ==
    TypeOK <=> /\ stage \in {"skip", "first", "threads", "scalar", "done"}
               /\ launch \in Launches
               /\ pass \in 0..Passes /\ thread \in 0..Items
               /\ skip \in [Dims -> Vectors] /\ ids \in [Dims -> Vectors]
               /\ \A place \in DOMAIN ioh : ioh[place] \in Triples
BY DEF TypeOK, Vectors

LEMMA InitTyped ==
    ASSUME Init
    PROVE  TypeOK /\ StageInv
<1>1. launch \in Launches /\ stage = (IF launch.simd = 1 THEN "scalar" ELSE "skip")
    BY DEF Init
<1>2. stage \in {"skip", "first", "threads", "scalar", "done"} /\ pass = 0 /\ thread = 0
    BY <1>1 DEF Init
<1>3. launch.simd \in {1, 8, 16, 32} /\ Passes \in 0..2 /\ Items \in Nat \ {0}
    BY <1>1, LaunchTypes
<1>4. 0 \in 0..Passes /\ 0 \in 0..Items /\ (launch.simd # 1 => 0 < Passes)
    BY <1>1, <1>3, LaunchTypes
<1>5. SetAll(launch.simd) \in Vectors /\ SetAll(0) \in Vectors
    <2>1. launch.simd \in Nat /\ launch.simd <= 1024 /\ 0 \in Nat /\ 0 <= 1024
        BY <1>3
    <2> QED BY <1>1, <2>1, VectorTypes
<1>6. skip \in [Dims -> Vectors]
    BY <1>5 DEF Init
<1>7. ids \in [Dims -> Vectors]
    BY <1>1, InitialTypes DEF Init
<1>8. \A place \in DOMAIN ioh : ioh[place] \in Triples
    BY DEF Init
<1>9. TypeOK
    BY <1>1, <1>2, <1>4, <1>6, <1>7, <1>8, Typed
<1>10. StageInv
    BY <1>1, <1>2, <1>4 DEF StageInv
<1> QED BY <1>9, <1>10

LEMMA TypedStep ==
    ASSUME TypeOK, StageInv, [Next]_vars
    PROVE  TypeOK' /\ StageInv'
<1>1. /\ stage \in {"skip", "first", "threads", "scalar", "done"}
      /\ launch \in Launches
      /\ pass \in 0..Passes /\ thread \in 0..Items
      /\ skip \in [Dims -> Vectors] /\ ids \in [Dims -> Vectors]
      /\ \A place \in DOMAIN ioh : ioh[place] \in Triples
    BY Typed
<1>2. /\ launch.simd \in {1, 8, 16, 32}
      /\ X \in 1..1024 /\ Y \in 1..1024 /\ Z \in 1..1024
      /\ Items \in Nat \ {0} /\ Items = X * (Y * Z)
      /\ Threads \in 1..Items
      /\ NumChannels \in {8, 16} /\ Passes \in 0..2
      /\ launch.simd = 1 => Passes = 0 /\ Threads = Items
      /\ launch.simd # 1 => Passes \in 1..2
    BY <1>1, LaunchTypes
<1>3. launch' = launch
    BY DEF Next, ComputeSkip, ComputeFirst, StoreThread, NextPass, StoreScalar, vars
<1>4. /\ Items' = Items /\ Threads' = Threads /\ Passes' = Passes /\ Vectors' = Vectors
      /\ launch'.simd = launch.simd
    BY <1>3, SameLaunch
<1>5. ASSUME /\ stage' \in {"skip", "first", "threads", "scalar", "done"}
             /\ pass' \in 0..Passes /\ thread' \in 0..Items
             /\ skip' \in [Dims -> Vectors] /\ ids' \in [Dims -> Vectors]
             /\ \A place \in DOMAIN ioh' : ioh'[place] \in Triples
      PROVE  TypeOK'
    <2>1. Triples' = Triples
        BY DEF Triples, Dims, Width
    <2> QED BY <1>1, <1>3, <1>4, <1>5, <2>1 DEF TypeOK, Vectors
<1>6. CASE ComputeSkip
    <2>1. Wrap(skip) \in [Dims -> Vectors]
        BY <1>1, WrapTypes
    <2>2. /\ stage = "skip" /\ stage' \in {"skip", "first"} /\ skip' = Wrap(skip)
          /\ UNCHANGED <<pass, thread, ids, ioh>>
        BY <1>6 DEF ComputeSkip
    <2>3. TypeOK'
        BY <1>1, <1>5, <2>1, <2>2
    <2> QED BY <1>4, <2>2, <2>3 DEF StageInv
<1>7. CASE ComputeFirst
    <2>1. Wrap(ids) \in [Dims -> Vectors]
        BY <1>1, WrapTypes
    <2>2. /\ stage = "first" /\ stage' \in {"first", "threads"} /\ ids' = Wrap(ids)
          /\ UNCHANGED <<pass, thread, skip, ioh>>
        BY <1>7 DEF ComputeFirst
    <2>3. TypeOK'
        BY <1>1, <1>5, <2>1, <2>2
    <2> QED BY <1>2, <1>4, <2>2, <2>3 DEF StageInv
<1>8. CASE StoreThread
    <2> DEFINE channels == [place \in {<<thread, pass * NumChannels + e>> : e \in Elements} |->
                        [d \in Dims |-> ids[d][place[2] % NumChannels]]]
    <2>1. /\ stage = "threads" /\ stage' = stage /\ thread < Threads /\ thread' = thread + 1
          /\ ioh' = Store(channels) /\ ids' = Wrap(AddIds(ids, skip))
          /\ UNCHANGED <<pass, skip>>
        BY <1>8 DEF StoreThread
    <2>2. Wrap(AddIds(ids, skip)) \in [Dims -> Vectors]
        BY <1>1, WrapTypes
    <2>3. \A place \in DOMAIN channels : channels[place] \in Triples
        <3>1. SUFFICES ASSUME NEW e \in Elements, NEW d \in Dims
                       PROVE  ids[d][(pass * NumChannels + e) % NumChannels] \in 0..(Width - 1)
            BY DEF Triples
        <3>2. (pass * NumChannels + e) % NumChannels \in Elements
            BY <1>1, <1>2 DEF Elements
        <3> QED BY <1>1, <3>2 DEF Vectors
    <2> HIDE DEF channels
    <2>4. \A place \in DOMAIN ioh' : ioh'[place] \in Triples
        BY <1>1, <2>1, <2>3, Stores
    <2>5. thread' \in 0..Items
        BY <1>1, <1>2, <2>1
    <2>6. TypeOK'
        BY <1>1, <1>5, <2>1, <2>2, <2>4, <2>5
    <2>7. thread' <= Threads
        BY <1>1, <1>2, <2>1
    <2> QED BY <1>4, <2>1, <2>6, <2>7 DEF StageInv
<1>9. CASE NextPass
    <2>1. /\ stage = "threads" /\ thread' = 0 /\ pass' = pass + 1
          /\ stage' = (IF pass' < Passes THEN "first" ELSE "done")
          /\ ids' = InitialLocalID(pass')
          /\ UNCHANGED <<skip, ioh>>
        BY <1>9, <1>4 DEF NextPass
    <2>2. launch.simd # 1 /\ pass < Passes
        BY <2>1 DEF StageInv
    <2>3. pass' \in 0..Passes /\ pass' \in 0..2 /\ thread' \in 0..Items
        BY <1>1, <1>2, <2>1, <2>2
    <2>4. InitialLocalID(pass') \in [Dims -> Vectors]
        BY <1>1, <2>3, InitialTypes
    <2>5. TypeOK'
        BY <1>1, <1>5, <2>1, <2>3, <2>4
    <2>6. pass' < Passes \/ pass' = Passes
        BY <1>2, <2>3
    <2> QED BY <1>4, <2>1, <2>2, <2>5, <2>6 DEF StageInv
<1>10. CASE StoreScalar
    <2> DEFINE channels == [place \in {<<thread, 0>>} |->
                        [d \in Dims |-> CASE d = 0 -> thread % Z
                                          [] d = 1 -> (thread \div Z) % Y
                                          [] d = 2 -> thread \div (Z * Y)]]
    <2>1. /\ stage = "scalar" /\ thread < Items /\ thread' = thread + 1
          /\ stage' = (IF thread' = Items THEN "done" ELSE "scalar")
          /\ ioh' = Store(channels)
          /\ UNCHANGED <<pass, skip, ids>>
        BY <1>10, <1>4 DEF StoreScalar
    <2>2. launch.simd = 1 /\ pass = 0
        BY <2>1 DEF StageInv
    <2>3. \A place \in DOMAIN channels : channels[place] \in Triples
        <3>1. thread \in Nat /\ Z \in Nat \ {0} /\ Y \in Nat \ {0} /\ Z <= 1024 /\ Y <= 1024
            BY <1>1, <1>2
        <3>2. thread % Z \in 0..(Width - 1)
            <4>1. PICK n \in Nat : n = thread % Z /\ n < Z
                BY <3>1, Division
            <4>2. n < 65536
                BY <3>1, <4>1
            <4> QED BY <4>1, <4>2, SixteenBits
        <3>3. (thread \div Z) % Y \in 0..(Width - 1)
            <4>1. PICK q \in Nat : q = thread \div Z
                BY <3>1, Division
            <4>2. PICK n \in Nat : n = q % Y /\ n < Y
                BY <3>1, Division
            <4>3. n < 65536
                BY <3>1, <4>2
            <4> QED BY <4>1, <4>2, <4>3, SixteenBits
        <3>4. thread \div (Z * Y) \in 0..(Width - 1)
            <4>1. X \in Nat /\ X <= 1024 /\ thread < X * (Y * Z)
                BY <1>1, <1>2, <2>1, SMTT(30)
            <4>2. PICK n \in Nat : n = thread \div (Z * Y) /\ n < X
                BY <3>1, <4>1, QuotientBelow
            <4>3. n < 65536
                BY <4>1, <4>2
            <4> QED BY <4>2, <4>3, SixteenBits
        <3>5. \A d \in Dims : d \in {0, 1, 2}
            BY DEF Dims
        <3> QED BY <3>2, <3>3, <3>4, <3>5 DEF Triples
    <2> HIDE DEF channels
    <2>4. \A place \in DOMAIN ioh' : ioh'[place] \in Triples
        BY <1>1, <2>1, <2>3, Stores
    <2>5. thread' \in 0..Items
        BY <1>1, <1>2, <2>1
    <2>6. TypeOK'
        BY <1>1, <1>5, <2>1, <2>4, <2>5
    <2> QED BY <1>4, <2>1, <2>2, <2>6 DEF StageInv
<1>11. CASE UNCHANGED vars
    <2>1. /\ stage' = stage /\ pass' = pass /\ thread' = thread
          /\ skip' = skip /\ ids' = ids /\ ioh' = ioh
        BY <1>11 DEF vars
    <2>2. TypeOK'
        BY <1>1, <1>5, <2>1
    <2> QED BY <1>4, <2>1, <2>2 DEF StageInv
<1> QED BY <1>6, <1>7, <1>8, <1>9, <1>10, <1>11 DEF Next

-----------------------------------------------------------------------------
(* One round of wrapping, when no comparison straddles a lane. *)

LEMMA AlignedComparison ==
    ASSUME NEW b \in Nat, b % 4 = 0, NEW k \in Nat, k % 4 = 0, NEW i \in 0..3
    PROVE  (b + i >= k <=> b >= k) /\ b + 3 # k
OBVIOUS

(* Moving a row to the next one, and a plane to the next one, changes no place. *)
LEMMA PlaceKept ==
    ASSUME launch \in Launches, NEW x \in Int, NEW y \in Int, NEW z \in Int
    PROVE  /\ Place(x - X, y + 1, z) = Place(x, y, z)
           /\ Place(x, y - Y, z + 1) = Place(x, y, z)
<1>1. PICK a \in Nat, b \in Nat : a = X /\ b = Y
    BY SizeTypes
<1>2. (x - a) + a * ((y + 1) + b * z) = x + a * (y + b * z)
    <2>1. PICK w \in Int : w = y + b * z
        OBVIOUS
    <2>2. (y + 1) + b * z = w + 1
        BY <2>1
    <2>3. a * (w + 1) = a * w + a /\ a * w \in Int
        OBVIOUS
    <2> QED BY <2>1, <2>2, <2>3
<1>3. (y - b) + b * (z + 1) = y + b * z
    OBVIOUS
<1> QED BY <1>1, <1>2, <1>3 DEF Place

LEMMA PlaceSum ==
    ASSUME NEW i \in Int, NEW j \in Int,
           NEW x \in Int, NEW y \in Int, NEW z \in Int,
           NEW u \in Int, NEW v \in Int, NEW w \in Int
    PROVE  (x + u) + i * ((y + v) + j * (z + w)) = (x + i * (y + j * z)) + (u + i * (v + j * w))
<1>1. PICK m \in Int, n \in Int : m = y + j * z /\ n = v + j * w
    OBVIOUS
<1>2. (y + v) + j * (z + w) = m + n
    BY <1>1
<1>3. i * (m + n) = i * m + i * n /\ i * m \in Int /\ i * n \in Int
    BY <1>1
<1> QED BY <1>1, <1>2, <1>3

LEMMA WrapElements ==
    ASSUME launch \in Launches, X % 4 = 0,
           NEW p \in [Dims -> Vectors], NEW s \in {0, 1}, InLanes(p, s),
           \A e \in Elements : p[0][e] < 4096 /\ p[1][e] <= 2 * Y - 2 /\ p[2][e] < 4096
    PROVE  /\ InLanes(Wrap(p), s)
           /\ \A e \in Elements :
                /\ At(Wrap(p), e) = At(p, e)
                /\ Wrap(p)[1][e] < Y
                /\ p[0][e] < 2 * X => Wrap(p)[0][e] < X
                /\ XWrap(p)[e] <=> p[0][e] >= X
<1>1. /\ X \in Nat \ {0} /\ X <= 1024 /\ Y \in Nat \ {0} /\ Y <= 1024
    BY SizeTypes
<1>15. X % 4 = 0
    OBVIOUS
<1>2. 0 \in Dims /\ 1 \in Dims /\ 2 \in Dims
    BY DEF Dims
<1>3. /\ \A e \in Elements : p[0][e] \in Nat /\ p[1][e] \in Nat /\ p[2][e] \in Nat
      /\ p[0] \in [Elements -> Nat] /\ p[1] \in [Elements -> Nat] /\ p[2] \in [Elements -> Nat]
    <2>1. p[0] \in Vectors /\ p[1] \in Vectors /\ p[2] \in Vectors
        BY <1>2
    <2>2. \A e \in Elements : p[0][e] \in Nat /\ p[1][e] \in Nat /\ p[2][e] \in Nat
        BY <2>1, ElementTypes
    <2> QED BY <2>1, <2>2 DEF Vectors
<1>4. \A e \in Elements : /\ LaneOf(e) \in Elements /\ LaneOf(e) + 3 \in Elements
                          /\ LaneOf(LaneOf(e)) = LaneOf(e) /\ LaneOf(LaneOf(e) + 3) = LaneOf(e)
                          /\ e % 4 \in 0..3 /\ LaneOf(e) % 4 = 0 /\ (LaneOf(e) + 3) % 4 = 3
    <2> SUFFICES ASSUME NEW e \in Elements
                 PROVE  /\ LaneOf(e) \in Elements /\ LaneOf(e) + 3 \in Elements
                        /\ LaneOf(LaneOf(e)) = LaneOf(e) /\ LaneOf(LaneOf(e) + 3) = LaneOf(e)
                        /\ e % 4 \in 0..3 /\ LaneOf(e) % 4 = 0 /\ (LaneOf(e) + 3) % 4 = 3
        OBVIOUS
    <2>1. LaneOf(e) \in 0..15 /\ e \in 0..15
        BY Lanes
    <2>2. LaneOf(e) \in LaneOf(e)..(LaneOf(e) + 3) /\ LaneOf(e) + 3 \in LaneOf(e)..(LaneOf(e) + 3)
        BY <2>1
    <2>3. e % 4 \in 0..3
        BY <2>1
    <2> QED BY <2>2, <2>3, Lanes
<1>5. \A e \in Elements : XWrap(p)[e] <=> p[0][e] >= X
    <2>1. ASSUME NEW e \in Elements
          PROVE  /\ p[0][e] < 32768
                 /\ p[0][e] >= X <=> p[0][LaneOf(e)] >= X
                 /\ p[0][LaneOf(e) + 3] = X => p[0][e] = X
        <3>1. PICK b \in Nat : b = p[0][LaneOf(e)] /\ b % 4 = 0
            BY <1>3, <1>4 DEF InLanes, Aligned
        <3>2. PICK i \in 0..3 : i = e % 4
            BY <1>4
        <3>3. p[0][e] = b + s * i /\ p[0][LaneOf(e) + 3] = b + s * 3
            <4>1. /\ LaneOf(e) + 3 \in Elements /\ LaneOf(LaneOf(e) + 3) = LaneOf(e)
                  /\ (LaneOf(e) + 3) % 4 = 3
                BY <1>4
            <4>2. \A d \in Elements : p[0][d] = p[0][LaneOf(d)] + s * (d % 4)
                BY DEF InLanes, Aligned
            <4> QED BY <3>1, <3>2, <4>1, <4>2
        <3>4. b + i >= X <=> b >= X
            <4>1. PICK k \in Nat : k = X /\ k % 4 = 0
                BY <1>1, <1>15
            <4>2. b \in Nat /\ b % 4 = 0 /\ k \in Nat /\ k % 4 = 0 /\ i \in 0..3
                BY <3>1, <3>2, <4>1
            <4>3. b + i >= k <=> b >= k
                BY ONLY <4>2
            <4> QED BY <4>1, <4>3
        <3>5. b + 3 # X
            <4>1. 3 \in 0..3
                OBVIOUS
            <4> QED BY ONLY <1>1, <1>15, <3>1, <4>1, AlignedComparison
        <3>6. p[0][e] < 32768
            BY <1>3
        <3>9. b \in Nat /\ i \in Nat /\ p[0][LaneOf(e)] = b /\ X \in Nat
            BY <1>1, <3>1, <3>2
        <3>7. CASE s = 0
            <4>1. p[0][e] = b /\ p[0][LaneOf(e) + 3] = b
                BY <3>3, <3>7, <3>9
            <4> QED BY <3>6, <3>9, <4>1
        <3>8. CASE s = 1
            <4>1. p[0][e] = b + i /\ p[0][LaneOf(e) + 3] = b + 3
                BY <3>3, <3>8, <3>9
            <4> QED BY <3>4, <3>5, <3>6, <3>9, <4>1
        <3> QED BY <3>7, <3>8
    <2>2. X < 32768
        BY <1>1
    <2>3. p[0] \in [Elements -> Nat] /\ X \in Nat
        BY <1>1, <1>3
    <2>4. \A e \in Elements : GreaterEqual(p[0], SetAll(X))[e] <=> p[0][e] >= X
        BY <2>1, <2>2, <2>3, CompareElements, SMTT(30)
    <2> QED BY <2>4 DEF XWrap
<1>6. \A e \in Elements : p[0][e] >= X <=> p[0][LaneOf(e)] >= X
    <2> SUFFICES ASSUME NEW e \in Elements
                 PROVE  p[0][e] >= X <=> p[0][LaneOf(e)] >= X
        OBVIOUS
    <2>1. PICK b \in Nat : b = p[0][LaneOf(e)] /\ b % 4 = 0
        BY <1>3, <1>4 DEF InLanes, Aligned
    <2>2. PICK i \in 0..3 : i = e % 4
        BY <1>4
    <2>3. p[0][e] = b + s * i
        BY <2>1, <2>2 DEF InLanes, Aligned
    <2>4. b + i >= X <=> b >= X
        <3>1. PICK k \in Nat : k = X /\ k % 4 = 0
            BY <1>1, <1>15
        <3>2. b \in Nat /\ b % 4 = 0 /\ k \in Nat /\ k % 4 = 0 /\ i \in 0..3
            BY <2>1, <2>2, <3>1
        <3>3. b + i >= k <=> b >= k
            BY ONLY <3>2
        <3> QED BY <3>1, <3>3
    <2>7. b \in Nat /\ i \in Nat /\ p[0][LaneOf(e)] = b /\ X \in Nat
        BY <1>1, <2>1, <2>2
    <2>5. CASE s = 0
        <3>1. p[0][e] = b
            BY <2>3, <2>5, <2>7
        <3> QED BY <2>7, <3>1
    <2>6. CASE s = 1
        <3>1. p[0][e] = b + i
            BY <2>3, <2>6, <2>7
        <3> QED BY <2>4, <2>7, <3>1
    <2> QED BY <2>5, <2>6
<1> DEFINE dx == Blend(SetAll(X), SetAll(0), XWrap(p))
           carry == Blend(SetAll(1), SetAll(0), XWrap(p))
           y == CarriedY(p)
           dy == Blend(SetAll(Y), SetAll(0), YWrap(p))
           carry2 == Blend(SetAll(1), SetAll(0), YWrap(p))
<1>7. /\ dx \in [Elements -> Nat] /\ carry \in [Elements -> Nat]
      /\ dy \in [Elements -> Nat] /\ carry2 \in [Elements -> Nat]
      /\ \A e \in Elements : /\ dx[e] = IF p[0][e] >= X THEN X ELSE 0
                             /\ carry[e] = IF p[0][e] >= X THEN 1 ELSE 0
                             /\ dy[e] = IF YWrap(p)[e] THEN Y ELSE 0
                             /\ carry2[e] = IF YWrap(p)[e] THEN 1 ELSE 0
    BY <1>1, <1>5 DEF Blend, SetAll
<1>8. /\ y \in [Elements -> Nat]
      /\ \A e \in Elements : y[e] = p[1][e] + (IF p[0][e] >= X THEN 1 ELSE 0)
    <2>1. \A e \in Elements : p[1][e] + carry[e] < Width
        BY <1>1, <1>3, <1>7 DEF Width
    <2>3. y = Plus(p[1], carry)
        BY DEF CarriedY
    <2>4. y = [e \in Elements |-> y[e]]
        BY <2>3 DEF Plus
    <2>6. p[1] \in [Elements -> Nat] /\ carry \in [Elements -> Nat]
        BY <1>3, <1>7
    <2> HIDE DEF y, carry
    <2>2. \A e \in Elements : Plus(p[1], carry)[e] = p[1][e] + carry[e]
        BY <2>1, <2>6, PlusElements
    <2>5. \A e \in Elements : y[e] = p[1][e] + (IF p[0][e] >= X THEN 1 ELSE 0)
        BY <1>7, <2>2, <2>3
    <2>7. \A e \in Elements : y[e] \in Nat
        BY <1>3, <2>5
    <2> QED BY <2>4, <2>5, <2>7
<1>9. \A e \in Elements : y[e] = y[LaneOf(e)] /\ y[e] = y[LaneOf(e) + 3]
    BY <1>4, <1>6, <1>8 DEF InLanes, Level
<1>10. \A e \in Elements : YWrap(p)[e] <=> y[e] >= Y
    <2> HIDE DEF y
    <2>1. Y < 32768
        BY <1>1
    <2>2. \A e \in Elements : /\ y[e] < 32768
                              /\ y[e] >= Y <=> y[LaneOf(e)] >= Y
                              /\ y[LaneOf(e) + 3] = Y => y[e] = Y
        BY <1>1, <1>3, <1>8, <1>9
    <2>3. \A e \in Elements : GreaterEqual(y, SetAll(Y))[e] <=> y[e] >= Y
        BY <1>1, <1>8, <2>1, <2>2, CompareElements
    <2> QED BY <2>3 DEF YWrap, y
<1> DEFINE q == Wrap(p)
<1>11. /\ q[0] = Minus(p[0], dx) /\ q[1] = Minus(y, dy) /\ q[2] = Plus(p[2], carry2)
    BY <1>2 DEF Wrap
<1> HIDE DEF dx, carry, y, dy, carry2, q
<1>12. \A e \in Elements :
         /\ q[0][e] = p[0][e] - (IF p[0][e] >= X THEN X ELSE 0)
         /\ q[1][e] = y[e] - (IF y[e] >= Y THEN Y ELSE 0)
         /\ q[2][e] = p[2][e] + (IF y[e] >= Y THEN 1 ELSE 0)
    <2>1. \A e \in Elements : q[0][e] = p[0][e] - dx[e]
        <3>1. \A e \in Elements : p[0][e] < Width /\ p[0][e] >= dx[e]
            BY <1>1, <1>3, <1>7 DEF Width
        <3>2. p[0] \in [Elements -> Nat] /\ dx \in [Elements -> Nat]
            BY <1>3, <1>7
        <3>3. \A e \in Elements : Minus(p[0], dx)[e] = p[0][e] - dx[e]
            BY <3>1, <3>2, MinusElements
        <3> QED BY <1>11, <3>3
    <2>2. \A e \in Elements : q[1][e] = y[e] - dy[e]
        <3>1. \A e \in Elements : y[e] < Width /\ y[e] >= dy[e]
            BY <1>1, <1>3, <1>7, <1>8, <1>10 DEF Width
        <3>2. y \in [Elements -> Nat] /\ dy \in [Elements -> Nat]
            BY <1>7, <1>8
        <3>3. \A e \in Elements : Minus(y, dy)[e] = y[e] - dy[e]
            BY <3>1, <3>2, MinusElements
        <3> QED BY <1>11, <3>3
    <2>3. \A e \in Elements : q[2][e] = p[2][e] + carry2[e]
        <3>1. \A e \in Elements : p[2][e] + carry2[e] < Width
            BY <1>3, <1>7 DEF Width
        <3>2. p[2] \in [Elements -> Nat] /\ carry2 \in [Elements -> Nat]
            BY <1>3, <1>7
        <3>3. \A e \in Elements : Plus(p[2], carry2)[e] = p[2][e] + carry2[e]
            BY <3>1, <3>2, PlusElements
        <3> QED BY <1>11, <3>3
    <2> QED BY <1>7, <1>10, <2>1, <2>2, <2>3
<1>13. InLanes(q, s)
    <2>1. Level(q[1]) /\ Level(q[2])
        BY <1>4, <1>9, <1>12 DEF InLanes, Level
    <2>2. Aligned(q[0], s)
        <3> SUFFICES ASSUME NEW e \in Elements
                     PROVE  q[0][LaneOf(e)] % 4 = 0 /\ q[0][e] = q[0][LaneOf(e)] + s * (e % 4)
            BY DEF Aligned
        <3>1. PICK b \in Nat : b = p[0][LaneOf(e)] /\ b % 4 = 0
            BY <1>3, <1>4 DEF InLanes, Aligned
        <3>2. PICK c \in Nat : c = s * (e % 4)
            BY <1>4
        <3>3. p[0][e] = b + c
            BY <3>1, <3>2 DEF InLanes, Aligned
        <3>4. CASE b >= X
            <4>1. q[0][LaneOf(e)] = b - X /\ q[0][e] = b + c - X
                <5>1. LaneOf(e) \in Elements /\ p[0][e] >= X
                    BY <1>4, <1>6, <3>1, <3>4
                <5> QED BY <1>1, <1>12, <3>1, <3>2, <3>3, <3>4, <5>1
            <4>2. (b - X) % 4 = 0
                BY <1>1, <3>1
            <4> QED BY <1>1, <3>2, <4>1, <4>2
        <3>5. CASE ~(b >= X)
            <4>1. q[0][LaneOf(e)] = b /\ q[0][e] = b + c
                BY <1>4, <1>6, <1>12, <3>1, <3>3, <3>5
            <4> QED BY <3>1, <3>2, <4>1
        <3> QED BY <3>4, <3>5
    <2> QED BY <2>1, <2>2 DEF InLanes
<1>14. ASSUME NEW e \in Elements
       PROVE  /\ At(q, e) = At(p, e)
              /\ q[1][e] < Y
              /\ p[0][e] < 2 * X => q[0][e] < X
    <2>1. PICK a \in Nat, b \in Nat, c \in Nat : a = p[0][e] /\ b = p[1][e] /\ c = p[2][e]
        BY <1>3
    <2>2. q[1][e] < Y /\ (p[0][e] < 2 * X => q[0][e] < X)
        BY <1>1, <1>3, <1>8, <1>12
    <2>3. Place(a - X, b + 1, c) = Place(a, b, c)
        BY PlaceKept
    <2>4. /\ Place(a - X, (b + 1) - Y, c + 1) = Place(a - X, b + 1, c)
          /\ Place(a, b - Y, c + 1) = Place(a, b, c)
        <3>1. a - X \in Int /\ b + 1 \in Int /\ a \in Int /\ b \in Int /\ c \in Int
            BY <1>1
        <3> QED BY <3>1, PlaceKept, SMTT(30)
    <2>10. /\ y[e] = b + (IF a >= X THEN 1 ELSE 0)
           /\ q[0][e] = a - (IF a >= X THEN X ELSE 0)
           /\ q[1][e] = y[e] - (IF y[e] >= Y THEN Y ELSE 0)
           /\ q[2][e] = c + (IF y[e] >= Y THEN 1 ELSE 0)
        BY <1>8, <1>12, <2>1
    <2>5. ASSUME a >= X /\ b + 1 >= Y PROVE At(q, e) = At(p, e)
        <3>1. q[0][e] = a - X /\ q[1][e] = (b + 1) - Y /\ q[2][e] = c + 1
            BY <2>5, <2>10
        <3> QED BY <2>1, <2>3, <2>4, <3>1 DEF At
    <2>6. ASSUME a >= X /\ ~(b + 1 >= Y) PROVE At(q, e) = At(p, e)
        <3>1. q[0][e] = a - X /\ q[1][e] = b + 1 /\ q[2][e] = c
            BY <1>1, <2>6, <2>10
        <3> QED BY <2>1, <2>3, <3>1 DEF At
    <2>7. ASSUME ~(a >= X) /\ b >= Y PROVE At(q, e) = At(p, e)
        <3>1. q[0][e] = a /\ q[1][e] = b - Y /\ q[2][e] = c + 1
            BY <1>1, <2>7, <2>10
        <3> QED BY <2>1, <2>4, <3>1 DEF At
    <2>8. ASSUME ~(a >= X) /\ ~(b >= Y) PROVE At(q, e) = At(p, e)
        <3>1. q[0][e] = a /\ q[1][e] = b /\ q[2][e] = c
            BY <1>1, <2>8, <2>10
        <3> QED BY <2>1, <3>1 DEF At
    <2>9. At(q, e) = At(p, e)
        BY <2>5, <2>6, <2>7, <2>8
    <2> QED BY <2>2, <2>9
<1> QED BY <1>5, <1>13, <1>14 DEF q

-----------------------------------------------------------------------------
(* Sums of ids, and how large the parts of a place can be. *)

LEMMA PlaceBounds ==
    ASSUME launch \in Launches, NEW x \in Nat, NEW y \in Nat, NEW z \in Nat
    PROVE  /\ x <= Place(x, y, z)
           /\ Place(x, y, z) < Items => z < Z
           /\ Place(x, y, z) < Items + 64 => z < Z + 64
<1>1. PICK a \in Nat \ {0}, b \in Nat \ {0}, c \in Nat : a = X /\ b = Y /\ c = Z
    BY SizeTypes
<1>2. PICK m \in Nat \ {0} : m = a * b
    BY ProductPositive
<1>3. Items = m * c
    <2>1. a * (b * c) = (a * b) * c
        OBVIOUS
    <2> QED BY <1>1, <1>2, <2>1, LaunchTypes
<1>4. PICK r \in Nat : r = x + a * y
    OBVIOUS
<1>5. Place(x, y, z) = r + m * z
    <2>1. a * (y + b * z) = a * y + a * (b * z)
        OBVIOUS
    <2>2. a * (b * z) = (a * b) * z
        OBVIOUS
    <2>3. a * y \in Nat /\ (a * b) * z \in Nat
        OBVIOUS
    <2> QED BY <1>1, <1>2, <1>4, <2>1, <2>2, <2>3 DEF Place
<1>6. x <= r
    <2>1. a * y \in Nat
        OBVIOUS
    <2> QED BY <1>4, <2>1
<1>7. m * z \in Nat /\ m * c \in Nat
    OBVIOUS
<1>8. x <= Place(x, y, z)
    BY <1>5, <1>6, <1>7
<1>9. ASSUME r + m * z < m * c PROVE z < c
    <2>1. ASSUME c <= z PROVE FALSE
        <3>1. m * c <= m * z
            BY <2>1, ProductMonotone
        <3> QED BY <1>7, <1>9, <3>1
    <2> QED BY <2>1
<1>10. ASSUME r + m * z < m * c + 64 PROVE z < c + 64
    <2>1. ASSUME c + 64 <= z PROVE FALSE
        <3>1. m * (c + 64) <= m * z
            BY <2>1, ProductMonotone
        <3>2. m * (c + 64) = m * c + 64 * m
            OBVIOUS
        <3> QED BY <1>7, <1>10, <3>1, <3>2
    <2> QED BY <2>1
<1> QED BY <1>1, <1>3, <1>5, <1>8, <1>9, <1>10

LEMMA VectorParts ==
    ASSUME NEW p \in [Dims -> Vectors]
    PROVE  /\ p[0] \in Vectors /\ p[1] \in Vectors /\ p[2] \in Vectors
           /\ p[0] \in [Elements -> Nat] /\ p[1] \in [Elements -> Nat] /\ p[2] \in [Elements -> Nat]
           /\ \A e \in Elements : p[0][e] \in Nat /\ p[1][e] \in Nat /\ p[2][e] \in Nat
<1>1. p[0] \in Vectors /\ p[1] \in Vectors /\ p[2] \in Vectors
    BY DEF Dims
<1>2. \A e \in Elements : p[0][e] \in Nat /\ p[1][e] \in Nat /\ p[2][e] \in Nat
    BY <1>1, ElementTypes
<1> QED BY <1>1, <1>2 DEF Vectors

LEMMA AddElements ==
    ASSUME launch \in Launches,
           NEW p \in [Dims -> Vectors], NEW q \in [Dims -> Vectors],
           InLanes(p, 1), InLanes(q, 0),
           \A e \in Elements : /\ p[0][e] + q[0][e] < Width
                               /\ p[1][e] + q[1][e] < Width
                               /\ p[2][e] + q[2][e] < Width
    PROVE  /\ InLanes(AddIds(p, q), 1)
           /\ \A e \in Elements :
                /\ At(AddIds(p, q), e) = At(p, e) + At(q, e)
                /\ AddIds(p, q)[0][e] = p[0][e] + q[0][e]
                /\ AddIds(p, q)[1][e] = p[1][e] + q[1][e]
                /\ AddIds(p, q)[2][e] = p[2][e] + q[2][e]
<1> DEFINE r == AddIds(p, q)
<1>1. r[0] = Plus(p[0], q[0]) /\ r[1] = Plus(p[1], q[1]) /\ r[2] = Plus(p[2], q[2])
    BY DEF AddIds, Dims
<1> HIDE DEF r
<1>2. /\ p[0] \in [Elements -> Nat] /\ p[1] \in [Elements -> Nat] /\ p[2] \in [Elements -> Nat]
      /\ q[0] \in [Elements -> Nat] /\ q[1] \in [Elements -> Nat] /\ q[2] \in [Elements -> Nat]
    BY VectorParts
<1>3. /\ \A e \in Elements : p[0][e] \in Nat /\ p[1][e] \in Nat /\ p[2][e] \in Nat
      /\ \A e \in Elements : q[0][e] \in Nat /\ q[1][e] \in Nat /\ q[2][e] \in Nat
    BY VectorParts
<1>4. \A e \in Elements : r[0][e] = p[0][e] + q[0][e]
    BY <1>1, <1>2, PlusElements, SMTT(30)
<1>5. \A e \in Elements : r[1][e] = p[1][e] + q[1][e]
    BY <1>1, <1>2, PlusElements, SMTT(30)
<1>6. \A e \in Elements : r[2][e] = p[2][e] + q[2][e]
    BY <1>1, <1>2, PlusElements, SMTT(30)
<1>7. ASSUME NEW e \in Elements
      PROVE  At(r, e) = At(p, e) + At(q, e)
    <2>1. /\ p[0][e] \in Int /\ p[1][e] \in Int /\ p[2][e] \in Int
          /\ q[0][e] \in Int /\ q[1][e] \in Int /\ q[2][e] \in Int
        BY <1>3
    <2>3. /\ r[0][e] = p[0][e] + q[0][e]
          /\ r[1][e] = p[1][e] + q[1][e]
          /\ r[2][e] = p[2][e] + q[2][e]
        BY <1>4, <1>5, <1>6
    <2>4. X \in Int /\ Y \in Int
        BY SizeTypes
    <2>2. (p[0][e] + q[0][e]) + X * ((p[1][e] + q[1][e]) + Y * (p[2][e] + q[2][e]))
            = (p[0][e] + X * (p[1][e] + Y * p[2][e])) + (q[0][e] + X * (q[1][e] + Y * q[2][e]))
        BY ONLY <2>1, <2>4, PlaceSum
    <2> QED BY <2>2, <2>3 DEF At, Place
<1>8. \A e \in Elements : LaneOf(e) \in Elements /\ e % 4 \in 0..3
    <2> SUFFICES ASSUME NEW e \in Elements
                 PROVE  LaneOf(e) \in Elements /\ e % 4 \in 0..3
        OBVIOUS
    <2>1. e \in 0..15 /\ LaneOf(e) \in Elements
        BY Lanes
    <2> QED BY <2>1
<1>9. Level(r[1]) /\ Level(r[2])
    BY <1>5, <1>6, <1>8 DEF InLanes, Level
<1>10. Aligned(r[0], 1)
    <2> SUFFICES ASSUME NEW e \in Elements
                 PROVE  r[0][LaneOf(e)] % 4 = 0 /\ r[0][e] = r[0][LaneOf(e)] + 1 * (e % 4)
        BY DEF Aligned
    <2>1. PICK b \in Nat, c \in Nat : b = p[0][LaneOf(e)] /\ c = q[0][LaneOf(e)]
        BY <1>3, <1>8
    <2>2. PICK i \in 0..3 : i = e % 4
        BY <1>8
    <2>3. b % 4 = 0 /\ c % 4 = 0
        BY <2>1 DEF InLanes, Aligned
    <2>4. (b + c) % 4 = 0
        BY ONLY <2>3
    <2>5. p[0][e] = b + 1 * i
        BY <2>1, <2>2 DEF InLanes, Aligned
    <2>6. q[0][e] = c + 0 * i
        BY <2>1, <2>2 DEF InLanes, Aligned
    <2>7. b + 1 * i + (c + 0 * i) = b + c + 1 * i
        BY <2>2
    <2> QED BY <1>4, <1>8, <2>1, <2>2, <2>4, <2>5, <2>6, <2>7
<1> QED BY <1>4, <1>5, <1>6, <1>7, <1>9, <1>10 DEF InLanes, r

(* The first vectors of a pass. *)
LEMMA InitialElements ==
    ASSUME launch \in Launches, NEW n \in 0..2
    PROVE  /\ InLanes(InitialLocalID(n), 1)
           /\ \A e \in Elements : /\ At(InitialLocalID(n), e) = n * NumChannels + e
                                  /\ InitialLocalID(n)[1][e] < Y
<1> DEFINE p == InitialLocalID(n)
<1>1. \A e \in Elements : p[0][e] = n * NumChannels + e /\ p[1][e] = 0 /\ p[2][e] = 0
    BY DEF InitialLocalID, Dims, SetAll
<1> HIDE DEF p
<1>2. PICK k \in {0, 8, 16, 32} : k = n * NumChannels
    BY LaunchTypes
<1>3. X \in Nat /\ Y \in Nat \ {0}
    BY SizeTypes
<1>4. ASSUME NEW e \in Elements
      PROVE  /\ p[0][LaneOf(e)] % 4 = 0 /\ p[0][e] = p[0][LaneOf(e)] + 1 * (e % 4)
             /\ p[1][e] = p[1][LaneOf(e)] /\ p[2][e] = p[2][LaneOf(e)]
             /\ At(p, e) = n * NumChannels + e
             /\ p[1][e] < Y
    <2>1. /\ e \in 0..15 /\ LaneOf(e) \in 0..15 /\ LaneOf(e) \in Elements
          /\ e % 4 = e - LaneOf(e) /\ LaneOf(e) % 4 = 0
        BY Lanes
    <2>2. PICK b \in 0..15 : b = LaneOf(e)
        BY <2>1
    <2>3. b % 4 = 0
        BY <2>1, <2>2
    <2>4. (k + b) % 4 = 0
        BY ONLY <1>2, <2>2, <2>3
    <2>5. p[0][LaneOf(e)] = k + b /\ p[0][e] = k + e
        BY <1>1, <1>2, <2>1, <2>2
    <2>6. At(p, e) = k + e
        <3>1. X * (0 + Y * 0) = 0
            BY <1>3
        <3>2. At(p, e) = (k + e) + X * (0 + Y * 0)
            BY <1>1, <2>5 DEF At, Place
        <3>3. (k + e) + 0 = k + e
            BY <1>2, <2>1
        <3> QED BY <3>1, <3>2, <3>3
    <2>7. p[0][LaneOf(e)] % 4 = 0
        BY <2>2, <2>4, <2>5
    <2>8. p[0][e] = p[0][LaneOf(e)] + 1 * (e % 4)
        <3>2. k \in Int /\ e \in Int /\ b \in Int
            BY <1>2, <2>1
        <3>1. k + e = (k + b) + 1 * (e - b)
            BY ONLY <3>2
        <3> QED BY <2>1, <2>2, <2>5, <3>1
    <2>9. p[1][e] = p[1][LaneOf(e)] /\ p[2][e] = p[2][LaneOf(e)] /\ p[1][e] < Y
        <3>1. LaneOf(e) \in Elements
            BY <2>1
        <3> QED BY <1>1, <1>3, <3>1
    <2> QED BY <1>2, <2>6, <2>7, <2>8, <2>9
<1> QED BY <1>4 DEF InLanes, Aligned, Level, p

-----------------------------------------------------------------------------
(* The invariant of whole lanes, step by step. *)

LEMMA SkipPrimed ==
    ASSUME launch' = launch, InLanes(skip', 0),
           \A e \in Elements : /\ At(skip', e) = launch.simd
                               /\ skip'[1][e] < Y
                               /\ stage' # "skip" => skip'[0][e] < X
    PROVE  SkipInv'
BY SameLaunch DEF SkipInv, InLanes, Aligned, Level, LaneOf, At, Place

LEMMA ChannelPrimed ==
    ASSUME launch' = launch, InLanes(ids', 1),
           \A e \in Elements : /\ At(ids', e) = thread' * launch.simd + pass' * NumChannels + e
                               /\ ids'[1][e] < Y
                               /\ stage' = "threads" => ids'[0][e] < X
    PROVE  ChannelInv'
BY SameLaunch DEF ChannelInv, InLanes, Aligned, Level, LaneOf, At, Place

LEMMA StoredPrimed ==
    ASSUME launch' = launch,
           \A place \in DOMAIN ioh' :
               /\ place \in Nat \X Nat
               /\ ioh'[place][0] < X /\ ioh'[place][1] < Y
               /\ Place(ioh'[place][0], ioh'[place][1], ioh'[place][2])
                    = place[1] * launch.simd + place[2]
    PROVE  StoredInv'
BY SameLaunch DEF StoredInv, Place

LEMMA ProgressPrimed ==
    ASSUME launch' = launch,
           \A t \in 0..(Threads - 1), c \in 0..(launch.simd - 1) :
               \/ c < pass' * NumChannels
               \/ t < thread' /\ c < (pass' + 1) * NumChannels
               => <<t, c>> \in DOMAIN ioh'
    PROVE  ProgressInv'
BY SameLaunch DEF ProgressInv

LEMMA WholeInit ==
    ASSUME Init, WholeLanes
    PROVE  WholeInv
<1>1. launch \in Launches /\ ids = InitialLocalID(0) /\ pass = 0 /\ thread = 0 /\ ioh = <<>>
    BY DEF Init
<1>2. ASSUME launch.simd # 1
      PROVE  SkipInv /\ ChannelInv
    <2>1. /\ launch.simd \in {8, 16, 32} /\ X \in Nat \ {0} /\ Y \in Nat \ {0}
          /\ NumChannels \in {8, 16}
        <3>1. launch.simd \in {8, 16, 32} /\ NumChannels \in {8, 16}
            BY <1>1, <1>2, LaunchTypes
        <3> QED BY <1>1, <3>1, SizeTypes
    <2>2. \A e \in Elements : skip[0][e] = launch.simd /\ skip[1][e] = 0 /\ skip[2][e] = 0
        BY DEF Init, SetAll, Dims
    <2>3. \A e \in Elements : LaneOf(e) \in Elements /\ 0 * (e % 4) = 0
        <3> SUFFICES ASSUME NEW e \in Elements
                     PROVE  LaneOf(e) \in Elements /\ 0 * (e % 4) = 0
            OBVIOUS
        <3>1. e \in 0..15 /\ LaneOf(e) \in Elements
            BY <1>1, Lanes
        <3> QED BY <3>1
    <2>4. InLanes(skip, 0)
        <3>1. launch.simd % 4 = 0 /\ launch.simd + 0 = launch.simd
            BY <2>1
        <3> QED BY <2>2, <2>3, <3>1 DEF InLanes, Aligned, Level
    <2>5. \A e \in Elements : At(skip, e) = launch.simd
        <3>1. launch.simd + X * (0 + Y * 0) = launch.simd
            BY <2>1
        <3> QED BY <2>2, <3>1 DEF At, Place
    <2>6. stage = "skip"
        BY <1>2 DEF Init
    <2>7. SkipInv
        BY <2>1, <2>2, <2>4, <2>5, <2>6 DEF SkipInv
    <2>8. /\ InLanes(ids, 1)
          /\ \A e \in Elements : At(ids, e) = 0 * NumChannels + e /\ ids[1][e] < Y
        <3>1. 0 \in 0..2
            OBVIOUS
        <3> QED BY <1>1, <3>1, InitialElements
    <2>9. \A e \in Elements : 0 * NumChannels + e = 0 * launch.simd + 0 * NumChannels + e
        BY <2>1
    <2> QED BY <1>1, <2>6, <2>7, <2>8, <2>9 DEF ChannelInv
<1>3. StoredInv
    BY <1>1 DEF StoredInv
<1>4. ProgressInv
    <2>1. NumChannels \in {8, 16}
        BY <1>1, LaunchTypes
    <2>2. 0 * NumChannels = 0
        BY <2>1
    <2> QED BY <1>1, <2>2 DEF ProgressInv
<1> QED BY <1>2, <1>3, <1>4 DEF WholeInv

(* The parts of ids and skip stay far below sixteen bits.                  *)
LEMMA WholeBounds ==
    ASSUME TypeOK, StageInv, WholeLanes, SkipInv, ChannelInv,
           launch.simd # 1, stage # "done", stage = "threads" => thread < Threads
    PROVE  /\ X % 4 = 0
           /\ \A e \in Elements : /\ skip[0][e] < 2048 /\ skip[1][e] < Y /\ skip[2][e] < 2048
                                  /\ ids[0][e] < 2048 /\ ids[1][e] < Y /\ ids[2][e] < 2048
                                  /\ stage # "threads" => ids[0][e] < 64
<1>1. /\ launch \in Launches /\ skip \in [Dims -> Vectors] /\ ids \in [Dims -> Vectors]
      /\ stage \in {"skip", "first", "threads", "scalar", "done"}
      /\ pass \in 0..Passes /\ thread \in 0..Items
    BY Typed
<1>2. /\ launch.simd \in {8, 16, 32} /\ NumChannels \in {8, 16} /\ Passes * NumChannels = launch.simd
      /\ Passes \in 1..2 /\ Items \in Nat \ {0} /\ Threads \in 1..Items
      /\ (Threads - 1) * launch.simd < Items
    BY <1>1, LaunchTypes
<1>3. X \in Nat \ {0} /\ X <= 1024 /\ Y \in Nat \ {0} /\ Y <= 1024 /\ Z \in Nat \ {0} /\ Z <= 1024
    BY <1>1, SizeTypes
<1>4. stage \in {"skip", "first", "threads"} /\ pass < Passes
    BY <1>1 DEF StageInv
<1>5. thread * launch.simd < Items /\ thread * launch.simd \in Nat
    <2>1. thread \in Nat /\ thread <= Threads - 1
        BY <1>1, <1>2, <1>4 DEF StageInv
    <2>2. CASE launch.simd = 8
        BY <1>2, <2>1, <2>2
    <2>3. CASE launch.simd = 16
        BY <1>2, <2>1, <2>3
    <2>4. CASE launch.simd = 32
        BY <1>2, <2>1, <2>4
    <2> QED BY <1>2, <2>2, <2>3, <2>4
<1>6. pass * NumChannels \in 0..16
    <2>1. pass = 0 \/ (pass = 1 /\ Passes = 2)
        BY <1>1, <1>2, <1>4
    <2>2. CASE pass = 0
        BY <1>2, <2>2
    <2>3. CASE pass = 1 /\ Passes = 2
        BY <1>2, <2>3
    <2> QED BY <2>1, <2>2, <2>3
<1>7. ASSUME NEW e \in Elements
      PROVE  /\ skip[0][e] < 2048 /\ skip[1][e] < Y /\ skip[2][e] < 2048
             /\ ids[0][e] < 2048 /\ ids[1][e] < Y /\ ids[2][e] < 2048
             /\ stage # "threads" => ids[0][e] < 64
    <2>1. /\ skip[0][e] \in Nat /\ skip[1][e] \in Nat /\ skip[2][e] \in Nat
          /\ ids[0][e] \in Nat /\ ids[1][e] \in Nat /\ ids[2][e] \in Nat
        BY <1>1, VectorParts
    <2>2. e \in 0..15
        BY <1>1, Lanes
    <2>3. /\ At(skip, e) = launch.simd /\ skip[1][e] < Y
          /\ At(ids, e) = thread * launch.simd + pass * NumChannels + e /\ ids[1][e] < Y
          /\ stage = "threads" => ids[0][e] < X
        BY DEF SkipInv, ChannelInv
    <2>4. launch.simd < Items + 64 /\ thread * launch.simd + pass * NumChannels + e < Items + 64
        BY <1>2, <1>5, <1>6, <2>2
    <2>5. skip[0][e] <= launch.simd /\ skip[2][e] < Z + 64
        BY <1>1, <2>1, <2>3, <2>4, PlaceBounds DEF At
    <2>6. ids[0][e] <= thread * launch.simd + pass * NumChannels + e /\ ids[2][e] < Z + 64
        BY <1>1, <2>1, <2>3, <2>4, PlaceBounds DEF At
    <2>7. stage # "threads" => ids[0][e] < 64
        <3>1. ASSUME stage # "threads" PROVE ids[0][e] < 64
            <4>1. thread = 0
                BY <1>4, <3>1 DEF StageInv
            <4>2. thread * launch.simd = 0
                BY <1>2, <4>1
            <4> QED BY <1>6, <2>1, <2>2, <2>6, <4>2
        <3> QED BY <3>1
    <2>8. skip[0][e] < 2048 /\ skip[2][e] < 2048 /\ ids[2][e] < 2048
        BY <1>2, <1>3, <2>1, <2>5, <2>6
    <2>9. ids[0][e] < 2048
        BY <1>3, <2>1, <2>3, <2>7
    <2> QED BY <2>3, <2>7, <2>8, <2>9
<1>8. X % 4 = 0
    BY DEF WholeLanes
<1> QED BY <1>7, <1>8

LEMMA ComputeSkipStep ==
    ASSUME TypeOK, StageInv, WholeLanes, WholeInv, ComputeSkip
    PROVE  WholeInv'
<1>1. /\ stage = "skip" /\ skip' = Wrap(skip) /\ stage' \in {"skip", "first"}
      /\ launch' = launch /\ pass' = pass /\ thread' = thread /\ ids' = ids /\ ioh' = ioh
      /\ stage' # "skip" => TestZero(XWrap(skip))
    BY DEF ComputeSkip
<1>2. launch.simd # 1 /\ SkipInv /\ ChannelInv /\ StoredInv /\ ProgressInv
    BY <1>1 DEF StageInv, WholeInv
<1>3. /\ launch \in Launches /\ skip \in [Dims -> Vectors]
    BY Typed
<1>4. /\ X % 4 = 0
      /\ \A e \in Elements : skip[0][e] < 2048 /\ skip[1][e] < Y /\ skip[2][e] < 2048
    BY <1>1, <1>2, WholeBounds
<1>5. X \in Nat \ {0} /\ Y \in Nat \ {0}
    BY <1>3, SizeTypes
<1>6. \A e \in Elements : skip[0][e] \in Nat /\ skip[1][e] \in Nat /\ skip[2][e] \in Nat
    BY <1>3, VectorParts
<1>7. \A e \in Elements : skip[0][e] < 4096 /\ skip[1][e] <= 2 * Y - 2 /\ skip[2][e] < 4096
    BY <1>4, <1>5, <1>6
<1>8. InLanes(skip, 0) /\ \A e \in Elements : At(skip, e) = launch.simd
    BY <1>2 DEF SkipInv
<1>9. PICK w : w = Wrap(skip)
    OBVIOUS
<1>10. /\ InLanes(w, 0)
       /\ \A e \in Elements : /\ At(w, e) = At(skip, e)
                              /\ w[1][e] < Y
                              /\ skip[0][e] < 2 * X => w[0][e] < X
                              /\ XWrap(skip)[e] <=> skip[0][e] >= X
    <2>1. 0 \in {0, 1}
        OBVIOUS
    <2> QED BY <1>3, <1>4, <1>7, <1>8, <1>9, <2>1, WrapElements
<1>11. ASSUME NEW e \in Elements, stage' # "skip"
       PROVE  w[0][e] < X
    <2>1. ~XWrap(skip)[e]
        BY <1>1, <1>11 DEF TestZero
    <2>2. ~(skip[0][e] >= X)
        BY <1>10, <2>1
    <2>3. skip[0][e] < 2 * X
        BY <1>5, <1>6, <2>2
    <2> QED BY <1>10, <2>3
<1>12. skip' = w
    BY <1>1, <1>9
<1>13. SkipInv'
    BY <1>1, <1>8, <1>10, <1>11, <1>12, SkipPrimed
<1>14. ChannelInv'
    <2>1. stage' # "threads"
        BY <1>1
    <2> QED BY <1>1, <1>2, <2>1, ChannelPrimed DEF ChannelInv
<1>15. StoredInv' /\ ProgressInv'
    BY <1>1, <1>2, StoredPrimed, ProgressPrimed DEF StoredInv, ProgressInv
<1> QED BY <1>13, <1>14, <1>15 DEF WholeInv

LEMMA ComputeFirstStep ==
    ASSUME TypeOK, StageInv, WholeLanes, WholeInv, ComputeFirst
    PROVE  WholeInv'
<1>1. /\ stage = "first" /\ ids' = Wrap(ids) /\ stage' \in {"first", "threads"}
      /\ launch' = launch /\ pass' = pass /\ thread' = thread /\ skip' = skip /\ ioh' = ioh
      /\ stage' = "threads" => TestZero(XWrap(ids))
    BY DEF ComputeFirst
<1>2. launch.simd # 1 /\ SkipInv /\ ChannelInv /\ StoredInv /\ ProgressInv
    BY <1>1 DEF StageInv, WholeInv
<1>3. /\ launch \in Launches /\ ids \in [Dims -> Vectors]
    BY Typed
<1>4. /\ X % 4 = 0
      /\ \A e \in Elements : ids[0][e] < 2048 /\ ids[1][e] < Y /\ ids[2][e] < 2048
    BY <1>1, <1>2, WholeBounds
<1>5. X \in Nat \ {0} /\ Y \in Nat \ {0}
    BY <1>3, SizeTypes
<1>6. \A e \in Elements : ids[0][e] \in Nat /\ ids[1][e] \in Nat /\ ids[2][e] \in Nat
    BY <1>3, VectorParts
<1>7. \A e \in Elements : ids[0][e] < 4096 /\ ids[1][e] <= 2 * Y - 2 /\ ids[2][e] < 4096
    BY <1>4, <1>5, <1>6
<1>8. /\ InLanes(ids, 1)
      /\ \A e \in Elements : At(ids, e) = thread * launch.simd + pass * NumChannels + e
    BY <1>2 DEF ChannelInv
<1>9. PICK w : w = Wrap(ids)
    OBVIOUS
<1>10. /\ InLanes(w, 1)
       /\ \A e \in Elements : /\ At(w, e) = At(ids, e)
                              /\ w[1][e] < Y
                              /\ ids[0][e] < 2 * X => w[0][e] < X
                              /\ XWrap(ids)[e] <=> ids[0][e] >= X
    <2>1. 1 \in {0, 1}
        OBVIOUS
    <2> QED BY <1>3, <1>4, <1>7, <1>8, <1>9, <2>1, WrapElements
<1>11. ASSUME NEW e \in Elements, stage' = "threads"
       PROVE  w[0][e] < X
    <2>1. ~XWrap(ids)[e]
        BY <1>1, <1>11 DEF TestZero
    <2>2. ~(ids[0][e] >= X)
        BY <1>10, <2>1
    <2>3. ids[0][e] < 2 * X
        BY <1>5, <1>6, <2>2
    <2> QED BY <1>10, <2>3
<1>12. ids' = w
    BY <1>1, <1>9
<1>13. ChannelInv'
    BY <1>1, <1>8, <1>10, <1>11, <1>12, ChannelPrimed
<1>14. SkipInv'
    <2>1. stage # "skip"
        BY <1>1
    <2> QED BY <1>1, <1>2, <2>1, SkipPrimed DEF SkipInv
<1>15. StoredInv' /\ ProgressInv'
    BY <1>1, <1>2, StoredPrimed, ProgressPrimed DEF StoredInv, ProgressInv
<1> QED BY <1>13, <1>14, <1>15 DEF WholeInv

LEMMA StoreThreadStep ==
    ASSUME TypeOK, StageInv, WholeLanes, WholeInv, StoreThread
    PROVE  WholeInv'
<1> DEFINE places == {<<thread, pass * NumChannels + e>> : e \in Elements}
           channels == [place \in places |-> [d \in Dims |-> ids[d][place[2] % NumChannels]]]
<1>1. /\ stage = "threads" /\ thread < Threads
      /\ ioh' = Store(channels) /\ ids' = Wrap(AddIds(ids, skip)) /\ thread' = thread + 1
      /\ stage' = stage /\ launch' = launch /\ pass' = pass /\ skip' = skip
    BY DEF StoreThread
<1>2. launch.simd # 1 /\ SkipInv /\ ChannelInv /\ StoredInv /\ ProgressInv
    BY <1>1 DEF StageInv, WholeInv
<1>3. /\ launch \in Launches /\ skip \in [Dims -> Vectors] /\ ids \in [Dims -> Vectors]
      /\ pass \in 0..Passes /\ thread \in 0..Items
    BY Typed
<1>4. /\ X % 4 = 0
      /\ \A e \in Elements : /\ skip[0][e] < 2048 /\ skip[1][e] < Y /\ skip[2][e] < 2048
                             /\ ids[0][e] < 2048 /\ ids[1][e] < Y /\ ids[2][e] < 2048
    BY <1>1, <1>2, WholeBounds
<1>5. X \in Nat \ {0} /\ X <= 1024 /\ Y \in Nat \ {0} /\ Y <= 1024
    BY <1>3, SizeTypes
<1>6. /\ \A e \in Elements : ids[0][e] \in Nat /\ ids[1][e] \in Nat /\ ids[2][e] \in Nat
      /\ \A e \in Elements : skip[0][e] \in Nat /\ skip[1][e] \in Nat /\ skip[2][e] \in Nat
    BY <1>3, VectorParts
<1>7. /\ launch.simd \in {8, 16, 32} /\ NumChannels \in {8, 16} /\ pass \in Nat /\ thread \in Nat
      /\ Threads \in Nat
    BY <1>2, <1>3, LaunchTypes
<1>8. /\ InLanes(ids, 1) /\ InLanes(skip, 0)
      /\ \A e \in Elements :
           /\ At(ids, e) = thread * launch.simd + pass * NumChannels + e
           /\ At(skip, e) = launch.simd
           /\ ids[0][e] < X /\ skip[0][e] < X
    BY <1>1, <1>2 DEF SkipInv, ChannelInv
<1>9. PICK sum : sum = AddIds(ids, skip)
    OBVIOUS
<1>10. /\ sum \in [Dims -> Vectors]
       /\ InLanes(sum, 1)
       /\ \A e \in Elements : /\ At(sum, e) = At(ids, e) + At(skip, e)
                              /\ sum[0][e] = ids[0][e] + skip[0][e]
                              /\ sum[1][e] = ids[1][e] + skip[1][e]
                              /\ sum[2][e] = ids[2][e] + skip[2][e]
    <2>1. \A e \in Elements : /\ ids[0][e] + skip[0][e] < Width
                              /\ ids[1][e] + skip[1][e] < Width
                              /\ ids[2][e] + skip[2][e] < Width
        BY <1>4, <1>5, <1>6 DEF Width
    <2> QED BY <1>3, <1>8, <1>9, <2>1, AddElements, WrapTypes
<1>11. \A e \in Elements : /\ sum[0][e] < 4096 /\ sum[1][e] <= 2 * Y - 2 /\ sum[2][e] < 4096
                           /\ sum[0][e] < 2 * X
    BY <1>4, <1>5, <1>6, <1>8, <1>10
<1>12. PICK w : w = Wrap(sum)
    OBVIOUS
<1>13. /\ InLanes(w, 1)
       /\ \A e \in Elements : /\ At(w, e) = At(sum, e)
                              /\ w[1][e] < Y
                              /\ w[0][e] < X
    <2>1. 1 \in {0, 1}
        OBVIOUS
    <2> QED BY <1>3, <1>4, <1>10, <1>11, <1>12, <2>1, WrapElements
<1>14. ids' = w
    BY <1>1, <1>9, <1>12
<1>15. ASSUME NEW e \in Elements
       PROVE  At(w, e) = (thread + 1) * launch.simd + pass * NumChannels + e
    <2>1. At(w, e) = (thread * launch.simd + pass * NumChannels + e) + launch.simd
        BY <1>8, <1>10, <1>13
    <2>2. e \in Nat /\ thread * launch.simd \in Nat /\ pass * NumChannels \in Nat
        <3>1. e \in 0..15
            BY <1>3, Lanes
        <3> QED BY <1>7, <3>1
    <2>3. (thread + 1) * launch.simd = thread * launch.simd + launch.simd
        BY <1>7
    <2> QED BY <1>7, <2>1, <2>2, <2>3
<1>16. ChannelInv'
    BY <1>1, <1>13, <1>14, <1>15, ChannelPrimed
<1>17. SkipInv'
    BY <1>1, <1>2, SkipPrimed DEF SkipInv
<1>18. /\ DOMAIN ioh' = DOMAIN ioh \cup places
       /\ \A place \in places : ioh'[place] = channels[place]
       /\ \A place \in DOMAIN ioh \ places : ioh'[place] = ioh[place]
    <2>1. DOMAIN channels = places
        OBVIOUS
    <2> HIDE DEF channels, places
    <2> QED BY <1>1, <2>1, Stores
<1>19. ASSUME NEW place \in places
       PROVE  /\ place \in Nat \X Nat
              /\ ioh'[place][0] < X /\ ioh'[place][1] < Y
              /\ Place(ioh'[place][0], ioh'[place][1], ioh'[place][2])
                   = place[1] * launch.simd + place[2]
    <2>1. PICK e \in Elements : place = <<thread, pass * NumChannels + e>>
        OBVIOUS
    <2>2. e \in Nat /\ e < NumChannels /\ pass * NumChannels \in Nat /\ thread * launch.simd \in Nat
        BY <1>7, <2>1 DEF Elements
    <2>3. (pass * NumChannels + e) % NumChannels = e
        BY <1>7, <2>2
    <2>4. channels[place] = [d \in Dims |-> ids[d][e]]
        BY <2>1, <2>3
    <2>5. ioh'[place][0] = ids[0][e] /\ ioh'[place][1] = ids[1][e] /\ ioh'[place][2] = ids[2][e]
        <3>1. ioh'[place] = channels[place]
            BY <1>18
        <3>2. 0 \in Dims /\ 1 \in Dims /\ 2 \in Dims
            BY DEF Dims
        <3> HIDE DEF channels
        <3> QED BY <2>4, <3>1, <3>2
    <2>6. Place(ids[0][e], ids[1][e], ids[2][e]) = thread * launch.simd + (pass * NumChannels + e)
        BY <1>7, <1>8, <2>1, <2>2 DEF At
    <2> QED BY <1>4, <1>7, <1>8, <2>1, <2>2, <2>5, <2>6
<1> HIDE DEF places, channels
<1>20. StoredInv'
    BY <1>1, <1>2, <1>18, <1>19, StoredPrimed DEF StoredInv
<1>21. ProgressInv'
    <2>1. ASSUME NEW t \in 0..(Threads - 1), NEW c \in 0..(launch.simd - 1),
                 \/ c < pass * NumChannels
                 \/ t < thread + 1 /\ c < (pass + 1) * NumChannels
          PROVE  <<t, c>> \in DOMAIN ioh \cup places
        <3>1. CASE c < pass * NumChannels \/ (t < thread /\ c < (pass + 1) * NumChannels)
            BY <1>2, <3>1 DEF ProgressInv
        <3>2. CASE t = thread /\ c < (pass + 1) * NumChannels /\ ~(c < pass * NumChannels)
            <4>1. pass * NumChannels \in Nat /\ (pass + 1) * NumChannels = pass * NumChannels + NumChannels
                BY <1>7
            <4>2. PICK m \in Nat : m = pass * NumChannels
                BY <4>1
            <4>3. c \in Nat /\ c >= m /\ c < m + NumChannels
                BY <1>7, <3>2, <4>1, <4>2
            <4>4. c - m \in Elements /\ c = m + (c - m)
                BY <1>7, <4>2, <4>3 DEF Elements
            <4> QED BY <3>2, <4>2, <4>4 DEF places
        <3>3. t \in Int /\ t < thread + 1 => t < thread \/ t = thread
            BY <1>7
        <3> QED BY <2>1, <3>1, <3>2, <3>3
    <2> QED BY <1>1, <1>18, <2>1, ProgressPrimed
<1> QED BY <1>16, <1>17, <1>20, <1>21 DEF WholeInv

LEMMA NextPassStep ==
    ASSUME TypeOK, StageInv, WholeLanes, WholeInv, NextPass
    PROVE  WholeInv'
<1>1. /\ stage = "threads" /\ thread = Threads /\ thread' = 0 /\ pass' = pass + 1
      /\ stage' \in {"first", "done"} /\ ids' = InitialLocalID(pass')
      /\ launch' = launch /\ skip' = skip /\ ioh' = ioh
    BY DEF NextPass
<1>2. launch.simd # 1 /\ SkipInv /\ ChannelInv /\ StoredInv /\ ProgressInv /\ pass < Passes
    BY <1>1 DEF StageInv, WholeInv
<1>3. launch \in Launches /\ pass \in 0..Passes
    BY Typed
<1>4. /\ launch.simd \in {8, 16, 32} /\ NumChannels \in {8, 16} /\ Passes \in 1..2
      /\ Threads \in Nat
    BY <1>2, <1>3, LaunchTypes
<1>5. PICK n \in 0..2 : n = pass'
    BY <1>1, <1>2, <1>3, <1>4
<1>6. PICK w : w = InitialLocalID(n)
    OBVIOUS
<1>7. /\ InLanes(w, 1)
      /\ \A e \in Elements : At(w, e) = n * NumChannels + e /\ w[1][e] < Y
    BY <1>3, <1>5, <1>6, InitialElements
<1>8. ids' = w
    BY <1>1, <1>5, <1>6
<1>9. ChannelInv'
    <2>1. ASSUME NEW e \in Elements
          PROVE  n * NumChannels + e = 0 * launch.simd + n * NumChannels + e
        <3>1. e \in 0..15
            BY <1>3, Lanes
        <3> QED BY <1>4, <1>5, <3>1
    <2>2. stage' # "threads"
        BY <1>1
    <2> QED BY <1>1, <1>5, <1>7, <1>8, <2>1, <2>2, ChannelPrimed
<1>10. SkipInv'
    <2>1. stage # "skip"
        BY <1>1
    <2> QED BY <1>1, <1>2, <2>1, SkipPrimed DEF SkipInv
<1>11. StoredInv'
    BY <1>1, <1>2, StoredPrimed DEF StoredInv
<1>12. ProgressInv'
    <2>1. ASSUME NEW t \in 0..(Threads - 1), NEW c \in 0..(launch.simd - 1),
                 c < (pass + 1) * NumChannels \/ (t < 0 /\ c < (pass + 1 + 1) * NumChannels)
          PROVE  <<t, c>> \in DOMAIN ioh
        <3>1. t < thread /\ ~(t < 0)
            BY <1>1, <1>4
        <3> QED BY <1>2, <2>1, <3>1 DEF ProgressInv
    <2> QED BY <1>1, <2>1, ProgressPrimed
<1> QED BY <1>9, <1>10, <1>11, <1>12 DEF WholeInv

LEMMA StoreScalarStep ==
    ASSUME TypeOK, StageInv, WholeLanes, WholeInv, StoreScalar
    PROVE  WholeInv'
<1> DEFINE channels == [place \in {<<thread, 0>>} |->
                        [d \in Dims |-> CASE d = 0 -> thread % Z
                                          [] d = 1 -> (thread \div Z) % Y
                                          [] d = 2 -> thread \div (Z * Y)]]
<1>1. /\ stage = "scalar" /\ thread < Items /\ thread' = thread + 1
      /\ ioh' = Store(channels)
      /\ launch' = launch /\ pass' = pass
    BY DEF StoreScalar
<1>2. launch.simd = 1 /\ pass = 0 /\ StoredInv /\ ProgressInv /\ X = Z
    BY <1>1 DEF StageInv, WholeInv, WholeLanes
<1>3. launch \in Launches /\ thread \in 0..Items /\ Items \in Nat
    BY Typed, LaunchTypes
<1>4. X \in Nat \ {0} /\ Y \in Nat \ {0}
    BY <1>3, SizeTypes
<1>5. thread \in Nat
    BY <1>3
<1>6. /\ DOMAIN ioh' = DOMAIN ioh \cup {<<thread, 0>>}
      /\ ioh'[<<thread, 0>>] = channels[<<thread, 0>>]
      /\ \A place \in DOMAIN ioh \ {<<thread, 0>>} : ioh'[place] = ioh[place]
    <2>1. DOMAIN channels = {<<thread, 0>>}
        OBVIOUS
    <2> HIDE DEF channels
    <2> QED BY <1>1, <2>1, Stores
<1>7. /\ ioh'[<<thread, 0>>][0] = thread % X
      /\ ioh'[<<thread, 0>>][1] = (thread \div X) % Y
      /\ ioh'[<<thread, 0>>][2] = (thread \div X) \div Y
    <2>1. thread \div (X * Y) = (thread \div X) \div Y
        BY <1>4, <1>5, DivisionTwice
    <2>2. /\ channels[<<thread, 0>>][0] = thread % Z
          /\ channels[<<thread, 0>>][1] = (thread \div Z) % Y
          /\ channels[<<thread, 0>>][2] = thread \div (Z * Y)
        BY DEF Dims
    <2> QED BY <1>2, <1>6, <2>1, <2>2
<1> HIDE DEF channels
<1>8. /\ ioh'[<<thread, 0>>][0] < X /\ ioh'[<<thread, 0>>][1] < Y
      /\ Place(ioh'[<<thread, 0>>][0], ioh'[<<thread, 0>>][1], ioh'[<<thread, 0>>][2]) = thread
    <2>1. PICK q \in Nat, r \in Nat : q = thread \div X /\ r = thread % X /\ r < X /\ thread = X * q + r
        <3>1. /\ thread \div X \in Nat /\ thread % X \in 0..(X - 1)
              /\ thread = X * (thread \div X) + (thread % X)
            BY <1>4, <1>5, Division
        <3>2. thread % X \in Nat /\ thread % X < X
            BY <1>4, <3>1
        <3> QED BY <3>1, <3>2
    <2>2. PICK u \in Nat, s \in Nat : u = q \div Y /\ s = q % Y /\ s < Y /\ q = Y * u + s
        <3>1. q \div Y \in Nat /\ q % Y \in 0..(Y - 1) /\ q = Y * (q \div Y) + (q % Y)
            BY <1>4, <2>1, Division
        <3>2. q % Y \in Nat /\ q % Y < Y
            BY <1>4, <3>1
        <3> QED BY <3>1, <3>2
    <2>3. Place(r, s, u) = thread
        <3>1. s + Y * u = q
            BY <1>4, <2>2
        <3>2. X * q \in Nat
            BY <1>4, <2>1
        <3> QED BY <2>1, <3>1, <3>2 DEF Place
    <2> QED BY <1>7, <2>1, <2>2, <2>3
<1>9. StoredInv'
    <2>1. <<thread, 0>> \in Nat \X Nat /\ <<thread, 0>>[1] * launch.simd + <<thread, 0>>[2] = thread
        BY <1>2, <1>5
    <2> QED BY <1>1, <1>2, <1>6, <1>8, <2>1, StoredPrimed DEF StoredInv
<1>10. ProgressInv'
    <2>1. NumChannels \in {8, 16} /\ Threads \in Nat
        BY <1>3, LaunchTypes
    <2>2. ASSUME NEW t \in 0..(Threads - 1), NEW c \in 0..(launch.simd - 1),
                 \/ c < pass * NumChannels
                 \/ t < thread + 1 /\ c < (pass + 1) * NumChannels
          PROVE  <<t, c>> \in DOMAIN ioh \cup {<<thread, 0>>}
        <3>1. c = 0 /\ c < (pass + 1) * NumChannels /\ ~(c < pass * NumChannels)
            BY <1>2, <2>1
        <3>2. t < thread \/ t = thread
            BY <1>5, <2>1, <2>2, <3>1
        <3> QED BY <1>2, <3>1, <3>2 DEF ProgressInv
    <2> QED BY <1>1, <1>6, <2>2, ProgressPrimed
<1> QED BY <1>2, <1>9, <1>10, <1>1, SameLaunch DEF WholeInv

LEMMA WholeStep ==
    ASSUME LocalIdInv, [Next]_vars, WholeLanes
    PROVE  WholeInv'
<1>1. TypeOK /\ StageInv /\ WholeInv
    BY DEF LocalIdInv
<1>2. CASE ComputeSkip
    BY <1>1, <1>2, ComputeSkipStep
<1>3. CASE ComputeFirst
    BY <1>1, <1>3, ComputeFirstStep
<1>4. CASE StoreThread
    BY <1>1, <1>4, StoreThreadStep
<1>5. CASE NextPass
    BY <1>1, <1>5, NextPassStep
<1>6. CASE StoreScalar
    BY <1>1, <1>6, StoreScalarStep
<1>7. CASE UNCHANGED vars
    <2>1. /\ launch' = launch /\ stage' = stage /\ pass' = pass /\ thread' = thread
          /\ skip' = skip /\ ids' = ids /\ ioh' = ioh
        BY <1>7 DEF vars
    <2>2. StoredInv' /\ ProgressInv'
        BY <1>1, <2>1, StoredPrimed, ProgressPrimed DEF WholeInv, StoredInv, ProgressInv
    <2>3. ASSUME launch.simd # 1 PROVE SkipInv' /\ ChannelInv'
        BY <1>1, <2>1, <2>3, SkipPrimed, ChannelPrimed DEF WholeInv, SkipInv, ChannelInv
    <2> QED BY <2>1, <2>2, <2>3 DEF WholeInv
<1> QED BY <1>2, <1>3, <1>4, <1>5, <1>6, <1>7 DEF Next

(* The inductive invariant. *)
THEOREM LocalIdInvariant == Spec => []LocalIdInv
<1>1. Init => LocalIdInv
    BY InitTyped, WholeInit DEF LocalIdInv
<1>2. LocalIdInv /\ [Next]_vars => LocalIdInv'
    <2> SUFFICES ASSUME LocalIdInv, [Next]_vars
                 PROVE  LocalIdInv'
        OBVIOUS
    <2>1. TypeOK' /\ StageInv'
        BY TypedStep DEF LocalIdInv
    <2>2. launch' = launch
        BY DEF Next, ComputeSkip, ComputeFirst, StoreThread, NextPass, StoreScalar, vars
    <2>3. WholeLanes' = WholeLanes
        BY <2>2, SameLaunch
    <2> QED BY <2>1, <2>3, WholeStep DEF LocalIdInv
<1> QED BY <1>1, <1>2, PTL DEF Spec

(* The ids and their steps stay in sixteen bits, and the generator counts  *)
(* its threads and passes right, for every kernel and every work group     *)
(* that is accepted (generateLocalIDsSimd, generateLocalIDsForSimdOne).    *)
THEOREM LocalIdsTypeCorrect == Spec => []TypeOK
BY LocalIdInvariant, PTL DEF LocalIdInv

-----------------------------------------------------------------------------
(* What was stored, when the generator is done. *)

(* The execution mask enables the channels whose place is in the group.    *)
LEMMA EnabledPlaces ==
    ASSUME launch \in Launches,
           NEW place \in (0..(Threads - 1)) \X (0..(launch.simd - 1))
    PROVE  place \in Enabled <=> place[1] * launch.simd + place[2] < Items
<1>1. PICK n \in Nat \ {0} : n = Items
    BY LaunchTypes
<1>2. PICK m \in Nat : m = Threads
    BY LaunchTypes
<1>3. PICK t \in Nat, c \in Nat : t = place[1] /\ c = place[2] /\ t < m /\ c < launch.simd
    <2>1. place[1] \in 0..(m - 1) /\ place[2] \in 0..(launch.simd - 1)
        BY <1>2
    <2> QED BY <1>2, <2>1, LaunchTypes
<1>4. (m - 1) * launch.simd < n /\ m * launch.simd >= n
    BY <1>1, <1>2, LaunchTypes
<1>5. (t = m - 1 /\ n % launch.simd # 0 => c < n % launch.simd) <=> t * launch.simd + c < n
    <2>1. launch.simd \in {1, 8, 16, 32}
        BY LaunchTypes
    <2>2. n \in Nat /\ m \in Nat /\ t \in Nat /\ c \in Nat /\ t < m /\ c < launch.simd
        BY <1>1, <1>2, <1>3
    <2>3. CASE launch.simd = 1
        BY ONLY <1>4, <2>2, <2>3
    <2>4. CASE launch.simd = 8
        BY ONLY <1>4, <2>2, <2>4
    <2>5. CASE launch.simd = 16
        BY ONLY <1>4, <2>2, <2>5
    <2>6. CASE launch.simd = 32
        BY ONLY <1>4, <2>2, <2>6
    <2> QED BY <2>1, <2>3, <2>4, <2>5, <2>6
<1> QED BY <1>1, <1>2, <1>3, <1>5 DEF Enabled, Remainder

(* They are as many as the items of the group.                             *)
LEMMA EnabledCardinality ==
    ASSUME launch \in Launches
    PROVE  Cardinality(Enabled) = Items
<1> DEFINE numbers == 0..(Items - 1)
           placeOf == [n \in numbers |-> <<n \div launch.simd, n % launch.simd>>]
<1>1. launch.simd \in Nat \ {0} /\ Items \in Nat \ {0} /\ Threads \in Nat /\ Threads * launch.simd >= Items
    BY LaunchTypes
<1>2. ASSUME NEW n \in numbers
      PROVE  /\ placeOf[n] \in Enabled
             /\ n = placeOf[n][1] * launch.simd + placeOf[n][2]
    <2>1. n \in Nat /\ n < Items
        BY <1>1
    <2>2. PICK q \in Nat, c \in 0..(launch.simd - 1) :
            /\ q = n \div launch.simd /\ c = n % launch.simd
            /\ n = launch.simd * q + c
        <3>1. /\ n \div launch.simd \in Nat /\ n % launch.simd \in 0..(launch.simd - 1)
              /\ n = launch.simd * (n \div launch.simd) + (n % launch.simd)
            BY <1>1, <2>1, Division
        <3> QED BY <3>1
    <2>3. placeOf[n] = <<q, c>>
        BY <2>2
    <2>4. launch.simd * q = q * launch.simd /\ q * launch.simd \in Nat
        <3>1. q \in Nat /\ launch.simd \in Nat
            BY <1>1, <2>2
        <3> QED BY ONLY <3>1
    <2>5. q < Threads
        <3>1. ASSUME Threads <= q PROVE FALSE
            <4>1. launch.simd * Threads <= launch.simd * q
                BY <1>1, <2>2, <3>1, ProductMonotone
            <4>2. launch.simd * Threads = Threads * launch.simd /\ launch.simd * Threads \in Nat
                BY <1>1
            <4> QED BY <1>1, <2>1, <2>2, <2>4, <4>1, <4>2
        <3> QED BY <1>1, <2>2, <3>1
    <2>6. <<q, c>> \in (0..(Threads - 1)) \X (0..(launch.simd - 1))
        BY <1>1, <2>2, <2>5
    <2>7. q * launch.simd + c < Items /\ n = q * launch.simd + c
        BY <2>1, <2>2, <2>4
    <2> QED BY <2>3, <2>6, <2>7, EnabledPlaces
<1>3. ASSUME NEW place \in Enabled
      PROVE  \E n \in numbers : placeOf[n] = place
    <2>1. place \in (0..(Threads - 1)) \X (0..(launch.simd - 1))
        BY DEF Enabled
    <2>2. PICK t \in Nat, c \in 0..(launch.simd - 1) : place = <<t, c>>
        BY <1>1, <2>1
    <2>3. t * launch.simd + c < Items
        BY <2>1, <2>2, EnabledPlaces
    <2>4. PICK n \in Nat : n = t * launch.simd + c
        BY <1>1, <2>2
    <2>5. n \in numbers
        BY <1>1, <2>3, <2>4
    <2>6. /\ n \div launch.simd \in Nat /\ n % launch.simd \in 0..(launch.simd - 1)
          /\ n = launch.simd * (n \div launch.simd) + (n % launch.simd)
        BY <1>1, <2>4, Division
    <2>7. n = launch.simd * t + c
        BY <1>1, <2>2, <2>4
    <2>8. n \div launch.simd = t /\ n % launch.simd = c
        <3>1. PICK u \in Nat, d \in 0..(launch.simd - 1) :
                u = n \div launch.simd /\ d = n % launch.simd /\ n = launch.simd * u + d
            BY <2>6
        <3>2. launch.simd * u + d = launch.simd * t + c /\ u \in Int /\ t \in Int
            BY <2>2, <2>7, <3>1
        <3>3. u = t /\ d = c
            <4>1. /\ launch.simd \in Nat \ {0} /\ u \in Int /\ t \in Int
                  /\ d \in 0..(launch.simd - 1) /\ c \in 0..(launch.simd - 1)
                BY <1>1, <2>2, <3>1
            <4> QED BY ONLY <3>2, <4>1, DivisionUnique
        <3> QED BY <3>1, <3>3
    <2> QED BY <2>2, <2>5, <2>8
<1>4. placeOf \in [numbers -> Enabled]
    BY <1>2
<1>5. \A a \in numbers, b \in numbers : placeOf[a] = placeOf[b] => a = b
    <2> HIDE DEF placeOf
    <2> QED BY <1>2
<1> HIDE DEF placeOf
<1>6. placeOf \in Bijection(numbers, Enabled)
    <2>1. placeOf \in Injection(numbers, Enabled)
        BY <1>4, <1>5 DEF Injection, IsInjective
    <2>2. placeOf \in Surjection(numbers, Enabled)
        BY <1>3, <1>4 DEF Surjection
    <2> QED BY <2>1, <2>2 DEF Bijection
<1>7. ExistsBijection(numbers, Enabled)
    BY <1>6 DEF ExistsBijection
<1>8. IsFiniteSet(numbers) /\ Cardinality(numbers) = Items
    <2>1. PICK m \in Nat \ {0} : m = Items
        BY <1>1
    <2>2. 0 \in Int /\ m - 1 \in Int
        BY <2>1
    <2>3. /\ IsFiniteSet(0..(m - 1))
          /\ Cardinality(0..(m - 1)) = IF 0 > m - 1 THEN 0 ELSE (m - 1) - 0 + 1
        BY ONLY <2>2, FS_Interval
    <2>4. Cardinality(0..(m - 1)) = m
        BY <2>1, <2>3
    <2> QED BY <2>1, <2>3, <2>4
<1> QED BY <1>7, <1>8, FS_Bijection

LEMMA DoneEachItemOnce ==
    ASSUME LocalIdInv, WholeLanes, stage = "done"
    PROVE  EachItemOnce
<1>1. TypeOK /\ StageInv /\ WholeInv /\ StoredInv /\ ProgressInv
    BY DEF LocalIdInv, WholeInv
<1>2. launch \in Launches /\ \A place \in DOMAIN ioh : ioh[place] \in Triples
    BY <1>1, Typed
<1>3. /\ launch.simd \in {1, 8, 16, 32} /\ NumChannels \in {8, 16} /\ Threads \in Nat /\ Items \in Nat
      /\ launch.simd = 1 => Threads = Items
      /\ launch.simd # 1 => Passes * NumChannels = launch.simd
    BY <1>2, LaunchTypes
<1>4. Enabled \subseteq DOMAIN ioh
    <2> SUFFICES ASSUME NEW t \in 0..(Threads - 1), NEW c \in 0..(launch.simd - 1)
                 PROVE  <<t, c>> \in DOMAIN ioh
        BY DEF Enabled
    <2>1. CASE launch.simd = 1
        <3>1. pass = 0 /\ thread = Threads
            BY <1>1, <1>3, <2>1 DEF StageInv
        <3>2. t < thread /\ c < (pass + 1) * NumChannels
            BY <1>3, <2>1, <3>1
        <3> QED BY <1>1, <3>2 DEF ProgressInv
    <2>2. CASE launch.simd # 1
        <3>1. pass * NumChannels = launch.simd
            BY <1>1, <1>3, <2>2 DEF StageInv
        <3>2. c < pass * NumChannels
            BY <1>3, <3>1
        <3> QED BY <1>1, <3>2 DEF ProgressInv
    <2> QED BY <2>1, <2>2
<1>5. ASSUME NEW p \in Enabled
      PROVE  /\ Place(ioh[p][0], ioh[p][1], ioh[p][2]) = p[1] * launch.simd + p[2]
             /\ p[1] * launch.simd + p[2] < Items
             /\ p \in (0..(Threads - 1)) \X (0..(launch.simd - 1))
             /\ ioh[p][0] < X /\ ioh[p][1] < Y /\ ioh[p][2] < Z
    <2>1. p \in DOMAIN ioh /\ p \in (0..(Threads - 1)) \X (0..(launch.simd - 1))
        BY <1>4 DEF Enabled
    <2>2. /\ Place(ioh[p][0], ioh[p][1], ioh[p][2]) = p[1] * launch.simd + p[2]
          /\ ioh[p][0] < X /\ ioh[p][1] < Y
        BY <1>1, <2>1 DEF StoredInv
    <2>3. p[1] * launch.simd + p[2] < Items
        BY <1>2, <2>1, EnabledPlaces
    <2>4. ioh[p][0] \in Nat /\ ioh[p][1] \in Nat /\ ioh[p][2] \in Nat
        BY <1>2, <2>1, SixteenBits DEF Triples, Dims
    <2>5. ioh[p][2] < Z
        BY <1>2, <2>2, <2>3, <2>4, PlaceBounds
    <2> QED BY <2>1, <2>2, <2>3, <2>5
<1>6. ASSUME NEW p \in Enabled, NEW q \in Enabled, ioh[p] = ioh[q]
      PROVE  p = q
    <2>1. p[1] * launch.simd + p[2] = q[1] * launch.simd + q[2]
        BY <1>5, <1>6
    <2>2. PICK t \in Nat, c \in 0..(launch.simd - 1) : p = <<t, c>>
        BY <1>3, <1>5
    <2>3. PICK u \in Nat, d \in 0..(launch.simd - 1) : q = <<u, d>>
        BY <1>3, <1>5
    <2>4. launch.simd * t + c = launch.simd * u + d
        BY <1>3, <2>1, <2>2, <2>3
    <2>5. launch.simd \in Nat \ {0} /\ t \in Int /\ u \in Int
        BY <1>3, <2>2, <2>3
    <2>6. t = u /\ c = d
        BY <2>2, <2>3, <2>4, <2>5, DivisionUnique
    <2> QED BY <2>2, <2>3, <2>6
<1>7. ASSUME NEW p \in Enabled, NEW d \in Dims
      PROVE  ioh[p][d] < launch.size[d]
    BY <1>5 DEF Dims, X, Y, Z
<1>8. Cardinality(Enabled) = Items
    BY <1>2, EnabledCardinality
<1> QED BY <1>4, <1>6, <1>7, <1>8 DEF EachItemOnce

(* A kernel of any SIMD size sees, in the channels that the walker enables *)
(* (createCommandStreamTask), the local ids of all items of its group and  *)
(* each of them once, for every group whose rows fill whole lanes.         *)
THEOREM IdsOfWholeLanesTheorem == Spec => []IdsOfWholeLanes
<1>1. LocalIdInv => IdsOfWholeLanes
    BY DoneEachItemOnce DEF IdsOfWholeLanes
<1> QED BY <1>1, LocalIdInvariant, PTL
=============================================================================
