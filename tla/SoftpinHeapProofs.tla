------------------------- MODULE SoftpinHeapProofs -------------------------
(***************************************************************************)
(* The softpin heap for every window, every range of addresses and every   *)
(* sequence of allocations and releases: its type, the offsets that the    *)
(* commands use, and that it implements AddressSpace.                      *)
(***************************************************************************)
EXTENDS SoftpinHeap, TLAPS

(* Where an object is, in the 48 bit form the heap computes with. *)
At(r) == Decanonize(r.gpuAddress)
EndOf(r) == At(r) + AlignUp(r.size, PageSize)

Base == HalfRange + GraphicsHeapSize

HeapInv ==
    /\ TypeOK
    /\ status # "SUCCESS" => regions = {} /\ allocatedSize = 0
    /\ status = "SUCCESS" =>
         /\ gpuBaseAddress = Base
         /\ pLeftBound = Bounds.Low
         /\ pLeftBound <= pRightBound
         /\ pRightBound + allocatedSize = Bounds.High
         /\ availableSize = pRightBound - pLeftBound
         /\ pRightBound % PageSize = 0
    /\ \A r \in regions :
         /\ r.gpuAddress = Canonize(At(r))
         /\ r.gpuBaseAddress = Canonize(Base)
         /\ At(r) \in Nat /\ At(r) % PageSize = 0
         /\ pRightBound <= At(r) /\ EndOf(r) <= Bounds.High
    /\ \A r, s \in regions : r # s =>
         /\ r.object # s.object
         /\ EndOf(r) <= At(s) \/ EndOf(s) <= At(r)

-----------------------------------------------------------------------------
(* Arithmetic *)

LEMMA BoundsAre ==
    /\ Bounds.Low \in Nat /\ Bounds.High \in Nat /\ Base \in Nat
    /\ Bounds.Low = Base + MegaByte
    /\ Bounds.High = Base + GraphicsHeapSize - PageSize64k
    /\ Bounds.Low < Bounds.High
    /\ HalfRange <= Base /\ Base < 2 * HalfRange /\ Bounds.High < 2 * HalfRange
    /\ Bounds.Low % PageSize = 0 /\ Bounds.High % PageSize = 0
  BY SoftpinAssumption DEF Bounds, Base, MegaByte, PageSize64k, PageSize, KiloByte

(* The size of an object, rounded up to pages. *)
LEMMA PagesOf ==
    ASSUME NEW n \in Nat
    PROVE  /\ AlignUp(n, PageSize) \in Nat
           /\ AlignUp(n, PageSize) >= n
           /\ AlignUp(n, PageSize) % PageSize = 0
  BY DEF AlignUp, PageSize, KiloByte

(* The page of the window in which an address lies. *)
LEMMA PageIndex ==
    ASSUME NEW low \in Nat, NEW high \in Nat, NEW a \in Nat, low <= a, a <= high,
           low % PageSize = 0, a % PageSize = 0
    PROVE  LET k == (a - low) \div PageSize
           IN  k \in 0..((high - low) \div PageSize) /\ low + k * PageSize = a
  BY DEF PageSize, KiloByte

(* Adding a multiple of the modulus does not change the remainder. *)
LEMMA ModUnique ==
    ASSUME NEW m \in Nat \ {0}, NEW q \in Nat, NEW r \in Nat, r < m
    PROVE  (r + q * m) % m = r
  OBVIOUS

(* Canonize and Decanonize are inverse on addresses of 48 bits. *)
LEMMA CanonicalRoundTrip ==
    ASSUME NEW a \in Nat, HalfRange <= a, a < 2 * HalfRange
    PROVE  /\ Canonize(a) \in Nat
           /\ Canonize(a) = a + (Word - 2 * HalfRange)
           /\ Decanonize(Canonize(a)) = a
<1> DEFINE m == 2 * HalfRange
           q == Word \div m
<1>1. m \in Nat \ {0} /\ Word \in Nat \ {0} /\ Word % m = 0
  BY SoftpinAssumption
<1>2. q \in Nat /\ Word = q * m
  BY <1>1
<1>3. q >= 1
  <2>1. q # 0
    BY <1>1, <1>2
  <2> QED BY <2>1, <1>2
<1>4. Canonize(a) = a + (Word - m)
  BY SoftpinAssumption DEF Canonize
<1> HIDE DEF q, m
<1>5. Word - m = (q - 1) * m /\ q - 1 \in Nat
  BY <1>1, <1>2, <1>3
<1>6. (q - 1) * m \in Nat
  BY <1>1, <1>5
<1>7. (a + (q - 1) * m) % m = a
  BY <1>1, <1>5, ModUnique DEF m
<1> QED BY <1>4, <1>5, <1>6, <1>7 DEF Decanonize, m

-----------------------------------------------------------------------------
(* The invariant *)

LEMMA InitHeapInv == Init => HeapInv
  BY DEF Init, HeapInv, TypeOK, Statuses

LEMMA AllocateStep ==
    ASSUME HeapInv, NEW bo \in Objects, NEW size \in ObjectSizes,
           AllocateHeapMemoryForSoftpinning(bo, size)
    PROVE  HeapInv'
<1> DEFINE bytes == AlignUp(size, PageSize)
           new == [object |-> bo, size |-> size,
                   gpuAddress |-> Canonize(pRightBound'),
                   gpuBaseAddress |-> Canonize(gpuBaseAddress)]
<1>1. /\ status = "SUCCESS" /\ status' = "SUCCESS"
      /\ \A r \in regions : r.object # bo
      /\ pLeftBound + bytes <= pRightBound
      /\ pRightBound' = pRightBound - bytes
      /\ availableSize' = availableSize - bytes
      /\ allocatedSize' = allocatedSize + bytes
      /\ regions' = regions \cup {new}
      /\ answer' = [length |-> size, granted |-> TRUE]
      /\ gpuBaseAddress' = gpuBaseAddress /\ pLeftBound' = pLeftBound
  BY DEF AllocateHeapMemoryForSoftpinning
<1>2. size \in Nat /\ bytes \in Nat /\ bytes >= size /\ bytes % PageSize = 0
  BY SoftpinAssumption, PagesOf
<1> HIDE DEF bytes
<1>3. /\ gpuBaseAddress = Base /\ pLeftBound = Bounds.Low
      /\ pRightBound + allocatedSize = Bounds.High
      /\ availableSize = pRightBound - pLeftBound
      /\ pRightBound % PageSize = 0
      /\ pRightBound \in Nat /\ allocatedSize \in Nat
  BY <1>1 DEF HeapInv, TypeOK
<1>4. /\ pRightBound' \in Nat
      /\ Bounds.Low <= pRightBound' /\ pRightBound' + bytes <= Bounds.High
      /\ pRightBound' + allocatedSize' = Bounds.High
      /\ availableSize' = pRightBound' - pLeftBound
      /\ allocatedSize' \in Nat /\ availableSize' \in Nat
  BY <1>1, <1>2, <1>3, BoundsAre
<1>5. pRightBound' % PageSize = 0
  BY <1>1, <1>2, <1>3, <1>4 DEF PageSize, KiloByte
<1>6. /\ Canonize(pRightBound') \in Nat
      /\ Decanonize(Canonize(pRightBound')) = pRightBound'
      /\ Canonize(Base) \in Nat
  <2>1. HalfRange <= pRightBound' /\ pRightBound' < 2 * HalfRange
    BY <1>2, <1>4, BoundsAre, SoftpinAssumption DEF MegaByte, KiloByte
  <2>2. Canonize(pRightBound') \in Nat /\ Decanonize(Canonize(pRightBound')) = pRightBound'
    BY <2>1, <1>4, CanonicalRoundTrip
  <2> QED BY <2>2, BoundsAre, CanonicalRoundTrip
<1>7. /\ At(new) = pRightBound'
      /\ EndOf(new) = pRightBound
      /\ new.gpuAddress = Canonize(At(new))
      /\ new.gpuBaseAddress = Canonize(Base)
  <2>1. At(new) = pRightBound'
    BY <1>6 DEF At
  <2>2. EndOf(new) = pRightBound' + bytes
    BY <2>1 DEF EndOf, bytes
  <2> QED BY <2>1, <2>2, <1>1, <1>2, <1>3
<1>8. new \in [object : Objects, size : ObjectSizes, gpuAddress : Nat, gpuBaseAddress : Nat]
  BY <1>3, <1>6
<1>9. TypeOK'
  BY <1>1, <1>2, <1>3, <1>4, <1>8 DEF HeapInv, TypeOK, Statuses
<1>10. \A r \in regions :
         /\ r.gpuAddress = Canonize(At(r)) /\ r.gpuBaseAddress = Canonize(Base)
         /\ At(r) \in Nat /\ At(r) % PageSize = 0
         /\ pRightBound <= At(r) /\ EndOf(r) <= Bounds.High
         /\ r.object # bo
  BY <1>1 DEF HeapInv
<1>11. \A r \in regions' :
         /\ r.gpuAddress = Canonize(At(r)) /\ r.gpuBaseAddress = Canonize(Base)
         /\ At(r) \in Nat /\ At(r) % PageSize = 0
         /\ pRightBound' <= At(r) /\ EndOf(r) <= Bounds.High
  <2>1. ASSUME NEW r \in regions PROVE pRightBound' <= At(r)
    BY <2>1, <1>10, <1>1, <1>2, <1>3, <1>4
  <2>2. EndOf(new) <= Bounds.High
    BY <1>7, <1>3, BoundsAre
  <2> QED BY <2>1, <2>2, <1>1, <1>4, <1>5, <1>7, <1>10
<1>12. \A r, s \in regions' : r # s =>
         /\ r.object # s.object
         /\ EndOf(r) <= At(s) \/ EndOf(s) <= At(r)
  <2>1. \A r, s \in regions : r # s =>
          /\ r.object # s.object
          /\ EndOf(r) <= At(s) \/ EndOf(s) <= At(r)
    BY DEF HeapInv
  <2>2. \A r \in regions : r.object # new.object /\ EndOf(new) <= At(r)
    BY <1>7, <1>10
  <2> QED BY <2>1, <2>2, <1>1
<1> QED BY <1>1, <1>3, <1>4, <1>5, <1>9, <1>11, <1>12 DEF HeapInv

LEMMA ReleaseStep ==
    ASSUME HeapInv, NEW bo \in Objects, ReleaseBufferObject(bo)
    PROVE  HeapInv'
<1>1. regions' \subseteq regions /\ UNCHANGED <<status, heap, answer>>
  BY DEF ReleaseBufferObject
<1>2. TypeOK'
  BY <1>1 DEF HeapInv, TypeOK, heap
<1>3. status # "SUCCESS" => regions' = {}
  BY <1>1 DEF HeapInv
<1> QED BY <1>1, <1>2, <1>3 DEF HeapInv, heap

LEMMA NextHeapInv == HeapInv /\ [Next]_vars => HeapInv'
<1> SUFFICES ASSUME HeapInv, [Next]_vars PROVE HeapInv'
  OBVIOUS
<1>1. CASE UNCHANGED vars
  BY <1>1 DEF vars, heap, HeapInv, TypeOK
<1>2. CASE HeapAllocatorFails
  BY <1>2 DEF HeapAllocatorFails, heap, HeapInv, TypeOK, Statuses
<1>3. CASE InitHeapAllocatorForSoftpinning
  <2>1. /\ status # "SUCCESS" /\ status' = "SUCCESS"
        /\ gpuBaseAddress' = Base
        /\ pLeftBound' = Bounds.Low
        /\ pRightBound' = Bounds.High
        /\ availableSize' = pRightBound' - pLeftBound'
        /\ allocatedSize' = 0
        /\ UNCHANGED <<regions, answer>>
    BY <1>3, BoundsAre DEF InitHeapAllocatorForSoftpinning, Base, Bounds
  <2>2. regions' = {}
    BY <2>1 DEF HeapInv
  <2>3. TypeOK'
    BY <2>1, BoundsAre DEF HeapInv, TypeOK, Statuses
  <2> QED BY <2>1, <2>2, <2>3, BoundsAre DEF HeapInv
<1>4. ASSUME NEW bo \in Objects, NEW size \in ObjectSizes,
             AllocateHeapMemoryForSoftpinning(bo, size)
      PROVE  HeapInv'
  BY <1>4, AllocateStep
<1>5. ASSUME NEW size \in ObjectSizes, HeapExhausted(size)
      PROVE  HeapInv'
  <2>1. size \in Nat
    BY SoftpinAssumption
  <2> QED BY <2>1, <1>5 DEF HeapExhausted, heap, HeapInv, TypeOK
<1>6. ASSUME NEW bo \in Objects, ReleaseBufferObject(bo)
      PROVE  HeapInv'
  BY <1>6, ReleaseStep
<1> QED BY <1>1, <1>2, <1>3, <1>4, <1>5, <1>6 DEF Next

(* The invariant of the softpin heap holds in every state. *)
THEOREM HeapInvariant == Spec => []HeapInv
  BY InitHeapInv, NextHeapInv, PTL DEF Spec

(* The fields of the heap allocator stay unsigned and every object carries *)
(* addresses (allocateHeapMemoryForSoftpinning).                           *)
THEOREM SoftpinTypeCorrect == Spec => []TypeOK
<1>1. HeapInv => TypeOK
  BY DEF HeapInv
<1> QED BY <1>1, HeapInvariant, PTL

(* The offsets written into commands reach their objects, whatever was     *)
(* allocated and released before.                                          *)
THEOREM SoftpinOffsets == Spec => []OffsetsReachObjects
<1>1. HeapInv => OffsetsReachObjects
  <2> SUFFICES ASSUME HeapInv, NEW r \in regions
               PROVE  LET offset == Minus(r.gpuAddress, r.gpuBaseAddress)
                      IN  /\ offset > 0
                          /\ offset + r.size <= GraphicsHeapSize
                          /\ Decanonize(r.gpuBaseAddress) + offset
                               = Decanonize(r.gpuAddress)
    BY DEF OffsetsReachObjects
  <2>1. /\ r.gpuAddress = Canonize(At(r)) /\ r.gpuBaseAddress = Canonize(Base)
        /\ At(r) \in Nat /\ pRightBound <= At(r) /\ EndOf(r) <= Bounds.High
    BY DEF HeapInv
  <2>2. status = "SUCCESS" /\ Bounds.Low <= pRightBound /\ pRightBound \in Nat
    BY DEF HeapInv, TypeOK
  <2>3. r.size \in Nat /\ At(r) + r.size <= EndOf(r) /\ EndOf(r) \in Nat
    <3>1. r.size \in Nat
      BY SoftpinAssumption DEF HeapInv, TypeOK
    <3> QED BY <3>1, <2>1, PagesOf DEF EndOf
  <2>4. Bounds.Low <= At(r) /\ At(r) + r.size <= Bounds.High
    BY <2>1, <2>2, <2>3, BoundsAre
  <2>5. /\ HalfRange <= At(r) /\ At(r) < 2 * HalfRange
        /\ HalfRange <= Base /\ Base < 2 * HalfRange
    BY <2>1, <2>3, <2>4, BoundsAre, SoftpinAssumption DEF MegaByte, KiloByte
  <2>6. /\ Canonize(At(r)) = At(r) + (Word - 2 * HalfRange)
        /\ Canonize(Base) = Base + (Word - 2 * HalfRange)
        /\ Decanonize(Canonize(Base)) = Base
    BY <2>1, <2>5, BoundsAre, CanonicalRoundTrip
  <2>7. Minus(r.gpuAddress, r.gpuBaseAddress) = At(r) - Base
    BY <2>1, <2>4, <2>6, BoundsAre, SoftpinAssumption DEF Minus, MegaByte, KiloByte
  <2> QED
    BY <2>1, <2>3, <2>4, <2>6, <2>7, BoundsAre, SoftpinAssumption
       DEF At, MegaByte, KiloByte, PageSize64k
<1> QED BY <1>1, HeapInvariant, PTL

-----------------------------------------------------------------------------
(* The refinement *)

PlaceOf(r) == [object |-> r.object, lo |-> At(r), hi |-> EndOf(r)]

LEMMA PlacedIs == Placed = {PlaceOf(r) : r \in regions}
  BY DEF Placed, PlaceOf, At, EndOf

(* A granted allocation reserves the place that was cut off. *)
LEMMA AllocateReserves ==
    ASSUME HeapInv, HeapInv', NEW bo \in Objects, NEW size \in ObjectSizes,
           AllocateHeapMemoryForSoftpinning(bo, size)
    PROVE  Promise!Reserve(bo, size)
<1> DEFINE bytes == AlignUp(size, PageSize)
           new == [object |-> bo, size |-> size,
                   gpuAddress |-> Canonize(pRightBound'),
                   gpuBaseAddress |-> Canonize(gpuBaseAddress)]
           k == (pRightBound' - Bounds.Low) \div PageSize
           lo == Bounds.Low + k * PageSize
           place == [object |-> bo, lo |-> lo, hi |-> lo + Promise!Rounded(size)]
<1>1. /\ status = "SUCCESS" /\ status' = "SUCCESS"
      /\ \A r \in regions : r.object # bo
      /\ pRightBound' = pRightBound - bytes
      /\ allocatedSize' = allocatedSize + bytes
      /\ regions' = regions \cup {new}
      /\ answer' = [length |-> size, granted |-> TRUE]
  BY DEF AllocateHeapMemoryForSoftpinning
<1>2. size \in Nat /\ bytes \in Nat /\ Promise!Rounded(size) = bytes
  <2>1. size \in Nat
    BY SoftpinAssumption
  <2> QED BY <2>1, PagesOf DEF Promise!Rounded, AlignUp
<1>3. /\ pRightBound \in Nat /\ pRightBound' \in Nat
      /\ Bounds.Low <= pRightBound' /\ pRightBound <= Bounds.High
      /\ pRightBound' % PageSize = 0
  <2>1. /\ pRightBound \in Nat /\ pRightBound' \in Nat /\ allocatedSize \in Nat
        /\ pRightBound + allocatedSize = Bounds.High
        /\ pLeftBound' = Bounds.Low /\ pLeftBound' <= pRightBound'
        /\ pRightBound' % PageSize = 0
    <3>1. pRightBound + allocatedSize = Bounds.High
      BY <1>1 DEF HeapInv
    <3>2. Bounds.High' = Bounds.High /\ Bounds.Low' = Bounds.Low
      BY DEF Bounds
    <3> QED BY <1>1, <3>1, <3>2 DEF HeapInv, TypeOK
  <2> QED BY <2>1, BoundsAre
<1>4. k \in 0..((Bounds.High - Bounds.Low) \div PageSize) /\ lo = pRightBound'
  <2> HIDE DEF bytes
  <2>1. pRightBound' <= Bounds.High
    BY <1>1, <1>2, <1>3, BoundsAre
  <2> QED BY <2>1, <1>3, BoundsAre, PageIndex
<1> HIDE DEF k
<1>5. place = PlaceOf(new) /\ place.hi = pRightBound
  <2>1. new \in regions' /\ bytes = AlignUp(new.size, PageSize) /\ new.object = bo
    BY <1>1
  <2>2. At(new) = pRightBound'
    <3>1. /\ HalfRange <= pRightBound' /\ pRightBound' < 2 * HalfRange
      BY <1>1, <1>2, <1>3, BoundsAre, SoftpinAssumption DEF MegaByte, KiloByte
    <3> QED BY <3>1, <1>3, CanonicalRoundTrip DEF At
  <2>3. EndOf(new) = pRightBound' + bytes
    BY <2>1, <2>2 DEF EndOf
  <2> QED BY <2>1, <2>2, <2>3, <1>1, <1>2, <1>3, <1>4 DEF PlaceOf
<1>6. Placed' = Placed \cup {place}
  <2>1. Placed' = {PlaceOf(r) : r \in regions'}
    BY DEF Placed, PlaceOf, At, EndOf
  <2> HIDE DEF place, new
  <2> QED BY <2>1, <1>1, <1>5, PlacedIs
<1>7. \A p \in Placed : p.object # bo /\ Promise!Apart(place, p)
  <2> SUFFICES ASSUME NEW r \in regions
               PROVE  PlaceOf(r).object # bo /\ Promise!Apart(place, PlaceOf(r))
    BY PlacedIs
  <2>1. pRightBound <= At(r)
    BY DEF HeapInv
  <2>2. place.hi <= PlaceOf(r).lo /\ PlaceOf(r).object # bo
    BY <2>1, <1>1, <1>5 DEF PlaceOf
  <2> QED BY <2>2 DEF Promise!Apart
<1> QED
  <2>1. /\ place.hi <= Bounds.High
        /\ \A p \in Placed : Promise!Apart(place, p)
        /\ Placed' = Placed \cup {place}
    BY <1>3, <1>5, <1>6, <1>7
  <2>2. \E j \in 0..((Bounds.High - Bounds.Low) \div PageSize) :
          LET l == Bounds.Low + j * PageSize
              region == [object |-> bo, lo |-> l, hi |-> l + Promise!Rounded(size)]
          IN  /\ region.hi <= Bounds.High
              /\ \A p \in Placed : Promise!Apart(region, p)
              /\ Placed' = Placed \cup {region}
    BY <2>1, <1>4
  <2>3. \A p \in Placed : p.object # bo
    BY <1>7
  <2>4. /\ allocatedSize' = allocatedSize + Promise!Rounded(size)
        /\ answer' = [length |-> size, granted |-> TRUE]
    BY <1>1, <1>2
  <2> QED BY <2>2, <2>3, <2>4 DEF Promise!Reserve

LEMMA ExhaustedRefuses ==
    ASSUME HeapInv, NEW size \in ObjectSizes, HeapExhausted(size)
    PROVE  Promise!Refuse(size)
<1>1. size \in Nat /\ Promise!Rounded(size) = AlignUp(size, PageSize)
  BY SoftpinAssumption DEF Promise!Rounded, AlignUp
<1>2. /\ pLeftBound = Bounds.Low /\ pRightBound + allocatedSize = Bounds.High
      /\ pLeftBound + AlignUp(size, PageSize) > pRightBound
      /\ pLeftBound \in Nat /\ pRightBound \in Nat /\ allocatedSize \in Nat
  BY DEF HeapExhausted, HeapInv, TypeOK
<1>3. allocatedSize + Promise!Rounded(size) > Bounds.High - Bounds.Low
  BY <1>1, <1>2, PagesOf
<1>4. Placed' = Placed /\ allocatedSize' = allocatedSize
  BY DEF HeapExhausted, heap, Placed
<1> QED BY <1>3, <1>4 DEF HeapExhausted, Promise!Refuse

LEMMA ReleaseReleases ==
    ASSUME HeapInv, NEW bo \in Objects, ReleaseBufferObject(bo)
    PROVE  Promise!Release(bo)
<1>1. \E p \in Placed : p.object = bo
  <2>1. PICK r \in regions : r.object = bo
    BY DEF ReleaseBufferObject
  <2>2. PlaceOf(r) \in Placed /\ PlaceOf(r).object = bo
    BY <2>1, PlacedIs DEF PlaceOf
  <2> QED BY <2>2
<1>2. Placed' = {p \in Placed : p.object # bo}
  <2>1. Placed' = {PlaceOf(r) : r \in regions'}
    BY DEF Placed, PlaceOf, At, EndOf
  <2>2. \A r : PlaceOf(r).object = r.object
    BY DEF PlaceOf
  <2> QED BY <2>1, <2>2, PlacedIs DEF ReleaseBufferObject
<1> QED BY <1>1, <1>2 DEF ReleaseBufferObject, heap, Promise!Release

(* The heap keeps the promise of AddressSpace: disjoint aligned regions    *)
(* inside the window, refused only when the window is used up.             *)
THEOREM SoftpinImplements == Spec => ImplementsAddressSpace
<1>1. Init => Promise!Init
  BY DEF Init, Promise!Init, Placed
<1>2. HeapInv /\ HeapInv' /\ [Next]_vars => [Promise!Next]_(Promise!vars)
  <2> SUFFICES ASSUME HeapInv, HeapInv', [Next]_vars
               PROVE  Promise!Next \/ UNCHANGED Promise!vars
    OBVIOUS
  <2>1. CASE UNCHANGED vars
    BY <2>1 DEF vars, heap, Promise!vars, Placed
  <2>2. CASE HeapAllocatorFails
    BY <2>2 DEF HeapAllocatorFails, heap, Promise!vars, Placed
  <2>3. CASE InitHeapAllocatorForSoftpinning
    BY <2>3 DEF InitHeapAllocatorForSoftpinning, HeapInv, Promise!vars, Placed
  <2>4. ASSUME NEW bo \in Objects, NEW size \in ObjectSizes,
               AllocateHeapMemoryForSoftpinning(bo, size)
        PROVE  Promise!Next
    BY <2>4, AllocateReserves DEF Promise!Next
  <2>5. ASSUME NEW size \in ObjectSizes, HeapExhausted(size)
        PROVE  Promise!Next
    BY <2>5, ExhaustedRefuses DEF Promise!Next
  <2>6. ASSUME NEW bo \in Objects, ReleaseBufferObject(bo)
        PROVE  Promise!Next
    BY <2>6, ReleaseReleases DEF Promise!Next
  <2> QED BY <2>1, <2>2, <2>3, <2>4, <2>5, <2>6 DEF Next
<1> QED BY <1>1, <1>2, HeapInvariant, PTL DEF Spec, ImplementsAddressSpace, Promise!Spec
=============================================================================
