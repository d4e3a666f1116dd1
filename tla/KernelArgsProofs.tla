------------------------- MODULE KernelArgsProofs -------------------------
(***************************************************************************)
(* The arguments of a kernel, for every signature, every size and contents *)
(* of the arguments and every sequence of SetKernelArg and ExecuteKernel.  *)
(* What is said of local arguments is for kernels with at most two of      *)
(* them: setArgLocal gives all those behind the one it sets one offset.    *)
(***************************************************************************)
EXTENDS KernelArgs, TLAPS

AtMostTwoLocals ==
    \A s \in Signatures : \A i, j, k \in DOMAIN s :
        s[i] = "local" /\ s[j] = "local" /\ s[k] = "local" => i = j \/ j = k \/ i = k

(* Types of everything but the offsets of local arguments. *)
ArgTypes ==
    /\ kinds \in Signatures
    /\ argIsSet \subseteq Args /\ refused \subseteq Args
    /\ DOMAIN crossThreadData = Args
    /\ \A i \in Args :
         /\ kinds[i] = "value" => crossThreadData[i] \in [1..Halves -> Values \cup {Null}]
         /\ i \in BufferArgs => crossThreadData[i] \in Pointers
    /\ surfaceState \in [Args -> Pointers]
    /\ execData \in [Args -> Pointers]
    /\ released \subseteq Buffers
    /\ localSize \in [Args -> LocalSizes \cup {0}]
    /\ calls \in 0..MaxCalls

(* An argument is marked by a call that was accepted or by one that was    *)
(* refused, and an accepted call finds or leaves the argument marked.      *)
MarkInv ==
    /\ DOMAIN firstValid = Args
    /\ \A i \in argIsSet : i \in refused \/ firstValid[i] # <<>>
    /\ \A i \in Args : firstValid[i] # <<>> => i \in argIsSet

ArgsInv == ArgTypes /\ MarkInv /\ FirstValidCallCounts /\ ResidentWhatIsReferenced

(* Of two local arguments the first is at offset zero and the second right *)
(* behind it; all sizes and gaps so far are in the sum.                    *)
LocalInv ==
    /\ sharedLocalMemorySize \in Nat
    /\ \A i \in LocalArgs :
         /\ crossThreadData[i] \in Nat
         /\ EndOf(i) <= sharedLocalMemorySize
         /\ (\A j \in LocalArgs : i <= j) => crossThreadData[i] = 0
    /\ \A i, j \in LocalArgs : i < j =>
         /\ crossThreadData[i] = 0
         /\ crossThreadData[j] = AlignUp(localSize[i], SlmAlignment)
         /\ AlignUp(crossThreadData[j], KiloByte) <= sharedLocalMemorySize

-----------------------------------------------------------------------------
(* Arithmetic *)

(* Rounding up to any alignment. *)
LEMMA AlignUpAny ==
    ASSUME NEW n \in Nat, NEW a \in Nat \ {0}
    PROVE  AlignUp(n, a) \in Nat /\ AlignUp(n, a) >= n
<1> DEFINE m == n + a - 1
           q == m \div a
           r == m % a
<1>1. m \in Nat /\ q \in Nat /\ r \in 0..(a - 1) /\ m = a * q + r
  OBVIOUS
<1>2. AlignUp(n, a) = q * a
  BY DEF AlignUp
<1> HIDE DEF q, r
<1>3. q * a = a * q /\ q * a \in Nat
  BY <1>1
<1>4. q * a = m - r
  BY <1>1, <1>3
<1>5. q * a >= n
  BY <1>1, <1>4
<1> QED BY <1>2, <1>3, <1>5

LEMMA KiloUp ==
    ASSUME NEW n \in Int, n >= -128
    PROVE  AlignUp(n, KiloByte) \in Nat /\ AlignUp(n, KiloByte) >= n
  BY DEF AlignUp, KiloByte

LEMMA SignedCharRange ==
    ASSUME NEW n \in Nat
    PROVE  SignedChar(n) \in Int /\ SignedChar(n) >= -128
  BY DEF SignedChar

(* What the sum holds of the gap before an argument makes up for an offset *)
(* that is read as a negative character.                                   *)
LEMMA GapCoversSign ==
    ASSUME NEW n \in Nat
    PROVE  AlignUp(n, KiloByte) + SignedChar(n) >= n
  BY DEF AlignUp, SignedChar, KiloByte

LEMMA SignedCharZero == SignedChar(0) = 0
  BY DEF SignedChar

(* The hardware reserves what is asked for, or all it has. *)
LEMMA SlmReservedEnough ==
    ASSUME NEW n \in Nat
    PROVE  /\ SlmReserved(n) \in Nat
           /\ SlmReserved(n) >= n \/ SlmReserved(n) = 64 * KiloByte
<1> DEFINE r == AlignUp(n, KiloByte)
           sizes == {KiloByte * m : m \in {1, 2, 4, 8, 16, 32, 64}}
           fits(s) == s >= r /\ \A t \in sizes : t >= r => s <= t
<1>1. r \in Nat /\ r >= n
  BY KiloUp
<1> HIDE DEF r
<1>2. CASE r = 0
  BY <1>1, <1>2 DEF SlmReserved, r
<1>3. CASE r > 64 * KiloByte
  BY <1>1, <1>3 DEF SlmReserved, r, KiloByte
<1>4. CASE r # 0 /\ ~(r > 64 * KiloByte)
  <2>1. sizes = {1024, 2048, 4096, 8192, 16384, 32768, 65536}
    BY DEF KiloByte
  <2>2. r <= 65536
    BY <1>1, <1>4 DEF KiloByte
  <2> HIDE DEF sizes
  <2>3. \E s \in sizes : fits(s)
    <3>1. CASE r <= 1024
      BY <1>1, <2>1, <3>1
    <3>2. CASE 1024 < r /\ r <= 2048
      BY <1>1, <2>1, <3>2
    <3>3. CASE 2048 < r /\ r <= 4096
      BY <1>1, <2>1, <3>3
    <3>4. CASE 4096 < r /\ r <= 8192
      BY <1>1, <2>1, <3>4
    <3>5. CASE 8192 < r /\ r <= 16384
      BY <1>1, <2>1, <3>5
    <3>6. CASE 16384 < r /\ r <= 32768
      BY <1>1, <2>1, <3>6
    <3>7. CASE 32768 < r
      BY <1>1, <2>1, <2>2, <3>7
    <3> QED BY <1>1, <3>1, <3>2, <3>3, <3>4, <3>5, <3>6, <3>7
  <2>4. SlmReserved(n) = CHOOSE s \in sizes : fits(s)
    BY <1>4 DEF SlmReserved, r, sizes
  <2>5. fits(SlmReserved(n)) /\ SlmReserved(n) \in sizes
    BY <2>3, <2>4
  <2> QED BY <1>1, <2>1, <2>5
<1> QED BY <1>1, <1>2, <1>3, <1>4 DEF KiloByte

LEMMA ArgsAreIntegers ==
    ASSUME kinds \in Signatures
    PROVE  /\ Args \subseteq Nat /\ kinds \in Seq(Kinds)
           /\ \A i \in Args : kinds[i] \in Kinds
  BY KernelArgsAssumption DEF Args

-----------------------------------------------------------------------------
(* What holds for every kernel *)

LEMMA StepCases ==
    ASSUME Next
    PROVE  \/ \E i \in Args : SetRefused(i) \/ \E argument : SetMarked(i, argument)
           \/ \E i \in Args, n \in ValueSizes, v \in Values : SetArgImmediate(i, n, v)
           \/ \E i \in Args, n \in LocalSizes : SetArgLocal(i, n)
           \/ \E i \in Args, buffer \in Live \cup {Null} : SetArgBuffer(i, buffer)
           \/ \E accepted \in BOOLEAN : SubmitExecBuffer(accepted)
           \/ \E buffer \in Buffers : ReleaseBuffer(buffer)
  BY DEF Next, SetKernelArg

LEMMA InitArgsInv == Init => ArgsInv
<1> SUFFICES ASSUME Init PROVE ArgsInv
  OBVIOUS
<1>1. \A i \in Args : /\ crossThreadData[i] =
                           CASE kinds[i] = "local" -> 0
                             [] kinds[i] = "value" -> [h \in 1..Halves |-> Null]
                             [] OTHER -> Null
                      /\ surfaceState[i] = Null /\ execData[i] = Null
                      /\ firstValid[i] = <<>>
  BY DEF Init
<1>2. ArgTypes
  BY <1>1, KernelArgsAssumption DEF Init, ArgTypes, BufferArgs, Pointers
<1>3. MarkInv /\ FirstValidCallCounts
  BY <1>1 DEF Init, MarkInv, FirstValidCallCounts
<1>4. ResidentWhatIsReferenced
  BY <1>1 DEF Init, ResidentWhatIsReferenced, BufferArgs
<1> QED BY <1>2, <1>3, <1>4 DEF ArgsInv

LEMMA StepArgsInv ==
    ASSUME ArgsInv, Next
    PROVE  ArgsInv'
<1> USE DEF ArgsInv, ArgTypes, MarkInv
<1>1. ASSUME NEW i \in Args, NEW argument, SetMarked(i, argument)
      PROVE  ArgsInv'
  <2>1. /\ i \in argIsSet
        /\ UNCHANGED <<kinds, argIsSet, crossThreadData, surfaceState, execData, released,
                       refused, localSize, calls>>
        /\ firstValid' =
             [firstValid EXCEPT ![i] = IF @ = <<>> THEN <<argument>> ELSE @]
    BY <1>1 DEF SetMarked, data
  <2>2. /\ DOMAIN firstValid' = Args /\ firstValid'[i] # <<>>
        /\ \A j \in Args : j # i => firstValid'[j] = firstValid[j]
        /\ i \notin refused => firstValid'[i] = firstValid[i]
    <3>1. <<argument>> # <<>>
      OBVIOUS
    <3> QED BY <1>1, <2>1, <3>1
  <2>3. ArgTypes' /\ MarkInv'
    BY <2>1, <2>2 DEF Args, BufferArgs
  <2>4. FirstValidCallCounts'
    BY <2>1, <2>2 DEF FirstValidCallCounts, Args, LocalArgs
  <2>5. ResidentWhatIsReferenced'
    BY <2>1 DEF ResidentWhatIsReferenced, Args, BufferArgs
  <2> QED BY <2>3, <2>4, <2>5
<1>2. ASSUME NEW i \in Args, SetRefused(i)
      PROVE  ArgsInv'
  <2>1. /\ i \notin argIsSet /\ argIsSet' = argIsSet \cup {i} /\ refused' = refused \cup {i}
        /\ UNCHANGED <<kinds, crossThreadData, surfaceState, execData, released,
                       firstValid, localSize, calls>>
    BY <1>2 DEF SetRefused, data
  <2>2. ArgTypes' /\ MarkInv'
    BY <2>1 DEF Args, BufferArgs
  <2>3. FirstValidCallCounts'
    BY <2>1 DEF FirstValidCallCounts, Args, LocalArgs
  <2>4. ResidentWhatIsReferenced'
    BY <2>1 DEF ResidentWhatIsReferenced, Args, BufferArgs
  <2> QED BY <2>2, <2>3, <2>4
<1>3. ASSUME NEW i \in Args, NEW argument, i \notin argIsSet, Accept(i, argument),
             argIsSet' = argIsSet \cup {i}
      PROVE  /\ MarkInv' /\ firstValid'[i] = <<argument>>
             /\ \A j \in Args : j # i => firstValid'[j] = firstValid[j]
  <2>1. /\ firstValid' = [firstValid EXCEPT ![i] = IF @ = <<>> THEN <<argument>> ELSE @]
        /\ UNCHANGED <<kinds, refused>>
    BY <1>3 DEF Accept
  <2>2. firstValid[i] = <<>> /\ <<argument>> # <<>>
    BY <1>3
  <2>3. /\ DOMAIN firstValid' = Args /\ firstValid'[i] = <<argument>>
        /\ \A j \in Args : j # i => firstValid'[j] = firstValid[j]
    BY <2>1, <2>2
  <2>4. MarkInv'
    BY <1>3, <2>1, <2>2, <2>3 DEF Args
  <2> QED BY <2>3, <2>4
<1>4. ASSUME NEW i \in Args, NEW n \in ValueSizes, NEW v \in Values, SetArgImmediate(i, n, v)
      PROVE  ArgsInv'
  <2> DEFINE a == [size |-> n, value |-> v]
  <2>1. /\ i \notin argIsSet /\ kinds[i] = "value" /\ argIsSet' = argIsSet \cup {i}
        /\ crossThreadData' = [crossThreadData EXCEPT ![i] =
             [h \in 1..Halves |-> IF h <= n THEN v ELSE crossThreadData[i][h]]]
        /\ Accept(i, a)
        /\ UNCHANGED <<kinds, released, refused, surfaceState, execData, localSize, calls>>
    BY <1>4 DEF SetArgImmediate, Accept
  <2>2. /\ MarkInv' /\ firstValid'[i] = <<a>>
        /\ \A j \in Args : j # i => firstValid'[j] = firstValid[j]
    BY <1>3, <2>1
  <2>3. /\ DOMAIN crossThreadData' = Args
        /\ \A j \in Args : j # i => crossThreadData'[j] = crossThreadData[j]
        /\ \A h \in 1..Halves : h <= n => crossThreadData'[i][h] = v
        /\ crossThreadData'[i] \in [1..Halves -> Values \cup {Null}]
    BY <2>1
  <2>4. ArgTypes'
    BY <2>1, <2>3 DEF Args, BufferArgs
  <2>5. FirstValidCallCounts'
    <3> SUFFICES ASSUME NEW j \in Args, j \notin LocalArgs \cup refused, firstValid'[j] # <<>>
                 PROVE  LET argument == firstValid'[j][1]
                        IN  IF kinds[j] = "value"
                            THEN \A h \in 1..Halves :
                                   h <= argument.size => crossThreadData'[j][h] = argument.value
                            ELSE /\ surfaceState[j] = argument.value
                                 /\ kinds[j] = "stateless" =>
                                      crossThreadData'[j] = argument.value
      BY <2>1 DEF FirstValidCallCounts, Args, LocalArgs
    <3>1. CASE j = i
      <4>1. firstValid'[j][1] = a
        BY <2>2, <3>1
      <4> QED BY <2>1, <2>3, <3>1, <4>1
    <3>2. CASE j # i
      BY <2>2, <2>3, <3>2 DEF FirstValidCallCounts
    <3> QED BY <3>1, <3>2
  <2>6. ResidentWhatIsReferenced'
    BY <2>1, <2>3 DEF ResidentWhatIsReferenced, Args, BufferArgs
  <2> QED BY <2>2, <2>4, <2>5, <2>6
<1>5. ASSUME NEW i \in Args, NEW n \in LocalSizes, SetArgLocal(i, n)
      PROVE  ArgsInv'
  <2> DEFINE a == [size |-> n, value |-> Null]
  <2>1. /\ i \notin argIsSet /\ kinds[i] = "local" /\ argIsSet' = argIsSet \cup {i}
        /\ calls < MaxCalls /\ calls' = calls + 1
        /\ DOMAIN crossThreadData' = Args
        /\ \A j \in Args : j \notin LocalArgs => crossThreadData'[j] = crossThreadData[j]
        /\ localSize' = [localSize EXCEPT ![i] = n]
        /\ Accept(i, a)
        /\ UNCHANGED <<kinds, released, refused, surfaceState, execData>>
    BY <1>5 DEF SetArgLocal, Accept
  <2>2. /\ MarkInv' /\ firstValid'[i] = <<a>>
        /\ \A j \in Args : j # i => firstValid'[j] = firstValid[j]
    BY <1>3, <2>1
  <2>3. /\ calls' \in 0..MaxCalls
        /\ localSize' \in [Args -> LocalSizes \cup {0}]
    BY <2>1, KernelArgsAssumption
  <2>4. ArgTypes'
    BY <2>1, <2>3 DEF Args, BufferArgs, LocalArgs
  <2>5. FirstValidCallCounts'
    BY <2>1, <2>2 DEF FirstValidCallCounts, Args, LocalArgs
  <2>6. ResidentWhatIsReferenced'
    BY <2>1 DEF ResidentWhatIsReferenced, Args, BufferArgs, LocalArgs
  <2> QED BY <2>2, <2>4, <2>5, <2>6
<1>6. ASSUME NEW i \in Args, NEW buffer \in Live \cup {Null}, SetArgBuffer(i, buffer)
      PROVE  ArgsInv'
  <2> DEFINE a == [size |-> 0, value |-> buffer]
  <2>1. /\ i \notin argIsSet /\ i \in BufferArgs /\ argIsSet' = argIsSet \cup {i}
        /\ crossThreadData' = IF kinds[i] = "stateless"
             THEN [crossThreadData EXCEPT ![i] = buffer] ELSE crossThreadData
        /\ surfaceState' = [surfaceState EXCEPT ![i] = buffer]
        /\ execData' = IF buffer = Null THEN execData
             ELSE [execData EXCEPT ![i] = buffer]
        /\ Accept(i, a)
        /\ UNCHANGED <<kinds, released, refused, localSize, calls>>
    BY <1>6 DEF SetArgBuffer, Accept
  <2>2. /\ MarkInv' /\ firstValid'[i] = <<a>>
        /\ \A j \in Args : j # i => firstValid'[j] = firstValid[j]
    BY <1>3, <2>1
  <2>3. /\ DOMAIN crossThreadData' = Args
        /\ surfaceState' \in [Args -> Pointers] /\ execData' \in [Args -> Pointers]
        /\ \A j \in Args : j # i => /\ crossThreadData'[j] = crossThreadData[j]
                                    /\ surfaceState'[j] = surfaceState[j]
                                    /\ execData'[j] = execData[j]
        /\ surfaceState'[i] = buffer
        /\ buffer # Null => execData'[i] = buffer
        /\ kinds[i] = "stateless" => crossThreadData'[i] = buffer
        /\ kinds[i] # "stateless" => crossThreadData'[i] = crossThreadData[i]
        /\ buffer \in Pointers
    BY <2>1 DEF Live, Pointers
  <2>4. ArgTypes'
    BY <2>1, <2>3 DEF Args, BufferArgs, Pointers
  <2>5. FirstValidCallCounts'
    <3> SUFFICES ASSUME NEW j \in Args, j \notin LocalArgs \cup refused, firstValid'[j] # <<>>
                 PROVE  LET argument == firstValid'[j][1]
                        IN  IF kinds[j] = "value"
                            THEN \A h \in 1..Halves :
                                   h <= argument.size => crossThreadData'[j][h] = argument.value
                            ELSE /\ surfaceState'[j] = argument.value
                                 /\ kinds[j] = "stateless" =>
                                      crossThreadData'[j] = argument.value
      BY <2>1 DEF FirstValidCallCounts, Args, LocalArgs
    <3>1. CASE j = i
      <4>1. firstValid'[j][1] = a /\ kinds[j] # "value"
        BY <2>1, <2>2, <3>1 DEF BufferArgs
      <4> QED BY <2>1, <2>3, <3>1, <4>1
    <3>2. CASE j # i
      BY <2>2, <2>3, <3>2 DEF FirstValidCallCounts
    <3> QED BY <3>1, <3>2
  <2>6. ResidentWhatIsReferenced'
    <3> SUFFICES ASSUME NEW j \in BufferArgs
                 PROVE  /\ surfaceState'[j] # Null => execData'[j] = surfaceState'[j]
                        /\ kinds[j] = "stateless" => crossThreadData'[j] = surfaceState'[j]
                        /\ execData'[j] \in released => surfaceState'[j] = Null
      BY <2>1 DEF ResidentWhatIsReferenced, Args, BufferArgs
    <3>1. CASE j = i
      BY <2>3, <3>1 DEF Live
    <3>2. CASE j # i
      BY <2>3, <3>2 DEF ResidentWhatIsReferenced, BufferArgs
    <3> QED BY <3>1, <3>2
  <2> QED BY <2>2, <2>4, <2>5, <2>6
<1>7. ASSUME NEW accepted \in BOOLEAN, SubmitExecBuffer(accepted)
      PROVE  ArgsInv'
  <2>1. /\ argIsSet' = {} /\ firstValid' = [j \in Args |-> <<>>] /\ refused' = {}
        /\ UNCHANGED <<kinds, crossThreadData, surfaceState, execData, released,
                       localSize, calls>>
    BY <1>7 DEF SubmitExecBuffer, data
  <2>2. ArgTypes' /\ MarkInv'
    BY <2>1 DEF Args, BufferArgs
  <2>3. FirstValidCallCounts'
    BY <2>1 DEF FirstValidCallCounts, Args
  <2>4. ResidentWhatIsReferenced'
    BY <2>1 DEF ResidentWhatIsReferenced, Args, BufferArgs
  <2> QED BY <2>2, <2>3, <2>4
<1>8. ASSUME NEW buffer \in Buffers, ReleaseBuffer(buffer)
      PROVE  ArgsInv'
  <2>1. /\ \A j \in Args : surfaceState[j] # buffer
        /\ released' = released \cup {buffer}
        /\ UNCHANGED <<kinds, argIsSet, crossThreadData, surfaceState, execData,
                       firstValid, refused, localSize, calls>>
    BY <1>8 DEF ReleaseBuffer, data
  <2>2. ArgTypes' /\ MarkInv'
    BY <2>1 DEF Args, BufferArgs
  <2>3. FirstValidCallCounts'
    BY <2>1 DEF FirstValidCallCounts, Args, LocalArgs
  <2>4. ResidentWhatIsReferenced'
    BY <2>1 DEF ResidentWhatIsReferenced, Args, BufferArgs
  <2> QED BY <2>2, <2>3, <2>4
<1> QED BY <1>1, <1>2, <1>4, <1>5, <1>6, <1>7, <1>8, StepCases

LEMMA StutterArgs ==
    ASSUME ArgsInv, UNCHANGED vars
    PROVE  ArgsInv'
<1>1. UNCHANGED <<kinds, argIsSet, crossThreadData, surfaceState, execData, released,
                  firstValid, refused, localSize, calls>>
  BY DEF vars, data
<1>2. ArgTypes' /\ MarkInv'
  BY <1>1 DEF ArgsInv, ArgTypes, MarkInv, Args, BufferArgs
<1>3. FirstValidCallCounts' /\ ResidentWhatIsReferenced'
  BY <1>1 DEF ArgsInv, FirstValidCallCounts, ResidentWhatIsReferenced, Args, LocalArgs,
              BufferArgs
<1> QED BY <1>2, <1>3 DEF ArgsInv

(* In every state: see the parts of ArgsInv.                               *)
THEOREM ArgsInvariant == Spec => []ArgsInv
<1>1. ArgsInv /\ [Next]_vars => ArgsInv'
  BY StepArgsInv, StutterArgs
<1> QED BY <1>1, InitArgsInv, PTL DEF Spec

(* A launch uses the first acceptable call for each argument since the     *)
(* previous submission, unless a call for that argument was refused        *)
(* (setArgument, kernel.cpp), in every sequence of calls.                  *)
THEOREM FirstValidCallCountsTheorem == Spec => []FirstValidCallCounts
<1>1. ArgsInv => FirstValidCallCounts
  BY DEF ArgsInv
<1> QED BY <1>1, ArgsInvariant, PTL

(* Every buffer that a launch can reach through a surface or a pointer is  *)
(* an exec object of its batch, however often arguments were replaced, set *)
(* to null and buffers released (setArgBuffer, kernel.cpp).                *)
THEOREM ResidentWhatIsReferencedTheorem == Spec => []ResidentWhatIsReferenced
<1>1. ArgsInv => ResidentWhatIsReferenced
  BY DEF ArgsInv
<1> QED BY <1>1, ArgsInvariant, PTL

-----------------------------------------------------------------------------
(* Local arguments *)

LEMMA InitLocalInv == ArgsInv /\ Init => LocalInv
<1> SUFFICES ASSUME ArgsInv, Init PROVE LocalInv
  OBVIOUS
<1>1. /\ sharedLocalMemorySize = 0 /\ \A i \in Args : localSize[i] = 0
      /\ \A i \in LocalArgs : i \in Args /\ crossThreadData[i] = 0
  BY DEF Init, LocalArgs
<1>2. AlignUp(0, SlmAlignment) = 0
  <2>1. (0 + SlmAlignment - 1) \div SlmAlignment = 0
    BY KernelArgsAssumption
  <2> QED BY <2>1, KernelArgsAssumption DEF AlignUp
<1>3. AlignUp(0, KiloByte) = 0
  BY DEF AlignUp, KiloByte
<1> QED BY <1>1, <1>2, <1>3 DEF LocalInv, EndOf

LEMMA SetArgLocalStep ==
    ASSUME AtMostTwoLocals, ArgsInv, LocalInv, NEW i \in Args, NEW n \in LocalSizes,
           SetArgLocal(i, n)
    PROVE  LocalInv'
<1> DEFINE later == {j \in LocalArgs : j > i}
           end == SignedChar(crossThreadData[i]) + n
           next == IF later = {} THEN end ELSE AlignUp(end, SlmAlignment)
           slm == sharedLocalMemorySize
           ctd == crossThreadData
<1>1. /\ i \in LocalArgs
      /\ \A j \in Args : ctd'[j] = IF j \in later THEN next ELSE ctd[j]
      /\ slm' = slm + AlignUp(next, KiloByte)
      /\ localSize' = [localSize EXCEPT ![i] = n]
      /\ kinds' = kinds /\ LocalArgs' = LocalArgs /\ Args' = Args
  BY DEF SetArgLocal, Accept, LocalArgs, Args
<1>2. /\ Args \subseteq Nat /\ LocalArgs \subseteq Args /\ n \in Nat
      /\ \A j, k, l \in LocalArgs : j = k \/ k = l \/ j = l
      /\ SlmAlignment \in Nat \ {0}
      /\ \A j \in LocalArgs : localSize[j] \in Nat
  <2>1. Args \subseteq Nat /\ LocalArgs \subseteq Args
    BY ArgsAreIntegers DEF LocalArgs, ArgsInv, ArgTypes
  <2>2. \A j, k, l \in LocalArgs : j = k \/ k = l \/ j = l
    BY DEF AtMostTwoLocals, LocalArgs, Args, ArgsInv, ArgTypes
  <2>3. n \in Nat /\ SlmAlignment \in Nat \ {0}
    BY KernelArgsAssumption
  <2>4. \A j \in LocalArgs : localSize[j] \in Nat
    BY <2>1, KernelArgsAssumption DEF ArgsInv, ArgTypes
  <2> QED BY <2>1, <2>2, <2>3, <2>4
<1>3. /\ \A j \in LocalArgs : j # i => localSize'[j] = localSize[j]
      /\ localSize'[i] = n
  BY <1>1, <1>2 DEF ArgsInv, ArgTypes
<1>4. /\ slm \in Nat
      /\ \A j \in LocalArgs : /\ ctd[j] \in Nat /\ ctd[j] + localSize[j] <= slm
                              /\ (\A k \in LocalArgs : j <= k) => ctd[j] = 0
      /\ \A j, k \in LocalArgs : j < k =>
           /\ ctd[j] = 0
           /\ ctd[k] = AlignUp(localSize[j], SlmAlignment)
           /\ AlignUp(ctd[k], KiloByte) <= slm
  BY DEF LocalInv, EndOf
<1>5. end \in Int /\ end >= -128 + n /\ end >= -128
  BY <1>1, <1>2, <1>4, SignedCharRange
<1>6. CASE later = {}
  <2>1. next = end /\ (\A j \in LocalArgs : j <= i) /\ \A j \in Args : ctd'[j] = ctd[j]
    BY <1>1, <1>2, <1>6
  <2> HIDE DEF next, later
  <2>2. AlignUp(end, KiloByte) \in Nat /\ AlignUp(end, KiloByte) >= end
    BY <1>5, KiloUp
  <2>3. slm' \in Nat /\ slm' >= slm /\ slm' = slm + AlignUp(end, KiloByte)
    BY <1>1, <1>4, <2>1, <2>2
  <2>4. ctd[i] + n <= slm'
    <3>1. CASE \E j \in LocalArgs : j < i
      <4>1. AlignUp(ctd[i], KiloByte) <= slm
        BY <1>1, <1>4, <3>1
      <4>2. AlignUp(ctd[i], KiloByte) + SignedChar(ctd[i]) >= ctd[i]
        BY <1>1, <1>4, GapCoversSign
      <4>3. AlignUp(ctd[i], KiloByte) \in Nat /\ SignedChar(ctd[i]) \in Int
        BY <1>1, <1>4, KiloUp, SignedCharRange
      <4>5. slm' >= slm + SignedChar(ctd[i]) + n
        BY <1>1, <1>2, <1>4, <2>2, <2>3, <4>3
      <4>4. slm' >= AlignUp(ctd[i], KiloByte) + SignedChar(ctd[i]) + n
        BY <1>2, <1>4, <2>3, <4>1, <4>3, <4>5
      <4> QED BY <1>1, <1>2, <1>4, <2>3, <4>2, <4>3, <4>4
    <3>2. CASE ~\E j \in LocalArgs : j < i
      <4>1. \A j \in LocalArgs : i <= j
        BY <1>1, <1>2, <3>2
      <4>2. ctd[i] = 0 /\ end = n
        BY <1>1, <1>2, <1>4, <4>1, SignedCharZero
      <4> QED BY <1>2, <1>4, <2>2, <2>3, <4>2
    <3> QED BY <3>1, <3>2
  <2>5. \A j \in LocalArgs : ctd'[j] + localSize'[j] <= slm'
    BY <1>2, <1>3, <1>4, <2>1, <2>3, <2>4
  <2>6. \A j, k \in LocalArgs : j < k =>
          /\ ctd'[j] = 0
          /\ ctd'[k] = AlignUp(localSize'[j], SlmAlignment)
          /\ AlignUp(ctd'[k], KiloByte) <= slm'
    <3> SUFFICES ASSUME NEW j \in LocalArgs, NEW k \in LocalArgs, j < k
                 PROVE  /\ ctd'[j] = 0
                        /\ ctd'[k] = AlignUp(localSize'[j], SlmAlignment)
                        /\ AlignUp(ctd'[k], KiloByte) <= slm'
      OBVIOUS
    <3>1. j # i /\ j \in Nat /\ k \in Nat
      BY <1>1, <1>2, <2>1
    <3>2. ctd'[k] = ctd[k] /\ ctd'[j] = ctd[j] /\ localSize'[j] = localSize[j]
      BY <1>2, <1>3, <2>1, <3>1
    <3>3. AlignUp(ctd[k], KiloByte) \in Nat /\ AlignUp(ctd[k], KiloByte) <= slm
      BY <1>4, KiloUp
    <3> QED BY <1>4, <2>3, <3>2, <3>3
  <2> QED BY <1>1, <1>2, <1>4, <2>1, <2>3, <2>5, <2>6 DEF LocalInv, EndOf
<1>7. CASE later # {}
  <2>1. PICK l \in LocalArgs : l > i
    BY <1>7
  <2>2. /\ l \in Nat /\ i \in Nat /\ i < l
        /\ \A j \in LocalArgs : j = i \/ j = l
    BY <1>1, <1>2, <2>1
  <2>3. /\ l \in later /\ (\A j \in LocalArgs : i <= j)
        /\ i \notin later
    BY <1>1, <1>2, <2>1, <2>2
  <2>4. ctd[i] = 0 /\ end = n /\ next = AlignUp(n, SlmAlignment)
    BY <1>1, <1>2, <1>4, <1>7, <2>3, SignedCharZero
  <2>5. next \in Nat /\ next >= n
    BY <1>2, <2>4, AlignUpAny
  <2>6. ctd'[i] = 0 /\ ctd'[l] = next
    BY <1>1, <1>2, <2>2, <2>3, <2>4
  <2> HIDE DEF next, later, end
  <2>7. AlignUp(next, KiloByte) \in Nat /\ AlignUp(next, KiloByte) >= next
    BY <2>5, KiloUp
  <2>8. /\ slm' \in Nat /\ slm' >= slm + next /\ slm' >= AlignUp(next, KiloByte)
        /\ slm >= localSize[l] /\ localSize'[l] = localSize[l] /\ localSize[l] \in Nat
    BY <1>1, <1>2, <1>3, <1>4, <2>2, <2>5, <2>7
  <2>9. \A j \in LocalArgs : ctd'[j] \in Nat /\ ctd'[j] + localSize'[j] <= slm'
    <3>1. ctd'[i] \in Nat /\ ctd'[i] + localSize'[i] <= slm'
      BY <1>2, <1>3, <1>4, <2>5, <2>6, <2>8
    <3>2. ctd'[l] \in Nat /\ ctd'[l] + localSize'[l] <= slm'
      BY <1>4, <2>5, <2>6, <2>8
    <3> QED BY <2>2, <3>1, <3>2
  <2>10. \A j \in LocalArgs : (\A k \in LocalArgs : j <= k) => ctd'[j] = 0
    <3> SUFFICES ASSUME NEW j \in LocalArgs, \A k \in LocalArgs : j <= k
                 PROVE  ctd'[j] = 0
      OBVIOUS
    <3>1. j <= i /\ (j = i \/ j = l)
      BY <1>1, <2>2
    <3>2. j = i
      BY <2>2, <3>1
    <3> QED BY <2>6, <3>2
  <2>11. \A j, k \in LocalArgs : j < k =>
          /\ ctd'[j] = 0
          /\ ctd'[k] = AlignUp(localSize'[j], SlmAlignment)
          /\ AlignUp(ctd'[k], KiloByte) <= slm'
    <3> SUFFICES ASSUME NEW j \in LocalArgs, NEW k \in LocalArgs, j < k
                 PROVE  /\ ctd'[j] = 0
                        /\ ctd'[k] = AlignUp(localSize'[j], SlmAlignment)
                        /\ AlignUp(ctd'[k], KiloByte) <= slm'
      OBVIOUS
    <3>1. j = i /\ k = l
      BY <2>2
    <3> QED BY <1>3, <2>4, <2>6, <2>8, <3>1
  <2> QED BY <1>1, <2>8, <2>9, <2>10, <2>11 DEF LocalInv, EndOf
<1> QED BY <1>6, <1>7

LEMMA StepLocalInv ==
    ASSUME AtMostTwoLocals, ArgsInv, LocalInv, [Next]_vars
    PROVE  LocalInv'
<1>1. ASSUME UNCHANGED <<kinds, sharedLocalMemorySize, localSize>>,
             \A j \in LocalArgs : crossThreadData'[j] = crossThreadData[j]
      PROVE  LocalInv'
  <2>1. LocalArgs' = LocalArgs
    BY <1>1 DEF LocalArgs, Args
  <2> QED BY <1>1, <2>1 DEF LocalInv, EndOf
<1>2. CASE UNCHANGED vars
  BY <1>1, <1>2 DEF vars, data
<1>3. ASSUME NEW i \in Args, SetRefused(i) \/ \E argument : SetMarked(i, argument)
      PROVE  LocalInv'
  BY <1>1, <1>3 DEF SetRefused, SetMarked, data
<1>4. ASSUME NEW i \in Args, NEW n \in ValueSizes, NEW v \in Values, SetArgImmediate(i, n, v)
      PROVE  LocalInv'
  <2>1. \A j \in LocalArgs : crossThreadData'[j] = crossThreadData[j]
    BY <1>4 DEF SetArgImmediate, LocalArgs, ArgsInv, ArgTypes
  <2> QED BY <1>1, <1>4, <2>1 DEF SetArgImmediate, Accept
<1>5. ASSUME NEW i \in Args, NEW buffer \in Live \cup {Null}, SetArgBuffer(i, buffer)
      PROVE  LocalInv'
  <2>1. \A j \in LocalArgs : crossThreadData'[j] = crossThreadData[j]
    BY <1>5 DEF SetArgBuffer, LocalArgs, BufferArgs, ArgsInv, ArgTypes
  <2> QED BY <1>1, <1>5, <2>1 DEF SetArgBuffer, Accept
<1>6. ASSUME NEW accepted \in BOOLEAN, SubmitExecBuffer(accepted)
      PROVE  LocalInv'
  BY <1>1, <1>6 DEF SubmitExecBuffer, data
<1>7. ASSUME NEW buffer \in Buffers, ReleaseBuffer(buffer)
      PROVE  LocalInv'
  BY <1>1, <1>7 DEF ReleaseBuffer, data
<1> QED BY <1>2, <1>3, <1>4, <1>5, <1>6, <1>7, StepCases, SetArgLocalStep

(* In every state, of a kernel with at most two local arguments: the first *)
(* is at offset zero, the second behind it, and the sum reaches to the end *)
(* of both.                                                                *)
THEOREM LocalInvariant == AtMostTwoLocals /\ Spec => []LocalInv
<1> SUFFICES ASSUME AtMostTwoLocals PROVE Spec => []LocalInv
  OBVIOUS
<1>1. ArgsInv /\ Init => LocalInv
  BY InitLocalInv
<1>2. ArgsInv /\ LocalInv /\ [Next]_vars => LocalInv'
  BY StepLocalInv
<1>3. Spec => []ArgsInv
  BY ArgsInvariant
<1> QED BY <1>1, <1>2, <1>3, PTL DEF Spec

(* Variables keep their types; a local argument is never at a negative     *)
(* offset, although offsets are read as signed characters.                 *)
THEOREM TypeCorrect == AtMostTwoLocals /\ Spec => []TypeOK
<1>1. ArgsInv /\ LocalInv => TypeOK
  BY DEF ArgsInv, ArgTypes, LocalInv, TypeOK, LocalArgs
<1> QED BY <1>1, ArgsInvariant, LocalInvariant, PTL

(* Two local arguments never share a byte, in whatever order and with      *)
(* whatever sizes they are set (setArgLocal, kernel.cpp).                  *)
THEOREM LocalArgsDisjointTheorem == AtMostTwoLocals /\ Spec => []LocalArgsDisjoint
<1>1. ArgsInv /\ LocalInv => LocalArgsDisjoint
  <2> SUFFICES ASSUME ArgsInv, LocalInv, NEW i \in Decided, NEW j \in Decided, i < j
               PROVE  EndOf(i) <= crossThreadData[j]
    BY DEF LocalArgsDisjoint
  <2>1. localSize[i] \in Nat /\ i \in LocalArgs /\ j \in LocalArgs
    BY KernelArgsAssumption DEF ArgsInv, ArgTypes, Decided, LocalArgs
  <2>2. crossThreadData[j] = AlignUp(localSize[i], SlmAlignment)
    BY <2>1 DEF LocalInv
  <2>3. crossThreadData[j] \in Nat /\ crossThreadData[j] >= localSize[i]
    BY <2>1, <2>2, AlignUpAny, KernelArgsAssumption
  <2>4. crossThreadData[i] = 0
    BY <2>1 DEF LocalInv
  <2> QED BY <2>1, <2>3, <2>4 DEF EndOf
<1> QED BY <1>1, ArgsInvariant, LocalInvariant, PTL

(* The shared local memory reserved for a group reaches to the end of each *)
(* local argument, as far as the hardware has that much                    *)
(* (computeSharedLocalMemoryValue, commandDispatcherGen9.cpp).             *)
THEOREM LocalArgsCoveredTheorem == AtMostTwoLocals /\ Spec => []LocalArgsCovered
<1>1. ArgsInv /\ LocalInv => LocalArgsCovered
  <2> SUFFICES ASSUME ArgsInv, LocalInv, NEW i \in Decided, EndOf(i) <= 64 * KiloByte
               PROVE  EndOf(i) <= SlmReserved(sharedLocalMemorySize)
    BY DEF LocalArgsCovered
  <2>1. /\ localSize[i] \in Nat /\ i \in LocalArgs /\ crossThreadData[i] \in Nat
        /\ sharedLocalMemorySize \in Nat /\ EndOf(i) <= sharedLocalMemorySize
    BY KernelArgsAssumption DEF ArgsInv, ArgTypes, LocalInv, Decided, LocalArgs
  <2>2. EndOf(i) \in Nat
    BY <2>1 DEF EndOf
  <2>3. \/ SlmReserved(sharedLocalMemorySize) >= sharedLocalMemorySize
        \/ SlmReserved(sharedLocalMemorySize) = 64 * KiloByte
    BY <2>1, SlmReservedEnough
  <2>4. SlmReserved(sharedLocalMemorySize) \in Nat
    BY <2>1, SlmReservedEnough
  <2> QED BY <2>1, <2>2, <2>3, <2>4
<1> QED BY <1>1, ArgsInvariant, LocalInvariant, PTL

=============================================================================
