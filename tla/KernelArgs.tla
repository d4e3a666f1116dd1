----------------------------- MODULE KernelArgs -----------------------------
(***************************************************************************)
(* The arguments of one kernel object (kernel.cpp 714-807) over a sequence *)
(* of SetKernelArg and ExecuteKernel calls. An argument is a buffer, local *)
(* memory or a value; what a call sets stays in the kernel object until    *)
(* another call replaces it, a submission only clears the marks.           *)
(*                                                                         *)
(* A uint32_t that went below zero is kept as that negative number: all    *)
(* the code does with it is adding and rounding to powers of two, which    *)
(* commute with the wrap.                                                  *)
(***************************************************************************)
EXTENDS GpuCommands, Sequences, FiniteSets

CONSTANTS
    Signatures,      \* argument kinds of a kernel, a sequence each
    Buffers,         \* data buffers of the program
    Null,            \* model value: a null pointer
    Foreign,         \* model value: a pointer to something that is no buffer
    Values,          \* contents of value arguments
    LocalSizes,      \* sizes asked for local arguments
    SlmAlignment,    \* requiredSlmAlignment
    MaxCalls         \* bound: number of accepted calls for local arguments

Kinds == {"stateless", "stateful", "local", "value"}

(* A value argument is a structure of Halves parts, copied element by element. *)
Halves == 2
ValueSizes == 0..(Halves + 1)

ASSUME KernelArgsAssumption ==
    /\ Signatures \subseteq Seq(Kinds)
    /\ Null \notin Buffers \cup Values /\ Foreign \notin Buffers
    /\ LocalSizes \subseteq Nat
    /\ SlmAlignment \in Nat \ {0}
    /\ MaxCalls \in Nat

VARIABLES
    kinds,           \* argDescriptor: the kind of every argument
    argIsSet,        \* arguments whose descriptor is marked
    crossThreadData, \* pointer, local offset or value of every argument
    surfaceState,    \* buffer in the surface state of every argument
    execData,        \* buffer the argument adds to the exec objects
    sharedLocalMemorySize,
    released,        \* buffers the program has released
    firstValid,      \* first acceptable call for an argument since the last submission
    refused,         \* arguments with a refused call since the last submission
    localSize,       \* latest accepted size of local arguments
    calls            \* accepted calls for local arguments, for the bound

data == <<crossThreadData, surfaceState, execData, sharedLocalMemorySize>>
vars == <<kinds, argIsSet, data, released, firstValid, refused, localSize, calls>>

Args == DOMAIN kinds
LocalArgs == {i \in Args : kinds[i] = "local"}
BufferArgs == {i \in Args : kinds[i] \in {"stateless", "stateful"}}

-----------------------------------------------------------------------------
(* One signed character of the cross thread data. *)
SignedChar(n) == IF n % 256 >= 128 THEN (n % 256) - 256 ELSE n % 256

(* computeSharedLocalMemoryValue: what the hardware reserves for a group. *)
SlmReserved(bytes) ==
    LET rounded == AlignUp(bytes, KiloByte)
        sizes == {KiloByte * m : m \in {1, 2, 4, 8, 16, 32, 64}}
    IN  IF rounded = 0 THEN 0
        ELSE IF rounded > 64 * KiloByte THEN 64 * KiloByte
        ELSE CHOOSE s \in sizes : s >= rounded /\ \A t \in sizes : t >= rounded => s <= t

-----------------------------------------------------------------------------
Init ==
    /\ kinds \in Signatures
    /\ argIsSet = {}
    /\ crossThreadData = [i \in Args |->
          CASE kinds[i] = "local" -> 0
            [] kinds[i] = "value" -> [h \in 1..Halves |-> Null]
            [] OTHER -> Null]
    /\ surfaceState = [i \in Args |-> Null]
    /\ execData = [i \in Args |-> Null]
    /\ sharedLocalMemorySize = 0
    /\ released = {}
    /\ firstValid = [i \in Args |-> <<>>]
    /\ refused = {}
    /\ localSize = [i \in Args |-> 0]
    /\ calls = 0

(* Bookkeeping of the calls, for the properties. *)
Accept(i, argument) ==
    /\ firstValid' = [firstValid EXCEPT ![i] = IF @ = <<>> THEN <<argument>> ELSE @]
    /\ UNCHANGED <<kinds, released, refused>>

(* setArgument finds the argument marked. *)
SetMarked(i, argument) ==
    /\ i \in argIsSet
    /\ firstValid' = [firstValid EXCEPT ![i] = IF @ = <<>> THEN <<argument>> ELSE @]
    /\ UNCHANGED <<kinds, argIsSet, data, released, refused, localSize, calls>>

(* Fault: the surface is programmed before the pointer is looked at. *)
SetRefusedTooLate(i) ==
    /\ i \notin argIsSet
    /\ argIsSet' = argIsSet \cup {i}
    /\ refused' = refused \cup {i}
    /\ surfaceState' = [surfaceState EXCEPT ![i] = IF i \in BufferArgs THEN Foreign ELSE @]
    /\ UNCHANGED <<kinds, crossThreadData, execData, sharedLocalMemorySize, released,
                   firstValid, localSize, calls>>

(* A handler that fails leaves the argument marked as set. *)
SetRefused(i) ==
    /\ i \notin argIsSet
    /\ argIsSet' = argIsSet \cup {i}
    /\ refused' = refused \cup {i}
    /\ UNCHANGED <<kinds, data, released, firstValid, localSize, calls>>

(* setArgImmediate; its failure is a size of zero. *)
SetArgImmediate(i, argSize, value) ==
    /\ i \notin argIsSet /\ kinds[i] = "value" /\ argSize # 0
    /\ crossThreadData' = [crossThreadData EXCEPT ![i] =
          [h \in 1..Halves |-> IF h <= argSize THEN value ELSE @[h]]]
    /\ argIsSet' = argIsSet \cup {i}
    /\ Accept(i, [size |-> argSize, value |-> value])
    /\ UNCHANGED <<surfaceState, execData, sharedLocalMemorySize, localSize, calls>>

(* Fault: patching stops at the first argument that is not local. *)
SetArgLocalAdjacent(i, argSize) ==
    LET end   == SignedChar(crossThreadData[i]) + argSize
        later == {j \in LocalArgs : j > i /\ \A k \in i..j : kinds[k] = "local"}
        next  == IF later = {} THEN end ELSE AlignUp(end, SlmAlignment)
    IN  /\ i \notin argIsSet /\ kinds[i] = "local" /\ calls < MaxCalls
        /\ crossThreadData' = [j \in Args |-> IF j \in later THEN next ELSE crossThreadData[j]]
        /\ sharedLocalMemorySize' = sharedLocalMemorySize + AlignUp(next, KiloByte)
        /\ argIsSet' = argIsSet \cup {i}
        /\ localSize' = [localSize EXCEPT ![i] = argSize]
        /\ calls' = calls + 1
        /\ Accept(i, [size |-> argSize, value |-> Null])
        /\ UNCHANGED <<surfaceState, execData>>

(* Fault: the size is replaced instead of added to. *)
SetArgLocalReplacing(i, argSize) ==
    LET end   == SignedChar(crossThreadData[i]) + argSize
        later == {j \in LocalArgs : j > i}
        next  == IF later = {} THEN end ELSE AlignUp(end, SlmAlignment)
    IN  /\ i \notin argIsSet /\ kinds[i] = "local" /\ calls < MaxCalls
        /\ crossThreadData' = [j \in Args |-> IF j \in later THEN next ELSE crossThreadData[j]]
        /\ sharedLocalMemorySize' = AlignUp(next, KiloByte)
        /\ argIsSet' = argIsSet \cup {i}
        /\ localSize' = [localSize EXCEPT ![i] = argSize]
        /\ calls' = calls + 1
        /\ Accept(i, [size |-> argSize, value |-> Null])
        /\ UNCHANGED <<surfaceState, execData>>

(* setArgLocal: the end of this argument becomes the offset of all later   *)
(* local arguments. It cannot fail.                                        *)
SetArgLocal(i, argSize) ==
    LET end   == SignedChar(crossThreadData[i]) + argSize
        later == {j \in LocalArgs : j > i}
        next  == IF later = {} THEN end ELSE AlignUp(end, SlmAlignment)
    IN  /\ i \notin argIsSet /\ kinds[i] = "local" /\ calls < MaxCalls
        /\ crossThreadData' = [j \in Args |-> IF j \in later THEN next ELSE crossThreadData[j]]
        /\ sharedLocalMemorySize' = sharedLocalMemorySize + AlignUp(next, KiloByte)
        /\ argIsSet' = argIsSet \cup {i}
        /\ localSize' = [localSize EXCEPT ![i] = argSize]
        /\ calls' = calls + 1
        /\ Accept(i, [size |-> argSize, value |-> Null])
        /\ UNCHANGED <<surfaceState, execData>>

(* Fault: the list of buffers is only extended, never assigned again. *)
SetArgBufferListedOnce(i, buffer) ==
    /\ i \notin argIsSet /\ i \in BufferArgs
    /\ IF kinds[i] = "stateless"
       THEN crossThreadData' = [crossThreadData EXCEPT ![i] = buffer]
       ELSE UNCHANGED crossThreadData
    /\ surfaceState' = [surfaceState EXCEPT ![i] = buffer]
    /\ IF buffer = Null \/ execData[i] # Null THEN UNCHANGED execData
       ELSE execData' = [execData EXCEPT ![i] = buffer]
    /\ argIsSet' = argIsSet \cup {i}
    /\ Accept(i, [size |-> 0, value |-> buffer])
    /\ UNCHANGED <<sharedLocalMemorySize, localSize, calls>>

(* setArgBuffer; its failure is a pointer without the magic of a buffer. *)
SetArgBuffer(i, buffer) ==
    /\ i \notin argIsSet /\ i \in BufferArgs
    /\ IF kinds[i] = "stateless"
       THEN crossThreadData' = [crossThreadData EXCEPT ![i] = buffer]
       ELSE UNCHANGED crossThreadData
    /\ surfaceState' = [surfaceState EXCEPT ![i] = buffer]
    /\ IF buffer = Null THEN UNCHANGED execData
       ELSE execData' = [execData EXCEPT ![i] = buffer]
    /\ argIsSet' = argIsSet \cup {i}
    /\ Accept(i, [size |-> 0, value |-> buffer])
    /\ UNCHANGED <<sharedLocalMemorySize, localSize, calls>>

(* Programs pass buffers they have not released. *)
Live == Buffers \ released

SetKernelArg(i) ==
    \/ /\ kinds[i] = "value"
       /\ \E argSize \in ValueSizes, value \in Values :
            \/ argSize # 0 /\ SetMarked(i, [size |-> argSize, value |-> value])
            \/ argSize = 0 /\ SetRefused(i)
            \/ SetArgImmediate(i, argSize, value)
    \/ /\ kinds[i] = "local"
       /\ \E argSize \in LocalSizes :
            \/ SetMarked(i, [size |-> argSize, value |-> Null])
            \/ SetArgLocal(i, argSize)
    \/ /\ i \in BufferArgs
       /\ \E buffer \in Live \cup {Null, Foreign} :
            \/ buffer # Foreign /\ SetMarked(i, [size |-> 0, value |-> buffer])
            \/ buffer = Foreign /\ SetRefused(i)
            \/ buffer # Foreign /\ SetArgBuffer(i, buffer)

(* Fault: the marks stay when the kernel driver refuses the batch. *)
SubmitExecBufferKeepsMarks(accepted) ==
    /\ argIsSet' = IF accepted THEN {} ELSE argIsSet
    /\ firstValid' = [i \in Args |-> <<>>]
    /\ refused' = {}
    /\ UNCHANGED <<kinds, data, released, localSize, calls>>

(* ExecuteKernel as far as populateAndSubmitExecBuffer, which resets the   *)
(* marks whether the kernel driver took the batch or not. A call that      *)
(* fails before resets nothing: it is a stuttering step.                   *)
SubmitExecBuffer(accepted) ==
    /\ accepted \in BOOLEAN
    /\ argIsSet' = {}
    /\ firstValid' = [i \in Args |-> <<>>]
    /\ refused' = {}
    /\ UNCHANGED <<kinds, data, released, localSize, calls>>

(* A program releases a buffer that no argument of the kernel is. *)
ReleaseBuffer(buffer) ==
    /\ buffer \in Live
    /\ \A i \in Args : surfaceState[i] # buffer
    /\ released' = released \cup {buffer}
    /\ UNCHANGED <<kinds, argIsSet, data, firstValid, refused, localSize, calls>>

Next ==
    \/ \E i \in Args : SetKernelArg(i)
    \/ \E accepted \in BOOLEAN : SubmitExecBuffer(accepted)
    \/ \E buffer \in Buffers : ReleaseBuffer(buffer)

Spec == Init /\ [][Next]_vars

-----------------------------------------------------------------------------
Pointers == Buffers \cup {Null}

TypeOK ==
    /\ kinds \in Signatures
    /\ argIsSet \subseteq Args
    /\ \A i \in Args :
         /\ kinds[i] = "local" => crossThreadData[i] \in Nat
         /\ kinds[i] = "value" => crossThreadData[i] \in [1..Halves -> Values \cup {Null}]
         /\ i \in BufferArgs => crossThreadData[i] \in Pointers
    /\ surfaceState \in [Args -> Pointers]
    /\ execData \in [Args -> Pointers]
    /\ sharedLocalMemorySize \in Nat
    /\ released \subseteq Buffers /\ refused \subseteq Args
    /\ localSize \in [Args -> LocalSizes \cup {0}]
    /\ calls \in 0..MaxCalls

(***************************************************************************)
(* A launch uses, for every argument, the first acceptable call since the  *)
(* previous submission, unless a call for that argument was refused: then  *)
(* the mark of the refused call may have kept the correct one out. (A      *)
(* local argument has its place decided by the arguments before it.)       *)
(***************************************************************************)
FirstValidCallCounts ==
    \A i \in Args \ (LocalArgs \cup refused) :
        firstValid[i] # <<>> =>
            LET argument == firstValid[i][1]
            IN  IF kinds[i] = "value"
                THEN \A h \in 1..Halves : h <= argument.size => crossThreadData[i][h] = argument.value
                ELSE /\ surfaceState[i] = argument.value
                     /\ kinds[i] = "stateless" => crossThreadData[i] = argument.value

(***************************************************************************)
(* The buffers a launch can reach through surfaces and pointers are among  *)
(* the exec objects of its batch, and an exec object that the program has  *)
(* released meanwhile can only come from an argument that is null now      *)
(* (kernel.cpp:791 keeps what the argument was before).                    *)
(***************************************************************************)
ResidentWhatIsReferenced ==
    \A i \in BufferArgs :
        /\ surfaceState[i] # Null => execData[i] = surfaceState[i]
        /\ kinds[i] = "stateless" => crossThreadData[i] = surfaceState[i]
        /\ execData[i] \in released => surfaceState[i] = Null

(* Local arguments of a kernel that has two of them.                       *)
Decided == {i \in LocalArgs : localSize[i] # 0}

EndOf(i) == crossThreadData[i] + localSize[i]

(* In whatever order, size and launch the two were set, they do not share  *)
(* a byte, although the later one is placed without knowing the earlier    *)
(* launches (setArgLocal).                                                 *)
LocalArgsDisjoint ==
    \A i, j \in Decided : i < j => EndOf(i) <= crossThreadData[j]

(* The shared local memory reserved for a group reaches to the end of each *)
(* local argument, as far as the hardware has that much. The sum of all    *)
(* launches makes up for the offset that is read as one signed character.  *)
(* The code says "There is an issue left with local memory when we run a   *)
(* kernel in a loop" (kernel.cpp:749); with two local arguments it is not  *)
(* that the memory reserved becomes too small.                             *)
LocalArgsCovered ==
    \A i \in Decided :
        EndOf(i) <= 64 * KiloByte => EndOf(i) <= SlmReserved(sharedLocalMemorySize)
=============================================================================
