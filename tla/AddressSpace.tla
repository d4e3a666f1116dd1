---------------------------- MODULE AddressSpace ----------------------------
(***************************************************************************)
(* What the softpin heap promises, whatever strategy it follows: objects   *)
(* live in disjoint page-aligned regions of one window, and a request is   *)
(* refused only when the window could not hold it behind everything handed *)
(* out before, because address space is not taken back.                    *)
(***************************************************************************)
EXTENDS Integers

CONSTANTS
    Low, High,   \* the window
    Page,        \* alignment of every region
    Objects,     \* buffer objects
    Lengths      \* what they may ask for, in bytes

VARIABLES
    live,        \* the regions of the objects that exist
    handedOut,   \* bytes of address space handed out so far
    answer       \* the latest request and whether it was granted

vars == <<live, handedOut, answer>>

Region == [object : Objects, lo : Nat, hi : Nat]

Rounded(n) == ((n + Page - 1) \div Page) * Page

Apart(r, s) == r.hi <= s.lo \/ s.hi <= r.lo

Init ==
    /\ live = {}
    /\ handedOut = 0
    /\ answer = [length |-> 0, granted |-> FALSE]

Reserve(object, n) ==
    /\ \A r \in live : r.object # object
    /\ \E k \in 0..((High - Low) \div Page) :
         LET lo == Low + k * Page
             region == [object |-> object, lo |-> lo, hi |-> lo + Rounded(n)]
         IN  /\ region.hi <= High
             /\ \A r \in live : Apart(region, r)
             /\ live' = live \cup {region}
    /\ handedOut' = handedOut + Rounded(n)
    /\ answer' = [length |-> n, granted |-> TRUE]

Refuse(n) ==
    /\ handedOut + Rounded(n) > High - Low
    /\ answer' = [length |-> n, granted |-> FALSE]
    /\ UNCHANGED <<live, handedOut>>

Release(object) ==
    /\ \E r \in live : r.object = object
    /\ live' = {r \in live : r.object # object}
    /\ UNCHANGED <<handedOut, answer>>

Next ==
    \/ \E object \in Objects, n \in Lengths : Reserve(object, n)
    \/ \E n \in Lengths : Refuse(n)
    \/ \E object \in Objects : Release(object)

Spec == Init /\ [][Next]_vars
=============================================================================
