--------------------------------- MODULE Arena ---------------------------------
(***************************************************************************)
(* What the kernel expects of its heap, with no chain in sight: a request  *)
(* is granted exactly as long as the budget lasts, and every grant is of   *)
(* as many bytes as were asked for, under a new pointer, in memory that    *)
(* was never granted before and that the heap does not need for itself.    *)
(* KernelHeap.tla is shown to implement this specification.                *)
(***************************************************************************)
EXTENDS Integers, FiniteSets

CONSTANTS Sizes,        \* the sizes callers ask for
          Budget,       \* how many bytes there are to be granted
          Nothing       \* the answer to a request that is refused

VARIABLES granted,      \* for each pointer ever returned the bytes it stands for
          kept,         \* bytes the heap keeps for itself
          live,         \* pointers that callers have not given back
          left,         \* how much of the budget is left
          answer        \* what the last request was told

vars == <<granted, kept, live, left, answer>>

Init == /\ DOMAIN granted = {} /\ live = {}
        /\ left = Budget /\ answer = Nothing

\* `back' is what the caller gives back in exchange: nothing, or one pointer.
Grant(n, back) ==
    /\ n \in 1 .. left
    /\ back \in SUBSET live /\ Cardinality(back) <= 1
    /\ answer' \notin DOMAIN granted \cup {Nothing}
    /\ DOMAIN granted' = DOMAIN granted \cup {answer'}
    /\ \A p \in DOMAIN granted : /\ granted'[p] = granted[p]
                                 /\ granted'[answer'] \cap granted[p] = {}
    /\ Cardinality(granted'[answer']) = n
    /\ kept \subseteq kept'
    /\ \A p \in DOMAIN granted' : granted'[p] \cap kept' = {}
    /\ live' = (live \ back) \cup {answer'}
    /\ left' = left - n

\* The pointer offered in exchange is kept, unless nothing was asked for.
Refuse(n, back) ==
    /\ n \notin 1 .. left
    /\ back \in SUBSET live /\ Cardinality(back) <= 1
    /\ back # {} => n = 0
    /\ answer' = Nothing
    /\ live' = live \ back
    /\ UNCHANGED <<granted, kept, left>>

\* Memory that is given back is not granted again.
Release(p) == /\ p \in live
              /\ live' = live \ {p}
              /\ UNCHANGED <<granted, kept, left, answer>>

Next == \/ \E n \in Sizes, back \in SUBSET live : Grant(n, back) \/ Refuse(n, back)
        \/ \E p \in live : Release(p)

Spec == Init /\ [][Next]_vars
=============================================================================
