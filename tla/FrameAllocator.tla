---------------------------- MODULE FrameAllocator ----------------------------
(***************************************************************************)
(* What IgnisOS expects of its physical memory manager, with no bitmap in  *)
(* sight: frames are donated once at boot, each is either available or     *)
(* held by one owner, and a request fails only when nothing is available.  *)
(* Pmm.tla is shown to implement this specification.                       *)
(***************************************************************************)
CONSTANTS Frame,        \* every frame the machine could have
          NoFrame       \* the answer to a request that cannot be served

VARIABLES avail,        \* frames that may be handed out
          held,         \* frames handed out and not returned
          answer        \* what the last request was told

vars == <<avail, held, answer>>

Init == avail = {} /\ held = {} /\ answer = NoFrame

\* The boot code hands over the memory it found; it does so once, before
\* any request is served.
Donate == /\ avail = {} /\ held = {}
          /\ avail' \subseteq Frame
          /\ UNCHANGED <<held, answer>>

\* Frames S change hands; the requester is told the one it asked for.
Grant(S, f) == /\ f \in S /\ S \subseteq avail
               /\ avail' = avail \ S
               /\ held' = held \cup S
               /\ answer' = f

Refuse == /\ avail = {}
          /\ answer' = NoFrame
          /\ UNCHANGED <<avail, held>>

Release(f) == /\ f \in held
              /\ avail' = avail \cup {f}
              /\ held' = held \ {f}
              /\ UNCHANGED answer

\* A grant is of one frame, or of the several frames of the kernel heap.
Next == \/ Donate
        \/ \E S \in SUBSET avail : \E f \in S : Grant(S, f)
        \/ Refuse
        \/ \E f \in held : Release(f)

Spec == Init /\ [][Next]_vars
=============================================================================
