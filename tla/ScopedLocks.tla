------------------------------ MODULE ScopedLocks ------------------------------
(***************************************************************************)
(* What the lease registry of the repository promises: locks on sets of    *)
(* paths, of which two that overlap are never held together, and fences    *)
(* that only grow, so that a lock taken over or taken again is never       *)
(* mistaken for an earlier one.                                            *)
(***************************************************************************)
EXTENDS Naturals

CONSTANT Path     \* what a lock covers a set of

VARIABLES
    held,         \* the locks held now
    last          \* no later lock gets this fence or a lower one

vars == <<held, last>>

Lock == [fence : Nat, scope : SUBSET Path]

Init == held = {} /\ last \in Nat

\* Any number of fences may be skipped.
Skip == last' >= last /\ held' = held

\* A lock on paths that nobody holds, under a new fence.
Acquire(h) ==
    /\ h \in Lock
    /\ \A other \in held : other.scope \cap h.scope = {}
    /\ last < h.fence /\ h.fence <= last'
    /\ held' = held \cup {h}

Release(h) ==
    /\ h \in held
    /\ last' >= last
    /\ held' = held \ {h}

\* A lock passes on as a whole, and under a new fence.
TakeOver(h, fence) ==
    /\ h \in held
    /\ last < fence /\ fence <= last'
    /\ held' = (held \ {h}) \cup {[h EXCEPT !.fence = fence]}

Next ==
    \/ Skip
    \/ \E h \in held' \ held : Acquire(h)
    \/ \E h \in held : Release(h)
    \/ \E h \in held, new \in held' \ held : TakeOver(h, new.fence)

Spec == Init /\ [][Next]_vars

=============================================================================
