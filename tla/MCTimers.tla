------------------------------ MODULE MCTimers ------------------------------
(* Instances of Timers for model checking. *)
EXTENDS Timers, TLC

IsHeap(h) == \A i \in 2..Len(h) : ~before(h[i], h[i \div 2])

\* Six entries with four deadlines: the least with which compact() leaves a
\* parent and a child below the root to put in order.
SmallHeaps ==
    {h \in UNION {{[i \in 1..n |-> [when |-> w[i], seq |-> i, handle |-> i]] : w \in [1..n -> 0..3]}
                  : n \in 1..6} : IsHeap(h)}

\* pop() and compact() leave a heap, whichever entries were cancelled.
ASSUME HeapOperations ==
    \A h \in SmallHeaps :
        /\ IsHeap(pop(h))
        /\ \A dead \in SUBSET (1..Len(h)) : IsHeap(compact(h, dead))

Symmetry == Permutations(Handles)

=============================================================================
