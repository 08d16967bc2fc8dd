----------------------------- MODULE MCThreads -----------------------------
(***************************************************************************)
(* What threads outside the loop share with it: the handle they cancel     *)
(* (ThreadSafeHandle), and the storage they outlive (Resolver).  The two   *)
(* touch no common state, so a behaviour is one of either.                 *)
(***************************************************************************)
EXTENDS ThreadSafeHandle, Resolver

VARIABLE part

Both == {"getaddrinfo", "getnameinfo"}

ThreadsInit == HandleInit /\ Init /\ part \in {"handle", "resolver"}

ThreadsNext ==
    \/ part = "handle" /\ HandleNext /\ UNCHANGED <<vars, part>>
    \/ part = "resolver" /\ Next /\ UNCHANGED <<handleVars, part>>

ThreadsSpec ==
    ThreadsInit /\ [][ThreadsNext]_<<handleVars, vars, part>> /\ Fairness /\ LoopFairness
=============================================================================
