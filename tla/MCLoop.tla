------------------------------- MODULE MCLoop -------------------------------
(* Small instances of Loop for TLC, and the queue it implements.           *)
EXTENDS Loop, TLC

Symmetry == Permutations(Soon) \cup Permutations(Native)

\* the handles of call_soon and call_soon_threadsafe, in the order in which
\* they will run
SoonWaiting == SelectSeq(ready \o inbox, LAMBDA c : c \in Soon)
SoonRunning == IF current \in Soon THEN current ELSE None

Queue == INSTANCE CallbackQueue WITH
            waiting <- SoonWaiting, executing <- SoonRunning

\* call_soon drains the inbox before it appends its own handle: the ready
\* queue and the inbox together are one FIFO queue in registration order,
\* without loss or duplication, across threads, batches, stops and restarts.
ImplementsQueue == Queue!Spec
=============================================================================
