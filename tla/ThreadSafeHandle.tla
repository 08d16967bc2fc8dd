-------------------------- MODULE ThreadSafeHandle --------------------------
(***************************************************************************)
(* zig/tshandle.zig: the handle call_soon_threadsafe returns.  Its state   *)
(* word decides between the loop thread that runs the callback and the     *)
(* threads that cancel it or ask whether it was cancelled; the latter are  *)
(* parked while the callback is running on another thread.                 *)
(*                                                                         *)
(* Every method runs inside the handle's critical section (the GIL on the  *)
(* default build), which is given up where a thread detaches or runs       *)
(* Python code.  One action is one such section: run() up to the callback, *)
(* run() after it, cancel() or cancelled() up to the wait, and the rest of *)
(* them after it.                                                          *)
(***************************************************************************)
EXTENDS Naturals, Sequences

CONSTANTS
    Threads,   \* the loop threads and the others
    Runners,   \* the threads that run handles
    Handles,
    None,      \* not waiting
    Nesting    \* bound: how deep run() nests on one thread

\* A parked call: for which handle, in which method, and whether on a Waiter's
\* lock, its lock already released, or yielding because no lock was to be had.
Calls == [handle : Handles, method : {"cancel", "cancelled"},
          on : {"lock", "released", "yield"}]

ASSUME RunnersAssumption == Runners \subseteq Threads
ASSUME NoneAssumption == None \notin Calls /\ None \notin Handles
ASSUME NestingAssumption == Nesting \in Nat

VARIABLES
    run_state, \* handle -> "PENDING", "RUNNING" or "DONE"
    cancelled, \* handle -> its cancelled_flag
    cleared,   \* handle -> callback and arguments were released
    waiters,   \* handle -> the threads on its list of Waiters
    running,   \* thread -> the handles it is running, innermost first
    wait,      \* thread -> the call it is parked in, or None
    started    \* ghost: handle -> how often its callback was entered

handleVars == <<run_state, cancelled, cleared, waiters, running, wait, started>>

HandleInit ==
    /\ run_state = [h \in Handles |-> "PENDING"]
    /\ cancelled = [h \in Handles |-> FALSE]
    /\ cleared = [h \in Handles |-> FALSE]
    /\ waiters = [h \in Handles |-> {}]
    /\ running = [t \in Threads |-> <<>>]
    /\ wait = [t \in Threads |-> None]
    /\ started = [h \in Handles |-> 0]

-----------------------------------------------------------------------------
\* The thread-local running_payload is the innermost run; the outer ones are
\* the values run() saved in previous_running.
RunningPayload(t) ==
    IF running[t] = <<>> THEN None ELSE Head(running[t])

Runs(t, h) == \E i \in 1..Len(running[t]) : running[t][i] = h

\* the thread is in Python code that may call a handle's methods
InPython(t) == wait[t] = None

\* run() and _run(), up to the callback; a handle that is not PENDING is left
\* alone
Run(t, h) ==
    /\ InPython(t) /\ t \in Runners /\ Len(running[t]) < Nesting
    /\ run_state[h] = "PENDING"
    /\ run_state' = [run_state EXCEPT ![h] = "RUNNING"]
    /\ running' = [running EXCEPT ![t] = <<h>> \o @]
    /\ started' = [started EXCEPT ![h] = @ + 1]
    /\ UNCHANGED <<cancelled, cleared, waiters, wait>>

\* The callback has returned or raised: run()'s defer publishes DONE, detaches
\* the waiters and releases their locks, then drops what a cancel() from
\* inside the callback left to it.
Finish(t) ==
    /\ InPython(t) /\ running[t] # <<>>
    /\ LET h == RunningPayload(t) IN
         /\ run_state' = [run_state EXCEPT ![h] = "DONE"]
         /\ wait' = [u \in Threads |-> IF u \in waiters[h]
                                       THEN [wait[u] EXCEPT !.on = "released"]
                                       ELSE wait[u]]
         /\ waiters' = [waiters EXCEPT ![h] = {}]
         /\ cleared' = [cleared EXCEPT ![h] = @ \/ cancelled[h]]
    /\ running' = [running EXCEPT ![t] = Tail(@)]
    /\ UNCHANGED <<cancelled, started>>

-----------------------------------------------------------------------------
\* Mutant: nobody waits for a running callback.
MustWaitNever(t, h) == FALSE

\* mustWait, which cancel() spells out
MustWait(t, h) == run_state[h] = "RUNNING" /\ RunningPayload(t) # h

\* awaitCompletion up to the detach: a Waiter is linked, or the thread yields
\* when the lock could not be allocated
Park(t, h, m) ==
    /\ \E o \in {"lock", "yield"} :
         /\ wait' = [wait EXCEPT ![t] = [handle |-> h, method |-> m, on |-> o]]
         /\ waiters' = [waiters EXCEPT
                          ![h] = IF o = "lock" THEN @ \cup {t} ELSE @]
    /\ UNCHANGED <<run_state, cancelled, cleared, running, started>>

\* Mutant: a cancel() from inside the callback releases what the call borrows.
SetCancelledEagerly(h) ==
    /\ cancelled' = [cancelled EXCEPT ![h] = TRUE]
    /\ cleared' = [cleared EXCEPT ![h] = TRUE]

\* the end of cancel(), with the state word as cancel() leaves it
SetCancelled(h) ==
    /\ cancelled' = [cancelled EXCEPT ![h] = TRUE]
    /\ cleared' = [cleared EXCEPT
                     ![h] = @ \/ (~cancelled[h] /\ run_state'[h] # "RUNNING")]

\* cancel(), as far as it gets without waiting
Cancel(t, h) ==
    /\ InPython(t) /\ ~MustWait(t, h)
    /\ run_state' = [run_state EXCEPT
                       ![h] = IF @ = "PENDING" THEN "DONE" ELSE @]
    /\ SetCancelled(h)
    /\ UNCHANGED <<waiters, running, wait, started>>

\* cancel() and cancelled() while the callback runs elsewhere; without a wait
\* cancelled() only reads the flag
Await(t, h, m) ==
    /\ InPython(t) /\ MustWait(t, h)
    /\ Park(t, h, m)

\* Mutant: the yielding thread waits for a state that never comes back.
AwakeOnPending(t) ==
    /\ wait[t] # None
    /\ \/ wait[t].on = "released"
       \/ wait[t].on = "yield" /\ run_state[wait[t].handle] = "PENDING"

\* the lock was released, or the yielding thread sees DONE
Awake(t) ==
    /\ wait[t] # None
    /\ \/ wait[t].on = "released"
       \/ wait[t].on = "yield" /\ run_state[wait[t].handle] = "DONE"

\* the rest of cancel() and of cancelled(), after awaitCompletion
Resume(t) ==
    /\ Awake(t)
    /\ wait' = [wait EXCEPT ![t] = None]
    /\ \/ /\ wait[t].method = "cancel"
          /\ run_state' = run_state
          /\ SetCancelled(wait[t].handle)
       \/ /\ wait[t].method = "cancelled"
          /\ UNCHANGED <<run_state, cancelled, cleared>>
    /\ UNCHANGED <<waiters, running, started>>

HandleNext == \E t \in Threads :
            \/ \E h \in Handles : \/ Run(t, h) \/ Cancel(t, h)
                                  \/ Await(t, h, "cancel")
                                  \/ Await(t, h, "cancelled")
            \/ Finish(t) \/ Resume(t)

HandleSpec == HandleInit /\ [][HandleNext]_handleVars

\* a callback returns, and a thread whose lock was released goes on
Fairness == \A t \in Threads : WF_handleVars(Finish(t)) /\ WF_handleVars(Resume(t))

-----------------------------------------------------------------------------
(* Properties.                                                             *)

HandleTypeOK ==
    /\ run_state \in [Handles -> {"PENDING", "RUNNING", "DONE"}]
    /\ cancelled \in [Handles -> BOOLEAN]
    /\ cleared \in [Handles -> BOOLEAN]
    /\ waiters \in [Handles -> SUBSET Threads]
    /\ running \in [Threads -> Seq(Handles)]
    /\ wait \in [Threads -> Calls \cup {None}]
    /\ started \in [Handles -> 0..1]

\* The state word hands the callback to one run() at most, whichever threads
\* run it and cancel it: it is entered at most once, and never after a
\* cancel() has returned.
EnteredOnce ==
    \A h \in Handles :
        /\ started[h] <= 1
        /\ started[h] = 1 => run_state[h] # "PENDING"
        /\ run_state[h] = "PENDING" => ~cancelled[h]

\* The contract of 3.14: when cancel() or cancelled() has returned on one
\* thread, the callback is not running on another one.
SettledOnReturn ==
    [][\A t \in Threads, h \in Handles :
         \/ Cancel(t, h)
         \/ Resume(t) /\ wait[t].handle = h
         => run_state'[h] # "RUNNING" \/ Runs(t, h)]_handleVars

\* run() borrows callback and arguments for the whole call: nobody releases
\* them while the callback is running, not even the callback's own cancel().
BorrowedWhileRunning ==
    \A h \in Handles : run_state[h] = "RUNNING" => ~cleared[h]

\* A cancelled handle keeps nothing alive once no callback is running.
CancelReleases ==
    \A h \in Handles :
        cancelled[h] /\ run_state[h] # "RUNNING" => cleared[h]

\* A Waiter lives on the stack of the thread it belongs to.  The list only
\* names threads that are still parked, and is empty unless the callback is
\* running, so that each lock is released exactly once.
WaitersParked ==
    \A h \in Handles :
        /\ waiters[h] = {t \in Threads : /\ wait[t] # None
                                         /\ wait[t].handle = h
                                         /\ wait[t].on = "lock"}
        /\ waiters[h] # {} => run_state[h] = "RUNNING"

\* mustWait, by its comment: from the running thread itself there is nothing
\* to wait for.  The code compares with the innermost run only, so a callback
\* that runs another handle's _run() may end up waiting for itself.
NeverWaitsForItself ==
    \A t \in Threads : wait[t] # None => ~Runs(t, wait[t].handle)

\* A parked cancel() or cancelled() returns, if callbacks do.
WaitEnds == \A t \in Threads : wait[t] # None ~> wait[t] = None
=============================================================================
