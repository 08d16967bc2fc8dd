----------------------------- MODULE Executors -----------------------------
(***************************************************************************)
(* The default executor and its end (zuvloop/_base.py): run_in_executor(), *)
(* set_default_executor(), shutdown_default_executor() with the thread     *)
(* that joins the workers, and the executor's part of close().             *)
(*                                                                         *)
(* The pool (concurrent.futures) is external: it takes jobs until it is    *)
(* shut, and runs those it has taken.                                      *)
(***************************************************************************)
EXTENDS Naturals

CONSTANTS
    Pools,  \* executors of the application
    Jobs    \* calls of run_in_executor(), or of submit()

VARIABLES ex, job

(***************************************************************************)
(* loop: "stopped", "running", "closing" or "closed"                       *)
(* default, called: _default_executor and _executor_shutdown_called        *)
(* shut: the executors that take no more jobs                              *)
(* replaced: history, default executors that another one replaced          *)
(* task: shutdown_default_executor(): "none", "waiting", or how it ended   *)
(* fut, wake: the future it awaits, and how the await ended                *)
(* pool, timed: the executor it shuts, and whether there is a timeout      *)
(* joiner: the thread of _shutdown_executor(); "scheduling" is inside      *)
(*         call_soon_threadsafe(), "refused" in the handler of its error   *)
(* note: its call_soon_threadsafe() callback                               *)
(* taken: the executor close() has put aside                               *)
(***************************************************************************)
execVars == <<ex, job>>

NoPool == "none"
Own == "zuvloop"    \* the ThreadPoolExecutor of the loop's making

ASSUME PoolsAssumption == NoPool \notin Pools

ExecInit ==
    /\ ex = [loop |-> "stopped", default |-> NoPool, called |-> FALSE, shut |-> {}, replaced |-> {},
            task |-> "none", fut |-> "none", wake |-> "no", pool |-> NoPool, timed |-> FALSE,
            joiner |-> "none", note |-> "none", taken |-> NoPool]
    /\ job = [j \in Jobs |-> [at |-> "none", on |-> NoPool, asDefault |-> FALSE]]

Unfinished(p) == {j \in Jobs : job[j].on = p /\ job[j].at # "done"}
isClosed(y) == y.loop \in {"closing", "closed"}
Callable == ~isClosed(ex)
Submitted(j, p, asDefault) ==
    /\ p \notin ex.shut
    /\ job' = [job EXCEPT ![j] = [at |-> "queued", on |-> p, asDefault |-> asDefault]]

-----------------------------------------------------------------------------
(* Python calls *)

\* Mutant: an executor is made again after the shutdown.
run_in_executorLate(j) ==
    /\ Callable /\ job[j].at = "none"
    /\ LET p == IF ex.default = NoPool THEN Own ELSE ex.default IN
         Submitted(j, p, TRUE) /\ ex' = [ex EXCEPT !.default = p]

\* With None for the executor: refused after the shutdown of the default one,
\* which is made when it is first needed.
run_in_executor(j) ==
    /\ Callable /\ job[j].at = "none"
    /\ ~ex.called
    /\ LET p == IF ex.default = NoPool THEN Own ELSE ex.default IN
         Submitted(j, p, TRUE) /\ ex' = [ex EXCEPT !.default = p]

\* With an executor, or its own submit().
submit(j) ==
    /\ Callable /\ job[j].at = "none"
    /\ \E p \in Pools : Submitted(j, p, FALSE)
    /\ UNCHANGED ex

set_default_executor(p) ==
    /\ ex.loop # "closing" /\ ex.default # p
    /\ ex' = [ex EXCEPT !.default = p, !.replaced = @ \cup ({ex.default} \ {NoPool})]
    /\ UNCHANGED job

shutdown_default_executor ==
    /\ ex.loop = "running" /\ ex.task = "none"
    /\ \E timed \in BOOLEAN :
         ex' = IF ex.default = NoPool THEN [ex EXCEPT !.called = TRUE, !.task = "returned"]
              ELSE [ex EXCEPT !.called = TRUE, !.task = "waiting", !.fut = "pending", !.pool = ex.default,
                             !.timed = timed, !.joiner = "shutting"]
    /\ UNCHANGED job

\* asyncio.timeout(), or whoever cancels the task: also when the future is done
\* and the task has not run yet.
Interrupt(how) ==
    /\ ex.loop = "running" /\ ex.task = "waiting" /\ ex.wake \in {"no", "ok"}
    /\ ex' = [ex EXCEPT !.wake = how, !.fut = IF @ = "pending" THEN "cancelled" ELSE @]
    /\ UNCHANGED job
Timeout == ex.timed /\ Interrupt("timeout")

\* The thread is joined however the wait ended.
ResumesJoining ==
    /\ ex.loop = "running" /\ ex.task = "waiting" /\ ex.wake # "no" /\ ex.joiner = "done"
    /\ ex' = [ex EXCEPT !.task = "returned"]
    /\ UNCHANGED job

\* The thread is joined only after the future is done.
Resumes ==
    /\ ex.loop = "running" /\ ex.task = "waiting"
    /\ \/ ex.wake = "ok" /\ ex.joiner = "done" /\ ex' = [ex EXCEPT !.task = "returned"]
       \/ ex.wake = "timeout" /\ ex' = [ex EXCEPT !.task = "warned", !.shut = @ \cup {ex.pool}]
       \/ ex.wake = "cancelled" /\ ex' = [ex EXCEPT !.task = "cancelled"]
    /\ UNCHANGED job

_set_result_unless_cancelled(y) ==
    IF y.fut = "pending" THEN [y EXCEPT !.fut = "done", !.wake = "ok", !.note = "ran"]
    ELSE [y EXCEPT !.note = "ran"]

NoteRuns ==
    /\ ex.loop = "running" /\ ex.note = "queued"
    /\ ex' = _set_result_unless_cancelled(ex)
    /\ UNCHANGED job

-----------------------------------------------------------------------------
(* The workers, and _shutdown_executor() on its thread *)

Worker(j) ==
    /\ job[j].at \in {"queued", "running"}
    /\ job' = [job EXCEPT ![j].at = IF @ = "queued" THEN "running" ELSE "done"]
    /\ UNCHANGED ex

\* executor.shutdown(wait=True), then call_soon_threadsafe(), which checks that the
\* loop is open before it queues the callback; its error is looked into later.
_shutdown_executor ==
    /\ \/ ex.joiner = "shutting" /\ ex' = [ex EXCEPT !.shut = @ \cup {ex.pool}, !.joiner = "joining"]
       \/ ex.joiner = "joining" /\ Unfinished(ex.pool) = {} /\ ex' = [ex EXCEPT !.joiner = "notifying"]
       \/ ex.joiner = "notifying" /\ ex' = [ex EXCEPT !.joiner = IF isClosed(ex) THEN "refused" ELSE "scheduling"]
       \/ ex.joiner = "scheduling" /\ ex' = [ex EXCEPT !.note = "queued", !.joiner = "done"]
       \/ ex.joiner = "refused" /\ ex' = [ex EXCEPT !.joiner = IF isClosed(ex) THEN "done" ELSE "raised"]
    /\ UNCHANGED job

-----------------------------------------------------------------------------
(* The loop: it runs and stops, and close() puts the executor aside, closes *)
(* the loop and then shuts the executor, without waiting for its jobs       *)

RunOrStop ==
    /\ ex' = [ex EXCEPT !.loop = IF @ = "stopped" THEN "running" ELSE "stopped"]
    /\ ~isClosed(ex) /\ UNCHANGED job

LoopClose ==
    /\ \/ /\ ex.loop = "stopped"
          /\ ex' = [ex EXCEPT !.loop = "closing", !.taken = ex.default, !.default = NoPool]
       \/ /\ ex.loop = "closing"
          /\ ex' = [ex EXCEPT !.loop = "closed", !.shut = @ \cup ({ex.taken} \ {NoPool})]
    /\ UNCHANGED job

ExecNext ==
    \/ \E j \in Jobs : run_in_executor(j) \/ submit(j) \/ Worker(j)
    \/ \E p \in Pools : set_default_executor(p)
    \/ shutdown_default_executor \/ Timeout \/ Interrupt("cancelled") \/ Resumes \/ NoteRuns
    \/ _shutdown_executor \/ RunOrStop \/ LoopClose

ExecFairness ==
    /\ WF_execVars(Timeout) /\ WF_execVars(Resumes) /\ WF_execVars(NoteRuns)
    /\ WF_execVars(_shutdown_executor)

-----------------------------------------------------------------------------
\* When shutdown_default_executor() returns without a warning every job given
\* to the default executor is done, and none is taken later.  An executor that
\* set_default_executor() replaced is no longer the loop's to join.
DefaultDrained ==
    ex.task = "returned" =>
        \A j \in Jobs : job[j].asDefault /\ job[j].on \notin ex.replaced => job[j].at = "done"

\* With a timeout the shutdown ends although a job never does, if the loop
\* keeps running.
ShutdownEnds == (ex.task = "waiting" /\ ex.timed) ~> (ex.task # "waiting" \/ ex.loop # "running")
=============================================================================
