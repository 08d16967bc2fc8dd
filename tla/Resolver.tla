------------------------------ MODULE Resolver ------------------------------
(***************************************************************************)
(* Name resolution (zig/dns.zig) and who owns what when the loop is closed *)
(* or deallocated with requests outstanding (closeAllHandles, the reaper   *)
(* thread and reap_state of zig/loop.zig).                                 *)
(*                                                                         *)
(* libuv runs a request on its threadpool and calls back on the thread     *)
(* that runs the loop.  close() cannot wait for a resolver that libuv      *)
(* cannot cancel, so it leaves the libuv loop to a thread of its own, and  *)
(* the loop object and that thread settle with reap_state which of them    *)
(* frees the storage.  Converting the arguments of a call may run Python   *)
(* code, which may close the loop.                                         *)
(***************************************************************************)
EXTENDS Integers, FiniteSets

CONSTANTS
    Requests,    \* calls of _getaddrinfo and _getnameinfo
    Kinds,       \* which of "getaddrinfo" and "getnameinfo" are made
    Reentrant    \* the kinds whose argument conversion runs Python code

ASSUME KindsAssumption == /\ Kinds \subseteq {"getaddrinfo", "getnameinfo"}
                          /\ Reentrant \subseteq Kinds

VARIABLES
    phase,       \* what the thread that has the loop is doing
    closed,      \* State.closed
    dying,       \* the loop object is being deallocated
    kind,        \* Request.kind
    req,         \* how far each call is
    fut,         \* the state of the future of each call
    owned,       \* Request.future is not null
    reap_state,  \* State.reap_state
    reaper,      \* the reaper thread: "none", "running", "handing", "freeing", "done"
    release,     \* releaseStateFromLoopObject: "none", "load", "swap", "done"
    freed,       \* how often freeStateStorage ran
    late         \* history: a request was handed to a libuv loop already closed

vars ==
    <<phase, closed, dying, kind, req, fut, owned, reap_state, reaper, release, freed, late>>

\* The requests libuv still has, which are the requests linked in dns_requests.
Outstanding == {r \in Requests : req[r] \in {"queued", "working", "answered"}}

Init ==
    /\ phase = "open" /\ closed = FALSE /\ dying = FALSE
    /\ kind \in [Requests -> Kinds]
    /\ req = [r \in Requests |-> "none"]
    /\ fut = [r \in Requests |-> "none"]
    /\ owned = [r \in Requests |-> FALSE]
    /\ reap_state = 0 /\ reaper = "none" /\ release = "none" /\ freed = 0
    /\ late = FALSE

-----------------------------------------------------------------------------
(* Python calls.                                                           *)

Idle == phase \in {"open", "running", "closed"} /\ ~dying
Converting == {r \in Requests : req[r] = "converting"}
isReaping == reap_state # 0

\* checkClosed, then the arguments are converted.
Call(r) ==
    /\ phase \in {"open", "running"} /\ ~dying
    /\ req[r] = "none"
    /\ req' = [req EXCEPT ![r] = "converting"]
    /\ UNCHANGED <<phase, closed, dying, kind, fut, owned, reap_state, reaper, release, freed, late>>

\* The call raises: getaddrinfo finds the loop closed, or libuv refuses the
\* request, which is then freed.
Raise(r) ==
    /\ Idle /\ req[r] = "converting"
    /\ req' = [req EXCEPT ![r] = "freed"]
    /\ UNCHANGED <<phase, closed, dying, kind, fut, owned, reap_state, reaper, release, freed, late>>

\* getaddrinfo answers an address literal without a request.
Resolve(r) ==
    /\ Idle /\ req[r] = "converting" /\ kind[r] = "getaddrinfo" /\ ~closed
    /\ req' = [req EXCEPT ![r] = "freed"]
    /\ fut' = [fut EXCEPT ![r] = "done"]
    /\ UNCHANGED <<phase, closed, dying, kind, owned, reap_state, reaper, release, freed, late>>

\* allocRequest and the submission.  Only getaddrinfo looks at closed again: what
\* follows the submission to a closed libuv loop is undefined, and no property
\* speaks of it.
Submit(r) ==
    /\ Idle /\ req[r] = "converting"
    /\ kind[r] = "getaddrinfo" => ~closed
    /\ late' = (late \/ closed)
    /\ req' = [req EXCEPT ![r] = "queued"]
    /\ fut' = [fut EXCEPT ![r] = "pending"]
    /\ owned' = [owned EXCEPT ![r] = TRUE]
    /\ UNCHANGED <<phase, closed, dying, kind, reap_state, reaper, release, freed>>

\* Whoever waits for the answer gives up.
CancelFuture(r) ==
    /\ Idle /\ fut[r] = "pending"
    /\ fut' = [fut EXCEPT ![r] = "cancelled"]
    /\ UNCHANGED <<phase, closed, dying, kind, req, owned, reap_state, reaper, release, freed, late>>

RunForever ==
    /\ phase = "open" /\ ~dying /\ Converting = {}
    /\ phase' = "running"
    /\ UNCHANGED <<closed, dying, kind, req, fut, owned, reap_state, reaper, release, freed, late>>

Stopped ==
    /\ phase = "running" /\ Converting = {}
    /\ phase' = "open"
    /\ UNCHANGED <<closed, dying, kind, req, fut, owned, reap_state, reaper, release, freed, late>>

-----------------------------------------------------------------------------
(* libuv's threadpool.                                                     *)

WorkerTakes(r) ==
    /\ req[r] = "queued"
    /\ req' = [req EXCEPT ![r] = "working"]
    /\ UNCHANGED <<phase, closed, dying, kind, fut, owned, reap_state, reaper, release, freed, late>>

WorkerAnswers(r) ==
    /\ req[r] = "working"
    /\ req' = [req EXCEPT ![r] = "answered"]
    /\ UNCHANGED <<phase, closed, dying, kind, fut, owned, reap_state, reaper, release, freed, late>>

\* onAddrInfo and onNameInfo on the loop's thread: settle, unless the future is
\* done or the loop closed, then freeRequest.
OnInfo(r) ==
    /\ phase \in {"running", "draining", "syncing"} /\ req[r] = "answered"
    /\ ~isReaping
    /\ fut' = IF ~closed /\ fut[r] = "pending" THEN [fut EXCEPT ![r] = "done"] ELSE fut
    /\ req' = [req EXCEPT ![r] = "freed"]
    /\ owned' = [owned EXCEPT ![r] = FALSE]
    /\ UNCHANGED <<phase, closed, dying, kind, reap_state, reaper, release, freed, late>>

-----------------------------------------------------------------------------
(* Closing.                                                                *)

\* close() up to the first turn of closeAllHandles: cancelAll cancels the
\* requests no worker has taken.
StartClosing ==
    /\ closed' = TRUE
    /\ phase' = "draining"
    /\ req' = [r \in Requests |-> IF req[r] = "queued" THEN "answered" ELSE req[r]]

CloseLoop ==
    /\ phase = "open" /\ ~dying
    /\ \A r \in Converting : kind[r] \in Reentrant
    /\ StartClosing
    /\ UNCHANGED <<dying, kind, fut, owned, reap_state, reaper, release, freed, late>>

\* Mutant: the futures stay with the requests the reaper takes over.
FinishClosingKeepsFutures ==
    /\ phase = "draining"
    /\ phase' = "closed"
    /\ IF Outstanding = {} THEN UNCHANGED <<reap_state, reaper>>
       ELSE reap_state' = 1 /\ reaper' = "running"
    /\ UNCHANGED <<closed, dying, kind, req, fut, owned, release, freed, late>>

\* Mutant: close() runs the loop until every request has been answered.
FinishClosingWaits ==
    /\ phase = "draining" /\ Outstanding = {}
    /\ phase' = "closed"
    /\ UNCHANGED <<closed, dying, kind, req, fut, owned, reap_state, reaper, release, freed, late>>

\* Once the handles are closed: uv_loop_close, or the reaper, or - when the
\* thread cannot be created - waiting for the resolver.
FinishClosing ==
    /\ phase = "draining"
    /\ \/ /\ Outstanding = {}
          /\ phase' = "closed"
          /\ UNCHANGED <<owned, reap_state, reaper>>
       \/ /\ Outstanding # {}
          /\ owned' = [r \in Requests |-> FALSE]
          /\ \/ /\ reap_state' = 1 /\ reaper' = "running" /\ phase' = "closed"
             \/ /\ phase' = "syncing" /\ UNCHANGED <<reap_state, reaper>>
    /\ UNCHANGED <<closed, dying, kind, req, fut, release, freed, late>>

FinishSyncing ==
    /\ phase = "syncing" /\ Outstanding = {}
    /\ phase' = "closed"
    /\ UNCHANGED <<closed, dying, kind, req, fut, owned, reap_state, reaper, release, freed, late>>

\* The last reference to the loop object goes.
Dealloc ==
    /\ phase \in {"open", "closed"} /\ ~dying /\ Converting = {}
    /\ dying' = TRUE
    /\ IF closed THEN UNCHANGED <<closed, phase, req>> ELSE StartClosing
    /\ UNCHANGED <<kind, fut, owned, reap_state, reaper, release, freed, late>>

\* releaseStateFromLoopObject: read reap_state, and either free the storage or
\* try to leave it to the reaper.
ReleaseLoad ==
    /\ \/ dying /\ phase = "closed" /\ release = "none"
       \/ release = "load"
    /\ IF reap_state \in {0, 3}
       THEN release' = "done" /\ freed' = freed + 1
       ELSE release' = "swap" /\ UNCHANGED freed
    /\ UNCHANGED <<phase, closed, dying, kind, req, fut, owned, reap_state, reaper, late>>

ReleaseSwap ==
    /\ release = "swap"
    /\ IF reap_state = 1
       THEN release' = "done" /\ reap_state' = 2
       ELSE release' = "load" /\ UNCHANGED reap_state
    /\ UNCHANGED <<phase, closed, dying, kind, req, fut, owned, reaper, freed, late>>

-----------------------------------------------------------------------------
(* The reaper thread.                                                      *)

\* onAddrInfo and onNameInfo under isReaping: only the request is freed.
ReaperOnInfo(r) ==
    /\ reaper = "running" /\ req[r] = "answered"
    /\ req' = [req EXCEPT ![r] = "freed"]
    /\ UNCHANGED <<phase, closed, dying, kind, fut, owned, reap_state, reaper, release, freed, late>>

\* uv_run returns when nothing is left, and uv_loop_close succeeds.
ReaperFinishes ==
    /\ reaper = "running" /\ Outstanding = {}
    /\ reaper' = "handing"
    /\ UNCHANGED <<phase, closed, dying, kind, req, fut, owned, reap_state, release, freed, late>>

\* Mutant: the reaper stores state 3 instead of exchanging it for 1.
ReaperHandsOverStores ==
    /\ reaper = "handing"
    /\ reap_state' = 3 /\ reaper' = "done"
    /\ UNCHANGED <<phase, closed, dying, kind, req, fut, owned, release, freed, late>>

ReaperHandsOver ==
    /\ reaper = "handing"
    /\ IF reap_state = 1
       THEN reap_state' = 3 /\ reaper' = "done"
       ELSE reap_state = 2 /\ reaper' = "freeing" /\ UNCHANGED reap_state
    /\ UNCHANGED <<phase, closed, dying, kind, req, fut, owned, release, freed, late>>

ReaperFrees ==
    /\ reaper = "freeing"
    /\ reaper' = "done"
    /\ freed' = freed + 1
    /\ UNCHANGED <<phase, closed, dying, kind, req, fut, owned, reap_state, release, late>>

Next ==
    \/ \E r \in Requests :
          \/ Call(r) \/ Raise(r) \/ Resolve(r) \/ Submit(r) \/ CancelFuture(r)
          \/ WorkerTakes(r) \/ WorkerAnswers(r) \/ OnInfo(r) \/ ReaperOnInfo(r)
    \/ RunForever \/ Stopped
    \/ CloseLoop \/ FinishClosing \/ FinishSyncing
    \/ Dealloc \/ ReleaseLoad \/ ReleaseSwap
    \/ ReaperFinishes \/ ReaperHandsOver \/ ReaperFrees

Spec == Init /\ [][Next]_vars

\* The loop and the reaper go on, whatever the resolver does: libuv closes a
\* handle in one turn, and a thread that has something to do is scheduled.
LoopFairness ==
    /\ \A r \in Requests : SF_vars(OnInfo(r)) /\ WF_vars(ReaperOnInfo(r))
    /\ WF_vars(FinishClosing) /\ WF_vars(FinishSyncing)
    /\ WF_vars(ReleaseLoad) /\ WF_vars(ReleaseSwap)
    /\ WF_vars(ReaperFinishes) /\ WF_vars(ReaperHandsOver) /\ WF_vars(ReaperFrees)

-----------------------------------------------------------------------------
(* Properties.                                                             *)

\* Types.
TypeOK ==
    /\ phase \in {"open", "running", "draining", "syncing", "closed"}
    /\ closed \in BOOLEAN /\ dying \in BOOLEAN /\ late \in BOOLEAN
    /\ kind \in [Requests -> Kinds]
    /\ req \in [Requests -> {"none", "converting", "queued", "working", "answered", "freed"}]
    /\ fut \in [Requests -> {"none", "pending", "done", "cancelled"}]
    /\ owned \in [Requests -> BOOLEAN]
    /\ reap_state \in 0..3
    /\ reaper \in {"none", "running", "handing", "freeing", "done"}
    /\ release \in {"none", "load", "swap", "done"}
    /\ freed \in Nat

\* Unless getnameinfo() has submitted to a closed loop: freeStateStorage runs
\* once, and only when nobody can reach the storage any more: the loop object has
\* let go of it, the reaper thread makes no further access, and libuv has no
\* request left that points into it.
StorageOwned ==
    ~late =>
        /\ freed <= 1
        /\ freed = 1 => release = "done" /\ reaper \in {"none", "done"} /\ Outstanding = {}

\* Under the same condition, neither side of the handover can meet the state its
\* switch panics on.
NoInvalidOwner ==
    ~late =>
        /\ dying /\ phase = "closed" /\ release \in {"none", "load"} => reap_state # 2
        /\ reaper = "handing" => reap_state \in {1, 2}

\* The reaper thread has no Python thread state: from the moment it runs, no
\* request holds a future that it would have to release, unless getnameinfo() has
\* submitted one to the closed loop.
ReaperIsNative == ~late /\ reaper # "none" => \A r \in Requests : ~owned[r]

\* close() returns however long the resolver takes, unless the reaper thread
\* cannot be created.
CloseReturns == phase = "draining" ~> phase \in {"closed", "syncing"}

\* the resolver answers in the end
ResolverAnswers ==
    \A r \in Requests : WF_vars(WorkerTakes(r)) /\ WF_vars(WorkerAnswers(r))

\* The storage of a deallocated loop is reclaimed once the resolver has
\* answered, by whichever of the loop object and the reaper comes second.
StorageReclaimed == ResolverAnswers => (dying /\ ~late ~> freed = 1)

=============================================================================
