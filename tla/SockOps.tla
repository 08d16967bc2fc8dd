------------------------------ MODULE SockOps -------------------------------
(***************************************************************************)
(* The sock_*() operations of zuvloop/_sockets.py on top of Poller: each   *)
(* waits for the descriptor by registering a watcher, under a token by     *)
(* which its cleanup recognises the registration as its own.               *)
(*                                                                         *)
(* A task whose operation is done or cancelled cleans up when it is        *)
(* resumed, a turn later; another operation may have started on the same   *)
(* descriptor by then.  The program may use add_reader() itself, too.      *)
(***************************************************************************)
EXTENDS Poller

CONSTANTS
    Ops,          \* the tasks that call sock_*()
    Program       \* the owner of a watcher the program installed itself

ASSUME OpsAssumption == Nothing \notin Ops /\ Program \notin Ops /\ Program # Nothing

VARIABLES
    op,             \* what each task is doing
    dir,            \* the direction of its operation
    sock_watchers,  \* the token registered for each direction: its task
    owner,          \* whose callback a handle carries
    avail,          \* kernel: the directions in which an attempt would succeed
    mixed           \* the program uses add_reader() on the descriptor, too

sockVars == <<op, dir, sock_watchers, owner, avail, mixed>>
allVars == <<vars, sockVars>>

SockInit ==
    /\ Init
    /\ op = [o \in Ops |-> "idle"]
    /\ dir = [o \in Ops |-> "reader"]
    /\ sock_watchers = [d \in Directions |-> Nothing]
    /\ owner = [h \in Handles |-> Nothing]
    /\ avail = {} /\ mixed \in BOOLEAN

-----------------------------------------------------------------------------

\* The first attempt is made at once; the operation may be over with it.
StartReady(o, d) ==
    /\ ~closed /\ op[o] = "idle" /\ d \in avail
    /\ avail' \in {avail, avail \ {d}}
    /\ UNCHANGED <<vars, op, dir, sock_watchers, owner, mixed>>

\* _retry_ready and sock_connect: the attempt would block, so _watch.
StartWatching(o, d, h) ==
    /\ op[o] = "idle" /\ d \notin avail
    /\ op' = [op EXCEPT ![o] = "waiting"]
    /\ dir' = [dir EXCEPT ![o] = d]
    /\ sock_watchers' = [sock_watchers EXCEPT ![d] = o]
    /\ owner' = [owner EXCEPT ![h] = o]
    /\ add(d, h)
    /\ UNCHANGED <<avail, mixed>>

\* _watch when add_reader() raises: the token is on record all the same.
StartRaises(o, d) ==
    /\ ~closed /\ op[o] = "idle" /\ d \notin avail
    /\ sock_watchers' = [sock_watchers EXCEPT ![d] = o]
    /\ addNoMemory \/ UNCHANGED vars
    /\ UNCHANGED <<op, dir, owner, avail, mixed>>

\* task.cancel(): the future is cancelled now, the task resumed later.
Cancel(o) ==
    /\ ~closed /\ op[o] \in {"waiting", "settled"}
    /\ op' = [op EXCEPT ![o] = "leaving"]
    /\ UNCHANGED <<vars, dir, sock_watchers, owner, avail, mixed>>

\* Mutant: the cleanup removes whatever is registered.
ResumeBlind(o) ==
    /\ ~closed /\ op[o] \in {"settled", "leaving"}
    /\ op' = [op EXCEPT ![o] = "idle"]
    /\ IF slot[dir[o]] = Nothing THEN UNCHANGED vars ELSE remove(dir[o])
    /\ UNCHANGED <<dir, sock_watchers, owner, avail, mixed>>

\* The task resumes and runs _unwatch.
Resume(o) ==
    /\ ~closed /\ op[o] \in {"settled", "leaving"}
    /\ op' = [op EXCEPT ![o] = "idle"]
    /\ IF sock_watchers[dir[o]] # o THEN UNCHANGED <<vars, sock_watchers>>
       ELSE /\ sock_watchers' = [sock_watchers EXCEPT ![dir[o]] = Nothing]
            /\ IF slot[dir[o]] = Nothing THEN UNCHANGED vars ELSE remove(dir[o])
    /\ UNCHANGED <<dir, owner, avail, mixed>>

\* The next queued callback: _attempt() of a task, unless the handle has been
\* cancelled, the future is done, or the attempt would block again.
RunCallback ==
    /\ run
    /\ LET h == Head(ready)
           o == owner[h]
       IN  IF h \notin flagged /\ o \in Ops /\ op[o] = "waiting" /\ dir[o] \in avail
           THEN /\ op' = [op EXCEPT ![o] = "settled"]
                /\ avail' \in {avail, avail \ {dir[o]}}
           ELSE UNCHANGED <<op, avail>>
    /\ UNCHANGED <<dir, sock_watchers, owner, mixed>>

\* The program's own add_reader() and remove_reader().
ProgramAdd(d, h) ==
    /\ mixed
    /\ add(d, h)
    /\ owner' = [owner EXCEPT ![h] = Program]
    /\ UNCHANGED <<op, dir, sock_watchers, avail, mixed>>

ProgramRemove(d) == mixed /\ remove(d) /\ UNCHANGED sockVars

\* The kernel: the descriptor becomes ready.
Arrives(d) ==
    /\ d \notin avail
    /\ avail' = avail \cup {d}
    /\ UNCHANGED <<vars, op, dir, sock_watchers, owner, mixed>>

\* Readiness is level-triggered: libuv reports it while it lasts.
Polls ==
    /\ onPoll(polled \cap avail)
    /\ UNCHANGED sockVars

PollFails == onPollError /\ UNCHANGED sockVars
Closes == onClosed /\ UNCHANGED sockVars
CloseLoop == closeAll /\ UNCHANGED sockVars

SockNext ==
    \/ \E o \in Ops, d \in Directions : StartReady(o, d) \/ StartRaises(o, d)
    \/ \E o \in Ops, d \in Directions, h \in Handles : StartWatching(o, d, h)
    \/ \E o \in Ops : Cancel(o) \/ Resume(o)
    \/ \E d \in Directions, h \in Handles : ProgramAdd(d, h)
    \/ \E d \in Directions : ProgramRemove(d) \/ Arrives(d)
    \/ RunCallback \/ Polls \/ PollFails \/ Closes \/ CloseLoop

SockSpec == SockInit /\ [][SockNext]_allVars

-----------------------------------------------------------------------------
(* Properties.                                                             *)

\* A task that waits, and whose token is the one on record, has its watcher in
\* place: the late cleanup of an earlier operation has not removed it.
WaiterIsWatched ==
    ~mixed /\ ~closed => \A o \in Ops :
        op[o] = "waiting" /\ sock_watchers[dir[o]] = o =>
            slot[dir[o]] # Nothing /\ owner[slot[dir[o]]] = o

=============================================================================
