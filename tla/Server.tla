------------------------------- MODULE Server -------------------------------
(***************************************************************************)
(* A listening server: zuvloop/_server.py, with the accept paths of        *)
(* zuvloop/_connect.py and the close callback of zig/transport.zig, which  *)
(* is what takes a connection off the server's count.                      *)
(*                                                                         *)
(* A connection is what has become of its socket:                          *)
(*   factory    _accept() is in the protocol factory                       *)
(*   task       the TLS task exists and has not run                        *)
(*   handshake  libuv has the descriptor, the TLS task waits               *)
(*   open       libuv has the descriptor                                   *)
(*   draining   close() waits for the transport's writes                   *)
(*   leaving    uv_close() was called, onClosed() is due                   *)
(*   gone       closed and off the count                                   *)
(*   stray      its task ended without closing it                          *)
(***************************************************************************)
EXTENDS Integers, FiniteSets

CONSTANTS
    Socks,         \* the listening sockets
    Conns,         \* the connections
    Tasks,         \* the tasks that serve and wait
    Nothing,       \* no socket, connection or task
    MaxRetries     \* bound: retries that are due

ASSUME NothingAssumption == Nothing \notin Socks \union Conns \union Tasks
ASSUME BoundAssumption == MaxRetries \in Nat

VARIABLES
    sockets,          \* Server._sockets is not None
    serving,          \* Server._serving
    active,           \* Server._active
    transports,       \* Server._transports
    waiters,          \* Server._waiters: the tasks in it
    gone,             \* Server._waiters is None
    serving_forever,  \* Server._serving_forever: whose future it is
    readers,          \* the sockets with a reader on the loop
    retries,          \* _start_serving() calls the loop has a timer for
    deaf,             \* history: the last _start_serving() raised halfway
    accepting,        \* the socket _accept() runs for
    incoming,         \* the connection whose factory _accept() is in
    conn,             \* the connections
    pc,               \* the tasks
    tls,              \* the server has an SSL context
    miscounted        \* history: a TLS task was cancelled when _active suffers

vars == <<sockets, serving, active, transports, waiters, gone, serving_forever,
          readers, retries, deaf, accepting, incoming, conn, pc, tls, miscounted>>
frame == <<accepting, incoming>>
tlsVars == <<tls, miscounted>>
listening == <<sockets, serving, readers, retries, deaf>>
waiting == <<waiters, gone, serving_forever, pc>>

Live == {"factory", "task", "handshake", "open", "draining", "leaving"}

Init ==
    /\ sockets = TRUE /\ serving = FALSE /\ active = 0 /\ transports = {}
    /\ waiters = {} /\ gone = FALSE /\ serving_forever = Nothing
    /\ readers = {} /\ retries = 0 /\ deaf = FALSE /\ accepting = Nothing /\ incoming = Nothing
    /\ conn = [c \in Conns |-> "new"] /\ pc = [t \in Tasks |-> "idle"]
    /\ tls \in BOOLEAN /\ miscounted = FALSE

\* The loop is free to run a callback, or the program runs in one or in a factory.
AtLoop == accepting = Nothing
InPython == AtLoop \/ incoming # Nothing

-----------------------------------------------------------------------------
(* Waiting and counting *)

\* Mutant: one waiter is told, and the list dropped.
_wakeupOne(tasks) ==
    /\ gone' = TRUE /\ waiters' = {}
    /\ pc' = IF \A t \in waiters : tasks[t] # "waiting" THEN tasks
             ELSE [tasks EXCEPT ![CHOOSE t \in waiters : tasks[t] = "waiting"] = "woken"]

\* _wakeup(), given the tasks as the caller leaves them: a cancelled waiter
\* is done already.
_wakeup(tasks) ==
    /\ gone' = TRUE /\ waiters' = {}
    /\ pc' = [t \in Tasks |-> IF t \in waiters /\ tasks[t] = "waiting" THEN "woken" ELSE tasks[t]]

\* Mutant: the last client to leave ends the wait, whether or not the server listens.
_detachAlways ==
    /\ active' = active - 1
    /\ IF active' = 0 THEN _wakeup(pc) ELSE UNCHANGED <<waiters, gone, pc>>
    /\ UNCHANGED serving_forever

\* _detach(), which is called for one connection.
_detach ==
    /\ active' = active - 1
    /\ IF active' = 0 /\ ~sockets THEN _wakeup(pc) ELSE UNCHANGED <<waiters, gone, pc>>
    /\ UNCHANGED serving_forever

\* close(), given the tasks as the caller leaves them.
closeServer(tasks) ==
    LET interrupts == serving_forever # Nothing /\ tasks[serving_forever] = "forever"
        told == IF interrupts THEN [tasks EXCEPT ![serving_forever] = "interrupted"] ELSE tasks
    IN  /\ serving_forever' = IF interrupts THEN Nothing ELSE serving_forever
        /\ sockets' = FALSE
        /\ IF sockets
           THEN /\ serving' = FALSE /\ readers' = {}
                /\ IF active = 0 THEN _wakeup(told) ELSE pc' = told /\ UNCHANGED <<waiters, gone>>
           ELSE pc' = told /\ UNCHANGED <<serving, readers, waiters, gone>>

close ==
    /\ InPython
    /\ closeServer(pc)
    /\ UNCHANGED <<active, transports, retries, deaf, frame, conn, tlsVars>>

\* wait_closed(): up to its await, or to its end if there is nothing to await.
wait_closed(t) ==
    /\ AtLoop /\ pc[t] = "idle"
    /\ IF gone \/ (~sockets /\ active = 0)
       THEN pc' = [pc EXCEPT ![t] = "done"] /\ UNCHANGED waiters
       ELSE pc' = [pc EXCEPT ![t] = "waiting"] /\ waiters' = waiters \union {t}
    /\ UNCHANGED <<listening, active, transports, gone, serving_forever, frame, conn, tlsVars>>

\* The await of wait_closed() ends with its result.
woken(t) ==
    /\ AtLoop /\ pc[t] = "woken"
    /\ pc' = [pc EXCEPT ![t] = "done"]
    /\ serving_forever' = IF serving_forever = t THEN Nothing ELSE serving_forever
    /\ UNCHANGED <<listening, active, transports, waiters, gone, frame, conn, tlsVars>>

\* A task that awaits is cancelled.
cancelTask(t) ==
    /\ InPython
    /\ \/ pc[t] = "forever" /\ pc' = [pc EXCEPT ![t] = "interrupted"]
       \/ pc[t] \in {"waiting", "woken"} /\ pc' = [pc EXCEPT ![t] = "cancelled"]
    /\ UNCHANGED <<listening, active, transports, waiters, gone, serving_forever, frame, conn, tlsVars>>

\* The cancelled await of wait_closed() ends, and the task is free to wait again.
gaveUp(t) ==
    /\ AtLoop /\ pc[t] = "cancelled"
    /\ pc' = [pc EXCEPT ![t] = "idle"]
    /\ waiters' = waiters \ {t}
    /\ serving_forever' = IF serving_forever = t THEN Nothing ELSE serving_forever
    /\ UNCHANGED <<listening, active, transports, gone, frame, conn, tlsVars>>

-----------------------------------------------------------------------------
(* Serving *)

\* Mutant: a server that serves already has its readers.
_start_servingOnce ==
    IF sockets /\ ~serving THEN serving' = TRUE /\ readers' = Socks /\ deaf' = FALSE
                           ELSE UNCHANGED <<serving, readers, deaf>>

\* _start_serving(): every socket gets a reader, one that has one a new one.
_start_serving ==
    IF sockets THEN serving' = TRUE /\ readers' = Socks /\ deaf' = FALSE
               ELSE UNCHANGED <<serving, readers, deaf>>

\* listen() or add_reader() raises, when _serving is set already and the sockets
\* before it have their readers.
startRaises ==
    /\ sockets
    /\ serving' = TRUE /\ deaf' = TRUE
    /\ \E some \in SUBSET Socks : some # Socks /\ readers' = readers \union some

start_serving ==
    /\ AtLoop /\ ~serving
    /\ _start_serving \/ startRaises
    /\ UNCHANGED <<sockets, active, transports, waiting, retries, frame, conn, tlsVars>>

\* serve_forever() up to its await, or to the exception of _start_serving().
serve_forever(t) ==
    /\ AtLoop /\ pc[t] = "idle"
    /\ serving_forever = Nothing /\ sockets
    /\ \/ /\ IF serving THEN UNCHANGED <<serving, readers, deaf>> ELSE _start_serving
          /\ serving_forever' = t /\ pc' = [pc EXCEPT ![t] = "forever"]
       \/ ~serving /\ startRaises /\ UNCHANGED <<serving_forever, pc>>
    /\ UNCHANGED <<sockets, active, transports, waiters, gone, retries, frame, conn, tlsVars>>

\* The await of serve_forever() was cancelled: close() and wait_closed().  The
\* future is done or taken off already, so close() has nobody to interrupt.
interrupted(t) ==
    /\ AtLoop /\ pc[t] = "interrupted"
    /\ sockets' = FALSE /\ serving' = FALSE /\ readers' = {}
    /\ IF gone \/ active = 0
       THEN /\ serving_forever' = Nothing
            /\ LET tasks == [pc EXCEPT ![t] = "done"]
               IN  IF gone THEN pc' = tasks /\ UNCHANGED <<waiters, gone>> ELSE _wakeup(tasks)
       ELSE /\ waiters' = waiters \union {t} /\ pc' = [pc EXCEPT ![t] = "waiting"]
            /\ UNCHANGED <<gone, serving_forever>>
    /\ UNCHANGED <<active, transports, retries, deaf, frame, conn, tlsVars>>

\* The retry after ACCEPT_RETRY_DELAY.  What it raises, the loop reports.
retry ==
    /\ AtLoop /\ retries > 0
    /\ retries' = retries - 1
    /\ _start_serving \/ startRaises
    /\ UNCHANGED <<sockets, active, transports, waiting, frame, conn, tlsVars>>

-----------------------------------------------------------------------------
(* Accepting *)

\* The loop runs _accept() for a socket that is readable.
_accept(s) ==
    /\ AtLoop /\ s \in readers
    /\ accepting' = s
    /\ UNCHANGED <<listening, active, transports, waiting, incoming, conn, tlsVars>>

\* sock.accept() has a connection: the factory is called, or the TLS task created.
accepted(c) ==
    /\ accepting # Nothing /\ incoming = Nothing /\ sockets
    /\ conn[c] = "new"
    /\ active' = active + 1
    /\ conn' = [conn EXCEPT ![c] = IF tls THEN "task" ELSE "factory"]
    /\ incoming' = IF tls THEN Nothing ELSE c
    /\ UNCHANGED <<listening, transports, waiting, accepting, tlsVars>>

\* _attach_transport(): the connection is on the loop, and the loop goes round.
attached ==
    /\ incoming # Nothing
    /\ conn' = [conn EXCEPT ![incoming] = "open"]
    /\ transports' = transports \union {incoming}
    /\ incoming' = Nothing
    /\ UNCHANGED <<listening, active, waiting, accepting, tlsVars>>

\* The factory or _make_transport() raised, and _accept() ends with it.
factoryRaised ==
    /\ incoming # Nothing
    /\ conn' = [conn EXCEPT ![incoming] = "gone"]
    /\ _detach
    /\ incoming' = Nothing /\ accepting' = Nothing
    /\ UNCHANGED <<listening, transports, tlsVars>>

\* The server could not note the transport, which has the descriptor by then.
attachRaised ==
    /\ incoming # Nothing
    /\ conn' = [conn EXCEPT ![incoming] = "leaving"]
    /\ incoming' = Nothing /\ accepting' = Nothing
    /\ UNCHANGED <<listening, active, transports, waiting, tlsVars>>

\* Nothing more to accept, an error that is reported, or the backlog's bound.
acceptEnds ==
    /\ accepting # Nothing /\ incoming = Nothing
    /\ accepting' = Nothing
    /\ UNCHANGED <<listening, active, transports, waiting, incoming, conn, tlsVars>>

\* No descriptors or memory: the reader is removed until the retry.
acceptExhausted ==
    /\ accepting # Nothing /\ incoming = Nothing /\ sockets
    /\ retries < MaxRetries
    /\ readers' = readers \ {accepting}
    /\ retries' = retries + 1
    /\ accepting' = Nothing
    /\ UNCHANGED <<sockets, serving, deaf, active, transports, waiting, incoming, conn, tlsVars>>

-----------------------------------------------------------------------------
(* TLS: _accept_tls() and _wrap_socket() *)

tlsAttached(c) ==
    /\ AtLoop /\ conn[c] = "task"
    /\ conn' = [conn EXCEPT ![c] = "handshake"]
    /\ transports' = transports \union {c}
    /\ UNCHANGED <<listening, active, waiting, frame, tlsVars>>

\* The factory, the context or _make_transport() raised: the socket is still
\* the task's to close and to take off the count.
tlsSetupRaised(c) ==
    /\ AtLoop /\ conn[c] = "task"
    /\ conn' = [conn EXCEPT ![c] = "gone"]
    /\ _detach
    /\ UNCHANGED <<listening, transports, frame, tlsVars>>

\* The task is cancelled before its first step: its body never runs.
tlsCancelledUnstarted(c) ==
    /\ AtLoop /\ conn[c] = "task"
    /\ miscounted' = TRUE
    /\ conn' = [conn EXCEPT ![c] = "stray"]
    /\ UNCHANGED <<listening, active, transports, waiting, frame, tls>>

tlsDone(c) ==
    /\ AtLoop /\ conn[c] = "handshake"
    /\ conn' = [conn EXCEPT ![c] = "open"]
    /\ UNCHANGED <<listening, active, transports, waiting, frame, tlsVars>>

\* The handshake failed, or the task was cancelled with nothing left to write:
\* the transport detached the socket on its way out.
tlsFailed(c) ==
    /\ AtLoop /\ conn[c] = "handshake"
    /\ conn' = [conn EXCEPT ![c] = "leaving"]
    /\ UNCHANGED <<listening, active, transports, waiting, frame, tlsVars>>

\* The task was cancelled while the handshake's bytes were unsent: the socket
\* is not detached yet, and the handler takes it for its own.
tlsCancelledUnsent(c) ==
    /\ AtLoop /\ conn[c] = "handshake"
    /\ miscounted' = TRUE
    /\ conn' = [conn EXCEPT ![c] = "draining"]
    /\ _detach
    /\ UNCHANGED <<listening, transports, frame, tls>>

-----------------------------------------------------------------------------
(* The connections *)

\* The peer, the protocol or an error ends a connection.
connEnds(c) ==
    /\ AtLoop
    /\ \/ conn[c] = "open" /\ \E s \in {"draining", "leaving"} : conn' = [conn EXCEPT ![c] = s]
       \/ conn[c] = "draining" /\ conn' = [conn EXCEPT ![c] = "leaving"]
    /\ UNCHANGED <<listening, active, transports, waiting, frame, tlsVars>>

\* close_clients(): those with writes to finish drain.
close_clients ==
    /\ InPython
    /\ \E drains \in SUBSET transports :
          conn' = [c \in Conns |-> IF c \in transports /\ conn[c] \in {"handshake", "open"}
                                  THEN (IF c \in drains THEN "draining" ELSE "leaving") ELSE conn[c]]
    /\ UNCHANGED <<listening, active, transports, waiting, frame, tlsVars>>

abort_clients ==
    /\ InPython
    /\ conn' = [c \in Conns |-> IF c \in transports THEN "leaving" ELSE conn[c]]
    /\ UNCHANGED <<listening, active, transports, waiting, frame, tlsVars>>

\* onClosed() of the transport calls _detach(transport).
onClosed(c) ==
    /\ AtLoop /\ conn[c] = "leaving"
    /\ conn' = [conn EXCEPT ![c] = "gone"]
    /\ transports' = transports \ {c}
    /\ _detach
    /\ UNCHANGED <<listening, frame, tlsVars>>

-----------------------------------------------------------------------------

Accepts == \/ \E c \in Conns : accepted(c)
           \/ attached \/ factoryRaised \/ attachRaised \/ acceptEnds \/ acceptExhausted

Handshakes ==
    \E c \in Conns : \/ tlsAttached(c) \/ tlsSetupRaised(c) \/ tlsDone(c) \/ tlsFailed(c)
                     \/ tlsCancelledUnstarted(c) \/ tlsCancelledUnsent(c)

TaskSteps == \E t \in Tasks : woken(t) \/ gaveUp(t) \/ interrupted(t)

Program == \/ close \/ start_serving \/ close_clients \/ abort_clients
           \/ \E t \in Tasks : wait_closed(t) \/ serve_forever(t) \/ cancelTask(t)

Next == \/ Program \/ Accepts \/ Handshakes \/ TaskSteps \/ retry
        \/ \E s \in Socks : _accept(s)
        \/ \E c \in Conns : connEnds(c) \/ onClosed(c)

Spec == Init /\ [][Next]_vars

\* _accept() and the factories return.  Whatever else the loop runs, a turn of
\* it runs the timers that are due, the tasks that can go on and the close
\* callbacks: they are waiting again each time _accept() returns, which is what
\* strong fairness is for.  Nothing says that a connection ends.
FairSpec == /\ Spec /\ WF_vars(Accepts) /\ SF_vars(retry)
            /\ \A t \in Tasks : SF_vars(woken(t) \/ gaveUp(t) \/ interrupted(t))
            /\ \A c \in Conns : SF_vars(onClosed(c))

-----------------------------------------------------------------------------

\* wait_closed() is told exactly when the server is closed and its connections
\* are gone: not while it still listens or serves, and nobody sleeps on after.
\* It goes by _active, from which each connection is taken off once, by
\* _accept() or the TLS task while the socket is theirs, and by the transport's
\* close callback after that.  (A TLS task that is cancelled before its first
\* step, or with its handshake unsent, takes it off never or twice.)
ToldWhenGone == ~miscounted => (gone <=> ~sockets /\ \A c \in Conns : conn[c] \notin Live)

\* A socket that ran out of descriptors listens again, or the server closes.  (A
\* _start_serving() that raises, at the start or in the retry, leaves a server that
\* says it serves and that nothing makes listen again.)
ListensAgain ==
    \A s \in Socks : serving /\ s \notin readers ~> s \in readers \/ ~serving \/ deaf

\* Once the server is closed and every connection is on its way out, whoever
\* waits in wait_closed() goes on.
WaitEnds ==
    LET Leaving == ~sockets /\ \A c \in Conns : conn[c] \notin Live \ {"leaving"}
    IN  \A t \in Tasks : pc[t] = "waiting" /\ Leaving /\ ~miscounted ~> pc[t] # "waiting"

=============================================================================
