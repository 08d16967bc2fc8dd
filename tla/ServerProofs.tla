---------------------------- MODULE ServerProofs ----------------------------
(***************************************************************************)
(* That wait_closed() goes by the connections there are, for any sockets,  *)
(* connections and tasks.  The code decides by a counter: the invariant    *)
(* says that the counter is the number of live connections, which needs    *)
(* where _accept() stands and which connections the server has noted.      *)
(***************************************************************************)
EXTENDS Server, FiniteSetTheorems, TLAPS

LiveConns == {c \in Conns : conn[c] \in Live}

States == Live \cup {"new", "gone", "stray"}

Types ==
    /\ sockets \in BOOLEAN /\ gone \in BOOLEAN /\ miscounted \in BOOLEAN /\ tls \in BOOLEAN
    /\ active \in Int
    /\ conn \in [Conns -> States]
    /\ incoming \in Conns \cup {Nothing}
    /\ transports \in SUBSET Conns

\* The factory runs for the connection _accept() has in its hands, and the
\* server notes only transports that have their descriptor.
Held ==
    /\ \A c \in Conns : conn[c] = "factory" <=> c = incoming
    /\ \A c \in transports : conn[c] \in {"handshake", "open", "draining", "leaving"}

\* _active counts the connections that are not gone, and is what _wakeup() is
\* decided by.
Counted ==
    /\ IsFiniteSet(LiveConns)
    /\ ~miscounted => active = Cardinality(LiveConns)

Inv == Types /\ Held /\ Counted /\ ToldWhenGone

-----------------------------------------------------------------------------
\* A server starts without connections.
LEMMA InitInv == Init => Inv
<1> SUFFICES ASSUME Init PROVE Inv
  OBVIOUS
<1>1. sockets \in BOOLEAN /\ gone \in BOOLEAN /\ miscounted \in BOOLEAN /\ tls \in BOOLEAN
  BY Zenon DEF Init
<1>5. active \in Int /\ conn \in [Conns -> States] /\ incoming \in Conns \cup {Nothing} /\ transports \in SUBSET Conns
  BY DEF Init, States
<1>6. Held
  BY NothingAssumption DEF Init, Held
<1>2. LiveConns = {}
  BY DEF Init, LiveConns, Live
<1>3. Counted
  BY <1>2, FS_EmptySet DEF Counted, Init
<1>4. ToldWhenGone
  BY DEF Init, ToldWhenGone
<1> QED BY <1>1, <1>3, <1>4, <1>5, <1>6 DEF Inv, Types

\* The counter is zero exactly when no connection lives.
LEMMA ZeroIsNone ==
    ASSUME Inv, ~miscounted
    PROVE  active = 0 <=> \A c \in Conns : conn[c] \notin Live
<1>1. active = Cardinality(LiveConns) /\ IsFiniteSet(LiveConns)
  BY DEF Inv, Counted
<1>2. Cardinality(LiveConns) = 0 <=> LiveConns = {}
  BY <1>1, FS_EmptySet
<1> QED BY <1>1, <1>2 DEF LiveConns

\* A step that leaves the connections live that are so, or changes the state of
\* one between live states, leaves the count right.
LEMMA SameLive ==
    ASSUME Inv, LiveConns' = LiveConns, active' = active, miscounted' = miscounted
    PROVE  Counted'
  BY DEF Inv, Counted

\* One connection comes, and the count goes up.
LEMMA OneMore ==
    ASSUME Inv, NEW c \in Conns, c \notin LiveConns, LiveConns' = LiveConns \cup {c},
           active' = active + 1, miscounted' = miscounted
    PROVE  Counted'
<1>1. IsFiniteSet(LiveConns')
  BY FS_AddElement DEF Inv, Counted
<1>2. ~miscounted => active' = Cardinality(LiveConns')
  BY FS_AddElement DEF Inv, Counted
<1> QED BY <1>1, <1>2 DEF Counted

\* One goes, and the count goes down.
LEMMA OneLess ==
    ASSUME Inv, NEW c \in Conns, c \in LiveConns, LiveConns' = LiveConns \ {c},
           active' = active - 1, miscounted' = miscounted
    PROVE  Counted'
<1>1. IsFiniteSet(LiveConns')
  BY FS_RemoveElement DEF Inv, Counted
<1>2. ~miscounted => active' = Cardinality(LiveConns')
  BY FS_RemoveElement DEF Inv, Counted
<1> QED BY <1>1, <1>2 DEF Counted

\* Steps that are about readers and tasks only.
LEMMA Aside ==
    ASSUME Inv, UNCHANGED <<sockets, gone, miscounted, tls, active, conn, incoming, transports>>
    PROVE  Inv'
<1>1. LiveConns' = LiveConns
  BY DEF LiveConns
<1> QED BY <1>1 DEF Inv, Types, Held, Counted, ToldWhenGone

\* The connections go from live states to live states.
LEMMA StayLive ==
    ASSUME Inv, Types', Held', UNCHANGED <<sockets, gone, miscounted, active>>,
           \A c \in Conns : conn'[c] \in Live <=> conn[c] \in Live
    PROVE  Inv'
<1>1. LiveConns' = LiveConns
  BY DEF LiveConns
<1>2. Counted'
  BY <1>1, SameLive
<1>3. ToldWhenGone'
  BY DEF Inv, ToldWhenGone
<1> QED BY <1>2, <1>3 DEF Inv

\* _detach() for a connection that is taken off.
LEMMA Detached ==
    ASSUME Inv, Types', Held', NEW c \in Conns, conn[c] \in Live, conn'[c] \notin Live,
           \A k \in Conns \ {c} : conn'[k] = conn[k], _detach, UNCHANGED <<sockets, miscounted>>
    PROVE  Inv'
<1>1. c \in LiveConns /\ LiveConns' = LiveConns \ {c}
  BY DEF LiveConns
<1>2. Counted'
  BY <1>1, OneLess DEF _detach
<1>3. ToldWhenGone'
  <2> SUFFICES ASSUME ~miscounted PROVE gone' <=> ~sockets /\ \A k \in Conns : conn'[k] \notin Live
    BY DEF ToldWhenGone
  <2>1. ~gone
    BY DEF Inv, ToldWhenGone
  <2>2. active' = Cardinality(LiveConns') /\ IsFiniteSet(LiveConns')
    BY <1>2 DEF Counted
  <2>3. active' = 0 <=> \A k \in Conns : conn'[k] \notin Live
    <3>1. Cardinality(LiveConns') = 0 <=> LiveConns' = {}
      BY <2>2, FS_EmptySet
    <3> QED BY <2>2, <3>1 DEF LiveConns
  <2> QED BY <2>1, <2>3 DEF _detach, _wakeup
<1> QED BY <1>2, <1>3 DEF Inv

\* A connection that is miscounted is out of the question, and so is the server.
LEMMA Miscounts ==
    ASSUME Inv, Types', Held', NEW c \in Conns, \A k \in Conns \ {c} : conn'[k] = conn[k], miscounted' = TRUE
    PROVE  Inv'
<1>1. LiveConns' \in SUBSET (LiveConns \cup {c})
  BY DEF LiveConns
<1>2. IsFiniteSet(LiveConns \cup {c})
  BY FS_AddElement DEF Inv, Counted
<1>3. IsFiniteSet(LiveConns')
  BY <1>1, <1>2, FS_Subset
<1> QED BY <1>3 DEF Inv, Counted, ToldWhenGone

\* close() and the end of serve_forever(): the sockets go, and the waiters are
\* told if there is no connection.
LEMMA Closes ==
    ASSUME Inv, sockets' = FALSE, UNCHANGED <<miscounted, tls, active, conn, incoming, transports>>,
           gone' \in BOOLEAN, ~miscounted => (gone' <=> active = 0)
    PROVE  Inv'
<1>1. LiveConns' = LiveConns
  BY DEF LiveConns
<1>2. Types'
  <2>1. sockets' \in BOOLEAN /\ gone' \in BOOLEAN
    BY Zenon
  <2> QED BY <2>1 DEF Inv, Types
<1>3. Held' /\ Counted'
  BY <1>1 DEF Inv, Held, Counted
<1>4. ToldWhenGone'
  BY ZeroIsNone DEF Inv, ToldWhenGone
<1> QED BY <1>2, <1>3, <1>4 DEF Inv

\* What one connection becomes, when it alone changes.
LEMMA OneConn ==
    ASSUME Inv, NEW c \in Conns, NEW s \in States, conn' = [conn EXCEPT ![c] = s]
    PROVE  /\ conn' \in [Conns -> States] /\ conn'[c] = s
           /\ \A k \in Conns \ {c} : conn'[k] = conn[k]
  BY DEF Inv, Types

-----------------------------------------------------------------------------
(* Every step of the server preserves the invariant.                       *)

\* The calls of the program.
LEMMA ProgramInv == ASSUME Inv, Program PROVE Inv'
<1>1. CASE close
  <2>1. gone' \in BOOLEAN
    BY <1>1, Zenon DEF close, closeServer, _wakeup, Inv, Types
  <2>2. ~miscounted => (gone' <=> active = 0)
    BY <1>1, ZeroIsNone DEF close, closeServer, _wakeup, Inv, ToldWhenGone
  <2>3. sockets' = FALSE /\ UNCHANGED <<miscounted, tls, active, conn, incoming, transports>>
    BY <1>1 DEF close, closeServer, tlsVars, frame
  <2> QED BY <2>1, <2>2, <2>3, Closes
<1>2. CASE start_serving
  BY <1>2, Aside DEF start_serving, waiting, tlsVars, frame
<1>3. CASE close_clients
  <2>1. PICK drains \in SUBSET transports :
          conn' = [c \in Conns |-> IF c \in transports /\ conn[c] \in {"handshake", "open"}
                                  THEN (IF c \in drains THEN "draining" ELSE "leaving") ELSE conn[c]]
    BY <1>3 DEF close_clients
  <2>2. UNCHANGED <<sockets, gone, miscounted, tls, active, incoming, transports>>
    BY <1>3 DEF close_clients, listening, waiting, tlsVars, frame
  <2>3. \A c \in Conns : \/ conn'[c] = conn[c]
                         \/ conn[c] \in {"handshake", "open"} /\ conn'[c] \in {"draining", "leaving"}
    BY <2>1
  <2>4. conn' \in [Conns -> States]
    BY <2>1 DEF Inv, Types, States, Live
  <2>5. Types' /\ Held'
    BY <2>2, <2>3, <2>4 DEF Inv, Types, Held
  <2> QED BY <2>2, <2>3, <2>5, StayLive DEF Live
<1>4. CASE abort_clients
  <2>1. /\ conn' = [c \in Conns |-> IF c \in transports THEN "leaving" ELSE conn[c]]
        /\ UNCHANGED <<sockets, gone, miscounted, tls, active, incoming, transports>>
    BY <1>4 DEF abort_clients, listening, waiting, tlsVars, frame
  <2>2. \A c \in Conns : conn'[c] = IF c \in transports THEN "leaving" ELSE conn[c]
    BY <2>1
  <2>3. conn' \in [Conns -> States]
    BY <2>1 DEF Inv, Types, States, Live
  <2>4. Types' /\ Held'
    BY <2>1, <2>2, <2>3 DEF Inv, Types, Held
  <2>5. \A c \in Conns : conn'[c] \in Live <=> conn[c] \in Live
    BY <2>2 DEF Inv, Held, Live
  <2> QED BY <2>1, <2>4, <2>5, StayLive
<1>5. ASSUME NEW t \in Tasks, wait_closed(t) \/ serve_forever(t) \/ cancelTask(t) PROVE Inv'
  BY <1>5, Aside DEF wait_closed, serve_forever, cancelTask, listening, tlsVars, frame
<1> QED BY <1>1, <1>2, <1>3, <1>4, <1>5 DEF Program

\* _accept().
LEMMA AcceptsInv == ASSUME Inv, Accepts PROVE Inv'
<1>1. ASSUME NEW c \in Conns, accepted(c) PROVE Inv'
  <2> DEFINE s == IF tls THEN "task" ELSE "factory"
  <2>1. s \in Live /\ s \in States
    BY DEF Live, States
  <2>2. /\ conn[c] = "new" /\ sockets /\ incoming = Nothing /\ conn' = [conn EXCEPT ![c] = s]
        /\ active' = active + 1 /\ incoming' = IF tls THEN Nothing ELSE c
        /\ UNCHANGED <<sockets, gone, miscounted, tls, transports>>
    BY <1>1 DEF accepted, listening, waiting, tlsVars
  <2>3. /\ conn' \in [Conns -> States] /\ conn'[c] = s
        /\ \A k \in Conns \ {c} : conn'[k] = conn[k]
    BY <2>1, <2>2, OneConn
  <2>4. c \notin LiveConns /\ LiveConns' = LiveConns \cup {c}
    <3>1. conn[c] \notin Live
      BY <2>2 DEF Live
    <3> HIDE DEF s
    <3> QED BY <3>1, <2>1, <2>3 DEF LiveConns
  <2>5. Counted'
    BY <2>2, <2>4, OneMore
  <2>6. Types'
    BY <2>2, <2>3 DEF Inv, Types
  <2>7. Held'
    <3>1. \A k \in Conns : conn'[k] = "factory" <=> k = incoming'
      BY <2>2, <2>3, NothingAssumption DEF Inv, Held, Types
    <3>2. c \notin transports
      BY <2>2 DEF Inv, Held
    <3> QED BY <2>2, <2>3, <3>1, <3>2 DEF Inv, Held, Types
  <2>8. ToldWhenGone'
    BY <2>1, <2>2, <2>3 DEF Inv, ToldWhenGone
  <2> QED BY <2>5, <2>6, <2>7, <2>8 DEF Inv
<1>2. CASE attached
  <2>1. /\ incoming \in Conns /\ conn[incoming] = "factory" /\ "open" \in States
        /\ conn' = [conn EXCEPT ![incoming] = "open"] /\ transports' = transports \cup {incoming}
        /\ incoming' = Nothing /\ UNCHANGED <<sockets, gone, miscounted, tls, active>>
    BY <1>2 DEF attached, listening, waiting, tlsVars, Inv, Types, Held, States, Live
  <2>2. /\ conn' \in [Conns -> States] /\ conn'[incoming] = "open"
        /\ \A k \in Conns \ {incoming} : conn'[k] = conn[k]
    BY <2>1, OneConn
  <2>3. Types' /\ Held'
    BY <2>1, <2>2, NothingAssumption DEF Inv, Types, Held
  <2> QED BY <2>1, <2>2, <2>3, StayLive DEF Live
<1>3. CASE factoryRaised
  <2>1. /\ incoming \in Conns /\ conn[incoming] = "factory" /\ "gone" \in States
        /\ conn' = [conn EXCEPT ![incoming] = "gone"] /\ _detach
        /\ incoming' = Nothing /\ UNCHANGED <<sockets, transports, miscounted, tls>>
    BY <1>3 DEF factoryRaised, listening, tlsVars, Inv, Types, Held, States
  <2>2. /\ conn' \in [Conns -> States] /\ conn'[incoming] = "gone"
        /\ \A k \in Conns \ {incoming} : conn'[k] = conn[k]
    BY <2>1, OneConn
  <2>3. gone' \in BOOLEAN
    BY <2>1, Zenon DEF _detach, _wakeup, Inv, Types
  <2>4. Types'
    BY <2>1, <2>2, <2>3 DEF Inv, Types, _detach
  <2>5. Held'
    BY <2>1, <2>2, NothingAssumption DEF Inv, Held, Types
  <2> QED BY <2>1, <2>2, <2>4, <2>5, Detached DEF Live
<1>4. CASE attachRaised
  <2>1. /\ incoming \in Conns /\ conn[incoming] = "factory" /\ "leaving" \in States
        /\ conn' = [conn EXCEPT ![incoming] = "leaving"]
        /\ incoming' = Nothing /\ UNCHANGED <<sockets, gone, miscounted, tls, active, transports>>
    BY <1>4 DEF attachRaised, listening, waiting, tlsVars, Inv, Types, Held, States, Live
  <2>2. /\ conn' \in [Conns -> States] /\ conn'[incoming] = "leaving"
        /\ \A k \in Conns \ {incoming} : conn'[k] = conn[k]
    BY <2>1, OneConn
  <2>3. Types' /\ Held'
    BY <2>1, <2>2, NothingAssumption DEF Inv, Types, Held
  <2> QED BY <2>1, <2>2, <2>3, StayLive DEF Live
<1>5. CASE acceptEnds
  BY <1>5, Aside DEF acceptEnds, listening, waiting, tlsVars
<1>6. CASE acceptExhausted
  BY <1>6, Aside DEF acceptExhausted, waiting, tlsVars
<1> QED BY <1>1, <1>2, <1>3, <1>4, <1>5, <1>6 DEF Accepts

\* One connection goes from a live state to another in which it may be noted.
LEMMA MovesLive ==
    ASSUME Inv, NEW c \in Conns, conn[c] \in {"task", "handshake", "open", "draining"},
           NEW s \in {"handshake", "open", "draining", "leaving"}, conn' = [conn EXCEPT ![c] = s],
           UNCHANGED <<sockets, gone, miscounted, tls, active, incoming>>,
           transports' \in {transports, transports \cup {c}}
    PROVE  Inv'
<1>1. s \in States /\ s \in Live
  BY DEF States, Live
<1>2. /\ conn' \in [Conns -> States] /\ conn'[c] = s
      /\ \A k \in Conns \ {c} : conn'[k] = conn[k]
  BY <1>1, OneConn
<1>3. Types' /\ Held'
  BY <1>2 DEF Inv, Types, Held
<1> QED BY <1>1, <1>2, <1>3, StayLive DEF Live

\* A connection whose socket is closed is taken off the count and the set.
LEMMA TakenOff ==
    ASSUME Inv, NEW c \in Conns, conn[c] \in {"task", "leaving"}, conn' = [conn EXCEPT ![c] = "gone"], _detach,
           UNCHANGED <<sockets, miscounted, tls, incoming>>, transports' \in SUBSET transports, c \notin transports'
    PROVE  Inv'
<1>1. "gone" \in States
  BY DEF States
<1>2. /\ conn' \in [Conns -> States] /\ conn'[c] = "gone"
      /\ \A k \in Conns \ {c} : conn'[k] = conn[k]
  BY <1>1, OneConn
<1>3. gone' \in BOOLEAN
  BY Zenon DEF _detach, _wakeup, Inv, Types
<1>4. Types'
  BY <1>2, <1>3 DEF Inv, Types, _detach
<1>5. Held'
  BY <1>2 DEF Inv, Held
<1> QED BY <1>2, <1>4, <1>5, Detached DEF Live

\* The TLS tasks.
LEMMA HandshakesInv == ASSUME Inv, Handshakes PROVE Inv'
<1> PICK c \in Conns : \/ tlsAttached(c) \/ tlsSetupRaised(c) \/ tlsDone(c) \/ tlsFailed(c)
                      \/ tlsCancelledUnstarted(c) \/ tlsCancelledUnsent(c)
  BY DEF Handshakes
<1>1. CASE tlsAttached(c)
  BY <1>1, MovesLive DEF tlsAttached, listening, waiting, tlsVars, frame
<1>2. CASE tlsDone(c)
  BY <1>2, MovesLive DEF tlsDone, listening, waiting, tlsVars, frame
<1>3. CASE tlsFailed(c)
  BY <1>3, MovesLive DEF tlsFailed, listening, waiting, tlsVars, frame
<1>4. CASE tlsSetupRaised(c)
  <2>1. /\ conn[c] = "task" /\ "gone" \in States /\ conn' = [conn EXCEPT ![c] = "gone"] /\ _detach
        /\ UNCHANGED <<sockets, transports, incoming, miscounted, tls>>
    BY <1>4 DEF tlsSetupRaised, listening, tlsVars, frame, States
  <2>2. c \notin transports
    BY <2>1 DEF Inv, Held
  <2> QED BY <2>1, <2>2, TakenOff
<1>5. CASE tlsCancelledUnstarted(c)
  <2>1. /\ conn[c] = "task" /\ "stray" \in States /\ conn' = [conn EXCEPT ![c] = "stray"]
        /\ miscounted' = TRUE /\ UNCHANGED <<sockets, gone, active, transports, incoming, tls>>
    BY <1>5 DEF tlsCancelledUnstarted, listening, waiting, frame, States
  <2>2. /\ conn' \in [Conns -> States] /\ conn'[c] = "stray"
        /\ \A k \in Conns \ {c} : conn'[k] = conn[k]
    BY <2>1, OneConn
  <2>3. miscounted' \in BOOLEAN
    BY <2>1, Zenon
  <2>4. Types'
    BY <2>1, <2>2, <2>3 DEF Inv, Types
  <2>5. Held'
    BY <2>1, <2>2 DEF Inv, Held
  <2> QED BY <2>1, <2>2, <2>4, <2>5, Miscounts
<1>6. CASE tlsCancelledUnsent(c)
  <2>1. /\ conn[c] = "handshake" /\ "draining" \in States /\ conn' = [conn EXCEPT ![c] = "draining"]
        /\ miscounted' = TRUE /\ _detach /\ UNCHANGED <<sockets, transports, incoming, tls>>
    BY <1>6 DEF tlsCancelledUnsent, listening, frame, States, Live
  <2>2. /\ conn' \in [Conns -> States] /\ conn'[c] = "draining"
        /\ \A k \in Conns \ {c} : conn'[k] = conn[k]
    BY <2>1, OneConn
  <2>3. miscounted' \in BOOLEAN /\ gone' \in BOOLEAN
    BY <2>1, Zenon DEF _detach, _wakeup, Inv, Types
  <2>4. Types'
    BY <2>1, <2>2, <2>3 DEF Inv, Types, _detach
  <2>5. Held'
    BY <2>1, <2>2 DEF Inv, Held
  <2> QED BY <2>1, <2>2, <2>4, <2>5, Miscounts
<1> QED BY <1>1, <1>2, <1>3, <1>4, <1>5, <1>6

\* Every step of the server preserves the invariant.
LEMMA StepInv == Inv /\ [Next]_vars => Inv'
<1> SUFFICES ASSUME Inv, [Next]_vars PROVE Inv'
  OBVIOUS
<1>1. CASE Program
  BY <1>1, ProgramInv
<1>2. CASE Accepts
  BY <1>2, AcceptsInv
<1>3. CASE Handshakes
  BY <1>3, HandshakesInv
<1>4. ASSUME NEW t \in Tasks, woken(t) \/ gaveUp(t) PROVE Inv'
  BY <1>4, Aside DEF woken, gaveUp, listening, tlsVars, frame
<1>5. ASSUME NEW t \in Tasks, interrupted(t) PROVE Inv'
  <2>1. gone' \in BOOLEAN
    BY <1>5, Zenon DEF interrupted, _wakeup, Inv, Types
  <2>2. ~miscounted => (gone' <=> active = 0)
    BY <1>5, ZeroIsNone DEF interrupted, _wakeup, Inv, ToldWhenGone
  <2>3. sockets' = FALSE /\ UNCHANGED <<miscounted, tls, active, conn, incoming, transports>>
    BY <1>5 DEF interrupted, tlsVars, frame
  <2> QED BY <2>1, <2>2, <2>3, Closes
<1>6. CASE retry
  BY <1>6, Aside DEF retry, waiting, tlsVars, frame
<1>7. ASSUME NEW s \in Socks, _accept(s) PROVE Inv'
  BY <1>7, Aside DEF _accept, listening, waiting, tlsVars
<1>8. ASSUME NEW c \in Conns, connEnds(c) PROVE Inv'
  <2>1. PICK s \in {"draining", "leaving"} : conn' = [conn EXCEPT ![c] = s]
    BY <1>8 DEF connEnds
  <2>2. /\ conn[c] \in {"open", "draining"}
        /\ UNCHANGED <<sockets, gone, miscounted, tls, active, incoming, transports>>
    BY <1>8 DEF connEnds, listening, waiting, tlsVars, frame
  <2> QED BY <2>1, <2>2, MovesLive
<1>9. ASSUME NEW c \in Conns, onClosed(c) PROVE Inv'
  BY <1>9, TakenOff DEF onClosed, listening, tlsVars, frame
<1>10. CASE UNCHANGED vars
  BY <1>10, Aside DEF vars
<1> QED BY <1>1, <1>2, <1>3, <1>4, <1>5, <1>6, <1>7, <1>8, <1>9, <1>10 DEF Next, TaskSteps

\* The invariant holds throughout: _active is the number of live connections
\* as long as no TLS task was cancelled when it suffers.
THEOREM CountsConnections == Spec => []Inv
  BY InitInv, StepInv, PTL DEF Spec

\* wait_closed() is told exactly when the server is closed and the last
\* connection is off the loop, for any number of connections.
THEOREM WaitersToldWhenGone == Spec => []ToldWhenGone
<1>1. Inv => ToldWhenGone
  BY DEF Inv
<1> QED BY <1>1, CountsConnections, PTL

-----------------------------------------------------------------------------
(* The waiters.                                                            *)

TaskStates == {"idle", "waiting", "woken", "cancelled", "forever", "interrupted", "done"}

TaskTypes == pc \in [Tasks -> TaskStates] /\ waiters \in SUBSET Tasks

\* Whoever sleeps in wait_closed() is on the list that _wakeup() goes through,
\* and there is a list: nobody begins to wait after the last wakeup.
SleepersListed == \A t \in Tasks : pc[t] = "waiting" => ~gone /\ t \in waiters

WaitInv == TaskTypes /\ SleepersListed

\* _wakeup() leaves nobody asleep.
LEMMA WakesAll ==
    ASSUME NEW tasks \in [Tasks -> TaskStates], _wakeup(tasks),
           \A t \in Tasks : tasks[t] = "waiting" => t \in waiters
    PROVE  WaitInv'
  BY DEF _wakeup, WaitInv, TaskTypes, SleepersListed, TaskStates

\* A task goes to where it does not sleep.
LEMMA NotAsleep ==
    ASSUME WaitInv, NEW t \in Tasks, NEW s \in TaskStates \ {"waiting"}, pc' = [pc EXCEPT ![t] = s],
           waiters' \in {waiters, waiters \ {t}}, gone' = gone
    PROVE  WaitInv'
  BY DEF WaitInv, TaskTypes, SleepersListed

\* A task goes to sleep.
LEMMA FallsAsleep ==
    ASSUME WaitInv, NEW t \in Tasks, pc' = [pc EXCEPT ![t] = "waiting"], waiters' = waiters \cup {t},
           ~gone, gone' = gone
    PROVE  WaitInv'
  BY DEF WaitInv, TaskTypes, SleepersListed, TaskStates

\* A connection that is taken off wakes all or none.
LEMMA DetachWakes == ASSUME WaitInv, _detach PROVE WaitInv'
<1>1. CASE _wakeup(pc)
  BY <1>1, WakesAll DEF WaitInv, TaskTypes, SleepersListed
<1>2. CASE UNCHANGED <<waiters, gone, pc>>
  BY <1>2 DEF WaitInv, TaskTypes, SleepersListed
<1> QED BY <1>1, <1>2 DEF _detach

\* Every step of the server leaves the sleepers on the list.
LEMMA StepWaitInv == WaitInv /\ [Next]_vars => WaitInv'
<1> SUFFICES ASSUME WaitInv, [Next]_vars PROVE WaitInv'
  OBVIOUS
<1>1. CASE UNCHANGED <<waiters, gone, pc>>
  BY <1>1 DEF WaitInv, TaskTypes, SleepersListed
<1>2. CASE close
  <2> DEFINE interrupts == serving_forever # Nothing /\ pc[serving_forever] = "forever"
             told == IF interrupts THEN [pc EXCEPT ![serving_forever] = "interrupted"] ELSE pc
  <2>1. /\ told \in [Tasks -> TaskStates]
        /\ \A t \in Tasks : told[t] = "waiting" => pc[t] = "waiting"
    BY DEF WaitInv, TaskTypes, TaskStates
  <2>2. \/ _wakeup(told)
        \/ pc' = told /\ UNCHANGED <<waiters, gone>>
    BY <1>2 DEF close, closeServer
  <2> HIDE DEF told
  <2>3. CASE _wakeup(told)
    BY <2>1, <2>3, WakesAll DEF WaitInv, SleepersListed
  <2>4. CASE pc' = told /\ UNCHANGED <<waiters, gone>>
    BY <2>1, <2>4 DEF WaitInv, TaskTypes, SleepersListed
  <2> QED BY <2>2, <2>3, <2>4
<1>3. ASSUME NEW t \in Tasks, wait_closed(t) PROVE WaitInv'
  BY <1>3, NotAsleep, FallsAsleep DEF wait_closed, TaskStates
<1>4. ASSUME NEW t \in Tasks, woken(t) \/ serve_forever(t) \/ cancelTask(t) \/ gaveUp(t) PROVE WaitInv'
  BY <1>4, <1>1, NotAsleep DEF woken, serve_forever, cancelTask, gaveUp, TaskStates
<1>5. ASSUME NEW t \in Tasks, interrupted(t) PROVE WaitInv'
  <2> DEFINE tasks == [pc EXCEPT ![t] = "done"]
  <2>1. /\ tasks \in [Tasks -> TaskStates]
        /\ \A k \in Tasks : tasks[k] = "waiting" => pc[k] = "waiting"
    BY DEF WaitInv, TaskTypes, TaskStates
  <2>2. CASE gone
    BY <1>5, <2>2, NotAsleep DEF interrupted, TaskStates
  <2>3. CASE ~gone /\ active = 0
    <3>1. _wakeup(tasks)
      BY <1>5, <2>3 DEF interrupted
    <3> QED BY <2>1, <3>1, WakesAll DEF WaitInv, SleepersListed
  <2>4. CASE ~gone /\ active # 0
    BY <1>5, <2>4, FallsAsleep DEF interrupted
  <2> QED BY <2>2, <2>3, <2>4
<1>6. CASE _detach
  BY <1>6, DetachWakes
<1>7. CASE Accepts
  BY <1>7, <1>1, <1>6 DEF Accepts, accepted, attached, factoryRaised, attachRaised, acceptEnds, acceptExhausted, waiting
<1>8. CASE Handshakes
  BY <1>8, <1>1, <1>6 DEF Handshakes, tlsAttached, tlsSetupRaised, tlsDone, tlsFailed, tlsCancelledUnstarted,
        tlsCancelledUnsent, waiting
<1>9. CASE start_serving \/ close_clients \/ abort_clients \/ retry
  BY <1>9, <1>1 DEF start_serving, close_clients, abort_clients, retry, waiting
<1>10. ASSUME NEW s \in Socks, _accept(s) PROVE WaitInv'
  BY <1>10, <1>1 DEF _accept, waiting
<1>11. ASSUME NEW c \in Conns, connEnds(c) \/ onClosed(c) PROVE WaitInv'
  BY <1>11, <1>1, <1>6 DEF connEnds, onClosed, waiting
<1>12. CASE UNCHANGED vars
  BY <1>12, <1>1 DEF vars
<1> QED BY <1>2, <1>3, <1>4, <1>5, <1>7, <1>8, <1>9, <1>10, <1>11, <1>12 DEF Next, Program, TaskSteps

\* No task sleeps in wait_closed() once the waiters were told, or without being
\* on the list of those that will be: the safety half of WaitEnds, which does not
\* depend on the count being right.
THEOREM NobodySleepsOn == Spec => []SleepersListed
<1>1. Init => WaitInv
  BY DEF Init, WaitInv, TaskTypes, TaskStates, SleepersListed
<1>2. WaitInv => SleepersListed
  BY DEF WaitInv
<1> QED BY <1>1, <1>2, StepWaitInv, PTL DEF Spec
=============================================================================
