----------------------------- MODULE Listeners -----------------------------
(***************************************************************************)
(* create_server(), create_unix_server() and _bind_tcp() (zuvloop/         *)
(* _connect.py), and what Server.close() and start_serving() (zuvloop/     *)
(* _server.py) do to the listening sockets and to the path of a UNIX one.  *)
(* The connections of a server are in module Server.                       *)
(*                                                                         *)
(* The calls share a loop, so one runs between its awaits alone.  The      *)
(* other program that removes the path does so at any time.                *)
(***************************************************************************)
EXTENDS Naturals, FiniteSets

CONSTANTS
    Servers,     \* the calls, and the server each makes
    Hosts,       \* hosts that create_server() is given
    Addresses,   \* different addresses they resolve to, at most
    Gone         \* there is no file at the path

ASSUME GoneAssumption == Gone \notin Servers
ASSUME AddressesAssumption == Hosts \in Nat /\ Addresses \in Nat

VARIABLES
    ls,        \* the call and its server: see NotCalled
    file,      \* whose socket the path names
    unlinked   \* history: <<s, t>>, the close() of s removed the file of t

listenVars == <<ls, file, unlinked>>

(***************************************************************************)
(* at: where the call is; then: where it goes after close()                *)
(* wake: how its await ended; host: hosts resolved so far                  *)
(* open: sockets that are open; readers: those watched for connections     *)
(* path: the path is to be removed, and identity the file it was bound to  *)
(***************************************************************************)
NotCalled == [at |-> "idle", then |-> "none", wake |-> "no", host |-> 0, open |-> {}, readers |-> {},
              path |-> FALSE, identity |-> Gone]

ListenInit == ls = [s \in Servers |-> NotCalled] /\ file = Gone /\ unlinked = {}

Synchronous == {"stat", "serve", "undo", "cleanup", "unlink"}
LoopFree(s) == \A t \in Servers \ {s} : ls[t].at \notin Synchronous
Step(s, at) == LoopFree(s) /\ ls[s].at = at
Becomes(s, r) == ls' = [ls EXCEPT ![s] = r]

-----------------------------------------------------------------------------
(* create_server() *)

create_server(s) ==
    /\ Step(s, "idle")
    /\ \/ Becomes(s, [ls[s] EXCEPT !.at = "resolving"])
       \/ Becomes(s, [ls[s] EXCEPT !.at = "serve", !.open = {1}])   \* sock=
    /\ UNCHANGED <<file, unlinked>>

HostResolved(s) ==
    /\ ls[s].at = "resolving" /\ ls[s].wake = "no"
    /\ \E how \in {"ok", "raised"} : Becomes(s, [ls[s] EXCEPT !.wake = how])
    /\ UNCHANGED <<file, unlinked>>

\* The next host, or a socket for each address: one may fail to be made, or
\* to be set up and bound, and then those made so far are closed.
_bind_tcp(s) ==
    /\ Step(s, "resolving") /\ ls[s].wake # "no"
    /\ LET woken == [ls[s] EXCEPT !.wake = "no", !.host = @ + 1] IN
         \/ ls[s].wake # "ok" /\ Becomes(s, [woken EXCEPT !.at = "raised"])
         \/ /\ ls[s].wake = "ok" /\ ls[s].host + 1 < Hosts
            /\ Becomes(s, woken)
         \/ /\ ls[s].wake = "ok" /\ ls[s].host + 1 = Hosts
            /\ \E n \in 1..Addresses :
                 \/ Becomes(s, [woken EXCEPT !.at = "serve", !.open = 1..n])
                 \/ Becomes(s, [woken EXCEPT !.at = "raised"])
    /\ UNCHANGED <<file, unlinked>>

-----------------------------------------------------------------------------
(* create_unix_server() *)

\* With a path, which bind() makes, or with a socket.  cleanup_socket=False and
\* abstract paths leave the path alone.  An exception of bind() that is not an
\* OSError leaves the socket to its finalizer.
create_unix_server(s) ==
    /\ Step(s, "idle")
    /\ \/ /\ Becomes(s, [ls[s] EXCEPT !.at = "raised"])   \* in use, or not to be made
          /\ UNCHANGED file
       \/ /\ Becomes(s, [ls[s] EXCEPT !.at = "unbound", !.open = {1}])   \* not an OSError
          /\ UNCHANGED file
       \/ /\ file = Gone /\ file' = s
          /\ \E at \in {"stat", "serve"} : Becomes(s, [ls[s] EXCEPT !.at = at, !.open = {1}])
    /\ UNCHANGED unlinked

\* An error of os.stat() closes the server; a path that is gone is left alone.
stat(s) ==
    /\ Step(s, "stat")
    /\ Becomes(s,
         IF file = Gone THEN [ls[s] EXCEPT !.at = "serve"]
         ELSE [ls[s] EXCEPT !.at = "serve", !.path = TRUE, !.identity = file])
       \/ Becomes(s, [ls[s] EXCEPT !.at = "undo", !.then = "raised"])
    /\ UNCHANGED <<file, unlinked>>

-----------------------------------------------------------------------------
(* start_serving(), and the end of either call *)

\* listen() and add_reader() of each socket, any of which may raise.
serve(s) ==
    /\ Step(s, "serve")
    /\ \/ Becomes(s, [ls[s] EXCEPT !.at = "returned"])   \* start_serving=False
       \/ Becomes(s, [ls[s] EXCEPT !.at = "sleeping", !.readers = ls[s].open])
       \/ \E k \in 0..(Cardinality(ls[s].open) - 1) :
            Becomes(s, [ls[s] EXCEPT !.at = "undo", !.then = "raised", !.readers = 1..k])
    /\ UNCHANGED <<file, unlinked>>

\* sleep(0) returns, or the call was cancelled: the server is closed.
slept(s) ==
    /\ Step(s, "sleeping")
    /\ Becomes(s, IF ls[s].wake = "cancelled" THEN [ls[s] EXCEPT !.at = "undo", !.then = "raised"]
                  ELSE [ls[s] EXCEPT !.at = "returned"])
    /\ UNCHANGED <<file, unlinked>>

Cancelled(s) ==
    /\ ls[s].at \in {"resolving", "sleeping"} /\ LoopFree(s)
    /\ Becomes(s, [ls[s] EXCEPT !.wake = "cancelled"])
    /\ UNCHANGED <<file, unlinked>>

-----------------------------------------------------------------------------
(* Server.close() *)

AppCloses(s) ==
    /\ Step(s, "returned")
    /\ Becomes(s, [ls[s] EXCEPT !.at = "undo", !.then = "closed"])
    /\ UNCHANGED <<file, unlinked>>

\* The watchers and the sockets go, and the path if it was recorded.
Server_close(s) ==
    /\ Step(s, "undo")
    /\ Becomes(s, [ls[s] EXCEPT !.open = {}, !.readers = {}, !.path = FALSE,
                                !.at = IF ls[s].path THEN "cleanup" ELSE ls[s].then])
    /\ UNCHANGED <<file, unlinked>>

\* What is at the path is removed.
cleanupWhatever(s) ==
    /\ Step(s, "cleanup")
    /\ Becomes(s, [ls[s] EXCEPT !.at = IF file = Gone THEN ls[s].then ELSE "unlink"])
    /\ UNCHANGED <<file, unlinked>>

\* os.stat(): the file may be gone, or another one's.
cleanup(s) ==
    /\ Step(s, "cleanup")
    /\ \/ Becomes(s, [ls[s] EXCEPT !.at = IF file # Gone /\ file = ls[s].identity THEN "unlink" ELSE ls[s].then])
       \/ Becomes(s, [ls[s] EXCEPT !.at = ls[s].then])   \* OSError, which is logged
    /\ UNCHANGED <<file, unlinked>>

unlink(s) ==
    /\ Step(s, "unlink")
    /\ Becomes(s, [ls[s] EXCEPT !.at = ls[s].then])
    /\ file' = Gone /\ unlinked' = unlinked \cup ({<<s, file>>} \ {<<s, Gone>>})

-----------------------------------------------------------------------------
\* Another program removes the path.
OthersUnlink == file # Gone /\ file' = Gone /\ UNCHANGED <<ls, unlinked>>

ListenNext ==
    \/ \E s \in Servers :
         \/ create_server(s) \/ HostResolved(s) \/ _bind_tcp(s) \/ create_unix_server(s) \/ stat(s) \/ serve(s)
         \/ slept(s) \/ Cancelled(s) \/ AppCloses(s) \/ Server_close(s) \/ cleanup(s) \/ unlink(s)
    \/ OthersUnlink

-----------------------------------------------------------------------------
\* "Nothing may escape without closing it - not even os.stat failing": a call
\* that raised, at whichever socket, step or await, has left no socket open,
\* and a descriptor is not watched once it is closed.  Not so the socket of a
\* path that bind() does not take at all ("unbound").
NoListenerLeaks ==
    \A s \in Servers :
        /\ ls[s].readers \subseteq ls[s].open
        /\ ls[s].at \in {"raised", "closed"} => ls[s].open = {}

\* close() removes the file its own server was bound to and no other: not that
\* of a server that took the path over since.
UnlinksOwnPath == \A u \in unlinked : u[1] = u[2]
=============================================================================
