------------------------------ MODULE Program ------------------------------
(***************************************************************************)
(* Programs over the Python layer, from their first call to their last.    *)
(*                                                                         *)
(* A client connects (Connect), over the transport it is given it calls    *)
(* sendfile(), or sock_sendfile() on another socket (Sendfile), and when   *)
(* the connection has failed or ended it shuts the executor that served    *)
(* those calls and closes the loop (Executors).  A parent runs child       *)
(* processes, with the standard library and the reaper thread on Linux     *)
(* (ProcessReaper) and with libuv elsewhere (LibuvProcess).  A server      *)
(* opens listening sockets (Listeners), or a datagram endpoint, a pipe or  *)
(* TLS over a connection it has accepted (Endpoints).                      *)
(***************************************************************************)
EXTENDS Connect, Sendfile, Executors, ProcessReaper, LibuvProcess, Listeners, Endpoints

VARIABLE runs    \* which program it is

clientVars == <<connectVars, st, execVars>>
parentVars == <<reaperVars, po>>
serverVars == <<listenVars, endpointVars>>
vars == <<clientVars, parentVars, serverVars, runs>>

Init ==
    /\ ConnectInit /\ SendfileInit /\ ExecInit /\ ReaperInit /\ PopenInit /\ ListenInit /\ EndpointInit
    /\ runs \in {"client", "parent", "parent_libuv", "server", "endpoint"}

\* create_connection() returns or raises, and its locals are gone.
Forgets(then) ==
    /\ at' = then
    /\ kind' = "none" /\ wake' = "no" /\ winner' = 0 /\ errors' = <<>> /\ dropped' = FALSE
    /\ att' = [a \in Addrs |-> "idle"] /\ awake' = [a \in Addrs |-> "no"]
    /\ sock' = [a \in Addrs |-> "none"]
    /\ transport' = "none" /\ result' = "none"

Connected ==
    /\ at = "done" /\ result = "returned"
    /\ Forgets("connected")
    /\ UNCHANGED <<st, execVars>>

Leaves ==
    /\ \/ at = "done" /\ result = "raised"
       \/ at = "connected" /\ st.at = "end" /\ st.lost
    /\ Forgets("leaving")
    /\ st' = NoCall
    /\ UNCHANGED execVars

ClientNext ==
    \/ ConnectNext /\ UNCHANGED <<st, execVars>>
    \/ Connected
    \/ at = "connected" /\ SendfileNext /\ UNCHANGED <<connectVars, execVars>>
    \/ Leaves
    \/ at = "leaving" /\ ExecNext /\ UNCHANGED <<connectVars, st>>

Next ==
    \/ runs = "client" /\ ClientNext /\ UNCHANGED <<parentVars, serverVars, runs>>
    \/ runs = "parent" /\ ReaperNext /\ UNCHANGED <<clientVars, po, serverVars, runs>>
    \/ runs = "parent_libuv" /\ PopenNext /\ UNCHANGED <<clientVars, reaperVars, serverVars, runs>>
    \/ runs = "server" /\ ListenNext /\ UNCHANGED <<clientVars, parentVars, endpointVars, runs>>
    \/ runs = "endpoint" /\ EndpointNext /\ UNCHANGED <<clientVars, parentVars, listenVars, runs>>

Spec ==
    /\ Init /\ [][Next]_vars
    /\ ConnectFairness /\ SendfileFairness /\ ExecFairness /\ ReaperFairness /\ PopenFairness
    /\ EndpointFairness

-----------------------------------------------------------------------------
\* Whatever fails or is cancelled, and at whichever of its awaits, a call gives
\* back what it took: the sockets of create_connection(), of a server and of a
\* datagram endpoint, the pipe with its poll, the descriptors and the child of a
\* subprocess call; and sendfile() the transport it borrowed.
NothingLeaks ==
    /\ NoSocketLeaks /\ NoListenerLeaks /\ DatagramOwned /\ PollGoesFirst
    /\ DescriptorsBalance /\ FailedCallReaps /\ TransportRestored

\* Every call that waits goes on in the end: a race with an address that never
\* answers, sendfile() over a connection that ends, the shutdown of an executor
\* whose job does not, the failed start of a child, and the owner of a FIFO that
\* nobody reads any longer is told.
CallsEnd == SilenceIsBeaten /\ SendfileEnds /\ ShutdownEnds /\ FailedCallEnds /\ HangupSeen
=============================================================================
