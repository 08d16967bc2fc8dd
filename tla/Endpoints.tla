----------------------------- MODULE Endpoints -----------------------------
(***************************************************************************)
(* Three more calls of zuvloop/_connect.py that end with a transport:      *)
(* create_datagram_endpoint(), connect_read_pipe() and                     *)
(* connect_write_pipe() with the watch for a hangup, and start_tls().      *)
(*                                                                         *)
(* Each schedules the callbacks of its transport, awaits a future that one *)
(* of them (or the handshake) sets, and may be cancelled meanwhile.  What  *)
(* is scheduled runs in order: the task of a call whose future was set or  *)
(* cancelled is woken by one more entry of the same queue.                 *)
(***************************************************************************)
EXTENDS Integers, Sequences

CONSTANT MaxRecords    \* records the peer of start_tls() sends

VARIABLES dg, pp, tl

endpointVars == <<dg, pp, tl>>

\* Of every call: at, where it is; q, what is scheduled; fut, the future that it
\* awaits; cancelled, the request to cancel its task
Settle(y, how) == IF y.fut = "pending" THEN [y EXCEPT !.fut = how, !.q = Append(@, "wakeup")] ELSE y
CancelTask(y) == [Settle(y, "cancelled") EXCEPT !.cancelled = TRUE]
Next1(y) == [y EXCEPT !.q = Tail(@)]
Fails(y) == y.cancelled \/ y.fut # "set"
Runs(y, entry) == y.q # <<>> /\ Head(y.q) = entry

-----------------------------------------------------------------------------
(* create_datagram_endpoint() *)

\* lookups: addresses still to resolve; remote: there is a remote_addr
NoDatagram == [at |-> "idle", q |-> <<>>, fut |-> "pending", cancelled |-> FALSE,
               lookups |-> 0, remote |-> FALSE, wake |-> "no", sock |-> "none", transport |-> "none",
               made |-> FALSE, receiving |-> FALSE, lost |-> FALSE]

create_datagram_endpoint ==
    /\ dg.at = "idle"
    /\ \/ dg' = [dg EXCEPT !.at = "raised"]
       \/ dg' = [dg EXCEPT !.at = "attach", !.sock = "open"]   \* sock=
       \/ \E n \in 0..2, r \in BOOLEAN :
            dg' = [dg EXCEPT !.at = IF n = 0 THEN "bind" ELSE "resolving", !.lookups = n, !.remote = r]
    /\ UNCHANGED <<pp, tl>>

\* getaddrinfo() or sock_connect() is over, or the call was cancelled in it.
Answered ==
    /\ dg.at \in {"resolving", "connecting"}
    /\ \/ dg.wake = "no" /\ \E how \in {"ok", "raised"} : dg' = [dg EXCEPT !.wake = how]
       \/ dg' = [dg EXCEPT !.wake = "cancelled"]
    /\ UNCHANGED <<pp, tl>>

_resolve_datagram ==
    /\ dg.at = "resolving" /\ dg.wake # "no"
    /\ dg' = [dg EXCEPT !.wake = "no", !.lookups = @ - 1,
                        !.at = IF dg.wake # "ok" THEN "raised" ELSE IF dg.lookups = 1 THEN "bind" ELSE @]
    /\ UNCHANGED <<pp, tl>>

\* The socket, its options, bind(), and sock_connect() if there is a remote.
_bind_datagram ==
    /\ \/ /\ dg.at = "bind"
          /\ \/ \E left \in {"none", "closed"} : dg' = [dg EXCEPT !.at = "raised", !.sock = left]
             \/ dg' = [dg EXCEPT !.sock = "open", !.at = IF dg.remote THEN "connecting" ELSE "attach"]
       \/ /\ dg.at = "connecting" /\ dg.wake # "no"
          /\ dg' = IF dg.wake = "ok" THEN [dg EXCEPT !.at = "attach", !.wake = "no"]
                   ELSE [dg EXCEPT !.at = "raised", !.wake = "no", !.sock = "closed"]
    /\ UNCHANGED <<pp, tl>>

\* The factory or _attach_datagram() raises, or the callbacks are scheduled.
_attach_datagram ==
    /\ dg.at = "attach"
    /\ \/ dg' = [dg EXCEPT !.at = "raised", !.sock = "closed"]
       \/ dg' = [dg EXCEPT !.at = "waiting", !.sock = "adopted", !.transport = "open",
                           !.q = <<"made", "receive", "result">>]
    /\ UNCHANGED <<pp, tl>>

Closing(y) == IF y.transport = "open" THEN [y EXCEPT !.transport = "closing"] ELSE y

DatagramWakes ==
    /\ Runs(dg, "wakeup")
    /\ dg' = IF Fails(dg) THEN [Closing(Next1(dg)) EXCEPT !.at = "raised"]
             ELSE [Next1(dg) EXCEPT !.at = "returned"]

\* connection_made() may close the transport; reading may fail to start.
DatagramRuns ==
    /\ \/ Runs(dg, "made") /\ \E y \in {dg, Closing(dg)} : dg' = [Next1(y) EXCEPT !.made = TRUE]
       \/ /\ Runs(dg, "receive")
          /\ IF dg.transport # "open" THEN dg' = Next1(dg)
             ELSE dg' \in {[Next1(dg) EXCEPT !.receiving = TRUE], Closing(Next1(dg))}
       \/ Runs(dg, "result") /\ dg' = Settle(Next1(dg), "set")
       \/ DatagramWakes
       \/ Runs(dg, "lost") /\ dg' = [Next1(dg) EXCEPT !.lost = TRUE]
    /\ UNCHANGED <<pp, tl>>

\* The task is cancelled; the application closes; libuv has closed the handle.
DatagramElse ==
    /\ \/ dg.at = "waiting" /\ ~dg.cancelled /\ dg' = CancelTask(dg)
       \/ dg.at = "returned" /\ dg.transport = "open" /\ dg' = Closing(dg)
       \/ /\ dg.transport = "closing"
          /\ dg' = [dg EXCEPT !.transport = "closed", !.receiving = FALSE, !.q = Append(@, "lost")]
    /\ UNCHANGED <<pp, tl>>

DatagramNext ==
    \/ create_datagram_endpoint \/ Answered \/ _resolve_datagram \/ _bind_datagram \/ _attach_datagram
    \/ DatagramRuns \/ DatagramElse

-----------------------------------------------------------------------------
(* connect_read_pipe(), connect_write_pipe() *)

\* pipe: the caller's object; dup: the descriptor libuv has; owner: what the
\* transport closes, the pipe itself or the _HangupWatch; reader, queued: its
\* poll, and its callback in the ready queue; buffered: data not yet written
NoPipe == [at |-> "idle", q |-> <<>>, fut |-> "pending", cancelled |-> FALSE,
           pipe |-> "open", dup |-> "none", owner |-> "none", transport |-> "none", reader |-> FALSE,
           queued |-> FALSE, buffered |-> FALSE, peer |-> TRUE, loop |-> TRUE]

\* The transport's end: the pipe, through the watch with its poll, then libuv's
\* descriptor.
releaseSocketView(y) ==
    [y EXCEPT !.pipe = "closed", !.owner = "none", !.reader = FALSE, !.queued = FALSE]
forceClose(y) ==
    IF y.transport = "closed" THEN y
    ELSE [releaseSocketView(y) EXCEPT !.transport = "closed", !.dup = "closed", !.buffered = FALSE]
closeTransport(y) ==
    IF y.transport # "open" THEN y
    ELSE IF y.buffered THEN [y EXCEPT !.transport = "closing"] ELSE forceClose(y)

arm(y) == [y EXCEPT !.reader = TRUE]

\* The duplicate is closed if there is no transport; the FIFO of a write pipe is
\* watched, which may fail.
_connect_pipe ==
    /\ pp.at = "idle"
    /\ LET opened == [pp EXCEPT !.at = "waiting", !.dup = "open", !.transport = "open", !.owner = "pipe",
                                !.q = <<"made", "result">>]
           adopted == [opened EXCEPT !.owner = "watch"]
       IN \/ \E left \in {"none", "closed"} : pp' = [pp EXCEPT !.at = "raised", !.dup = left]
          \/ pp' = opened
          \/ pp' = arm(adopted)
          \/ pp' = [closeTransport(adopted) EXCEPT !.at = "raised"]
    /\ UNCHANGED <<dg, tl>>

PipeRuns ==
    /\ \/ Runs(pp, "made") /\ pp' = Next1(pp)
       \/ Runs(pp, "result") /\ pp' = Settle(Next1(pp), "set")
       \/ /\ Runs(pp, "wakeup") /\ pp.at = "waiting"
          /\ pp' = IF Fails(pp) THEN [closeTransport(Next1(pp)) EXCEPT !.at = "raised"]
                   ELSE [Next1(pp) EXCEPT !.at = "returned"]
    /\ UNCHANGED <<dg, tl>>

\* The reader of the pipe goes: the poll queues _hangup().
PeerGone == pp.owner # "none" /\ pp.peer /\ pp' = [pp EXCEPT !.peer = FALSE] /\ UNCHANGED <<dg, tl>>
Polled == pp.reader /\ ~pp.peer /\ ~pp.queued /\ pp' = [pp EXCEPT !.queued = TRUE] /\ UNCHANGED <<dg, tl>>
_hangup == /\ pp.queued
           /\ pp' = forceClose([pp EXCEPT !.reader = FALSE, !.queued = FALSE])
           /\ UNCHANGED <<dg, tl>>

\* libuv writes what is buffered, or cannot.
Written ==
    /\ pp.buffered
    /\ LET flushed == [pp EXCEPT !.buffered = FALSE] IN
         pp' = IF pp.peer /\ pp.transport = "open" THEN flushed ELSE forceClose(flushed)
    /\ UNCHANGED <<dg, tl>>

PipeElse ==
    /\ \/ pp.at = "waiting" /\ ~pp.cancelled /\ pp' = CancelTask(pp)
       \/ pp.at = "returned" /\ pp.transport = "open" /\ ~pp.buffered /\ pp' = [pp EXCEPT !.buffered = TRUE]
       \/ pp.at = "returned" /\ pp.transport = "open" /\ pp' = closeTransport(pp)
       \/ /\ pp.at # "idle" /\ pp.loop   \* close() of the loop: pollers, then handles
          /\ LET closed == [pp EXCEPT !.loop = FALSE, !.q = <<>>, !.reader = FALSE, !.queued = FALSE] IN
               pp' = IF pp.transport \in {"open", "closing"} THEN forceClose(closed) ELSE closed
    /\ UNCHANGED <<dg, tl>>

PipeNext == _connect_pipe \/ PipeRuns \/ PeerGone \/ Polled \/ _hangup \/ Written \/ PipeElse

-----------------------------------------------------------------------------
(* start_tls() *)

\* buffer: records the StreamReader holds; incoming: those the SSL object has;
\* got: records received; early: history, one came before connection_made()
NoTls == [at |-> "idle", q |-> <<>>, fut |-> "pending", cancelled |-> FALSE,
          server_side |-> FALSE, protocol |-> "app", reading |-> TRUE, paused |-> FALSE, closing |-> FALSE,
          buffer |-> <<>>, incoming |-> <<>>, got |-> 0, read |-> 0, made |-> FALSE, early |-> FALSE]

Received ==
    /\ tl.reading /\ ~tl.closing /\ tl.got < MaxRecords
    /\ LET r == tl.got + 1 IN
         tl' = IF tl.protocol = "app" THEN [tl EXCEPT !.got = r, !.buffer = Append(@, r)]
               ELSE [tl EXCEPT !.got = r, !.incoming = Append(@, r), !.early = @ \/ ~tl.made]
    /\ UNCHANGED <<dg, pp>>

\* Before the call the application reads a record, after which the reader may
\* resume, or the reader has too much and pauses.
Application ==
    /\ tl.at = "idle"
    /\ \/ /\ tl.buffer # <<>>
          /\ \E resume \in {FALSE, tl.paused} :
               tl' = [tl EXCEPT !.read = Head(tl.buffer), !.buffer = Tail(@),
                                !.paused = @ /\ ~resume, !.reading = @ \/ resume]
       \/ tl.buffer # <<>> /\ tl.reading /\ tl' = [tl EXCEPT !.reading = FALSE, !.paused = TRUE]
    /\ UNCHANGED <<dg, pp>>

\* Reading goes on while the protocols change.
start_tlsReading ==
    /\ tl.at = "idle"
    /\ \E server_side \in BOOLEAN :
         tl' = [tl EXCEPT !.at = "waiting", !.server_side = server_side, !.protocol = "ssl",
                          !.incoming = IF server_side THEN tl.buffer ELSE <<>>,
                          !.buffer = IF server_side THEN <<>> ELSE @,
                          !.paused = @ /\ ~(server_side /\ tl.buffer # <<>>),
                          !.q = <<"made", "resume">>]
    /\ UNCHANGED <<dg, pp>>

start_tls ==
    /\ tl.at = "idle"
    /\ \E server_side \in BOOLEAN :
         tl' = [tl EXCEPT !.at = "waiting", !.server_side = server_side, !.protocol = "ssl", !.reading = FALSE,
                          !.incoming = IF server_side THEN tl.buffer ELSE <<>>,
                          !.buffer = IF server_side THEN <<>> ELSE @,
                          !.paused = @ /\ ~(server_side /\ tl.buffer # <<>>),
                          !.q = <<"made", "resume">>]
    /\ UNCHANGED <<dg, pp>>

\* The handshake, asyncio's, is over; a failure closes the transport.
Handshake ==
    /\ tl.made /\ tl.fut = "pending"
    /\ \/ tl.incoming # <<>> /\ tl' = Settle(tl, "set")
       \/ tl' = [Settle(tl, "raised") EXCEPT !.closing = TRUE]
    /\ UNCHANGED <<dg, pp>>

TlsRuns ==
    /\ \/ Runs(tl, "made") /\ tl' = [Next1(tl) EXCEPT !.made = TRUE]
       \/ Runs(tl, "resume") /\ tl' = [Next1(tl) EXCEPT !.reading = ~tl.closing]
       \/ /\ Runs(tl, "wakeup") /\ tl.at = "waiting"
          /\ tl' = IF Fails(tl) THEN [tl EXCEPT !.at = "raised", !.closing = TRUE, !.reading = FALSE, !.q = <<>>]
                   ELSE [Next1(tl) EXCEPT !.at = "returned"]
    /\ UNCHANGED <<dg, pp>>

TlsCancelled ==
    tl.at = "waiting" /\ ~tl.cancelled /\ tl' = CancelTask(tl) /\ UNCHANGED <<dg, pp>>

TlsNext == Received \/ Application \/ start_tls \/ Handshake \/ TlsRuns \/ TlsCancelled

-----------------------------------------------------------------------------
EndpointInit == dg = NoDatagram /\ pp = NoPipe /\ tl = NoTls

\* One of the calls; they have no state in common.
EndpointNext ==
    \/ pp = NoPipe /\ tl = NoTls /\ DatagramNext
    \/ dg = NoDatagram /\ tl = NoTls /\ PipeNext
    \/ dg = NoDatagram /\ pp = NoPipe /\ TlsNext

\* The loop polls, runs what is ready, and libuv writes.
EndpointFairness == WF_endpointVars(Polled) /\ WF_endpointVars(_hangup) /\ WF_endpointVars(Written)

-----------------------------------------------------------------------------
\* create_datagram_endpoint() that raised, in whichever await, has closed its
\* socket or left a transport that closes it; one that returned has called
\* connection_made(), and connection_lost() is not called before.
DatagramOwned ==
    /\ dg.at = "raised" => dg.sock \in {"none", "closed"} \/ dg.transport \in {"closing", "closed"}
    /\ dg.at = "returned" \/ dg.lost => dg.made

\* "Dropping the poll before the pipe it watches": a closed pipe is neither
\* polled nor has a callback queued, and it is closed together with libuv's
\* descriptor, or not at all when there is no transport.
PollGoesFirst ==
    /\ pp.pipe = "closed" => ~pp.reader /\ ~pp.queued
    /\ pp.at # "idle" => (pp.pipe = "closed") = (pp.transport = "closed")
    /\ pp.pipe = "closed" => pp.dup = "closed"

\* "Reports the peer closing the read end": a FIFO that nobody reads any longer
\* is closed, also when the application writes nothing to it or is closing it.
HangupSeen == (pp.owner = "watch" /\ ~pp.peer) ~> pp.transport = "closed"

\* The SSL object of a server gets every record that the application had not
\* read, once and in order, and none from the transport before
\* connection_made(); a call that failed leaves no callback of its own behind.
HandshakeGetsAll ==
    /\ tl.protocol = "ssl" /\ tl.server_side =>
          tl.incoming = [i \in 1..(tl.got - tl.read) |-> tl.read + i]
    /\ ~tl.early
    /\ tl.at = "raised" => tl.closing /\ tl.q = <<>>
=============================================================================
