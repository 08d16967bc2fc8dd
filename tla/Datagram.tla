------------------------------ MODULE Datagram ------------------------------
(***************************************************************************)
(* A datagram endpoint: zig/datagram.zig, with the callbacks that          *)
(* create_datagram_endpoint() of zuvloop/_connect.py schedules for it.     *)
(*                                                                         *)
(* The program acts at any time, from inside the hooks the endpoint calls  *)
(* as well.  Hooks that are the last thing a function does need no state.  *)
(* onSent() calls two that it continues after, error_received() and        *)
(* resume_writing(); "frame" says which of them is running.  A datagram is *)
(* its length.  Protocol objects, addresses and the arguments that raise   *)
(* before anything changes are left out.                                   *)
(***************************************************************************)
EXTENDS Integers, Sequences

CONSTANTS
    Lengths,       \* the lengths of datagrams
    Marks,         \* the arguments of set_write_buffer_limits()
    DefaultHigh,   \* default_high_water
    None,          \* an argument left out
    MaxQueue       \* bound: requests libuv holds

ASSUME LengthAssumption == Lengths \subseteq Nat
ASSUME MarkAssumption == Marks \subseteq Nat /\ None \notin Nat
ASSUME BoundAssumption == DefaultHigh \in Nat /\ MaxQueue \in Nat

VARIABLES
    flags,         \* Datagram.flags: READING, CLOSING, CONN_LOST, PROTOCOL_PAUSED, OPEN
    size,          \* Datagram.write_buffer_size
    high, low,     \* the flow-control marks
    udp,           \* libuv's handle
    queue,         \* libuv's requests, and whether the kernel was asked already
    frame,         \* the hook onSent() is in
    start,         \* how far the callbacks of create_datagram_endpoint() are
    lost,          \* connection_lost()
    loopClosed,    \* State.closed
    forced         \* history: something other than close() closed the handle

vars == <<flags, size, high, low, udp, queue, frame, start, lost, loopClosed, forced>>
marks == <<high, low>>

Init ==
    /\ flags = {} /\ size = 0
    /\ high = DefaultHigh /\ low = DefaultHigh \div 4
    /\ udp = "none" /\ queue = <<>> /\ frame = "none"
    /\ start = "none" /\ lost = "no" /\ loopClosed = FALSE
    /\ forced = FALSE

\* The program holds the transport, as connection_made() has been called.
Held == start \in {"made", "started"}

-----------------------------------------------------------------------------
(* Construction *)

\* makeDatagram(), and the three call_soon() of create_datagram_endpoint().
makeDatagram ==
    /\ udp = "none" /\ ~loopClosed
    /\ flags' = flags \union {"OPEN"} /\ udp' = "open" /\ start' = "attached"
    /\ UNCHANGED <<size, marks, queue, frame, lost, loopClosed, forced>>

\* uv_udp_open_ex() failed: only the handle is left, and it is closing.
makeDatagramFails ==
    /\ udp = "none" /\ ~loopClosed
    /\ udp' = "closing"
    /\ UNCHANGED <<flags, size, marks, queue, frame, start, lost, loopClosed, forced>>

onOpenFailed ==
    /\ udp = "closing" /\ start = "none"
    /\ udp' = "closed"
    /\ UNCHANGED <<flags, size, marks, queue, frame, start, lost, loopClosed, forced>>

connection_made ==
    /\ start = "attached" /\ frame = "none" /\ ~loopClosed
    /\ start' = "made"
    /\ UNCHANGED <<flags, size, marks, udp, queue, frame, lost, loopClosed, forced>>

-----------------------------------------------------------------------------
(* Closing *)

closeExternalHandle == udp' = IF udp = "open" THEN "closing" ELSE udp

\* shutdownAndClose(), for the flags as the caller set them.
shutdownAndClose(f) ==
    IF "OPEN" \notin f
    THEN flags' = f /\ UNCHANGED udp
    ELSE flags' = f \ {"OPEN", "READING"} /\ closeExternalHandle

\* Mutant: close() does not wait for the requests.
closeAtOnce ==
    /\ start # "none" /\ "CLOSING" \notin flags
    /\ shutdownAndClose(flags \union {"CLOSING"})
    /\ UNCHANGED <<size, marks, queue, frame, start, lost, loopClosed, forced>>

close ==
    /\ start # "none" /\ "CLOSING" \notin flags
    /\ LET f == (flags \union {"CLOSING"}) \ {"READING"}
       IN  IF size = 0 THEN shutdownAndClose(f) ELSE flags' = f /\ UNCHANGED udp
    /\ UNCHANGED <<size, marks, queue, frame, start, lost, loopClosed, forced>>

abort ==
    /\ Held
    /\ size' = 0
    /\ shutdownAndClose(flags \union {"CLOSING"})
    /\ forced' = TRUE
    /\ UNCHANGED <<marks, queue, frame, start, lost, loopClosed>>

\* closeLoop() drops the callbacks that wait and closes every open handle.
closeFromLoop ==
    /\ ~loopClosed /\ frame = "none" /\ udp # "none"
    /\ loopClosed' = TRUE
    /\ IF udp = "open"
       THEN /\ flags' = (flags \union {"CLOSING"}) \ {"OPEN", "READING"}
            /\ closeExternalHandle /\ forced' = TRUE
       ELSE UNCHANGED <<flags, udp, forced>>
    /\ lost' = IF lost = "scheduled" THEN "no" ELSE lost
    /\ UNCHANGED <<size, marks, queue, frame, start>>

\* onClosed() and scheduleCall(); libuv has answered every request by then.
onClosed ==
    /\ udp = "closing" /\ start # "none" /\ queue = <<>> /\ frame = "none"
    /\ udp' = "closed"
    /\ flags' = flags \union {"CONN_LOST"}
    /\ \/ lost' = IF loopClosed THEN lost ELSE "scheduled"
       \/ ~loopClosed /\ lost' = "failed"   \* no memory for the handle
    /\ UNCHANGED <<size, marks, queue, frame, start, loopClosed, forced>>

\* The ready queue is FIFO: the callbacks of the construction come first.
connection_lost ==
    /\ lost = "scheduled" /\ start = "started" /\ frame = "none" /\ ~loopClosed
    /\ lost' = "called"
    /\ UNCHANGED <<flags, size, marks, udp, queue, frame, start, loopClosed, forced>>

-----------------------------------------------------------------------------
(* Receiving *)

startReceiving ==
    IF flags \intersect {"READING", "CLOSING", "CONN_LOST"} # {}
    THEN UNCHANGED flags
    ELSE flags' = flags \union {"READING"}

\* The scheduled transport._start_receiving().
startReceivingMethod ==
    /\ start = "made" /\ frame = "none" /\ ~loopClosed
    /\ start' = "started"
    /\ startReceiving
    /\ UNCHANGED <<size, marks, udp, queue, frame, lost, loopClosed, forced>>

\* uv_udp_recv_start() failed.
startReceivingMethodFails ==
    /\ start = "made" /\ frame = "none" /\ ~loopClosed
    /\ flags \intersect {"READING", "CLOSING", "CONN_LOST"} = {}
    /\ start' = "started" /\ forced' = TRUE
    /\ shutdownAndClose(flags \union {"CLOSING"})
    /\ UNCHANGED <<size, marks, queue, frame, lost, loopClosed>>

pauseReading ==
    /\ Held /\ "CLOSING" \notin flags
    /\ flags' = flags \ {"READING"}
    /\ UNCHANGED <<size, marks, udp, queue, frame, start, lost, loopClosed, forced>>

resumeReading ==
    /\ Held /\ "CLOSING" \notin flags
    /\ startReceiving
    /\ UNCHANGED <<size, marks, udp, queue, frame, start, lost, loopClosed, forced>>

-----------------------------------------------------------------------------
(* Sending *)

\* maybePauseProtocol(), for the size and the high mark as the caller set them.
maybePauseProtocol(n, mark) ==
    flags' = IF n <= mark THEN flags ELSE flags \union {"PROTOCOL_PAUSED"}

queueSend(n) ==
    /\ Len(queue) < MaxQueue
    /\ queue' = Append(queue, [size |-> n, sent |-> FALSE])
    /\ size' = size + n
    /\ maybePauseProtocol(size + n, high)

\* uv_udp_try_send() wants an empty queue; a datagram it sends, or one that
\* fails, leaves nothing behind.  What remains is the datagram it refuses.
sendto(n) ==
    /\ Held /\ flags \intersect {"CLOSING", "CONN_LOST"} = {}
    /\ queueSend(n)
    /\ UNCHANGED <<marks, udp, frame, start, lost, loopClosed, forced>>

\* The marks set_write_buffer_limits(high, low) asks for.
Limits(h, l) ==
    LET highValue == IF h # None THEN h ELSE IF l # None THEN l * 4 ELSE DefaultHigh
        lowValue == IF l # None THEN l ELSE highValue \div 4
    IN  [high |-> highValue, low |-> lowValue]

setWriteBufferLimits(h, l) ==
    LET m == Limits(h, l)
    IN  /\ Held
        /\ m.low <= m.high
        /\ high' = m.high /\ low' = m.low
        /\ maybePauseProtocol(size, m.high)
        /\ UNCHANGED <<size, udp, queue, frame, start, lost, loopClosed, forced>>

\* libuv hands the next request to the kernel, or fails it.
UvSend ==
    /\ udp = "open"
    /\ \E i \in DOMAIN queue :
          /\ ~queue[i].sent /\ \A j \in 1..(i - 1) : queue[j].sent
          /\ queue' = [queue EXCEPT ![i].sent = TRUE]
    /\ UNCHANGED <<flags, size, marks, udp, frame, start, lost, loopClosed, forced>>

\* Mutant: nothing looks at a closing endpoint again.
closeIfDrainedNever(n) == frame' = "none" /\ UNCHANGED <<flags, udp>>

\* The end of onSent(): a closing endpoint whose queue has drained is closed.
closeIfDrained(n) ==
    /\ frame' = "none"
    /\ IF n = 0 /\ "CLOSING" \in flags THEN shutdownAndClose(flags) ELSE UNCHANGED <<flags, udp>>

\* Mutant: the size has to be below the mark.
resumesBelow(n) ==
    /\ flags \intersect {"CLOSING", "CONN_LOST"} = {}
    /\ "PROTOCOL_PAUSED" \in flags
    /\ n < low

\* maybeResumeProtocol(), for the size as the caller left it.
resumes(n) ==
    /\ flags \intersect {"CLOSING", "CONN_LOST"} = {}
    /\ "PROTOCOL_PAUSED" \in flags
    /\ n <= low

maybeResumeProtocol(n) ==
    IF resumes(n)
    THEN flags' = flags \ {"PROTOCOL_PAUSED"} /\ frame' = "resume" /\ UNCHANGED udp
    ELSE closeIfDrained(n)

\* What the request adds to write_buffer_size is taken off again.
credit(n) == size - (IF n < size THEN n ELSE size)

\* A request the close callback finds unsent was cancelled, which is an error.
onSent ==
    /\ frame = "none" /\ queue # <<>>
    /\ Head(queue).sent \/ udp = "closing"
    /\ queue' = Tail(queue)
    /\ size' = credit(Head(queue).size)
    /\ \/ /\ flags \intersect {"CLOSING", "CONN_LOST"} = {}
          /\ frame' = "error" /\ UNCHANGED <<flags, udp>>
       \/ maybeResumeProtocol(size')
    /\ UNCHANGED <<marks, start, lost, loopClosed, forced>>

errorReceivedReturns ==
    /\ frame = "error"
    /\ maybeResumeProtocol(size)
    /\ UNCHANGED <<size, marks, queue, start, lost, loopClosed, forced>>

resumeWritingReturns ==
    /\ frame = "resume"
    /\ closeIfDrained(size)
    /\ UNCHANGED <<size, marks, queue, start, lost, loopClosed, forced>>

-----------------------------------------------------------------------------

Program ==
    \/ close \/ abort \/ pauseReading \/ resumeReading
    \/ \E n \in Lengths : sendto(n)
    \/ \E h, l \in Marks \union {None} : setWriteBufferLimits(h, l)

Libuv == UvSend \/ onSent \/ onClosed \/ onOpenFailed

Returns == errorReceivedReturns \/ resumeWritingReturns

Callbacks == connection_made \/ startReceivingMethod \/ connection_lost

Next ==
    \/ Program \/ Libuv \/ Returns \/ Callbacks
    \/ makeDatagram \/ makeDatagramFails \/ startReceivingMethodFails \/ closeFromLoop

Spec == Init /\ [][Next]_vars

\* The kernel takes the datagrams in the end, hooks return, and the loop runs
\* while it is not closed: a loop that is closed waits for its handles.
FairSpec == Spec /\ WF_vars(UvSend) /\ WF_vars(onSent) /\ WF_vars(onClosed)
                 /\ WF_vars(Returns) /\ WF_vars(Callbacks)

-----------------------------------------------------------------------------

\* What the requests of q add up to.
Total(q) ==
    LET sum[i \in 0..Len(q)] == IF i = 0 THEN 0 ELSE sum[i - 1] + q[i].size
    IN  sum[Len(q)]

\* write_buffer_size is what the requests libuv holds add up to, hooks that
\* send from inside onSent() included.  Only abort() writes them off.
\* So pause_writing() has an end: while the protocol is paused on an endpoint
\* that is not closing, a request is due whose completion can resume it.
PauseCanEnd ==
    /\ size = Total(queue) \/ (forced /\ size = 0)
    /\ "PROTOCOL_PAUSED" \in flags /\ "CLOSING" \notin flags /\ frame = "none" => size > 0 /\ queue # <<>>

\* close() closes the handle only after every datagram that counts towards
\* write_buffer_size was handed to the kernel.
DrainsBeforeClose ==
    udp # "open" /\ ~forced => \A i \in DOMAIN queue : queue[i].size > 0 => queue[i].sent

\* An endpoint that was closed or aborted gets its connection_lost(), unless
\* the loop is closed first or had no memory for the callback.
CloseEnds == "CLOSING" \in flags ~> lost \in {"called", "failed"} \/ loopClosed

=============================================================================
