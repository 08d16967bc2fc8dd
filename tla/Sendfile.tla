------------------------------ MODULE Sendfile ------------------------------
(***************************************************************************)
(* sendfile() over a transport and sock_sendfile() over a socket           *)
(* (zuvloop/_sendfile.py): the system call, for a transport on a duplicate *)
(* of its descriptor, or reads and writes where the call is not available. *)
(* While it lasts a _SendfileProtocol stands in for the application's      *)
(* protocol, and the task that awaits it may be cancelled at every await.  *)
(* The transport is reduced to its write buffer, its flow control and its  *)
(* end, as Transport has them.                                             *)
(*                                                                         *)
(* The state is one record, so that a call inside a call is the            *)
(* composition of two functions on it.                                     *)
(***************************************************************************)
EXTENDS Naturals, Sequences

CONSTANTS
    FileLen,    \* blocks of the file; a chunk of the fallback is one block
    MaxWrites,  \* writes of the application to the same transport
    Marks       \* the write buffer limits, <<high, low>>

ASSUME FileAssumption == FileLen \in Nat /\ MaxWrites \in Nat /\ Marks \in Nat \X Nat

VARIABLE st

(***************************************************************************)
(* buf, high, low, paused, reading, closing, lost, proto: the transport    *)
(* wire: what has left: Old and New, written by the application before and *)
(*       during sendfile(), and the blocks of the file by number           *)
(* told: the application's protocol has been told to pause                 *)
(* waiter, resumeR, resumeW: the _SendfileProtocol                         *)
(* at, wake, chunk, total, fallback: the task; how its await ended         *)
(* sock: it is sock_sendfile(), on a socket that no transport has          *)
(* dup: the duplicate of the transport's descriptor is open                *)
(* pos, worker: the position of the file; a worker thread is in its read() *)
(* dropped: history, blocks sent whose count a cancellation threw away     *)
(* strayed: history, blocks that read() took after the call had ended      *)
(***************************************************************************)
Old == 0
New == FileLen + 1
IsBlock(b) == b \in 1..FileLen

NoCall ==
    [buf |-> <<>>, wire |-> <<>>, high |-> Marks[1], low |-> Marks[2], paused |-> FALSE,
     reading |-> TRUE, closing |-> FALSE, lost |-> FALSE, proto |-> "app", told |-> FALSE,
     waiter |-> "none", resumeR |-> FALSE, resumeW |-> FALSE,
     at |-> "idle", wake |-> "no", chunk |-> 0, total |-> 0, fallback |-> TRUE, sock |-> FALSE,
     dup |-> FALSE, pos |-> 0, worker |-> FALSE, dropped |-> 0, strayed |-> 0, writes |-> 0]

SendfileInit == st = NoCall

Awaiting(x, p) == x.at = p /\ x.wake = "no"
Drains == {"drain", "drainChunk"}
Wake(x, how) == IF x.at \in Drains /\ x.wake = "no" THEN [x EXCEPT !.wake = how] ELSE x

-----------------------------------------------------------------------------
(* _SendfileProtocol, and the transport's calls of whichever protocol it has *)

pause_writing(x) ==
    IF x.proto = "app" THEN [x EXCEPT !.told = TRUE]
    ELSE IF x.waiter = "none" THEN [x EXCEPT !.waiter = "pending"] ELSE x

\* Settling a waiter that was cancelled or has failed raises instead.
resume_writing(x) ==
    IF x.proto = "app" THEN [x EXCEPT !.told = FALSE]
    ELSE IF x.waiter = "pending" THEN Wake([x EXCEPT !.waiter = "none"], "ok") ELSE x

connection_lost(x) ==
    IF x.proto = "sendfile" /\ x.waiter = "pending"
    THEN Wake([x EXCEPT !.lost = TRUE, !.waiter = "failed"], "raised")
    ELSE [x EXCEPT !.lost = TRUE]

maybePauseProtocol(x) ==
    IF Len(x.buf) > x.high /\ ~x.paused THEN pause_writing([x EXCEPT !.paused = TRUE]) ELSE x

maybeResumeProtocol(x) ==
    IF x.paused /\ ~x.closing /\ Len(x.buf) <= x.low
    THEN resume_writing([x EXCEPT !.paused = FALSE]) ELSE x

set_write_buffer_limits(x, h, l) == maybePauseProtocol([x EXCEPT !.high = h, !.low = l])

write(x, byte) ==
    IF x.closing THEN x ELSE maybePauseProtocol([x EXCEPT !.buf = Append(@, byte)])

\* _SendfileProtocol(): its paused argument is the transport's flag.
StandIn(x) ==
    [x EXCEPT !.resumeR = x.reading, !.resumeW = x.paused, !.reading = FALSE,
              !.waiter = IF x.paused THEN "pending" ELSE "none", !.proto = "sendfile"]

\* The resume that the stand-in took is not replayed.
restoreUntold(x) ==
    [x EXCEPT !.proto = "app", !.waiter = "none", !.reading = @ \/ (x.resumeR /\ ~x.closing)]

restore(x) ==
    [x EXCEPT !.proto = "app", !.waiter = "none",
              !.reading = @ \/ (x.resumeR /\ ~x.closing),
              !.told = @ /\ ~(x.resumeW /\ ~x.paused)]

\* drain() and the await on it; "then" is where the task waits.
drain(x, then, ready) ==
    IF x.closing \/ x.waiter = "failed" THEN [x EXCEPT !.at = then, !.wake = "raised"]
    ELSE IF x.waiter = "none" THEN ready
    ELSE [x EXCEPT !.at = then, !.wake = "no"]

Ended(x) == [x EXCEPT !.at = "end", !.wake = "no"]

-----------------------------------------------------------------------------
(* _transport_sendfile_native() and _sendfile_to_fd() *)

\* The finally clauses: the position, the duplicate, the limits, the protocol.
PositionedAtEnd(x) == [x EXCEPT !.pos = IF x.total = FileLen THEN x.total ELSE @]
Positioned(x) == [x EXCEPT !.pos = IF x.total > 0 THEN x.total ELSE @]
NativeLeaves(x) ==
    IF x.sock THEN Positioned(x)
    ELSE restore(set_write_buffer_limits([Positioned(x) EXCEPT !.dup = FALSE], Marks[1], Marks[2]))

\* os.dup(), whose error has no fallback; sock_sendfile() needs no duplicate.
Duplicates(x, fails) ==
    IF x.sock THEN [x EXCEPT !.at = "send", !.wake = "no"]
    ELSE IF fails THEN Ended(NativeLeaves(x))
    ELSE [x EXCEPT !.at = "send", !.wake = "no", !.dup = TRUE]

\* Both marks go to zero, and the descriptor is used once the buffer is empty.
NativeStarts(x, fails) ==
    LET y == IF x.sock THEN x ELSE set_write_buffer_limits(StandIn(x), 0, 0)
    IN IF y.buf = <<>> THEN Duplicates(y, fails) ELSE drain(y, "drain", Duplicates(y, fails))

\* os.sendfile() moves n blocks.
Moved(x, n) == [x EXCEPT !.wire = @ \o [i \in 1..n |-> x.total + i]]

\* run_in_executor(None, file.read, ...) and the await on it.
Reads(x) == [x EXCEPT !.at = "read", !.wake = "no", !.worker = TRUE]

FallbackStarts(x) == Reads(IF x.sock THEN x ELSE StandIn(x))

\* An error before the first block is SendfileNotAvailableError.
NativeFails(x) ==
    IF x.total = 0 /\ x.fallback THEN FallbackStarts(NativeLeaves(x)) ELSE Ended(NativeLeaves(x))

\* A transport that is not one of the loop's own has the fallback only.
sendfile ==
    /\ st.at = "idle" /\ ~st.closing
    /\ \E native, fallback, fails \in BOOLEAN :
        /\ native \/ fallback
        /\ LET x == [st EXCEPT !.fallback = fallback] IN
            st' = IF native THEN NativeStarts(x, fails) ELSE FallbackStarts(x)

sock_sendfile ==
    /\ st.at = "idle" /\ st.writes = 0 /\ ~st.closing
    /\ \E fallback \in BOOLEAN :
        st' = NativeStarts([st EXCEPT !.sock = TRUE, !.fallback = fallback], FALSE)

Drained ==
    /\ st.at = "drain" /\ st.wake # "no"
    /\ \E fails \in BOOLEAN :
        st' = IF st.wake = "ok" THEN Duplicates(st, fails) ELSE Ended(NativeLeaves(st))

\* One attempt: the end of the file, some blocks, not ready, an error.
Send ==
    /\ st.at = "send"
    /\ \/ st.total = FileLen /\ st' = Ended(NativeLeaves(st))
       \/ \E n \in 1..(FileLen - st.total) : st' = [Moved(st, n) EXCEPT !.total = @ + n]
       \/ st.total < FileLen /\ st' = [st EXCEPT !.at = "watch", !.wake = "no"]
       \/ st.total < FileLen /\ st' = NativeFails(st)

\* The watcher's callback settles the future; the task hears of it later.
Watched ==
    /\ Awaiting(st, "watch")
    /\ \/ \E n \in 1..(FileLen - st.total) :
            st' = [Moved(st, n) EXCEPT !.chunk = n, !.wake = "ok"]
       \/ st' = [st EXCEPT !.wake = "raised"]

\* A cancellation that comes between the two takes the count with it.
Resumed ==
    /\ st.at = "watch" /\ st.wake # "no"
    /\ st' = CASE st.wake = "ok" -> [st EXCEPT !.at = "send", !.wake = "no", !.chunk = 0,
                                               !.total = @ + st.chunk]
               [] st.wake = "raised" -> NativeFails(st)
               [] OTHER -> [Ended(NativeLeaves(st)) EXCEPT !.dropped = st.chunk]

-----------------------------------------------------------------------------
(* _sendfile_fallback() and _sock_sendfile_fallback() *)

FallbackLeaves(x) == Ended(IF x.sock THEN Positioned(x) ELSE restore(Positioned(x)))

\* The worker reads the next block, finds the end, or fails.  A cancellation does
\* not stop it: it may come back to a task that has been told otherwise, or after
\* the call, behind the seek() of the finally clause.
Read ==
    /\ st.worker
    /\ \E how \in {"ok", "raised"} :
        LET moved == IF how = "ok" /\ st.pos < FileLen THEN 1 ELSE 0
        IN  st' = [st EXCEPT !.worker = FALSE, !.pos = @ + moved,
                             !.wake = IF Awaiting(st, "read") THEN how ELSE @,
                             !.strayed = IF st.at = "end" THEN @ + moved ELSE @]

WriteChunk(x) == Reads([write(x, x.total + 1) EXCEPT !.total = @ + 1])

HasRead ==
    /\ st.at = "read" /\ st.wake # "no"
    /\ st' = CASE st.wake # "ok" \/ st.total = FileLen -> FallbackLeaves(st)
               [] st.sock -> [st EXCEPT !.at = "sendall", !.wake = "no"]
               [] OTHER -> drain(st, "drainChunk", WriteChunk(st))

ChunkDrained ==
    /\ st.at = "drainChunk" /\ st.wake # "no"
    /\ st' = IF st.wake = "ok" THEN WriteChunk(st) ELSE FallbackLeaves(st)

\* sock_sendall(): the last attempt takes the rest of the block.
SendAll ==
    /\ Awaiting(st, "sendall")
    /\ \/ st' = [Moved(st, 1) EXCEPT !.chunk = 1, !.wake = "ok"]
       \/ st' = [st EXCEPT !.wake = "raised"]

AllSent ==
    /\ st.at = "sendall" /\ st.wake # "no"
    /\ st' = IF st.wake = "ok"
             THEN Reads([st EXCEPT !.chunk = 0, !.total = @ + 1])
             ELSE [FallbackLeaves(st) EXCEPT !.dropped = st.chunk]

-----------------------------------------------------------------------------
(* What happens around it *)

\* task.cancel(): a future still pending is cancelled, a settled one is not
\* and the task is told when it resumes.  A read() no worker has begun is dropped.
Cancel ==
    /\ st.at \in Drains \cup {"watch", "read", "sendall"} /\ st.wake # "cancelled"
    /\ \E begun \in BOOLEAN :
        st' = [st EXCEPT !.wake = "cancelled", !.worker = @ /\ begun,
                         !.waiter = IF st.at \in Drains /\ st.wake = "no" THEN "cancelled" ELSE @]

AppWrites ==
    /\ st.writes < MaxWrites /\ ~st.sock
    /\ st' = [write(st, IF st.at = "idle" THEN Old ELSE New) EXCEPT !.writes = @ + 1]

\* libuv writes the oldest byte.
onWritten ==
    /\ st.buf # <<>> /\ ~st.lost
    /\ st' = maybeResumeProtocol([st EXCEPT !.buf = Tail(@), !.wire = Append(@, Head(st.buf))])

\* close(), or the abort of a transport whose peer is gone.
CloseTransport ==
    /\ ~st.closing
    /\ \E drop \in BOOLEAN :
        st' = [st EXCEPT !.closing = TRUE, !.reading = FALSE, !.buf = IF drop THEN <<>> ELSE @]

onClosed == st.closing /\ st.buf = <<>> /\ ~st.lost /\ st' = connection_lost(st)

TaskSteps == Drained \/ Send \/ Resumed \/ HasRead \/ ChunkDrained \/ AllSent
LoopSteps == Watched \/ Read \/ SendAll \/ onWritten \/ onClosed

SendfileNext == sendfile \/ sock_sendfile \/ TaskSteps \/ LoopSteps \/ Cancel \/ AppWrites \/ CloseTransport

-----------------------------------------------------------------------------
Stream == st.wire \o st.buf
Blocks == SelectSeq(Stream, IsBlock)

\* When the call ends the file is where the transfer stopped, also when it raised;
\* only the one block that a read() takes which a cancellation could not stop is
\* ever added to it.
FilePositioned ==
    st.at = "end" /\ st.total > 0 => st.strayed <= 1 /\ st.pos = st.total + st.strayed

\* The file goes out whole, in order and once, whichever way it is sent and
\* wherever it stops, and after every byte written before the call; its position is
\* the count of blocks sent, from which only those are missing whose count a
\* cancellation threw away.
FileExact ==
    /\ Blocks = [i \in 1..Len(Blocks) |-> i]
    /\ \A i, j \in 1..Len(Stream) : IsBlock(Stream[i]) /\ Stream[j] = Old => j < i
    /\ FilePositioned
    /\ st.at = "end" /\ st.total > 0 => st.closing \/ Len(Blocks) = st.total + st.dropped

\* However sendfile() ends, the protocol, the limits and the reading of before
\* are back; the duplicate is open while the system call is tried, and then no more.
TransportRestored ==
    /\ st.at = "end" => /\ st.proto = "app"
                        /\ <<st.high, st.low>> = Marks
                        /\ st.reading \/ st.closing
    /\ st.dup => st.at \in {"send", "watch"}

\* A protocol told to pause is told to resume, unless the transport closes:
\* neither the stand-in nor a cancelled wait swallows the call.
WriterResumes == st.told ~> (~st.told \/ st.closing)

\* sendfile() ends: with the file, an error, or the end of the connection.
SendfileEnds == (st.at # "idle") ~> (st.at = "end")

SendfileFairness == /\ WF_st(TaskSteps) /\ WF_st(Watched) /\ WF_st(SendAll) /\ WF_st(Read)
                    /\ WF_st(onWritten) /\ WF_st(onClosed)
=============================================================================
