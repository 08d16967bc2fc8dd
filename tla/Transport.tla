------------------------------ MODULE Transport ------------------------------
(***************************************************************************)
(* One stream transport of zig/transport.zig: the batch of writes held     *)
(* until the turn ends, the requests libuv owns, flow control, half-close, *)
(* close and abort, and the read path with its buffered protocols.         *)
(*                                                                         *)
(* pause_writing() and resume_writing() are called in the middle of native *)
(* functions and may call the transport back, so the native call stack is  *)
(* part of the state.  `stack` lists, innermost first, what is left to do: *)
(* a Python frame, from which any method may be called, or the rest of a   *)
(* native function, which is the only thing that can happen next.          *)
(*                                                                         *)
(* A byte is its position in the order in which the transport takes data,  *)
(* a buffer is a sequence of bytes.  The socket and libuv's write queue    *)
(* are external: libuv/src/unix/stream.c as this code drives it.           *)
(***************************************************************************)
EXTENDS Integers, SequencesExt

CONSTANTS
    Kinds,       \* of "stream" and "pipe_write" (KIND_PIPE_WRITE)
    Protocols,   \* which of buffered (TRUE) and plain (FALSE) may be bound
    PendingMax,  \* pending_max
    Vectors,     \* arguments of write() and writelines(): [n, size] records,
                 \* n buffers of size bytes
    Limits,      \* arguments of set_write_buffer_limits(): [low, high] records
    MaxBytes,    \* bound: bytes written
    MaxReads,    \* bound: reads that deliver data
    MaxStack     \* bound: Python frames that call back in at one time

ASSUME KindsAssumption == Kinds \subseteq {"stream", "pipe_write"} /\ Kinds # {}
ASSUME ProtocolsAssumption == Protocols \in SUBSET BOOLEAN /\ Protocols # {}
ASSUME BoundAssumption == /\ PendingMax \in Nat \ {0}
                          /\ MaxBytes \in Nat /\ MaxReads \in Nat /\ MaxStack \in Nat
ASSUME VectorsAssumption == Vectors \subseteq [n : Nat \ {0}, size : Nat \ {0}]
ASSUME LimitsAssumption == /\ Limits # {}
                           /\ Limits \subseteq [low : Nat, high : Nat]
                           /\ \A l \in Limits : l.low <= l.high

VARIABLES
    stack,         \* the native call stack
    kind,          \* the kind of handle
    boot,          \* which of makeTransport's handles is next on the ready queue
    running,       \* State.running
    loop_closed,   \* State.closed
    reading,       \* READING: uv_read_start is in force
    closing,       \* CLOSING
    conn_lost,     \* CONN_LOST
    eof_written,   \* EOF_WRITTEN
    paused,        \* PROTOCOL_PAUSED
    open,          \* OPEN
    flush_queued,  \* FLUSH_QUEUED: on the loop's flush list
    buffered,      \* BUFFERED
    allocating,    \* ALLOCATING_READ_BUFFER
    read_pending,  \* READ_STATE_PENDING
    pending,       \* pending_bufs
    wbs,           \* write_buffer_size
    limits,        \* low_water and high_water
    handle,        \* libuv: the handle is open, closing or closed
    queue,         \* libuv: write_queue
    completed,     \* libuv: write_completed_queue
    wqs,           \* libuv: write_queue_size
    shut,          \* libuv: uv_shutdown was accepted
    wire,          \* bytes the socket has taken, in order
    taken,         \* bytes the transport has taken from write()
    lost,          \* connection_lost: not due, on the ready queue, called
    reads,         \* reads delivered
    failed,        \* ghost: who ended the connection other than by close()
    eof_mark,      \* ghost: `taken` when write_eof() was called
    refilled,      \* ghost: a hook wrote during the flush of close/write_eof
    held           \* ghost: pause_reading() is in force, since reading started

loopv  == <<kind, boot, running, loop_closed>>
flags  == <<closing, conn_lost, eof_written, paused, open, flush_queued>>
readv  == <<reading, buffered, allocating, read_pending, reads, held>>
uvv    == <<queue, completed, wqs, wire>>
ghosts == <<failed, eof_mark, refilled>>
vars   == <<stack, loopv, flags, readv, pending, wbs, limits, handle, uvv, shut,
            taken, lost, ghosts>>

Hooks  == {"pause_writing", "resume_writing"}
Frames == Hooks \cup {"callback", "connection_made", "connection_lost",
                      "data_received", "eof_received", "get_buffer"}

Item(op)    == [op |-> op]
Size(s)     == Len(FlattenSeq(s))
Lefts(q)    == FlattenSeq([i \in DOMAIN q |-> q[i].left])
Bytes(s)    == ToSet(s)

\* bytes of the calls on the stack that the transport has still to take
Promised == FoldLeft(LAMBDA sum, f : IF f.op = "appendPending" THEN sum + f.n * f.v.size ELSE sum,
                     0, stack)

\* n buffers of v, numbered from the next byte on
Buffers(v, n) == [i \in 1..n |-> [j \in 1..v.size |-> taken + (i - 1) * v.size + j]]

Init ==
    /\ stack = <<>> /\ kind \in Kinds /\ boot = "made" /\ running = FALSE /\ loop_closed = FALSE
    /\ reading = FALSE /\ closing = FALSE /\ conn_lost = FALSE
    /\ eof_written = FALSE /\ paused = FALSE /\ open = TRUE
    /\ flush_queued = FALSE /\ buffered \in Protocols
    /\ allocating = FALSE /\ read_pending = FALSE
    /\ pending = <<>> /\ wbs = 0 /\ limits \in Limits
    /\ handle = "open" /\ queue = <<>> /\ completed = <<>> /\ wqs = 0
    /\ shut = FALSE /\ wire = <<>> /\ taken = 0 /\ lost = "no" /\ reads = 0
    /\ failed = "no" /\ eof_mark = 0 /\ refilled = FALSE
    /\ held = FALSE

-----------------------------------------------------------------------------
(* Pieces shared by the handlers.                                          *)

Idle         == stack = <<>> /\ boot # "start"
InPython     == stack # <<>> /\ Head(stack).op \in Frames
Native(op)   == stack # <<>> /\ Head(stack).op = op
MayCall      == InPython /\ Len(SelectSeq(stack, LAMBDA f : f.op \in Frames)) <= MaxStack
Call(items)  == stack' = items \o stack
Then(items)  == stack' = items \o Tail(stack)

\* acceptsWrite
AcceptsWrite == ~eof_written /\ ~conn_lost /\ ~closing

\* bufferedBytes, of the given libuv and batch sizes
BufferedBytes(w, q, p) == (IF w = 0 THEN 0 ELSE q) + p
Buffered == BufferedBytes(wbs, wqs, Size(pending))

\* Mutant: requests that libuv still holds are forgotten.
DrainedAlways == TRUE

\* libuv has completed every request: closing and half-closing may go ahead
Drained == wbs = 0

\* shutdownAndClose, including releaseSocketView and closeExternalHandle
ShutdownAndClose ==
    /\ open' = FALSE
    /\ reading' = (reading /\ ~open)
    /\ handle' = IF open THEN "closing" ELSE handle

\* forceClose(exc): why says who is to blame, alloc is ALLOCATING_READ_BUFFER
ForceClose(why, alloc) ==
    /\ pending' = <<>>
    /\ closing' = TRUE
    /\ wbs' = 0
    /\ failed' = IF failed = "no" THEN why ELSE failed
    /\ \/ alloc /\ read_pending' = TRUE /\ UNCHANGED <<open, reading, handle>>
       \/ ~alloc /\ ShutdownAndClose /\ UNCHANGED read_pending

\* what forceClose and its callers leave alone
Kept == UNCHANGED <<loopv, conn_lost, eof_written, flush_queued, buffered, reads,
                    held, limits, shut, taken, lost, eof_mark, refilled>>

-----------------------------------------------------------------------------
(* Writing.                                                                *)

\* Mutant: a byte is skipped.
RequestSkips(data, size, k) == [size |-> size, left |-> SubSeq(data, k + 2, Len(data)), ok |-> TRUE]

\* uv_try_write and the first attempt of uv_write: the socket takes the first
\* k bytes of data.  A request is what is left, size is what onWritten deducts.
Request(data, size, k) == [size |-> size, left |-> SubSeq(data, k + 1, Len(data)), ok |-> TRUE]

\* queueWrite of the bytes data, then maybePauseProtocol.  uv_write tries the
\* socket at once when its queue is empty, and then writes k bytes.
QueueWrite(data, k, rest) ==
    LET req == Request(data, Len(data), k) IN
    /\ k > 0 => wqs = 0
    /\ wbs' = wbs + Len(data)
    /\ wqs' = wqs + Len(req.left)
    /\ IF req.left = <<>>
         THEN completed' = Append(completed, req) /\ UNCHANGED queue
         ELSE queue' = Append(queue, req) /\ UNCHANGED completed
    /\ LET pause == ~paused /\ wqs' > limits.high IN
       /\ paused' = (paused \/ pause)
       /\ stack' = (IF pause THEN <<Item("pause_writing")>> ELSE <<>>) \o rest

\* the same when the first attempt of uv_write meets an error: the request
\* completes with it
QueueWriteFails(data, rest) ==
    /\ wqs = 0
    /\ wbs' = wbs + Len(data)
    /\ wqs' = Len(data)
    /\ completed' = Append(completed, [size |-> Len(data), left |-> data, ok |-> FALSE])
    /\ LET pause == ~paused /\ wqs' > limits.high IN
       /\ paused' = (paused \/ pause)
       /\ stack' = (IF pause THEN <<Item("pause_writing")>> ELSE <<>>) \o rest
    /\ UNCHANGED queue

\* writeBufs once the write is accepted: uv_try_write takes t bytes, queueWrite
\* sees to the others.  rest is the stack to return to, raised the one after an
\* exception; flushing says whether flushPending is the caller, which turns an
\* exception into forceClose.
WriteBufs(data, rest, raised, flushing) ==
    \/ \E t \in 0..Len(data), k \in 0..Len(data) :
         /\ t > 0 => wbs = 0 /\ wqs = 0
         /\ t + k <= Len(data)
         /\ wire' = wire \o SubSeq(data, 1, t + k)
         /\ IF t = Len(data)
              THEN stack' = rest /\ UNCHANGED <<wbs, wqs, queue, completed, paused>>
              ELSE QueueWrite(SubSeq(data, t + 1, Len(data)), k, rest)
         /\ pending' = <<>>
         /\ UNCHANGED <<closing, failed, open, reading, handle, read_pending>>
    \/ /\ QueueWriteFails(data, rest)
       /\ pending' = <<>>
       /\ UNCHANGED <<wire, closing, failed, open, reading, handle, read_pending>>
    \/ \* uv_try_write fails with something other than EAGAIN
       /\ wbs = 0 /\ wqs = 0
       /\ ForceClose("peer", allocating)
       /\ stack' = rest
       /\ UNCHANGED <<uvv, paused>>
    \/ \* queueWrite has no memory for the request
       /\ \E t \in 0..Len(data) - 1 :
            /\ t > 0 => wbs = 0 /\ wqs = 0
            /\ wire' = wire \o SubSeq(data, 1, t)
       /\ IF flushing
            THEN ForceClose("memory", allocating)
            ELSE /\ failed' = IF failed = "no" THEN "memory" ELSE failed
                 /\ UNCHANGED <<closing, open, reading, handle, read_pending, wbs, pending>>
       /\ stack' = raised
       /\ UNCHANGED <<queue, completed, wqs, paused>>

\* write(data) and writelines(data).  A transport that does not accept writes
\* drops the data or raises, and nothing changes.
Write(v) ==
    /\ MayCall /\ AcceptsWrite
    /\ taken + Promised + v.n * v.size <= MaxBytes
    /\ IF pending = <<>> /\ v.n > PendingMax
         THEN /\ WriteBufs(FlattenSeq(Buffers(v, v.n)), <<Item("maybeResumeProtocol")>> \o stack, stack, FALSE)
              /\ taken' = taken + v.n * v.size
         ELSE /\ Call(<<[op |-> "appendPending", v |-> v, n |-> v.n], Item("submitWrite")>>)
              /\ UNCHANGED <<taken, pending, wbs, uvv, closing, failed, open, reading,
                             handle, read_pending, paused>>
    /\ UNCHANGED <<loopv, conn_lost, eof_written, flush_queued, buffered, allocating,
                   reads, held, limits, shut, lost, eof_mark, refilled>>

\* appendPending: as many buffers as fit, flushing whenever the batch is full.
\* The flags are tested after every flush; at the entry acceptsWrite has just
\* tested them.
AppendPending ==
    /\ Native("appendPending")
    /\ LET v    == Head(stack).v
           n    == Head(stack).n
           room == PendingMax - Len(pending)
           fill == IF n < room THEN n ELSE room
       IN \/ /\ ~AcceptsWrite
             /\ Then(<<>>)
             /\ UNCHANGED <<pending, taken, flush_queued>>
          \/ /\ AcceptsWrite /\ room = 0
             /\ Call(<<Item("flushPending")>>)
             /\ UNCHANGED <<pending, taken, flush_queued>>
          \/ /\ AcceptsWrite /\ room > 0
             /\ pending' = pending \o Buffers(v, fill)
             /\ taken' = taken + fill * v.size
             /\ flush_queued' = (flush_queued \/ fill = n)
             /\ Then(IF fill = n THEN <<>> ELSE <<[Head(stack) EXCEPT !.n = n - fill]>>)
    /\ UNCHANGED <<loopv, closing, conn_lost, eof_written, paused, open, readv, wbs,
                   limits, handle, uvv, shut, lost, ghosts>>

\* the end of submitWrite: outside run_forever the batch goes out at once
SubmitWrite ==
    /\ Native("submitWrite")
    /\ Then(IF running THEN <<>> ELSE <<Item("flushPending")>>)
    /\ UNCHANGED <<loopv, flags, readv, pending, wbs, limits, handle, uvv, shut, taken,
                   lost, ghosts>>

\* flushPending.  Its caller goes on with the rest of the stack; the batch is
\* emptied before anything can call back.
FlushPending ==
    /\ Native("flushPending")
    /\ LET resume == <<Item("maybeResumeProtocol")>> \o Tail(stack) IN
       \/ /\ pending = <<>>
          /\ Then(<<>>)
          /\ UNCHANGED <<pending, wbs, uvv, paused, closing, failed, open, reading,
                         handle, read_pending>>
       \/ /\ pending # <<>> /\ AcceptsWrite
          /\ WriteBufs(FlattenSeq(pending), resume, Tail(stack), TRUE)
       \/ /\ pending # <<>> /\ eof_written       \* acceptsWrite raises
          /\ ForceClose("self", allocating)
          /\ Then(<<>>)
          /\ UNCHANGED <<uvv, paused>>
       \/ /\ pending # <<>> /\ ~eof_written /\ ~AcceptsWrite
          /\ pending' = <<>>
          /\ stack' = resume
          /\ UNCHANGED <<wbs, uvv, paused, closing, failed, open, reading, handle,
                         read_pending>>
    /\ UNCHANGED allocating /\ Kept

\* Mutant: the queue has to fall below the low mark.
MaybeResumeProtocolBelow ==
    /\ Native("maybeResumeProtocol")
    /\ LET resume == ~closing /\ ~conn_lost /\ paused /\ Buffered < limits.low IN
       /\ paused' = (paused /\ ~resume)
       /\ Then(IF resume THEN <<Item("resume_writing")>> ELSE <<>>)
    /\ UNCHANGED <<loopv, closing, conn_lost, eof_written, open, flush_queued, readv,
                   pending, wbs, limits, handle, uvv, shut, taken, lost, ghosts>>

\* maybeResumeProtocol
MaybeResumeProtocol ==
    /\ Native("maybeResumeProtocol")
    /\ LET resume == ~closing /\ ~conn_lost /\ paused /\ Buffered <= limits.low IN
       /\ paused' = (paused /\ ~resume)
       /\ Then(IF resume THEN <<Item("resume_writing")>> ELSE <<>>)
    /\ UNCHANGED <<loopv, closing, conn_lost, eof_written, open, flush_queued, readv,
                   pending, wbs, limits, handle, uvv, shut, taken, lost, ghosts>>

\* shutdownWrite.  uv_shutdown refuses a closing handle; without memory for
\* the request the connection is closed outright.
ShutdownWrite ==
    \/ /\ shut' = (shut \/ handle = "open")
       /\ UNCHANGED <<pending, closing, wbs, failed, open, reading, handle, read_pending>>
    \/ ForceClose("memory", allocating) /\ UNCHANGED shut

\* write_eof(), up to the flush
CallWriteEof ==
    /\ MayCall /\ AcceptsWrite
    /\ Call(<<Item("flushPending"), Item("writeEof")>>)
    /\ eof_mark' = taken
    /\ UNCHANGED <<loopv, flags, readv, pending, wbs, limits, handle, uvv, shut, taken,
                   lost, failed, refilled>>

\* the rest of writeEof
WriteEof ==
    /\ Native("writeEof")
    /\ Then(<<>>)
    /\ eof_written' = TRUE
    /\ refilled' = (refilled \/ pending # <<>>)
    /\ IF Drained
         THEN ShutdownWrite
         ELSE UNCHANGED <<shut, pending, closing, wbs, failed, open, reading, handle,
                          read_pending>>
    /\ UNCHANGED <<loopv, conn_lost, paused, flush_queued, buffered, allocating, reads,
                   held, limits, uvv, taken, lost, eof_mark>>

\* set_write_buffer_limits(), ending in maybePauseProtocol
SetWriteBufferLimits(l) ==
    /\ MayCall
    /\ limits # l
    /\ limits' = l
    /\ LET pause == ~paused /\ Buffered > l.high IN
       /\ paused' = (paused \/ pause)
       /\ IF pause THEN Call(<<Item("pause_writing")>>) ELSE UNCHANGED stack
    /\ UNCHANGED <<loopv, closing, conn_lost, eof_written, open, flush_queued, readv,
                   pending, wbs, handle, uvv, shut, taken, lost, ghosts>>

-----------------------------------------------------------------------------
(* Closing.                                                                *)

\* close(), up to the flush
Close ==
    /\ MayCall /\ ~closing
    /\ Call(<<Item("flushPending"), Item("closeTransport")>>)
    /\ UNCHANGED <<loopv, flags, readv, pending, wbs, limits, handle, uvv, shut, taken,
                   lost, ghosts>>

\* the rest of closeTransport
CloseTransport ==
    /\ Native("closeTransport")
    /\ Then(<<>>)
    /\ closing' = TRUE
    /\ refilled' = (refilled \/ pending # <<>>)
    /\ \/ /\ allocating
          /\ read_pending' = TRUE
          /\ UNCHANGED <<open, reading, handle>>
       \/ /\ ~allocating /\ Drained
          /\ ShutdownAndClose
          /\ UNCHANGED read_pending
       \/ /\ ~allocating /\ ~Drained
          /\ reading' = FALSE
          /\ UNCHANGED <<open, handle, read_pending>>
    /\ UNCHANGED <<loopv, conn_lost, eof_written, paused, flush_queued, buffered,
                   allocating, reads, held, pending, wbs, limits, uvv, shut,
                   taken, lost, failed, eof_mark>>

\* abort() and _force_close(exc)
Abort ==
    /\ MayCall
    /\ ForceClose("app", allocating)
    /\ UNCHANGED <<stack, allocating, uvv, paused>> /\ Kept

-----------------------------------------------------------------------------
(* Reading.                                                                *)

readKept == <<loopv, conn_lost, eof_written, paused, flush_queued, limits, uvv, shut,
              taken, lost, eof_mark, refilled>>

\* Mutant: a pause from get_buffer() is forgotten.
PauseReadingDropped ==
    /\ MayCall
    /\ held' = (boot = "done")
    /\ reading' = (reading /\ allocating)
    /\ UNCHANGED read_pending
    /\ UNCHANGED <<stack, loopv, flags, buffered, allocating, reads, pending, wbs,
                   limits, handle, uvv, shut, taken, lost, ghosts>>

PauseReading ==
    /\ MayCall
    /\ held' = (boot = "done")
    /\ reading' = (reading /\ allocating)
    /\ read_pending' = (read_pending \/ (reading /\ allocating))
    /\ UNCHANGED <<stack, loopv, flags, buffered, allocating, reads, pending, wbs,
                   limits, handle, uvv, shut, taken, lost, ghosts>>

\* resume_reading(), ending in startReading
ResumeReading ==
    /\ MayCall
    /\ held' = FALSE
    /\ reading' = (reading \/ (~closing /\ ~conn_lost))
    /\ UNCHANGED <<stack, loopv, flags, buffered, allocating, read_pending, reads,
                   pending, wbs, limits, handle, uvv, shut, taken, lost, ghosts>>

\* set_protocol(), ending in bindProtocol
SetProtocol(b) ==
    /\ MayCall /\ b # buffered
    /\ buffered' = b
    /\ UNCHANGED <<stack, loopv, flags, reading, allocating, read_pending, reads,
                   held, pending, wbs, limits, handle, uvv, shut, taken, lost,
                   ghosts>>

\* onRead with the outcome r of read(2), returning to rest.  The caller has
\* dealt with allocating and read_pending.
OnRead(r, rest) ==
    \/ /\ r = "none"
       /\ stack' = rest
       /\ UNCHANGED <<pending, closing, wbs, failed, open, reading, handle, reads, held>>
    \/ /\ kind = "pipe_write" /\ r # "none" /\ Buffered # 0
       /\ ForceClose("peer", FALSE)
       /\ stack' = rest
       /\ UNCHANGED <<reads, held>>
    \/ /\ kind = "pipe_write" /\ r # "none" /\ Buffered = 0
       /\ stack' = <<Item("flushPending"), Item("closeTransport")>> \o rest
       /\ UNCHANGED <<pending, closing, wbs, failed, open, reading, handle, reads, held>>
    \/ /\ kind = "stream" /\ r = "data"
       /\ reads < MaxReads
       /\ reads' = reads + 1
       /\ stack' = <<Item("data_received")>> \o rest
       /\ UNCHANGED <<pending, closing, wbs, failed, open, reading, handle, held>>
    \/ /\ kind = "stream" /\ r = "eof"
       /\ reading' = FALSE
       /\ stack' = <<Item("eof_received")>> \o rest
       /\ UNCHANGED <<pending, closing, wbs, failed, open, handle, reads, held>>
    \/ /\ kind = "stream" /\ r = "error"
       /\ ForceClose("peer", FALSE)
       /\ stack' = rest
       /\ UNCHANGED <<reads, held>>

Outcomes == {"none", "data", "eof", "error"}

\* libuv finds the descriptor readable: onAlloc, then onRead.  A buffered
\* protocol is asked for its buffer in between.
UvRead ==
    /\ running /\ Idle /\ reading /\ handle = "open"
    /\ \/ /\ buffered
          /\ allocating' = TRUE
          /\ stack' = <<Item("get_buffer")>>
          /\ UNCHANGED <<pending, closing, wbs, failed, open, reading, handle, reads,
                         held, read_pending>>
       \/ /\ ~buffered
          /\ \E r \in Outcomes : OnRead(r, <<>>)
          /\ UNCHANGED <<allocating, read_pending>>
    /\ UNCHANGED <<buffered, readKept>>

\* get_buffer() returns: the rest of onAlloc, then onRead.  Without a buffer,
\* or when the protocol paused or closed meanwhile, libuv reads nothing.
GetBufferReturns ==
    /\ Native("get_buffer")
    /\ allocating' = FALSE
    /\ read_pending' = FALSE
    /\ \/ /\ read_pending
          /\ Then(<<>>)
          /\ IF closing /\ Drained
               THEN ShutdownAndClose
               ELSE reading' = FALSE /\ UNCHANGED <<open, handle>>
          /\ UNCHANGED <<pending, closing, wbs, failed, reads, held>>
       \/ /\ ~read_pending
          /\ \E r \in Outcomes : OnRead(r, Tail(stack))
    /\ UNCHANGED <<buffered, readKept>>

\* data_received() or buffer_updated() raises: callInContext closes by force
DataReceivedRaises ==
    /\ Native("data_received")
    /\ Then(<<>>)
    /\ ForceClose("app", allocating)
    /\ UNCHANGED <<allocating, uvv, paused>> /\ Kept

\* eof_received() returns false or raises
EofReceivedCloses ==
    /\ Native("eof_received")
    /\ Then(IF closing THEN <<>> ELSE <<Item("flushPending"), Item("closeTransport")>>)
    /\ UNCHANGED <<loopv, flags, readv, pending, wbs, limits, handle, uvv, shut, taken,
                   lost, ghosts>>

\* any other return from Python, eof_received() returning true included
Return ==
    /\ InPython /\ Head(stack).op # "get_buffer"
    /\ Then(<<>>)
    /\ UNCHANGED <<loopv, flags, readv, pending, wbs, limits, handle, uvv, shut, taken,
                   lost, ghosts>>

-----------------------------------------------------------------------------
(* libuv's side of writing and closing.                                    *)

Callbacks(q) == [i \in DOMAIN q |-> [op |-> "onWritten", req |-> q[i]]]

\* libuv finds the descriptor writable, or was fed a completed request: the
\* socket takes k bytes of the queue and the callbacks of every finished
\* request follow.  A socket that failed a write takes nothing more.
UvWrite ==
    /\ running /\ Idle /\ handle = "open"
    /\ \E k \in 0..Len(Lefts(queue)) :
         /\ k > 0 \/ completed # <<>>
         /\ k > 0 => \A i \in DOMAIN completed : completed[i].ok
         /\ LET now  == SubSeq(Lefts(queue), 1, k)
                sent == [i \in DOMAIN queue |->
                           [queue[i] EXCEPT !.left = SelectSeq(@, LAMBDA b : b \notin Bytes(now))]]
            IN /\ wire' = wire \o now
               /\ wqs' = wqs - k
               /\ queue' = SelectSeq(sent, LAMBDA r : r.left # <<>>)
               /\ stack' = Callbacks(completed \o SelectSeq(sent, LAMBDA r : r.left = <<>>))
    /\ completed' = <<>>
    /\ UNCHANGED <<loopv, flags, readv, pending, wbs, limits, handle, shut, taken, lost,
                   ghosts>>

\* the same when the socket reports an error for the first request
UvWriteError ==
    /\ running /\ Idle /\ handle = "open" /\ queue # <<>>
    /\ stack' = Callbacks(completed \o <<[Head(queue) EXCEPT !.ok = FALSE]>>)
    /\ completed' = <<>>
    /\ queue' = Tail(queue)
    /\ UNCHANGED <<loopv, flags, readv, pending, wbs, limits, handle, wqs, wire, shut,
                   taken, lost, ghosts>>

\* onWritten, up to maybeResumeProtocol.  libuv has already taken a failed
\* request off its write_queue_size.
OnWritten ==
    /\ Native("onWritten")
    /\ LET req == Head(stack).req IN
       /\ wqs' = wqs - Len(req.left)
       /\ \/ /\ ~req.ok /\ open
             /\ ForceClose("peer", allocating)
             /\ Then(<<>>)
          \/ /\ ~(~req.ok /\ open)
             /\ wbs' = wbs - (IF req.size < wbs THEN req.size ELSE wbs)
             /\ Then(IF req.ok THEN <<Item("maybeResumeProtocol"), Item("onWritten2")>>
                                ELSE <<>>)
             /\ UNCHANGED <<pending, closing, failed, open, reading, handle, read_pending>>
    /\ UNCHANGED <<queue, completed, wire, paused, allocating>> /\ Kept

\* the rest of onWritten
OnWritten2 ==
    /\ Native("onWritten2")
    /\ Then(<<>>)
    /\ \/ /\ Drained /\ closing
          /\ ShutdownAndClose
          /\ UNCHANGED <<shut, pending, closing, wbs, failed, read_pending>>
       \/ /\ Drained /\ ~closing /\ eof_written
          /\ ShutdownWrite
       \/ /\ ~Drained \/ (~closing /\ ~eof_written)
          /\ UNCHANGED <<shut, pending, closing, wbs, failed, open, reading, handle,
                         read_pending>>
    /\ UNCHANGED <<loopv, conn_lost, eof_written, paused, flush_queued, buffered,
                   allocating, reads, held, limits, uvv, taken, lost, eof_mark,
                   refilled>>

\* uv__finish_close: every request completes, then the close callback runs
FinishClose ==
    /\ handle' = "closed"
    /\ stack' = Callbacks(completed \o [i \in DOMAIN queue |-> [queue[i] EXCEPT !.ok = FALSE]])
                  \o <<Item("onClosed")>>
    /\ queue' = <<>> /\ completed' = <<>>
    /\ UNCHANGED <<wqs, wire>>

UvFinishClose ==
    /\ running /\ Idle /\ handle = "closing"
    /\ FinishClose
    /\ UNCHANGED <<loopv, flags, readv, pending, wbs, limits, shut, taken, lost, ghosts>>

\* Mutant: a paused protocol is not told.
OnClosedUnlessPaused ==
    /\ Native("onClosed")
    /\ Then(<<>>)
    /\ conn_lost' = TRUE
    /\ lost' = IF loop_closed \/ paused THEN lost ELSE "queued"
    /\ UNCHANGED <<loopv, closing, eof_written, paused, open, flush_queued, readv,
                   pending, wbs, limits, handle, uvv, shut, taken, ghosts>>

\* onClosed, with the scheduleCall of connection_lost
OnClosed ==
    /\ Native("onClosed")
    /\ Then(<<>>)
    /\ conn_lost' = TRUE
    /\ lost' = IF loop_closed THEN lost ELSE "queued"
    /\ UNCHANGED <<loopv, closing, eof_written, paused, open, flush_queued, readv,
                   pending, wbs, limits, handle, uvv, shut, taken, ghosts>>

-----------------------------------------------------------------------------
(* The loop around the transport.                                          *)

\* some callback that holds the transport runs, in the loop or outside it
RunCallback ==
    /\ Idle
    /\ Call(<<Item("callback")>>)
    /\ UNCHANGED <<loopv, flags, readv, pending, wbs, limits, handle, uvv, shut, taken,
                   lost, ghosts>>

\* the first handle makeTransport pushed
ConnectionMade ==
    /\ running /\ Idle /\ boot = "made"
    /\ boot' = "start"
    /\ Call(<<Item("connection_made")>>)
    /\ UNCHANGED <<kind, running, loop_closed, flags, readv, pending, wbs, limits, handle,
                   uvv, shut, taken, lost, ghosts>>

\* the second one, _start_reading: startReadingMethod
StartReading ==
    /\ stack = <<>> /\ boot = "start"
    /\ boot' = "done"
    /\ \/ /\ reading' = (reading \/ (~closing /\ ~conn_lost))
          /\ UNCHANGED <<pending, closing, wbs, failed, open, handle, read_pending>>
       \/ /\ ~reading /\ ~closing /\ ~conn_lost       \* uv_read_start fails
          /\ ForceClose("peer", allocating)
    /\ UNCHANGED <<stack, kind, running, loop_closed, conn_lost, eof_written, paused,
                   flush_queued, buffered, allocating, reads, held, limits, uvv,
                   shut, taken, lost, eof_mark, refilled>>

\* scheduleCall's handle runs, behind those of makeTransport on the ready queue
ConnectionLost ==
    /\ running /\ Idle /\ boot = "done" /\ lost = "queued"
    /\ lost' = "called"
    /\ Call(<<Item("connection_lost")>>)
    /\ UNCHANGED <<loopv, flags, readv, pending, wbs, limits, handle, uvv, shut, taken,
                   ghosts>>

\* drainFlushList, for this transport
Drain ==
    /\ flush_queued' = FALSE
    /\ stack' = IF flush_queued THEN <<Item("flushPending")>> ELSE <<>>

\* onFlush, once per turn
OnFlush ==
    /\ running /\ Idle /\ flush_queued
    /\ Drain
    /\ UNCHANGED <<loopv, closing, conn_lost, eof_written, paused, open, readv, pending,
                   wbs, limits, handle, uvv, shut, taken, lost, ghosts>>

\* runLoop, up to uv_run and from there on
RunForever ==
    /\ ~running /\ ~loop_closed /\ stack = <<>>
    /\ running' = TRUE
    /\ UNCHANGED <<stack, kind, boot, loop_closed, flags, readv, pending, wbs, limits, handle,
                   uvv, shut, taken, lost, ghosts>>

Stopped ==
    /\ running /\ Idle
    /\ running' = FALSE
    /\ Drain
    /\ UNCHANGED <<kind, boot, loop_closed, closing, conn_lost, eof_written, paused, open,
                   readv, pending, wbs, limits, handle, uvv, shut, taken, lost, ghosts>>

\* closeLoop: dropFlushList, then closeFromLoop through walkClose unless the
\* handle is closing already, and the callbacks of uv_run.  What was on the
\* ready queue is gone.
CloseLoop ==
    /\ ~running /\ ~loop_closed /\ stack = <<>>
    /\ loop_closed' = TRUE
    /\ pending' = IF flush_queued THEN <<>> ELSE pending
    /\ flush_queued' = FALSE
    /\ lost' = IF lost = "queued" THEN "no" ELSE lost
    /\ failed' = IF failed = "no" THEN "app" ELSE failed
    /\ \/ /\ handle = "open"
          /\ closing' = TRUE /\ open' = FALSE /\ reading' = FALSE
          /\ FinishClose
       \/ /\ handle = "closing"
          /\ FinishClose
          /\ UNCHANGED <<closing, open, reading>>
       \/ /\ handle = "closed"
          /\ UNCHANGED <<stack, closing, open, reading, handle, uvv>>
    /\ UNCHANGED <<kind, boot, running, conn_lost, eof_written, paused, buffered, allocating,
                   read_pending, reads, held, wbs, limits, shut, taken, eof_mark,
                   refilled>>

Methods ==
    \/ \E v \in Vectors : Write(v)
    \/ \E l \in Limits : SetWriteBufferLimits(l)
    \/ \E b \in Protocols : SetProtocol(b)
    \/ CallWriteEof \/ Close \/ Abort \/ PauseReading \/ ResumeReading

NativeStep ==
    \/ AppendPending \/ SubmitWrite \/ FlushPending \/ MaybeResumeProtocol
    \/ WriteEof \/ CloseTransport \/ OnWritten \/ OnWritten2 \/ OnClosed

Returns == GetBufferReturns \/ DataReceivedRaises \/ EofReceivedCloses \/ Return

LoopStep ==
    \/ ConnectionMade \/ StartReading \/ ConnectionLost \/ OnFlush
    \/ UvRead \/ UvWrite \/ UvWriteError \/ UvFinishClose

Next == Methods \/ NativeStep \/ Returns \/ LoopStep
        \/ RunCallback \/ RunForever \/ Stopped \/ CloseLoop

Spec == Init /\ [][Next]_vars

-----------------------------------------------------------------------------
(* Properties.                                                             *)

\* bytes the transport or libuv still holds
Held == Bytes(Lefts(queue)) \cup Bytes(Lefts(completed)) \cup Bytes(FlattenSeq(pending))
          \cup UNION {Bytes(stack[i].req.left) :
                        i \in {j \in DOMAIN stack : stack[j].op = "onWritten"}}

\* The socket gets the bytes in the order the transport took them, none twice
\* and none left out, across batching, partial writes, vectors that bypass the
\* batch, and hooks that write in the middle of a flush; and without an abort or
\* a failure those it has not got are still held, by close() and write_eof() too.
\* (A writelines() that runs out of memory after a partial uv_try_write leaves a
\* hole.)
StreamExact ==
    /\ failed # "memory" => wire = [i \in 1..Len(wire) |-> i]
    /\ failed = "no" /\ ~refilled => 1..taken \subseteq Bytes(wire) \cup Held

\* A paused protocol has a request whose completion, or a flush, is still to
\* call maybeResumeProtocol; otherwise it would stay paused for ever.
PauseWillEnd == Idle /\ paused /\ ~closing => wbs > 0 \/ flush_queued

\* uv_shutdown is called with an empty queue, after every byte written before
\* write_eof() has reached the socket.
HalfCloseIsLast == shut /\ failed = "no" => queue = <<>> /\ 1..eof_mark \subseteq Bytes(wire)

\* transport.zig:1041-1042: "A half-close must follow all writes that were
\* accepted before this call."  Without an abort or a failure, they are kept.
EofKeepsData ==
    failed \in {"no", "self"} => 1..eof_mark \subseteq Bytes(wire) \cup Held

\* the step calls the protocol's method op
Enters(op) == stack' # stack /\ Len(stack') >= Len(stack) /\ Head(stack').op = op

\* No data is delivered between pause_reading() and resume_reading(), also when
\* the pause comes from inside get_buffer() with a read under way.
PauseHonoured == [][ Enters("data_received") => ~held ]_vars

\* Python frames return, a uv_run that has something to do gets on with it, the
\* peer keeps reading, and the application comes back to run the loop.
LoopProgress == ConnectionMade \/ OnFlush \/ UvWrite \/ UvFinishClose \/ ConnectionLost

Fairness ==
    /\ WF_vars(NativeStep) /\ SF_vars(Returns) /\ WF_vars(StartReading)
    /\ SF_vars(LoopProgress) /\ SF_vars(RunForever)

FairSpec == Spec /\ Fairness

\* A transport that starts to close ends with connection_lost(), whatever was
\* queued, unless the loop itself is closed first.
CloseEnds == closing ~> (lost = "called" \/ loop_closed)

=============================================================================
