-------------------------------- MODULE Loop --------------------------------
(***************************************************************************)
(* The scheduler of zig/loop.zig: the ready queue, the inbox that          *)
(* call_soon_threadsafe fills from any thread, the libuv handles that turn *)
(* them into work (idle, async waker, timer, prepare flusher), and the     *)
(* phases of uv_run in which the loop thread meets them.                   *)
(*                                                                         *)
(* The loop thread is the program counter `phase`.  Its steps follow       *)
(* uv_run(DEFAULT): the stop test ("top"), the idle handle ("idle",        *)
(* "batch", "callback"), the prepare handle ("prepare", "flushcb"), the    *)
(* poll ("poll", "waking", "pollcb"), the close callbacks ("closing",      *)
(* "closecb") and the timers ("timers").  "leaving" is runLoop past        *)
(* uv_run, "out" is Python code outside run_forever().  Any other thread   *)
(* only ever calls call_soon_threadsafe, in every phase.                   *)
(*                                                                         *)
(* A callback is an identity: its handle is in at most one place at a time *)
(* and the identity is free again once it has run, so that chains which    *)
(* reschedule themselves for ever are behaviours of a finite model.        *)
(* Deadlines are left to the module Timers: here any subset of the         *)
(* scheduled timers may be due when the libuv timer fires.                 *)
(***************************************************************************)
EXTENDS Naturals, Sequences, FiniteSets

CONSTANTS
    Soon,             \* handles of call_soon and call_soon_threadsafe
    Native,           \* handles of timers, watchers and transports
    None,             \* no callback is running
    BatchLimit,       \* ready_drain_batch_limit
    IoBatchLimit,     \* ready_drain_io_batch_limit
    CallbackLimit,    \* ready_drain_callback_limit
    MaxHandles,       \* bound: external handles beside the self-pipe poller
    MaxDns,           \* bound: resolver requests in flight
    MaxOom            \* bound: failed allocations

Callbacks == Soon \cup Native

ASSUME NoneAssumption == None \notin Callbacks
ASSUME CallbacksAssumption == IsFiniteSet(Callbacks) /\ Soon \cap Native = {}
ASSUME LimitAssumption == /\ BatchLimit \in Nat \ {0}
                          /\ IoBatchLimit \in Nat \ {0}
                          /\ CallbackLimit \in Nat \ {0}
ASSUME BoundAssumption == MaxHandles \in Nat /\ MaxDns \in Nat /\ MaxOom \in Nat

VARIABLES
    phase,            \* where the loop thread is
    current,          \* the callback it is running, in phase "callback"
    ready,            \* State.ready
    inbox,            \* State.threadsafe_ready
    timers,           \* handles in State.timers
    idle_active,      \* the idle handle is started
    timer_active,     \* the libuv timer is started
    waker_pending,    \* State.waker_pending
    async_pending,    \* libuv's own pending bit of the waker
    stopping,         \* State.stopping
    stop_flag,        \* libuv's stop flag, set by uv_stop
    fatal,            \* State.fatal is set
    closed,           \* State.closed
    batches,          \* onIdle: batches run in this turn
    callbacks,        \* onIdle: callbacks run in this turn
    batch,            \* onIdle: length of the batch being run
    remaining,        \* runReady: callbacks of the batch still to pop
    batchq,           \* ghost: the callbacks queued when the batch began
    external_handles, \* State.external_handles
    closing_handles,  \* State.closing_handles
    dns,              \* number of requests on State.dns_requests
    flush,            \* State.flush_head is not null
    flusher_active,   \* the prepare handle is started
    blocking,         \* this poll was entered with a nonzero timeout
    woken,            \* this poll has delivered an event
    oom,              \* failed allocations so far
    stranded          \* ghost: onWake ran out of memory over a filled inbox

queues == <<ready, inbox, timers>>
uv     == <<idle_active, timer_active, waker_pending, async_pending>>
stops  == <<stopping, stop_flag, fatal, closed>>
drain  == <<batches, callbacks, batch, remaining, batchq>>
native == <<external_handles, closing_handles, dns, flush, flusher_active>>
sleep  == <<blocking, woken>>
memory == <<oom, stranded>>
vars   == <<phase, current, queues, uv, stops, drain, native, sleep, memory>>

Phases == {"out", "top", "pendingcb", "idle", "batch", "callback", "prepare", "flushcb",
           "poll", "waking", "pollcb", "closing", "closecb", "timers",
           "leaving"}

Elems(s) == {s[i] : i \in 1..Len(s)}
Free(c)  == c \notin Elems(ready) \cup Elems(inbox) \cup timers \cup {current}

\* The self-pipe poller installed by _setup_self_pipe is the one external
\* handle every loop owns from the start.
Init ==
    /\ phase = "out" /\ current = None
    /\ ready = <<>> /\ inbox = <<>> /\ timers = {}
    /\ idle_active = FALSE /\ timer_active = FALSE
    /\ waker_pending = FALSE /\ async_pending = FALSE
    /\ stopping = FALSE /\ stop_flag = FALSE /\ fatal = FALSE /\ closed = FALSE
    /\ batches = 0 /\ callbacks = 0 /\ batch = 0 /\ remaining = 0
    /\ batchq = <<>>
    /\ external_handles = 1 /\ closing_handles = 0 /\ dns = 0
    /\ flush = FALSE /\ flusher_active = FALSE
    /\ blocking = FALSE /\ woken = FALSE
    /\ oom = 0 /\ stranded = FALSE

-----------------------------------------------------------------------------
(* Pieces shared by the handlers.                                          *)

\* startIdle, given the ready queue it finds
StartIdle(q) == idle_active' = (idle_active \/ q # <<>>)

\* drainThreadsafe followed by the push of s: the inbox moves behind ready
DrainThreadsafe(s) ==
    /\ ready' = ready \o inbox \o s
    /\ inbox' = <<>>
    /\ stranded' = FALSE

\* Mutant: the push forgets startIdle.
PushReadyNoIdle(s) == ready' = ready \o s /\ UNCHANGED idle_active

\* a native push: handlers other than call_soon leave the inbox alone
PushReady(s) ==
    /\ ready' = ready \o s
    /\ StartIdle(ready')

\* armTimer: the libuv timer runs exactly when the heap is not empty
ArmTimer(T) == timer_active' = (T # {})

\* captureFatal: the first exception is kept, the loop is asked to stop
CaptureFatal == fatal' = TRUE /\ stopping' = TRUE /\ stop_flag' = TRUE

\* the loop thread is executing Python code that may call the loop's methods
InPython == phase \in {"out", "pendingcb", "callback", "flushcb", "pollcb", "leaving"}

\* some transport is open
Transports == closing_handles + 1 < external_handles

-----------------------------------------------------------------------------
(* The loop's methods.                                                     *)

\* Mutant: call_soon appends without draining the inbox first.
CallSoonUndrained(c) ==
    /\ InPython \/ phase = "closecb"
    /\ ~closed /\ Free(c)
    /\ PushReady(<<c>>)
    /\ UNCHANGED <<phase, current, inbox, timers, timer_active, waker_pending,
                   async_pending, stops, drain, native, sleep, memory>>

\* call_soon; a close callback reaches it through Server._detach, whose
\* waiters' futures schedule their callbacks
CallSoon(c) ==
    /\ InPython \/ phase = "closecb"
    /\ ~closed /\ Free(c)
    /\ DrainThreadsafe(<<c>>)
    /\ StartIdle(ready')
    /\ UNCHANGED <<phase, current, timers, timer_active, waker_pending,
                   async_pending, stops, drain, native, sleep, oom>>

\* call_soon raises MemoryError from its push, having drained the inbox
CallSoonNoMemory ==
    /\ InPython \/ phase = "closecb"
    /\ ~closed /\ inbox # <<>>
    /\ oom < MaxOom /\ oom' = oom + 1
    /\ ready' = ready \o inbox /\ inbox' = <<>>
    /\ UNCHANGED <<phase, current, timers, uv, stops, drain, native, sleep,
                   stranded>>

\* call_soon_threadsafe, from any thread
CallSoonThreadsafe(c) ==
    /\ ~closed /\ Free(c)
    /\ inbox' = Append(inbox, c)
    /\ waker_pending' = TRUE
    /\ async_pending' = (async_pending \/ ~waker_pending)
    /\ UNCHANGED <<phase, current, ready, timers, idle_active, timer_active,
                   stops, drain, native, sleep, memory>>

\* call_later and call_at with a deadline to wait for, or one that is due
\* but does not precede the heap's first entry
CallLater(c) ==
    /\ InPython /\ ~closed /\ Free(c)
    /\ timers' = timers \cup {c}
    /\ ArmTimer(timers')
    /\ UNCHANGED <<phase, current, ready, inbox, idle_active, waker_pending,
                   async_pending, stops, drain, native, sleep, memory>>

\* call_later and call_at, already due and ahead of the whole heap
CallLaterDue(c) ==
    /\ InPython /\ ~closed /\ Free(c)
    /\ PushReady(<<c>>)
    /\ UNCHANGED <<phase, current, inbox, timers, timer_active, waker_pending,
                   async_pending, stops, drain, native, sleep, memory>>

Stop ==
    /\ InPython
    /\ stopping' = TRUE
    /\ stop_flag' = (stop_flag \/ ~closed)
    /\ UNCHANGED <<phase, current, queues, uv, fatal, closed, drain, native,
                   sleep, memory>>

\* add_reader, _make_transport, _make_datagram_transport, _spawn_process;
\* q is what the constructor schedules (connection_made, for one)
OpenHandle(q) ==
    /\ InPython /\ ~closed
    /\ external_handles <= MaxHandles
    /\ external_handles' = external_handles + 1
    /\ PushReady(q)
    /\ UNCHANGED <<phase, current, inbox, timers, timer_active, waker_pending,
                   async_pending, stops, drain, closing_handles, dns, flush,
                   flusher_active, sleep, memory>>

\* closeExternalHandle
CloseHandle ==
    /\ InPython /\ ~closed /\ Transports
    /\ closing_handles' = closing_handles + 1
    /\ UNCHANGED <<phase, current, queues, uv, stops, drain, external_handles,
                   dns, flush, flusher_active, sleep, memory>>

\* _getaddrinfo, _getnameinfo
Resolve ==
    /\ InPython /\ ~closed
    /\ dns < MaxDns
    /\ dns' = dns + 1
    /\ UNCHANGED <<phase, current, queues, uv, stops, drain, external_handles,
                   closing_handles, flush, flusher_active, sleep, memory>>

\* scheduleFlush, reached from write(); a write outside the loop has been
\* sent when write() returns, and the transport is still on the list
Write ==
    /\ InPython /\ ~closed /\ Transports
    /\ flush' = TRUE /\ flusher_active' = TRUE
    /\ UNCHANGED <<phase, current, queues, uv, stops, drain, external_handles,
                   closing_handles, dns, sleep, memory>>

-----------------------------------------------------------------------------
(* runLoop and closeLoop.                                                  *)

\* runLoop up to uv_run, which runs the timers once before its loop unless
\* it was stopped beforehand
Run ==
    /\ phase = "out" /\ ~closed
    /\ stopping' = FALSE
    /\ StartIdle(ready)
    /\ ArmTimer(timers)
    /\ phase' = IF stop_flag THEN "top" ELSE "timers"
    /\ UNCHANGED <<current, queues, waker_pending, async_pending, stop_flag,
                   fatal, closed, drain, native, sleep, memory>>

\* uv_run returns; runLoop detaches the flush list and drains it, which runs
\* pause_writing and resume_writing
Leave ==
    /\ phase = "top" /\ stop_flag
    /\ phase' = "leaving"
    /\ stop_flag' = FALSE /\ stopping' = FALSE
    /\ flush' = FALSE
    /\ UNCHANGED <<current, queues, uv, fatal, closed, drain, external_handles,
                   closing_handles, dns, flusher_active, sleep, memory>>

\* runLoop raises what was captured
LeaveDone ==
    /\ phase = "leaving"
    /\ phase' = "out"
    /\ fatal' = FALSE
    /\ UNCHANGED <<current, queues, uv, stopping, stop_flag, closed, drain,
                   native, sleep, memory>>

\* closeLoop: every queue is released and every handle closed and drained
Close ==
    /\ phase = "out" /\ ~closed
    /\ closed' = TRUE
    /\ ready' = <<>> /\ inbox' = <<>> /\ timers' = {}
    /\ idle_active' = FALSE /\ timer_active' = FALSE /\ async_pending' = FALSE
    /\ fatal' = FALSE
    /\ external_handles' = 0 /\ closing_handles' = 0 /\ dns' = 0
    /\ flush' = FALSE /\ flusher_active' = FALSE
    /\ stranded' = FALSE
    /\ UNCHANGED <<phase, current, waker_pending, stopping, stop_flag, drain,
                   sleep, oom>>

-----------------------------------------------------------------------------
(* The idle handle: onIdle and runReady.                                   *)

\* uv_run with nothing pending
StartTurn ==
    /\ phase = "top" /\ ~stop_flag
    /\ phase' = IF idle_active THEN "idle" ELSE "prepare"
    /\ batches' = 0 /\ callbacks' = 0
    /\ UNCHANGED <<current, queues, uv, stops, batch, remaining, batchq, native,
                   sleep, memory>>

\* uv__run_pending: writes that the last turn, or a caller outside the loop,
\* completed at once have their callbacks run first, and with them resume_writing
StartPending ==
    /\ phase = "top" /\ ~stop_flag /\ Transports
    /\ phase' = "pendingcb"
    /\ UNCHANGED <<current, queues, uv, stops, drain, native, sleep, memory>>

PendingReturn ==
    /\ phase = "pendingcb"
    /\ phase' = IF idle_active THEN "idle" ELSE "prepare"
    /\ batches' = 0 /\ callbacks' = 0
    /\ UNCHANGED <<current, queues, uv, stops, batch, remaining, batchq, native,
                   sleep, memory>>

HasIo == external_handles > 1

\* the drain has had its share of this turn
DrainExhausted ==
    /\ batches # 0
    /\ \/ batches >= (IF HasIo THEN IoBatchLimit ELSE BatchLimit)
       \/ callbacks >= CallbackLimit
       \/ Len(ready) > CallbackLimit - callbacks
       \/ HasIo /\ Len(ready) # 1

\* past onIdle's loop: the handle stops once there is nothing left to run
StopIdle ==
    /\ idle_active' = (idle_active /\ ready # <<>>)
    /\ phase' = "prepare"

\* runReady fixes the number of callbacks it will run on entry
BeginBatch ==
    /\ phase = "idle"
    /\ ready # <<>> /\ ~DrainExhausted
    /\ phase' = "batch"
    /\ batch' = Len(ready) /\ remaining' = Len(ready) /\ batchq' = ready
    /\ UNCHANGED <<current, queues, uv, stops, batches, callbacks, native,
                   sleep, memory>>

EndDrain ==
    /\ phase = "idle"
    /\ ready = <<>> \/ DrainExhausted
    /\ StopIdle
    /\ UNCHANGED <<current, queues, timer_active, waker_pending, async_pending,
                   stops, drain, native, sleep, memory>>

RunOne ==
    /\ phase = "batch" /\ remaining > 0 /\ ready # <<>>
    /\ current' = Head(ready) /\ ready' = Tail(ready)
    /\ remaining' = remaining - 1 /\ batchq' = Tail(batchq)
    /\ phase' = "callback"
    /\ UNCHANGED <<inbox, timers, uv, stops, batches, callbacks, batch, native,
                   sleep, memory>>

\* the callback returns, or raises what goes to the exception handler
Return ==
    /\ phase = "callback"
    /\ phase' = "batch" /\ current' = None
    /\ UNCHANGED <<queues, uv, stops, drain, native, sleep, memory>>

\* the callback raises SystemExit or KeyboardInterrupt
RaiseExit ==
    /\ phase = "callback"
    /\ phase' = "batch" /\ current' = None
    /\ CaptureFatal
    /\ UNCHANGED <<queues, uv, closed, drain, native, sleep, memory>>

\* what makes onIdle give the rest of the turn to libuv after a batch; with
\* I/O handles open, the elapsed-time test may also end the drain (EndBatch)
YieldAfterBatch ==
    \/ stopping \/ fatal \/ ready = <<>>
    \/ timer_active \/ dns # 0 \/ flush
    \/ closing_handles # 0
    \/ HasIo /\ batch # 1

EndBatch ==
    /\ phase = "batch" /\ (remaining = 0 \/ ready = <<>>)
    /\ batches' = batches + 1 /\ callbacks' = callbacks + batch
    /\ \/ /\ YieldAfterBatch \/ HasIo
          /\ StopIdle
       \/ /\ ~YieldAfterBatch
          /\ phase' = "idle" /\ UNCHANGED idle_active
    /\ UNCHANGED <<current, queues, timer_active, waker_pending, async_pending,
                   stops, batch, remaining, batchq, native, sleep, memory>>

-----------------------------------------------------------------------------
(* The prepare handle and the poll.                                        *)

\* uv_backend_timeout is zero with an active idle handle, a handle to close
\* or the stop flag
EnterPoll(closing) ==
    /\ phase' = "poll"
    /\ blocking' = (~stop_flag /\ ~idle_active /\ closing = 0)
    /\ woken' = FALSE

\* onFlush detaches the list; the writes run pause_writing, which is Python
Flush ==
    /\ phase = "prepare" /\ flusher_active
    /\ flush' = FALSE
    /\ phase' = "flushcb"
    /\ UNCHANGED <<current, queues, uv, stops, drain, external_handles,
                   closing_handles, dns, flusher_active, sleep, memory>>

\* Mutant: onFlush drains until the list stays empty.
FlushDoneRepeat ==
    /\ phase = "flushcb"
    /\ \/ flush /\ flush' = FALSE
          /\ UNCHANGED <<phase, flusher_active, sleep>>
       \/ ~flush /\ flusher_active' = FALSE /\ EnterPoll(closing_handles)
          /\ UNCHANGED flush
    /\ UNCHANGED <<current, queues, uv, stops, drain, external_handles,
                   closing_handles, dns, memory>>

FlushDone ==
    /\ phase = "flushcb"
    /\ flusher_active' = flush
    /\ EnterPoll(closing_handles)
    /\ UNCHANGED <<current, queues, uv, stops, drain, external_handles,
                   closing_handles, dns, flush, memory>>

SkipFlush ==
    /\ phase = "prepare" /\ ~flusher_active
    /\ EnterPoll(closing_handles)
    /\ UNCHANGED <<current, queues, uv, stops, drain, native, memory>>

\* libuv clears its pending bit, then calls onWake, which waits for the GIL
WakeDispatch ==
    /\ phase = "poll" /\ async_pending
    /\ async_pending' = FALSE
    /\ phase' = "waking" /\ woken' = TRUE
    /\ UNCHANGED <<current, queues, idle_active, timer_active, waker_pending,
                   stops, drain, native, blocking, memory>>

\* Mutant: onWake does not reset waker_pending.
OnWakeNoReset ==
    /\ phase = "waking"
    /\ DrainThreadsafe(<<>>)
    /\ StartIdle(ready')
    /\ phase' = "poll"
    /\ UNCHANGED <<current, timers, timer_active, waker_pending, async_pending,
                   stops, drain, native, sleep, oom>>

OnWake ==
    /\ phase = "waking"
    /\ waker_pending' = FALSE
    /\ DrainThreadsafe(<<>>)
    /\ StartIdle(ready')
    /\ phase' = "poll"
    /\ UNCHANGED <<current, timers, timer_active, async_pending, stops, drain,
                   native, sleep, oom>>

\* the ready queue cannot grow: MemoryError is captured, the inbox keeps its
\* handles and the wakeup that announced them is gone
OnWakeNoMemory ==
    /\ phase = "waking" /\ inbox # <<>>
    /\ oom < MaxOom /\ oom' = oom + 1
    /\ waker_pending' = FALSE
    /\ CaptureFatal
    /\ stranded' = TRUE
    /\ phase' = "poll"
    /\ UNCHANGED <<current, queues, idle_active, timer_active, async_pending,
                   closed, drain, native, sleep>>

\* a readiness event, a child's exit, a datagram error: pushed, not called
IoReady(c) ==
    /\ phase = "poll" /\ Free(c)
    /\ PushReady(<<c>>)
    /\ woken' = TRUE
    /\ UNCHANGED <<phase, current, inbox, timers, timer_active, waker_pending,
                   async_pending, stops, drain, native, blocking, memory>>

\* a stream or datagram callback runs the protocol right here
ProtocolCall ==
    /\ phase = "poll" /\ Transports
    /\ phase' = "pollcb" /\ woken' = TRUE
    /\ UNCHANGED <<current, queues, uv, stops, drain, native, blocking, memory>>

\* onAddrInfo, onNameInfo: the request leaves the list, its future is settled
Resolved ==
    /\ phase = "poll" /\ dns > 0
    /\ dns' = dns - 1
    /\ phase' = "pollcb" /\ woken' = TRUE
    /\ UNCHANGED <<current, queues, uv, stops, drain, external_handles,
                   closing_handles, flush, flusher_active, blocking, memory>>

ProtocolReturn ==
    /\ phase = "pollcb"
    /\ phase' = "poll"
    /\ UNCHANGED <<current, queues, uv, stops, drain, native, sleep, memory>>

\* SystemExit or KeyboardInterrupt out of a protocol callback
ProtocolExit ==
    /\ phase = "pollcb"
    /\ CaptureFatal
    /\ phase' = "poll"
    /\ UNCHANGED <<current, queues, uv, closed, drain, native, sleep, memory>>

\* the same out of pause_writing or resume_writing, while the list is being
\* flushed, in a pending callback or from a write outside the loop
FlushExit ==
    /\ phase \in {"out", "pendingcb", "flushcb", "leaving"}
    /\ ~closed /\ external_handles > 1
    /\ CaptureFatal
    /\ UNCHANGED <<phase, current, queues, uv, closed, drain, native, sleep,
                   memory>>

\* the poll ends: at once with a zero timeout, else after an event or when
\* the timer expires; a pending wakeup is always delivered first
PollReturn ==
    /\ phase = "poll" /\ ~async_pending
    /\ ~blocking \/ woken \/ timer_active
    /\ phase' = "closing"
    /\ UNCHANGED <<current, queues, uv, stops, drain, native, sleep, memory>>

-----------------------------------------------------------------------------
(* The close callbacks and the timers.                                     *)

\* externalHandleClosed and what follows it in the handle's onClosed; q is
\* connection_lost for a transport, nothing for a poller
HandleClosed(q) ==
    /\ phase = "closing" /\ closing_handles > 0
    /\ external_handles' = external_handles - 1
    /\ closing_handles' = closing_handles - 1
    /\ PushReady(q)
    /\ phase' = "closecb"
    /\ UNCHANGED <<current, inbox, timers, timer_active, waker_pending,
                   async_pending, stops, drain, dns, flush, flusher_active,
                   sleep, memory>>

CloseReturn ==
    /\ phase = "closecb"
    /\ phase' = "closing"
    /\ UNCHANGED <<current, queues, uv, stops, drain, native, sleep, memory>>

ClosingDone ==
    /\ phase = "closing" /\ closing_handles = 0
    /\ phase' = "timers"
    /\ UNCHANGED <<current, queues, uv, stops, drain, native, sleep, memory>>

\* the orders in which some of the timers T can be collected
Collections(T) ==
    {q \in UNION {[1..n -> T] : n \in 0..Cardinality(T)} :
        \A i, j \in DOMAIN q : q[i] = q[j] => i = j}

\* onTimer: collectDueTimers, then armTimer
OnTimer ==
    /\ phase = "timers" /\ timer_active
    /\ \E q \in Collections(timers) :
         /\ timers' = timers \ Elems(q)
         /\ PushReady(q)
    /\ ArmTimer(timers')
    /\ phase' = "top"
    /\ UNCHANGED <<current, inbox, waker_pending, async_pending, stops, drain,
                   native, sleep, memory>>

\* the push of the due timer c fails: c is dropped, the rest stay in the heap
\* and startIdle is skipped
OnTimerNoMemory ==
    /\ phase = "timers" /\ timer_active
    /\ oom < MaxOom /\ oom' = oom + 1
    /\ \E q \in Collections(timers) : \E c \in timers \ Elems(q) :
         /\ timers' = timers \ (Elems(q) \cup {c})
         /\ ready' = ready \o q
    /\ CaptureFatal
    /\ ArmTimer(timers')
    /\ phase' = "top"
    /\ UNCHANGED <<current, inbox, idle_active, waker_pending, async_pending,
                   closed, drain, native, sleep, stranded>>

TimersDone ==
    /\ phase = "timers"
    /\ phase' = "top"
    /\ UNCHANGED <<current, queues, uv, stops, drain, native, sleep, memory>>

-----------------------------------------------------------------------------
(* What a handler may push: nothing, or one fresh callback.                *)
Pushed == {<<>>} \cup {<<c>> : c \in {x \in Native : Free(x)}}

UserStep ==
    \/ \E c \in Soon : CallSoon(c)
    \/ \E c \in Native : CallLater(c) \/ CallLaterDue(c)
    \/ \E q \in Pushed : OpenHandle(q)
    \/ CloseHandle \/ Resolve \/ Write \/ Stop
    \/ RaiseExit \/ ProtocolExit \/ FlushExit

OtherThread == \E c \in Soon : CallSoonThreadsafe(c)

\* what arrives from outside while the loop polls
Environment ==
    \/ \E c \in Native : IoReady(c)
    \/ StartPending \/ ProtocolCall \/ Resolved
    \/ CallSoonNoMemory \/ OnWakeNoMemory \/ OnTimerNoMemory

\* what the loop thread does by itself once it runs
LoopStep ==
    \/ StartTurn \/ PendingReturn \/ Leave \/ LeaveDone
    \/ BeginBatch \/ RunOne \/ Return \/ EndBatch \/ EndDrain
    \/ Flush \/ FlushDone \/ SkipFlush
    \/ WakeDispatch \/ OnWake \/ ProtocolReturn \/ PollReturn
    \/ \E q \in Pushed : HandleClosed(q)
    \/ CloseReturn \/ ClosingDone \/ OnTimer \/ TimersDone

Next == UserStep \/ OtherThread \/ Environment \/ LoopStep \/ Run \/ Close

Spec == Init /\ [][Next]_vars

\* Once it runs, the loop thread keeps going, and a callback returns.  One
\* call of uv__io_poll delivers a bounded number of events and always looks
\* at the wakeup descriptor, so a stream of I/O neither keeps the poll from
\* ending nor hides the waker.
Fairness == WF_vars(LoopStep) /\ SF_vars(WakeDispatch) /\ SF_vars(PollReturn)

FairSpec == Spec /\ Fairness

-----------------------------------------------------------------------------
(* Properties.                                                             *)

TypeQueues ==
    /\ phase \in Phases
    /\ current \in Callbacks \cup {None}
    /\ ready \in Seq(Callbacks) /\ inbox \in Seq(Callbacks)
    /\ batchq \in Seq(Callbacks)
    /\ timers \in SUBSET Callbacks

TypeFlags ==
    /\ idle_active \in BOOLEAN /\ timer_active \in BOOLEAN
    /\ waker_pending \in BOOLEAN /\ async_pending \in BOOLEAN
    /\ stopping \in BOOLEAN /\ stop_flag \in BOOLEAN
    /\ fatal \in BOOLEAN /\ closed \in BOOLEAN
    /\ flush \in BOOLEAN /\ flusher_active \in BOOLEAN
    /\ blocking \in BOOLEAN /\ woken \in BOOLEAN /\ stranded \in BOOLEAN

TypeCounts ==
    /\ batches \in Nat /\ callbacks \in Nat /\ batch \in Nat
    /\ remaining \in Nat
    /\ external_handles \in Nat /\ closing_handles \in Nat
    /\ dns \in Nat /\ oom \in Nat

TypeOK == TypeQueues /\ TypeFlags /\ TypeCounts

\* The poll may sleep until something outside the loop happens.
Asleep == phase = "poll" /\ blocking /\ ~woken

\* callSoonThreadsafe skips uv_async_send when waker_pending is set, and both
\* call_soon and onWake drain the inbox: whatever the order of these, a filled
\* inbox of an open loop has a wakeup on its way.  Only a drain that ran out
\* of memory leaves handles behind without one.
WakeupNotLost ==
    ~closed /\ inbox # <<>> => stranded \/ async_pending \/ phase = "waking"

\* callSoonThreadsafe, on waker_pending: between libuv clearing its pending
\* bit and onWake entering Python, no producer issues another kernel wake.
NoSecondWake == phase = "waking" => ~async_pending

\* startIdle, armTimer and onIdle's stop keep the idle handle active exactly
\* while it is needed: the loop never sleeps in the poll after stop(), nor
\* with a callback to run that no wakeup will announce, even if call_soon
\* failed halfway.
NeverSleepsOnWork ==
    Asleep => /\ ~stop_flag
              /\ stranded \/ async_pending \/ (ready = <<>> /\ inbox = <<>>)

\* runReady: the batch is the queue as it was on entry.  Whatever callbacks,
\* other threads or stop() do meanwhile, exactly those are popped, in order,
\* and what they schedule stays behind them for a later batch.
BatchExact ==
    phase \in {"batch", "callback"} =>
        /\ remaining <= Len(ready)
        /\ batchq = SubSeq(ready, 1, remaining)

\* onIdle: after its first batch, one turn of the loop never runs more than
\* CallbackLimit callbacks nor more batches than the larger limit, however
\* the callbacks reschedule themselves and open handles in between.
DrainBounded ==
    phase \in {"batch", "callback"} /\ batches # 0 =>
        /\ callbacks + batch <= CallbackLimit
        /\ batches < BatchLimit \/ batches < IoBatchLimit

\* onIdle and runLoop: a turn begins no batch once the loop was told to stop or
\* an exception is on its way out, but for its first one when that happened in a
\* pending callback before it; what the last batch scheduled waits for the next
\* run.
NoBatchAfterStop ==
    [][phase = "idle" /\ phase' = "batch" => batches = 0 \/ (~stop_flag /\ ~fatal)]_vars

\* captureFatal and runLoop: a captured SystemExit, KeyboardInterrupt or
\* MemoryError has stopped the loop, so that the run it was captured in, or
\* the next one if it was captured outside, ends and raises it.
FatalStopsLoop == fatal => stop_flag \/ phase = "leaving"

\* A callback handed over by another thread eventually runs, or the loop is
\* left by stop(), SystemExit or close().  Only onWake() running out of memory
\* over it can leave it in the inbox, until the next wakeup.
ThreadsafeRuns ==
    \A c \in Soon : c \in Elems(inbox) ~> current = c \/ phase = "out" \/ stranded

\* stop() and captureFatal end the run: no schedule of callbacks, I/O or other
\* threads keeps a stopped loop from returning.
StopEndsRun == stop_flag /\ phase # "out" ~> phase = "out"

=============================================================================
