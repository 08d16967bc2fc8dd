# zuvloop in TLA+

A verification of [zuvloop](../src/README.md), an asyncio event loop whose
scheduler, transports and watchers are written in Zig over libuv and whose
connection, server, process and signal handling is written in Python.

The modules model the control of the code: its state, guards, early returns,
error paths and the order of its steps.  Data is abstracted to what the
properties tell apart.  TLC checks small instances, TLAPS proves the central
invariants for every value of the constants.  `PROJECT.json` holds the map from
definitions to source lines, the runs, the mutants, the hazards and the theorems.

## The system

| Part | Source | State | Operations |
|---|---|---|---|
| Scheduler | `zig/loop.zig`, `zig/collections.zig` | ready queue, inbox of other threads, timer heap, flags of the idle, timer, prepare and async handles, stop and fatal flags, handle counters | call_soon, call_soon_threadsafe, call_later, stop, run_forever, close, the libuv callbacks onIdle, onTimer, onWake, onFlush |
| Thread-safe handle | `zig/tshandle.zig` | state word, cancelled flag, waiters | run, cancel, cancelled |
| Timer | `zig/timer.zig`, heap in `zig/collections.zig` | heap, cancelled count, flags of each handle, the one libuv timer | call_at, cancel, run, onTimer, compaction |
| Stream transport | `zig/transport.zig` | flags, batch of writes, water marks, libuv's queue | write, writelines, write_eof, close, abort, pause_reading, resume_reading, set_write_buffer_limits, libuv's callbacks |
| Name resolution | `zig/dns.zig`, teardown in `zig/loop.zig` | requests, futures, `reap_state` | getaddrinfo, getnameinfo, close, dealloc, the reaper thread |
| Descriptor watchers | `zig/poller.zig` | a poller per descriptor with two slots, cached events, counters | add_reader, add_writer, their removal, onPoll, close |
| Socket operations | `zuvloop/_sockets.py` | a token per descriptor and direction | sock_recv and the others, cancellation |
| Datagram endpoint | `zig/datagram.zig`, `zuvloop/_connect.py` | flags, size, water marks, libuv's queue | sendto, close, abort, pause, resume, libuv's callbacks |
| Server | `zuvloop/_server.py`, `zuvloop/_connect.py` | sockets, count and set of connections, waiters, retries, path | create_server, create_unix_server, accept, TLS accept task, close, wait_closed, serve_forever, close_clients, abort_clients |
| Child processes on Linux | `zuvloop/_process.py`, `zuvloop/_connect.py` | dictionary of children by pid | spawn, register, the reaper thread, send_signal |
| Native child processes | `zig/process.zig`, `zuvloop/_process.py`, `zuvloop/_connect.py` | handle, descriptors of the streams, exit callback | spawn, signal, exit, close, the start of a subprocess and its undoing |
| Signals | `zuvloop/_base.py`, `zuvloop/_loop.py` | process-wide handlers, owners and wakeup descriptor | add_signal_handler, remove_signal_handler, close, deferred cleanup |
| Connecting | `zuvloop/_connect.py` | staggered attempts, sockets, errors | create_connection, create_unix_connection, connect_accepted_socket, start_tls |
| Pipes | `zuvloop/_connect.py`, `zig/transport.zig` | pipe, duplicate, hangup watch | connect_read_pipe, connect_write_pipe |
| File transmission | `zuvloop/_sendfile.py` | offset, paused transport, the protocol that stands in | sendfile, sock_sendfile |
| Executors, generators, running | `zuvloop/_base.py` | executor, sets of generators | run_in_executor, the shutdown coroutines, run_until_complete |
| Instrumentation, runner, addresses, bindings | the other files | none that the loop depends on | – |

How they interact.  Everything runs on the loop's thread, in a callback that
libuv or the ready queue called, except five things: `call_soon_threadsafe`,
`cancel()` of a thread-safe handle, the two reaper threads, the thread that joins
an executor, and whatever thread closes or deallocates a loop.  Transports,
endpoints, pollers and DNS requests hold libuv handles that the loop counts; they report through the ready queue or
through protocol methods, which may call back into the object that is calling
them.  A server counts transports and learns of their end from the transport's
close callback.  Socket operations and servers are clients of the pollers.  The
coroutines that open things (connections, servers, endpoints, pipes, children)
take sockets and descriptors one by one and give them to a transport at the end;
signals are the only state that several loops share.

What makes it hard, and is in the model: producers on other threads against the
waker; several batches of callbacks per turn of libuv; hooks that re-enter a
transport, a timer or an endpoint in the middle of a native function; actions
that are deferred because they come too early or inside a hook; poll errors
behind a cache; cleanup that runs a turn late; cancellation at any await; failed
allocations; a loop that is closed with work outstanding; storage owned by two
threads; pids and paths that are reused; cleanup of a closed loop that runs
between any two steps of another loop's registration.

## Modules

Each component has a module with its variables, one action for each operation or
callback, and its properties.  `MC*` modules only add constants, symmetry and the
check of the heap; MCThreads also puts two modules into one run.  Definitions keep
the names of the source.

- **Loop** — the program counter `phase` walks through `uv_run(DEFAULT)`: stop
  test, pending callbacks, idle handle and its batches, prepare handle, poll,
  closing handles, timers.  A pending callback (`uv__run_pending`) is one of a
  transport that runs Python code before the idle handles do.  Any other thread may
  call `CallSoonThreadsafe` in every phase.
  Deadlines are left to `Timers`: here any subset of the timers may be due.
  A callback is an identity that is free again once it ran, so endless chains of
  callbacks are behaviours of a finite model.
- **CallbackQueue** — the abstract specification: one FIFO queue, one callback at
  a time.  `MCLoop!ImplementsQueue` is the refinement: the ready queue followed
  by the inbox is that queue.
- **ThreadSafeHandle** — an action is one critical section: `run()` up to the
  callback, `run()` after it, `cancel()` or `cancelled()` up to the wait, and the
  rest after it.
- **Transport** — `stack` is the native call stack, innermost first: a Python
  frame, from which every method may be called, or the rest of a native function.
  Bytes are numbered in the order in which the transport takes them.  `kind`
  (stream or write pipe) and the kind of protocol are chosen in Init; `held` is
  the pause the program last asked for, `refilled` and `failed` are history.
- **Timers** — the heap is the array of the code, with `siftUp`, `siftDown`,
  `pop`, `heapify` and `compact` as functions on sequences.  `frames` are the cancel() calls
  whose finalizers are running.  `clock` and `uvtime` tell now() from libuv's
  cached time: the clock and the deadlines count ticks, libuv counts milliseconds
  of `TicksPerMs` of them, and `timerMilliseconds` rounds up and saturates.
- **Resolver** — a request goes through conversion, threadpool, answer.  The loop
  object and the reaper thread meet in `reap_state`, one atomic operation a step.
  The conversion may close the loop; `late`, a history variable, records that a
  request was handed to a libuv loop already closed.
- **Poller** and **SockOps** — `SockOps` extends `Poller`: the tasks of
  `_sockets.py` act through `add` and `remove` of the poller beneath them.  `mixed`,
  chosen in Init, says whether the program has watchers of its own.
- **Datagram** — hooks at the end of a function need no state, as the program may
  act at any time; the two that `onSent()` continues after are in `frame`.
- **Server** — a connection is what has become of its socket, from the factory to
  the close callback of its transport.  `tls` is chosen in Init; `miscounted` and
  `deaf` (the last `_start_serving()` raised halfway) are history.
- **ProcessReaper** — the threads of the loops, the reaper thread and the kernel.
  The standard library's `poll()` and `os.kill()` are two steps.  The reaper
  polls its snapshot in any order, where the code has that of the dictionary.
- **Signals** — `main` is the stack of calls on the main thread.  A step is the
  code between two places where CPython may run something else: a pending call
  (`closeFromPending`), the finalizer of another loop (`close`), or a worker thread
  (`CloseOnWorker`).  A call of `signal.signal()` or `set_wakeup_fd()` may raise.
- **Connect** — an attempt is a task with an await of its own; the caller tries
  the addresses one by one or through `staggered_race()`, which is asyncio's.
- **Sendfile** — one record, and the calls of protocol and transport as functions
  on it, since `sendfile()`, its stand-in and the transport call each other.
  `worker` is the executor's read, which a cancellation does not stop; `strayed`
  counts the blocks it took behind the end of the call.
- **Executors** — the loop, the coroutine that shuts the default executor, the
  thread that joins the workers, and the workers.
- **LibuvProcess** — the descriptors that `spawn_libuv()` opens, the
  `uv_process_t`, and the coroutine that awaits the pipes.
- **Listeners** — the steps of create_server() and create_unix_server(), the file
  at the path, and the part of Server.close() that is about them.
- **Endpoints** — create_datagram_endpoint(), the pipes and start_tls().  Each has
  its queue of scheduled callbacks, in which the wakeup of its task takes its turn.
- **Program** — composes the last six with ProcessReaper: a client that connects,
  sends a file over the connection and then shuts its executor and closes the loop;
  a parent of child processes on either path; a server; an endpoint.  `runs`,
  chosen in Init, says which.  `NothingLeaks` and `CallsEnd` are the conjunctions
  of what the parts promise about resources and about coming to an end.

libuv's phases, write and send queues, closing handles, timers and threadpool are
mapped to the copy of libuv under `src/vendor/libuv`.  External, modelled from how
this code uses them: the kernel's readiness, pids, exits and files; `asyncio.Task.cancel`, `staggered_race()`, asyncio's TLS handshake,
StreamReader and subprocess transport; the pools of `concurrent.futures`; what the
application does with what it is given.

A module also holds variants of some actions (`...Blind`, `...Again` and so on),
defined before the action they vary and used by no specification.  Each is a
plausible bug.  `PROJECT.json` says for each property of each passing run which
variant, put in place of the action, makes TLC find that property violated.

## Runs

| Run | Instance | What it shows |
|---|---|---|
| loop | 3 callbacks, 1 native one, limits 2, 3, 3, one failed allocation | no sleep on work; the two queues refine `CallbackQueue` |
| loop_live | 2 callbacks, 1 native one, fair | threadsafe callbacks run, stop() returns |
| threads | loop and 2 threads, 2 handles; or 2 requests of both kinds; fair | cancel() returns settled, arguments outlive the call, waiters are released; the reaper is without Python, close() returns, the storage is freed in the end |
| transport | stream, 3 bytes, batches of 1, vectors of 1 and 2 buffers, 2 pairs of marks, 1 read, plain and buffered protocols, hooks nested twice | the bytes in order and none dropped, pauses that can end, half-close last, quiet while reading is paused |
| transport_live | stream and write pipe, 2 bytes, fair | close() ends with connection_lost() |
| transport_eof | stream, 3 bytes | expected to fail, see below |
| timers | 4 timers, 2 ticks a millisecond, deadlines within one, on one and beyond libuv's range, nested finalizers | armed in time, in order, none dropped; `pop` and `compact` on all heaps of up to 6 entries |
| sockops | 2 operations, 3 handles, with and without a program that uses add_reader() | poll, slots, cache and counters agree; removed callbacks do not run; late cleanup leaves other operations alone |
| datagram | lengths 0–2, marks 0–2, 3 requests, fair | sizes, pauses, draining; close() ends |
| server | 2 sockets, 2 connections, 2 tasks, plain and TLS, fair | count, waiters; listens again, wait_closed() returns |
| signals | 2 loops, 2 signals, 2 calls that raise, 2 nested calls | the wakeup descriptor is its owner's and open, every caught signal is accounted for, a rollback restores what it found |
| program | 3 addresses of which one is silent, 2 blocks, 2 jobs, 2 children, 2 loops, 2 servers, 3 records, fair | nothing leaks and every call ends, whatever fails or is cancelled; failures in order, the file whole and its position right, a writer told to pause is told to resume, the default executor drained when its shutdown returns, on the libuv path no signal to a pid given back, no path of another server removed, TLS gets every record, every exit reported |

The heap of `Timers` is also checked by itself: the assumption `HeapOperations` of
`MCTimers` evaluates `pop` and `compact` on every heap of up to six entries with
four deadlines and every set of cancelled ones, because a compaction that leaves
more than one entry needs more timers than the run can afford.

Bounds.  The interesting cases need: two callbacks in a queue while a third
arrives from a thread; a write that overflows the batch (a vector longer than
`PendingMax`); a timer scheduled before, between and after others, at a deadline
that is no whole millisecond and at one that saturates; two operations
on one slot; one pid for two children; a retry for each listening socket; an
address that never answers between two that do; a write of the program before,
during and after a file; a server that binds the path another one still has; a
registration interrupted by the cleanup of the loop that owned the signal.  Each
instance is at or above that.  The limits of `onIdle` (`BatchLimit`,
`IoBatchLimit`, `CallbackLimit`) are small so that TLC passes each of them; the
proofs hold for any.  Constants named `Max...` bound counters in the guards.
`loop_live` has no failed allocation: after one in `onWake` the inbox waits for
the next wakeup, which nothing promises.  Symmetry is used in runs without
liveness only, over sets whose members no definition tells apart.  Deadlock is
not checked where a closed loop, a closed endpoint or a server whose connections
are used up may stop.

Fairness.  `uv_run` goes through its phases, a Python frame returns, and a thread
that can go on does: weak fairness of these steps.  Strong fairness is used
where a step waits for its turn on the loop's thread and is disabled while
another callback runs (a task to resume, a close callback, a callback on the
ready queue): the loop serves its queue in order and every phase in every turn,
so none of these is passed over for ever.  That the peer reads or the kernel
takes a datagram is assumed where close() waits for it.  That the resolver answers
is a premise of `StorageReclaimed` only (`ResolverAnswers`): `CloseReturns` holds
without it.  In `program` the tasks, the reaper, the joining thread and asyncio's
timers go on, an address that is not silent answers, the peer of a file transfer
reads, and a child ends once it was killed.  Nothing is assumed of the silent address,
of the jobs of an executor (a shutdown with a timeout ends without them), or of a
child that was not signalled.

## Disagreements between the code and what it says

The run transport_eof is expected to fail.  `write_eof()` flushes before it sets
EOF_WRITTEN; a write from the `pause_writing()` of that flush stays in the batch, the
next flush fails on it and aborts the transport, and bytes that were written
before `write_eof()` are lost.  The comment at `zig/transport.zig:1041` says "A
half-close must follow all writes that were accepted before this call."

Other behaviours of the code that the models have, and that a property leaves out
by a premise or a history variable:

| Where | What happens | How it is left out |
|---|---|---|
| `zig/loop.zig:290` | writes made by hooks during the flush wait through a poll that may block | no property about it |
| `zig/tshandle.zig:174` | cancelling a handle from a nested run of another one waits for itself | `Nesting = 1` |
| `zig/transport.zig:850` | a write from pause_writing() during close() is accepted and dropped | `refilled` in `StreamExact` |
| `zig/transport.zig:649` | writelines() that runs out of memory after a partial write leaves a hole | `failed # "memory"` in `StreamExact` |
| `zig/transport.zig:949`, `zig/datagram.zig:566` | a pause before reading was started has no effect | `held` is not set by it |
| `zig/transport.zig:962` | pause and resume inside get_buffer() leave the transport paused | no property about it |
| `zig/dns.zig:536` | getnameinfo() does not check again after its arguments ran Python code, so it may hand a request to a closed libuv loop | `late` in all properties about the handover |
| `zuvloop/_sockets.py:27` | the cleanup of a sock_*() operation removes a watcher the program put in its place | `~mixed` in `WaiterIsWatched` |
| `zig/datagram.zig:448` | close() cancels queued empty datagrams | `DrainsBeforeClose` is about bytes |
| `zuvloop/_connect.py:444`, `:464` | a TLS task cancelled before its first step, or with bytes unsent, detaches its connection never, or twice | `miscounted` |
| `zuvloop/_server.py:66` | `_start_serving()` sets `_serving` first: a listen() or add_reader() that raises leaves sockets without a reader, and start_serving() does nothing when it is called again | `deaf` in `ListensAgain` |
| `zuvloop/_process.py:189` | on Linux the standard library polls and then kills by pid, and the reaper thread may wait for the child in between; the comment at `zuvloop/_connect.py:1007` says the child or nothing at all is signalled because libuv holds the handle | the gap is in ProcessReaper; `SignalsOwnChild` is about the libuv path |
| `zuvloop/_process.py:210` | the entry of a child that send_signal() reaped is overwritten when its pid is reused | `overwritten` |
| `zuvloop/_process.py:158` | a descriptor that open() could not wrap is not closed | `lost` in `DescriptorsBalance` |
| `zuvloop/_connect.py:210` | a race cancelled while it waits for the losers drops the socket that won | `dropped` in `NoSocketLeaks` |
| `zuvloop/_sendfile.py:93`, `:180` | a cancellation while a block is under way throws its count away, so the position is short by it | `dropped` in `FileExact` |
| `zuvloop/_sendfile.py:167`, `:193` | a read that a worker has begun goes on after the cancellation and may move the file behind the seek() of the finally clause | `strayed`: the position may be one block further |
| `zuvloop/_connect.py:358` | an exception of bind() that is no OSError leaves the socket of create_unix_server() to its finalizer | `"unbound"`, which `NoListenerLeaks` does not name |
| `zuvloop/_sendfile.py:256` | restore() replays a resume and never a pause: a protocol that was not told to pause may write into the backlog and be told to resume; the docstring at `:213` promises a replay of the state last seen | `WriterResumes` asks for the resume only |
| `zuvloop/_loop.py:68` | a loop closed on a worker thread between the snapshot and the rollback leaves a caught signal without an owner; the comment there says "cleanup either removed it already or we do so now" | `orphaned` in `SignalsAccounted` |
| `zig/loop.zig:1089` | with the interpreter's queue of pending calls full, a close() on a worker thread raises and its cleanup is lost | `orphaned` in `SignalsAccounted` |
| `zuvloop/_base.py`, `zuvloop/_loop.py` | a reset of a disposition that raises leaves the signal with its former owner | `stuck` in `SignalsAccounted` |
| `zuvloop/_base.py` | shutdown_default_executor() joins the default executor of the moment, not one it replaced | `replaced` in `DefaultDrained` |

## Proofs

`tlapm` checks eight modules.  All theorems are for arbitrary constants under the
named assumptions of the modules; none rests on the bounds of the runs.  The
assumptions type the constants (`AddrsAssumption`: at least one address, as
getaddrinfo() raises rather than return none; `AddressesAssumption`,
`FileAssumption`, `LengthAssumption` and the others: counts, sizes and marks are
natural numbers), and TLC evaluates each of them in a run.  Every invariant that a
theorem has as its property was checked by TLC first, on the run that names it.
Safety that is proved and that no run lists (`TypeOK`, `WakeupNotLost`,
`BatchExact`, `NoBatchAfterStop`, `FilePositioned`, `NoChildForgotten` and others)
is left to the proof.

**LoopProofs** — `Spec => []IInv` with `IInv == TypeFlags /\ Batch /\ Control`,
and from it `TypeOK`, `WakeupNotLost`, `NeverSleepsOnWork`, `BatchExact`,
`DrainBounded`, `FatalStopsLoop` and `NoBatchAfterStop`.  `WakeupNotLost` alone is
not inductive: a wakeup is skipped because `waker_pending` is set, so one needs
that a set `waker_pending` on an open loop has libuv's bit or `onWake` behind it.
`NeverSleepsOnWork` needs in which phases the idle handle must already be active
for work that is queued, and that `stop_flag` follows `fatal`.  `Batch` adds to
`BatchExact` what each phase says about `remaining` and the counters of onIdle.
`NoBatchAfterStop` excepts the first batch of a turn: a stop() in a pending callback
comes after libuv has looked at its flag and before the idle handle runs.

**ThreadsProofs** — the thread-safe handle and the resolver.
`HandleInv == HandleTypeOK /\ Word /\ ReleasedIsDone /\ CancelReleases /\
WaitersParked`; from it all safety properties of ThreadSafeHandle and the action
property `SettledOnReturn`.  `ReleasedIsDone` says that a thread whose lock was
released finds the callback done, which is what makes the second half of cancel()
right.  `NoSelfWait` assumes `Nesting <= 1`: with nested runs the property is
false.  `ResolverInv` relates `reap_state`, the reaper's and the loop object's
program counters (`Handover`), the count of frees (`Frees`) and the requests that
are left (`OnlyReaperWorks`).  The theorems assume nothing of the conversions: the
invariant is about the behaviour up to the first request that getnameinfo() hands
to a loop already closed (`late`), and `TypeOK` holds after it too.

**ServerProofs** — `ToldWhenGone`: wait_closed() is told exactly when the server is
closed and its last connection is off the loop.  The code goes by the counter
`_active`, so the invariant says that it is the cardinality of the set of live
connections, and which of `_accept()`, the TLS task and the close callback is the
one to take each of them off.  `SleepersListed`, which does not depend on the
count, is the safety half of `WaitEnds`: nobody waits off the list of waiters.

**SockOpsProofs** — first the poller by itself: `PollMatchesSlots` and
`QueuedIsRegistered` need that a poller in the table has a slot in use, and what
is true of the cached events while an error or a close is under way.  Then
`OperationsArePoller == SockSpec => Spec`: every step of a sock_*() operation is a
step of the poller or leaves it alone, so both hold under the operations.
`WaiterIsWatched` adds who owns the token of a slot: the late cleanup of an
operation removes a watcher only if its token is still there.

**DatagramProofs** — `DrainsBeforeClose` and `PauseCanEnd`.  close() looks at
`write_buffer_size` alone, so both rest on that number being the sum over libuv's
queue (`Counted`), which holds until abort() writes it off.  That a sum grows and
shrinks by the request that comes or goes is an induction on the length of the
queue.  The induction theorems of the library take a predicate as a parameter, which
the provers cannot instantiate; `UpTo` is induction over a set instead, from the
least element that the well-foundedness of `<` gives (`WFMin`), and `SumsExist`
with `TotalSums` show that the recursive function `Total` is what its definition
says.  `PausedOver` allows an empty buffer while error_received() runs, as
maybeResumeProtocol() comes after it.

**ClientProofs, ServiceProofs, ProgramProofs** — the calls of the Python layer.
Each component has an inductive invariant over its own variables in one of the
first two; ProgramProofs shows that their conjunction `ProgramInv` is kept by the
composition, where a call that ends leaves the next one a clean slate
(`ForgetsInv`), and draws from it `NothingLeaks`, `FailuresInOrder`,
`FilePositioned`, `DefaultDrained`, `SignalsOwnChild`, `UnlinksOwnPath` and
`HandshakeGetsAll`.

| Component | Invariant | What the properties alone do not say |
|---|---|---|
| Connect | `ConnectInv` | who has which socket while attempts run (`Sockets`); attempts run only while the caller waits for them, and a winner has cancelled the others (`Phases`); slots are in the order of the addresses and a failed attempt has filled its own (`Slots`) |
| Sendfile | `SendfileInv` | at which awaits the protocol stands in and the limits are changed, when the duplicate is open, and that a worker reads only where it was asked to (`Borrowed`, `Lent`) |
| Executors | `ExecInv` | the jobs are on the default executor before the shutdown, on the one it shuts while it waits, which takes no job once the thread has begun and has none left after the join |
| ProcessReaper | `ReaperInv` | who has a pid and a loop (`Spawned`), what the reaper has at each of its steps (`Holds`), a running child keeps its entry (`RunningKept`); from it `NoChildForgotten` |
| LibuvProcess | `PopenInv` | which descriptors are open at each step (`Descriptors`), and that whoever knows of the exit knows it of a child that libuv has waited for (`ExitSeen`) |
| Listeners | `ListenInv` | before it binds, and once close() has been through them, a server has no sockets (`Balanced`); between bind() and stat(), and between the comparison and unlink(), the path names its own file or none (`OwnPath`) |
| Endpoints | `EndpointInv` | for each of the three calls, which callbacks are on the ready queue at which await, and who owns socket, pipe, duplicate and records then |

Only model-checked: all liveness; the refinement of `CallbackQueue`; the part of
`FileExact` beyond `FilePositioned`, which is about the subsequence of the wire that is not the program's
(`SelectSeq`, defined by recursion in a module the proofs do not open); and the
modules Transport, Timers and Signals.  Transport and Timers compute over nested
sequences and a heap, Signals over a stack of interrupted calls.

## Not modelled

- The delivery of a signal from the self-pipe: it reads one dictionary and calls
  call_soon().  Nor that a reset of a disposition registers the same signal again
  from inside itself.
- `Timers.deinit`: finalizers that cancel while the heap is freed.  What they can
  reach is decided by reference counts, which the models leave out.
- shutdown_asyncgens() and run_until_complete(): calls of asyncio without state
  that outlives them.
- A process other than this one that binds the path of a Unix server between
  bind() and stat(); others only unlink it in the model.
- Debug mode, slow-callback reports, metrics, instrumentation: they observe.
- Addresses, bindings, the resolution of literals, arguments and their validation:
  conversions without state.
- Garbage collection hooks and reference counts, except where a finalizer re-enters
  (Timers, Signals) or ownership moves between threads (Resolver, ThreadSafeHandle).
- `call_soon_threadsafe` is one step: it holds the loop's critical section.
- The adaptation of the read size, extra info, received datagrams.
- A server over the model of its transports: `Server` has the close callback of a
  connection as a step of its own, and the product is out of TLC's reach.
- Failures taken not to happen: `uv_poll_start()`, whose only error on Unix is a
  descriptor that another handle polls, which `uv_poll_init()` has refused before;
  `os.set_inheritable()` on a pipe just made (`zuvloop/_process.py:265`); and the
  allocation of the handle for `connection_lost()` (`zig/transport.zig:305`), after
  which the loop stops with a captured MemoryError.
- The order of two calls in one step that nothing runs between: remove_reader() and
  close() of a listening socket (`zuvloop/_server.py:143`) and of a pipe
  (`zuvloop/_connect.py:908`).
- The two ends of a subprocess's pipes after the spawn: they are asyncio's.
- Windows.
