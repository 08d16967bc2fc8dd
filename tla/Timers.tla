------------------------------- MODULE Timers -------------------------------
(***************************************************************************)
(* call_later() and call_at(): the binary heap of zig/collections.zig with *)
(* its lazy cancellation, the handles of zig/timer.zig, and the part of    *)
(* zig/loop.zig that keeps the loop's single libuv timer pointed at the    *)
(* earliest deadline.                                                      *)
(*                                                                         *)
(* `clock` is what now() reads, in ticks finer than a millisecond, as are  *)
(* the deadlines; `uvtime` is the whole milliseconds libuv cached at the   *)
(* start of the turn, from which uv_timer_start counts, so the libuv timer *)
(* may expire before the deadline it was armed for.  A timeout beyond      *)
(* libuv's range, such as that of an infinite deadline, is the last one    *)
(* libuv has.                                                              *)
(*                                                                         *)
(* Cancelling a timer releases its arguments, whose finalizers are Python  *)
(* code that may schedule and cancel timers before cancel() goes on to     *)
(* tell the loop.  `frames` lists, innermost first, the timers whose       *)
(* cancel() is at that point; while there is one, only Python runs.        *)
(***************************************************************************)
EXTENDS Integers, SequencesExt

CONSTANTS
    Handles,       \* the timer handles; a handle nothing refers to is reused
    MinCancelled,  \* min_cancelled_timers
    GuardMs,       \* the guard armTimer adds to libuv's timeout
    TicksPerMs,    \* ticks of now() in a millisecond
    MaxMs,         \* the largest u64, in milliseconds
    Deadlines,     \* bound: what call_at() and call_later() ask for, in ticks
    MaxClock,      \* bound: now()
    MaxSeq,        \* bound: entries pushed on the heap
    MaxReady,      \* bound: timers on the ready queue when one skips the heap
    MaxFrames,     \* bound: cancel() calls nested in finalizers
    Nobody

ASSUME BoundAssumption == /\ MinCancelled \in Nat /\ GuardMs \in Nat
                          /\ TicksPerMs \in Nat \ {0} /\ MaxMs \in Nat
                          /\ Deadlines \subseteq Nat /\ MaxSeq \in Nat
                          /\ MaxReady \in Nat /\ MaxFrames \in Nat
                          /\ MaxClock \in Nat /\ MaxClock < TicksPerMs * MaxMs
ASSUME NobodyAssumption == Nobody \notin Handles

VARIABLES
    clock,      \* now()
    uvtime,     \* libuv: loop->time
    items,      \* Timers.items[0..len]
    seq,        \* Timers.seq
    ncancelled, \* Timers.cancelled
    flagged,    \* handles with CANCELLED set
    in_heap,    \* handles with in_heap set
    held,       \* handles that still own their callback and arguments
    running,    \* the handle with running_flag set, or Nobody
    frames,     \* cancel() calls whose finalizers are running
    ready,      \* the timers on the ready queue, as entries; seq is 0 if the
                \* timer never was on the heap
    active,     \* timer_active
    armed,      \* libuv: when the timer expires, if active
    lost        \* history: handles dropped when the ready queue could not grow

heapVars == <<items, seq, ncancelled, in_heap, active, armed>>
vars == <<clock, uvtime, heapVars, flagged, held, running, frames, ready, lost>>

-----------------------------------------------------------------------------
(* The heap.  Position i of the array is i + 1 here: the parent of i is    *)
(* i \div 2 and its children are 2 * i and 2 * i + 1.                      *)

before(a, b) == IF a.when # b.when THEN a.when < b.when ELSE a.seq < b.seq

siftUp(h, start) ==
    LET item == h[start]
        up[i \in 1..Len(h), g \in Seq(Range(h))] ==
            IF i > 1 /\ before(item, g[i \div 2])
            THEN up[i \div 2, [g EXCEPT ![i] = g[i \div 2]]]
            ELSE [g EXCEPT ![i] = item]
    IN  up[start, h]

siftDown(h, start) ==
    LET item == h[start]
        child(g, i) == IF 2 * i + 1 <= Len(g) /\ before(g[2 * i + 1], g[2 * i])
                       THEN 2 * i + 1 ELSE 2 * i
        down[i \in 1..Len(h), g \in Seq(Range(h))] ==
            IF 2 * i <= Len(g) /\ before(g[child(g, i)], item)
            THEN down[child(g, i), [g EXCEPT ![i] = g[child(g, i)]]]
            ELSE [g EXCEPT ![i] = item]
    IN  down[start, h]

push(h, when, handle) ==
    siftUp(Append(h, [when |-> when, seq |-> seq + 1, handle |-> handle]), Len(h) + 1)

pop(h) ==
    IF Len(h) = 1 THEN <<>>
    ELSE siftDown([Front(h) EXCEPT ![1] = Last(h)], 1)

\* Sifts every parent down, last one first.
heapify(h) ==
    LET from[i \in 0..(Len(h) \div 2)] ==
            IF i = Len(h) \div 2 THEN h ELSE siftDown(from[i + 1], i + 1)
    IN  from[0]

\* Mutant: the pass stops one entry short.
compactShort(h, dead) == heapify(SelectSeq(Front(h), LAMBDA e : e.handle \notin dead))

\* Drops the cancelled entries; the pass keeps the order of the others.
compact(h, dead) == heapify(SelectSeq(h, LAMBDA e : e.handle \notin dead))

In(h) == {h[i].handle : i \in DOMAIN h}

-----------------------------------------------------------------------------
(* The loop's side of the heap.                                            *)

less(n, k) == IF n > k THEN n - k ELSE 0

Ceil(ticks) == (ticks + TicksPerMs - 1) \div TicksPerMs

timerMilliseconds(delta) == IF delta > 0 THEN Min({Ceil(delta) + GuardMs, MaxMs}) ELSE 0

\* uv_timer_start, whose sum is clamped
uv_timer_start(timeout) == Min({uvtime + timeout, MaxMs})

\* Mutant: an entry that is already due leaves the libuv timer alone.
armTimerUnlessDue(h, n, marks, dead) ==
    LET trim[g \in Seq(Range(h))] ==
            IF g # <<>> /\ Head(g).handle \in dead THEN trim[pop(g)] ELSE g
        rest == trim[h]
    IN  /\ items' = rest
        /\ ncancelled' = less(n, Len(h) - Len(rest))
        /\ in_heap' = marks \ (In(h) \ In(rest))
        /\ active' = (rest # <<>> /\ (active \/ Head(rest).when > clock))
        /\ armed' = IF active /\ rest # <<>> THEN armed
                    ELSE IF active' THEN uv_timer_start(timerMilliseconds(Head(rest).when - clock))
                    ELSE 0

\* Drops the cancelled entries that have surfaced, then points the libuv timer
\* at the earliest entry left.  h, n, marks and dead are the heap, its count,
\* the in_heap flags and the CANCELLED flags at the call.
armTimer(h, n, marks, dead) ==
    LET trim[g \in Seq(Range(h))] ==
            IF g # <<>> /\ Head(g).handle \in dead THEN trim[pop(g)] ELSE g
        rest == trim[h]
    IN  /\ items' = rest
        /\ ncancelled' = less(n, Len(h) - Len(rest))
        /\ in_heap' = marks \ (In(h) \ In(rest))
        /\ active' = (rest # <<>>)
        /\ armed' = IF rest = <<>> THEN 0
                    ELSE uv_timer_start(timerMilliseconds(Head(rest).when - clock))

\* What collectDueTimers leaves after popping n entries, and the entries popped.
Pops(h) ==
    LET after[n \in 0..Len(h)] == IF n = 0 THEN h ELSE pop(after[n - 1])
    IN  after
Popped(h, n) == [k \in 1..n |-> Head(Pops(h)[k - 1])]

\* collectDueTimers pops n entries, the last of which is dropped instead of
\* queued when the ready queue cannot grow.
collectDueTimers(n, oom) ==
    LET out   == Popped(items, n)
        alive == SelectSeq(out, LAMBDA e : e.handle \notin flagged)
    IN  /\ ready' = ready \o (IF oom THEN Front(alive) ELSE alive)
        /\ lost' = lost \cup (IF oom THEN {Last(alive).handle} ELSE {})
        /\ armTimer(Pops(items)[n], less(ncancelled, n - Len(alive)),
                    in_heap \ In(out), flagged)

-----------------------------------------------------------------------------
(* Python: any callback, task or finalizer on the loop's thread.           *)

\* No reference is left: neither the loop's nor a cancel() in progress.  The
\* next timer created may be this object.
Free(t) == /\ t \notin In(items) /\ t \notin In(ready)
           /\ t # running /\ t \notin Range(frames)

create(t) == /\ Free(t)
             /\ flagged' = flagged \ {t}
             /\ held' = held \cup {t}
             /\ lost' = lost \ {t}

\* Mutant: every timer that is already due skips the heap.
scheduleAtOvertakes(t, when, already_due) ==
    /\ create(t)
    /\ IF already_due
       THEN /\ Len(ready) < MaxReady
            /\ ready' = Append(ready, [when |-> when, seq |-> 0, handle |-> t])
            /\ UNCHANGED heapVars
       ELSE /\ seq < MaxSeq
            /\ seq' = seq + 1
            /\ armTimer(push(items, when, t), ncancelled, in_heap \cup {t}, flagged')
            /\ ready' = ready
    /\ UNCHANGED <<clock, uvtime, running, frames>>

\* A timer that is already due, and earlier than every entry, skips the heap.
scheduleAt(t, when, already_due) ==
    /\ create(t)
    /\ IF already_due /\ (items = <<>> \/ when < Head(items).when)
       THEN /\ Len(ready) < MaxReady
            /\ ready' = Append(ready, [when |-> when, seq |-> 0, handle |-> t])
            /\ UNCHANGED heapVars
       ELSE /\ seq < MaxSeq
            /\ seq' = seq + 1
            /\ armTimer(push(items, when, t), ncancelled, in_heap \cup {t}, flagged')
            /\ ready' = ready
    /\ UNCHANGED <<clock, uvtime, running, frames>>

callAt(t, when) == scheduleAt(t, when, when <= clock)

callLater(t, delay) == scheduleAt(t, clock + delay, delay <= 0)

\* cancel() up to the release of the arguments, which vectorcall still borrows
\* while the callback runs.
cancel(t) ==
    /\ ~Free(t) /\ t \notin flagged
    /\ Len(frames) < MaxFrames
    /\ flagged' = flagged \cup {t}
    /\ held' = IF t = running THEN held ELSE held \ {t}
    /\ frames' = IF t = running THEN frames ELSE <<t>> \o frames
    /\ UNCHANGED <<clock, uvtime, heapVars, running, ready, lost>>

\* The rest of cancel(), once the finalizers have returned.  compact() does
\* nothing when it has no memory to set the dropped handles aside.
noteTimerCancelled ==
    LET dominated == /\ ncancelled + 1 > MinCancelled
                     /\ (ncancelled + 1) * 2 > Len(items)
    IN  \/ /\ ~dominated
           /\ ncancelled' = ncancelled + 1
           /\ UNCHANGED <<items, in_heap, active, armed>>
        \/ /\ dominated
           /\ armTimer(compact(items, flagged), 0, in_heap \ flagged, flagged)
        \/ /\ dominated
           /\ armTimer(items, ncancelled + 1, in_heap, flagged)

cancelReturns ==
    /\ frames # <<>>
    /\ frames' = Tail(frames)
    /\ IF Head(frames) \in in_heap
       THEN noteTimerCancelled /\ seq' = seq
       ELSE UNCHANGED heapVars
    /\ UNCHANGED <<clock, uvtime, flagged, held, running, ready, lost>>

-----------------------------------------------------------------------------
(* The loop.                                                               *)

\* The end of runOne: a callback that cancelled its own handle leaves its
\* arguments to be released here.
runReturns ==
    /\ running # Nobody /\ frames = <<>>
    /\ running' = Nobody
    /\ held' = IF running \in flagged THEN held \ {running} ELSE held
    /\ UNCHANGED <<clock, uvtime, heapVars, flagged, frames, ready, lost>>

\* The start of runOne.  A cancelled handle is only released.
run ==
    /\ running = Nobody /\ frames = <<>> /\ ready # <<>>
    /\ ready' = Tail(ready)
    /\ running' = IF Head(ready).handle \in flagged THEN Nobody ELSE Head(ready).handle
    /\ in_heap' = in_heap \ {Head(ready).handle}
    /\ UNCHANGED <<clock, uvtime, items, seq, ncancelled, active, armed,
                   flagged, held, frames, lost>>

\* libuv: the timer has expired on libuv's clock.
Expired == running = Nobody /\ frames = <<>> /\ active /\ armed <= uvtime

Due(n) == \A k \in 1..n : Popped(items, n)[k].when <= clock

onTimer ==
    /\ Expired
    /\ \E n \in 0..Len(items) :
          /\ Due(n)
          /\ n < Len(items) => ~Due(n + 1)
          /\ collectDueTimers(n, FALSE)
    /\ UNCHANGED <<clock, uvtime, seq, flagged, held, running, frames>>

\* onTimer when the ready queue cannot grow: captureFatal, and the timer that
\* did not fit is released.
onTimerNoMemory ==
    /\ Expired
    /\ \E n \in 1..Len(items) :
          /\ Due(n)
          /\ Popped(items, n)[n].handle \notin flagged
          /\ collectDueTimers(n, TRUE)
    /\ UNCHANGED <<clock, uvtime, seq, flagged, held, running, frames>>

\* runLoop arms the timer before it enters libuv.
runLoop ==
    /\ running = Nobody /\ frames = <<>>
    /\ armTimer(items, ncancelled, in_heap, flagged)
    /\ UNCHANGED <<clock, uvtime, seq, flagged, held, running, frames, ready, lost>>

\* libuv: uv__update_time, between turns.
UpdateTime ==
    /\ running = Nobody /\ frames = <<>>
    /\ uvtime' = clock \div TicksPerMs
    /\ uvtime' # uvtime
    /\ UNCHANGED <<clock, heapVars, flagged, held, running, frames, ready, lost>>

Tick ==
    /\ clock < MaxClock
    /\ clock' = clock + 1
    /\ UNCHANGED <<uvtime, heapVars, flagged, held, running, frames, ready, lost>>

Init ==
    /\ clock = 0 /\ uvtime = 0
    /\ items = <<>> /\ seq = 0 /\ ncancelled = 0
    /\ flagged = {} /\ in_heap = {} /\ held = {}
    /\ running = Nobody /\ frames = <<>> /\ ready = <<>>
    /\ active = FALSE /\ armed = 0
    /\ lost = {}

Python ==
    \/ \E t \in Handles, when \in Deadlines :
          \/ callAt(t, when)
          \/ when >= clock /\ callLater(t, when - clock)
    \/ \E t \in Handles : cancel(t)

Native ==
    \/ cancelReturns
    \/ runReturns
    \/ run
    \/ onTimer
    \/ UpdateTime

Next == Python \/ Native \/ Tick \/ onTimerNoMemory \/ runLoop

Spec == Init /\ [][Next]_vars

-----------------------------------------------------------------------------
(* Properties.                                                             *)

Alive(h) == {e \in Range(h) : e.handle \notin flagged}

\* Whenever a live timer is on the heap the libuv timer is armed, and for no
\* later than that timer's deadline rounded up to a millisecond plus the guard, or
\* than now() if the deadline has passed.
ArmedInTime ==
    \A e \in Alive(items) :
        active /\ (armed <= Ceil(e.when) + GuardMs \/ armed * TicksPerMs <= clock)

\* Timers are queued in deadline order, and in the order they were scheduled
\* when the deadlines are equal: what is queued together is sorted, and no live
\* entry left on the heap is before it.
InDeadlineOrder ==
    [][LET new == SubSeq(ready', Len(ready) + 1, Len(ready'))
       IN  \A i \in DOMAIN new :
              /\ \A j \in (i + 1)..Len(new) : before(new[i], new[j])
              /\ \A e \in Alive(items)' : before(new[i], e)]_vars

\* A live timer leaves the heap only for the ready queue, unless memory ran out.
NoneDropped ==
    [][\A t \in In(items) \ flagged : t \in In(items') \cup In(ready') \cup lost']_vars

=============================================================================
