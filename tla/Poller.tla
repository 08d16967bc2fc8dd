------------------------------- MODULE Poller -------------------------------
(***************************************************************************)
(* add_reader() and add_writer() on one descriptor: zig/poller.zig and the *)
(* counters of zig/loop.zig that its uv_poll_t handles are part of.        *)
(*                                                                         *)
(* A descriptor has one poller at a time, with a slot for each direction.  *)
(* A poller that lost both slots leaves the map and is closed; libuv calls *)
(* back in a later turn, and a new poller may exist by then.  A callback   *)
(* is queued when the descriptor is ready and runs later in the turn, when *)
(* it may have been removed or replaced.                                   *)
(***************************************************************************)
EXTENDS Integers, SequencesExt

CONSTANTS
    Handles,     \* the callback handles; one that nothing refers to is reused
    Nothing,     \* null
    MaxQueue,    \* bound: the ready queue
    MaxClosing   \* bound: pollers whose close callback is due

ASSUME NothingAssumption == Nothing \notin Handles
ASSUME BoundAssumption == MaxQueue \in Nat /\ MaxClosing \in Nat

Directions == {"reader", "writer"}

VARIABLES
    slot,       \* Poller.reader and Poller.writer
    events,     \* Poller.events
    mapped,     \* the descriptor has a poller in State.pollers
    polled,     \* libuv: the events uv_poll_start asked for
    flagged,    \* handles with CANCELLED set
    ready,      \* the poll callbacks on the ready queue
    leaving,    \* libuv: pollers that are closing
    external,   \* State.external_handles, the pollers' share
    closing,    \* State.closing_handles, the pollers' share
    closed      \* State.closed

vars == <<slot, events, mapped, polled, flagged, ready, leaving, external, closing, closed>>

Registered(s) == {d \in Directions : s[d] # Nothing}
Empty == [d \in Directions |-> Nothing]
Free(h) == h \notin Range(slot) /\ h \notin Range(ready)

Init ==
    /\ slot = Empty /\ events = {} /\ mapped = FALSE /\ polled = {}
    /\ flagged = {} /\ ready = <<>>
    /\ leaving = 0 /\ external = 0 /\ closing = 0 /\ closed = FALSE

-----------------------------------------------------------------------------

\* destroy(): the uv_poll_t is closed, which also stops it.
closeExternalHandle == /\ closing' = closing + 1
                       /\ leaving' = leaving + 1

\* rearm(), for the slots s and the cache as the caller left them.
\* uv_poll_start() does not fail: uv_poll_init() has refused a descriptor that
\* another handle polls, which is its only error.
rearm(s, cached, running) ==
    LET want == Registered(s)
    IN  IF want = cached
        THEN /\ events' = cached /\ polled' = running /\ mapped' = TRUE
             /\ UNCHANGED <<closing, leaving>>
        ELSE /\ events' = want /\ polled' = want /\ mapped' = (want # {})
             /\ IF want = {} THEN closeExternalHandle ELSE UNCHANGED <<closing, leaving>>

\* Mutant: the handle that is replaced is not cancelled.
addKeepsOld(d, h) ==
    /\ ~closed /\ Free(h)
    /\ external' = IF mapped THEN external ELSE external + 1
    /\ slot' = [slot EXCEPT ![d] = h]
    /\ flagged' = flagged \ {h}
    /\ rearm(slot', events, polled)
    /\ UNCHANGED <<ready, closed>>

\* add(): get() makes the poller, which no event is asked of yet.
add(d, h) ==
    /\ ~closed /\ Free(h)
    /\ external' = IF mapped THEN external ELSE external + 1
    /\ slot' = [slot EXCEPT ![d] = h]
    /\ flagged' = (flagged \cup ({slot[d]} \ {Nothing})) \ {h}
    /\ rearm(slot', events, polled)
    /\ UNCHANGED <<ready, closed>>

\* add() when the map cannot grow: the poller just made is closed again.
addNoMemory ==
    /\ ~closed /\ ~mapped
    /\ leaving < MaxClosing
    /\ external' = external + 1
    /\ closeExternalHandle
    /\ UNCHANGED <<slot, events, mapped, polled, flagged, ready, closed>>

remove(d) ==
    /\ mapped /\ slot[d] # Nothing
    /\ leaving < MaxClosing
    /\ slot' = [slot EXCEPT ![d] = Nothing]
    /\ flagged' = flagged \cup {slot[d]}
    /\ rearm(slot', events, polled)
    /\ UNCHANGED <<ready, external, closed>>

\* schedule() for the directions in fired, the reader first.
schedule(fired) ==
    LET live(d) == IF d \in fired /\ slot[d] # Nothing /\ slot[d] \notin flagged
                   THEN <<slot[d]>> ELSE <<>>
    IN  /\ Len(ready) < MaxQueue
        /\ ready' = ready \o live("reader") \o live("writer")

onPoll(fired) ==
    /\ fired # {} /\ fired \subseteq polled
    /\ schedule(fired)
    /\ UNCHANGED <<slot, events, mapped, polled, flagged, leaving, external, closing, closed>>

\* Mutant: the cache goes on claiming that the descriptor is polled.
onPollErrorCached ==
    /\ polled # {}
    /\ schedule(Directions)
    /\ rearm(slot, events, {})
    /\ UNCHANGED <<slot, flagged, external, closed>>

\* libuv stops the poll before it reports an error.
onPollError ==
    /\ polled # {}
    /\ schedule(Directions)
    /\ rearm(slot, {}, {})
    /\ UNCHANGED <<slot, flagged, external, closed>>

\* runOne for the handle at the head of the ready queue.
run ==
    /\ ready # <<>>
    /\ ready' = Tail(ready)
    /\ UNCHANGED <<slot, events, mapped, polled, flagged, leaving, external, closing, closed>>

onClosed ==
    /\ leaving > 0
    /\ leaving' = leaving - 1
    /\ external' = external - 1 /\ closing' = closing - 1
    /\ UNCHANGED <<slot, events, mapped, polled, flagged, ready, closed>>

\* closeLoop() drops the ready queue, then closeAll() destroys the poller.
closeAll ==
    /\ ~closed
    /\ closed' = TRUE
    /\ ready' = <<>>
    /\ slot' = Empty
    /\ flagged' = flagged \cup (Range(slot) \ {Nothing})
    /\ mapped' = FALSE /\ polled' = {} /\ events' = {}
    /\ IF mapped THEN closeExternalHandle ELSE UNCHANGED <<closing, leaving>>
    /\ UNCHANGED external

Next ==
    \/ \E d \in Directions, h \in Handles : add(d, h)
    \/ \E d \in Directions : remove(d)
    \/ addNoMemory
    \/ \E fired \in SUBSET Directions : onPoll(fired)
    \/ onPollError
    \/ run
    \/ onClosed
    \/ closeAll

Spec == Init /\ [][Next]_vars

-----------------------------------------------------------------------------
(* Properties.                                                             *)

\* A descriptor is polled for exactly what is registered on it, and the cache
\* rearm() compares with says so - after a poll error, too, which stops the
\* poll behind the cache's back.  The two counters that closeAllHandles() asserts
\* to be zero count the pollers that exist and those that are closing.
PollMatchesSlots ==
    /\ mapped <=> Registered(slot) # {}
    /\ polled = Registered(slot)
    /\ mapped => events = polled
    /\ closing = leaving /\ external = leaving + (IF mapped THEN 1 ELSE 0)

\* A queued callback that is not cancelled is still the one registered: once
\* remove_reader() has returned, or a second add_reader() has replaced it, a
\* callback that was already queued does not run.
QueuedIsRegistered ==
    /\ \A h \in Range(ready) \ flagged : h \in Range(slot)
    /\ Range(slot) \cap flagged = {}

=============================================================================
