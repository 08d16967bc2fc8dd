--------------------------- MODULE SockOpsProofs ----------------------------
(***************************************************************************)
(* Proofs about Poller and SockOps, for any number of handles and of       *)
(* sock_*() operations, and queues of any length.  The operations use the  *)
(* poller through its own calls only, so every step of SockNext is a step  *)
(* of Poller or leaves it alone; what is an invariant of Poller is then an *)
(* invariant of both.                                                      *)
(***************************************************************************)
EXTENDS SockOps, TLAPS

Types ==
    /\ slot \in [Directions -> Handles \cup {Nothing}]
    /\ events \in SUBSET Directions /\ polled \in SUBSET Directions
    /\ flagged \in SUBSET Handles
    /\ ready \in Seq(Handles)
    /\ leaving \in Nat /\ external \in Nat /\ closing \in Nat

\* A handle is registered for one direction; the cache agrees with the poll even
\* when there is no poller, because the next one starts from it.
Apart == slot["reader"] = slot["writer"] => slot["reader"] = Nothing
Inv == Types /\ Apart /\ events = polled /\ PollMatchesSlots /\ QueuedIsRegistered

\* A table that is empty is in order.
LEMMA InitInv == Init => Inv
<1> SUFFICES ASSUME Init PROVE Inv
  OBVIOUS
<1>1. Types
  BY DEF Init, Types, Empty, Directions
<1>2. Apart /\ events = polled
  BY DEF Init, Apart, Empty, Directions
<1>3. PollMatchesSlots
  BY DEF Init, PollMatchesSlots, Empty, Registered
<1>4. QueuedIsRegistered
  BY DEF Init, QueuedIsRegistered, Range, Empty
<1> QED BY <1>1, <1>2, <1>3, <1>4 DEF Inv

\* What a sequence holds after another one is put behind it.
LEMMA RangeConcat ==
    ASSUME NEW S, NEW a \in Seq(S), NEW b \in Seq(S)
    PROVE  a \o b \in Seq(S) /\ Range(a \o b) = Range(a) \cup Range(b)
<1>1. a \o b \in Seq(S) /\ Len(a \o b) = Len(a) + Len(b)
  OBVIOUS
<1>2. Range(a \o b) \subseteq Range(a) \cup Range(b)
  <2> SUFFICES ASSUME NEW i \in 1 .. Len(a) + Len(b) PROVE (a \o b)[i] \in Range(a) \cup Range(b)
    BY <1>1 DEF Range
  <2>1. CASE i <= Len(a)
    BY <2>1 DEF Range
  <2>2. CASE i > Len(a)
    <3>1. i - Len(a) \in 1 .. Len(b) /\ (a \o b)[i] = b[i - Len(a)]
      BY <2>2
    <3> QED BY <3>1 DEF Range
  <2> QED BY <2>1, <2>2
<1>3. Range(a) \subseteq Range(a \o b)
  <2> SUFFICES ASSUME NEW i \in 1 .. Len(a) PROVE a[i] \in Range(a \o b)
    BY SMTT(60) DEF Range
  <2>1. i \in 1 .. Len(a) + Len(b) /\ (a \o b)[i] = a[i]
    BY SMTT(30)
  <2> QED BY <1>1, <2>1 DEF Range
<1>4. Range(b) \subseteq Range(a \o b)
  <2> SUFFICES ASSUME NEW i \in 1 .. Len(b) PROVE b[i] \in Range(a \o b)
    BY SMTT(60) DEF Range
  <2>1. i + Len(a) \in 1 .. Len(a) + Len(b) /\ (a \o b)[i + Len(a)] = b[i]
    BY SMTT(30)
  <2> QED BY <1>1, <2>1 DEF Range
<1> QED BY <1>1, <1>2, <1>3, <1>4

\* What is left when the first element is taken off.
LEMMA RangeTail ==
    ASSUME NEW S, NEW a \in Seq(S), a # <<>>
    PROVE  Tail(a) \in Seq(S) /\ Range(Tail(a)) \subseteq Range(a)
<1>1. Tail(a) \in Seq(S) /\ Len(Tail(a)) = Len(a) - 1
  OBVIOUS
<1>2. ASSUME NEW i \in 1 .. Len(a) - 1 PROVE Tail(a)[i] = a[i + 1] /\ i + 1 \in 1 .. Len(a)
  OBVIOUS
<1> QED BY <1>1, <1>2 DEF Range

\* rearm() leaves the cache and the poll with what is registered, and counts the
\* poller it closes.  The cache is out of date, or something is registered.
LEMMA Rearms ==
    ASSUME NEW s, NEW cached, rearm(s, cached, cached), Registered(s) # {} \/ cached # {},
           leaving \in Nat, closing = leaving
    PROVE  /\ events' = Registered(s) /\ polled' = Registered(s)
           /\ mapped' <=> Registered(s) # {}
           /\ leaving' \in Nat /\ closing' = leaving'
           /\ leaving' = leaving + (IF Registered(s) # {} THEN 0 ELSE 1)
<1>1. CASE Registered(s) = cached
  <2>1. events' = cached /\ polled' = cached /\ closing' = closing /\ leaving' = leaving
    BY <1>1 DEF rearm
  <2>2. mapped'
    BY <1>1, Zenon DEF rearm
  <2> QED BY <1>1, <2>1, <2>2
<1>2. CASE Registered(s) # cached
  <2>1. events' = Registered(s) /\ polled' = Registered(s)
    BY <1>2 DEF rearm
  <2>2. mapped' <=> Registered(s) # {}
    BY <1>2, Zenon DEF rearm
  <2>3. CASE Registered(s) = {}
    BY <1>2, <2>1, <2>2, <2>3 DEF rearm, closeExternalHandle
  <2>4. CASE Registered(s) # {}
    BY <1>2, <2>1, <2>2, <2>4 DEF rearm
  <2> QED BY <2>3, <2>4
<1> QED BY <1>1, <1>2

\* add() registers a handle that nothing refers to and cancels the one it replaces.
LEMMA AddInv == ASSUME Inv, NEW d \in Directions, NEW h \in Handles, add(d, h) PROVE Inv'
<1>1. /\ slot' = [slot EXCEPT ![d] = h] /\ ready' = ready
      /\ flagged' = (flagged \cup ({slot[d]} \ {Nothing})) \ {h}
      /\ rearm(slot', events, events)
      /\ external' = IF mapped THEN external ELSE external + 1
      /\ h \notin Range(slot) /\ h \notin Range(ready) /\ h # Nothing
  BY NothingAssumption DEF add, Free, Inv
<1>2. slot' \in [Directions -> Handles \cup {Nothing}] /\ flagged' \in SUBSET Handles
  BY <1>1 DEF Inv, Types
<1>3. Registered(slot') # {} /\ Registered(slot') \subseteq Directions
  BY <1>1 DEF Registered, Inv, Types
<1>4. /\ events' = Registered(slot') /\ polled' = Registered(slot') /\ mapped'
      /\ leaving' = leaving /\ closing' = leaving
  <2>1. leaving \in Nat /\ closing = leaving
    BY DEF Inv, Types, PollMatchesSlots
  <2>2. /\ events' = Registered(slot') /\ polled' = Registered(slot')
        /\ mapped' <=> Registered(slot') # {}
        /\ closing' = leaving'
        /\ leaving' = leaving + (IF Registered(slot') # {} THEN 0 ELSE 1)
    BY <1>1, <1>3, <2>1, Rearms
  <2> QED BY <1>3, <2>1, <2>2
<1>5. external' = leaving' + 1 /\ external' \in Nat
  BY <1>1, <1>4 DEF Inv, Types, PollMatchesSlots
<1>6. Types'
  BY <1>1, <1>2, <1>3, <1>4, <1>5 DEF Inv, Types
<1>7. PollMatchesSlots' /\ (events = polled)'
  BY <1>3, <1>4, <1>5 DEF PollMatchesSlots
<1>8. Apart'
  BY <1>1 DEF Inv, Types, Apart, Directions, Range
<1>9. QueuedIsRegistered'
  <2>1. ASSUME NEW e \in Directions PROVE slot'[e] \notin flagged'
    <3>1. CASE e = d
      BY <1>1, <3>1 DEF Inv, Types
    <3>2. CASE e # d
      <4>1. slot'[e] = slot[e] /\ slot[e] \in Range(slot)
        BY <1>1, <3>2 DEF Inv, Types, Range
      <4>2. slot[e] # slot[d] \/ slot[d] = Nothing
        BY <3>2 DEF Inv, Apart, Directions
      <4> QED BY <1>1, <4>1, <4>2 DEF Inv, QueuedIsRegistered
    <3> QED BY <3>1, <3>2
  <2>2. ASSUME NEW k \in Range(ready), k \notin flagged' PROVE k \in Range(slot')
    <3>1. k # h /\ k \notin flagged
      BY <1>1, <2>2
    <3>2. PICK e \in Directions : k = slot[e]
      BY <3>1 DEF Inv, Types, QueuedIsRegistered, Range
    <3>3. k \in Handles
      BY DEF Inv, Types, Range
    <3>4. e # d
      BY <1>1, <2>2, <3>1, <3>2, <3>3, NothingAssumption
    <3> QED BY <1>1, <3>2, <3>4 DEF Inv, Types, Range
  <2> QED BY <1>1, <1>2, <2>1, <2>2 DEF QueuedIsRegistered, Range
<1> QED BY <1>6, <1>7, <1>8, <1>9 DEF Inv

\* remove() cancels the handle it takes out of its slot.
LEMMA RemoveInv == ASSUME Inv, NEW d \in Directions, remove(d) PROVE Inv'
<1>1. /\ slot' = [slot EXCEPT ![d] = Nothing] /\ ready' = ready /\ external' = external
      /\ flagged' = flagged \cup {slot[d]} /\ slot[d] # Nothing
      /\ rearm(slot', events, events) /\ mapped
  BY DEF remove, Inv
<1>2. slot' \in [Directions -> Handles \cup {Nothing}] /\ flagged' \in SUBSET Handles
  BY <1>1 DEF Inv, Types
<1>3. events # {} /\ Registered(slot') \subseteq Directions
  BY <1>1 DEF Registered, Inv, Types, PollMatchesSlots
<1>4. /\ events' = Registered(slot') /\ polled' = Registered(slot')
      /\ mapped' <=> Registered(slot') # {}
      /\ leaving' \in Nat /\ closing' = leaving'
      /\ leaving' = leaving + (IF Registered(slot') # {} THEN 0 ELSE 1)
  BY <1>1, <1>3, Rearms DEF Inv, Types, PollMatchesSlots
<1>5. external' = leaving' + (IF Registered(slot') # {} THEN 1 ELSE 0) /\ external' \in Nat
  BY <1>1, <1>4 DEF Inv, Types, PollMatchesSlots
<1>6. Types'
  BY <1>1, <1>2, <1>3, <1>4, <1>5 DEF Inv, Types
<1>7. PollMatchesSlots' /\ (events = polled)'
  BY <1>3, <1>4, <1>5 DEF PollMatchesSlots
<1>8. Apart'
  BY <1>1 DEF Inv, Types, Apart, Directions
<1>9. QueuedIsRegistered'
  <2>1. ASSUME NEW e \in Directions PROVE slot'[e] \notin flagged'
    <3>1. CASE e = d
      BY <1>1, <1>2, <3>1, NothingAssumption DEF Inv, Types
    <3>2. CASE e # d
      <4>1. slot'[e] = slot[e] /\ slot[e] \in Range(slot)
        BY <1>1, <3>2 DEF Inv, Types, Range
      <4>2. slot[e] # slot[d]
        BY <1>1, <3>2 DEF Inv, Apart, Directions
      <4> QED BY <1>1, <4>1, <4>2 DEF Inv, QueuedIsRegistered
    <3> QED BY <3>1, <3>2
  <2>2. ASSUME NEW k \in Range(ready), k \notin flagged' PROVE k \in Range(slot')
    <3>1. PICK e \in Directions : k = slot[e]
      BY <1>1, <2>2 DEF Inv, Types, QueuedIsRegistered, Range
    <3>2. e # d
      BY <1>1, <2>2, <3>1
    <3> QED BY <1>1, <3>1, <3>2 DEF Inv, Types, Range
  <2> QED BY <1>1, <1>2, <2>1, <2>2 DEF QueuedIsRegistered, Range
<1> QED BY <1>6, <1>7, <1>8, <1>9 DEF Inv

\* A poll event queues handles that are registered and not cancelled.
LEMMA Schedules ==
    ASSUME Inv, NEW fired \in SUBSET Directions, schedule(fired)
    PROVE  /\ ready' \in Seq(Handles)
           /\ Range(ready') \subseteq Range(ready) \cup Range(slot)
<1> DEFINE live(d) == IF d \in fired /\ slot[d] # Nothing /\ slot[d] \notin flagged
                      THEN <<slot[d]>> ELSE <<>>
<1>1. ASSUME NEW d \in Directions
      PROVE  live(d) \in Seq(Handles) /\ Range(live(d)) \subseteq Range(slot)
  <2>1. CASE live(d) = <<>>
    BY <2>1 DEF Range
  <2>2. CASE live(d) = <<slot[d]>> /\ slot[d] # Nothing
    <3>1. slot[d] \in Handles /\ slot[d] \in Range(slot)
      BY <2>2 DEF Inv, Types, Range
    <3> HIDE DEF live
    <3> QED BY <2>2, <3>1 DEF Range
  <2> QED BY <2>1, <2>2
<1>2. ready' = (ready \o live("reader")) \o live("writer")
  BY Zenon DEF schedule
<1>3. {"reader", "writer"} = Directions /\ ready \in Seq(Handles)
  BY DEF Directions, Inv, Types
<1> HIDE DEF live
<1>4. /\ ready \o live("reader") \in Seq(Handles)
      /\ Range(ready \o live("reader")) \subseteq Range(ready) \cup Range(slot)
  BY <1>1, <1>2, <1>3, RangeConcat
<1>5. /\ ready' \in Seq(Handles)
      /\ Range(ready') = Range(ready \o live("reader")) \cup Range(live("writer"))
  <2>1. live("writer") \in Seq(Handles)
    BY <1>1, <1>3
  <2> DEFINE first == ready \o live("reader")
  <2> HIDE DEF first
  <2>2. first \in Seq(Handles) /\ ready' = first \o live("writer")
    BY <1>2, <1>4 DEF first
  <2>3. ready' \in Seq(Handles) /\ Range(ready') = Range(first) \cup Range(live("writer"))
    BY <2>1, <2>2, RangeConcat
  <2> QED BY <2>3 DEF first
<1> QED BY <1>1, <1>3, <1>4, <1>5

\* A step that leaves the slots and the poll as they are.
LEMMA QueueInv ==
    ASSUME Inv, ready' \in Seq(Handles), Range(ready') \subseteq Range(ready) \cup Range(slot),
           UNCHANGED <<slot, events, mapped, polled, flagged, leaving, external, closing>>
    PROVE  Inv'
<1>1. Types' /\ Apart' /\ (events = polled)'
  BY DEF Inv, Types, Apart
<1>2. PollMatchesSlots'
  BY Zenon DEF Inv, PollMatchesSlots, Registered
<1>3. QueuedIsRegistered'
  BY DEF Inv, QueuedIsRegistered
<1> QED BY <1>1, <1>2, <1>3 DEF Inv

\* A step that makes or forgets a poller that has no slots, and counts it.
LEMMA CountInv ==
    ASSUME Inv, UNCHANGED <<slot, events, mapped, polled, flagged, ready>>,
           NEW k \in {-1, 1}, leaving + k >= 0,
           leaving' = leaving + k, closing' = closing + k, external' = external + k
    PROVE  Inv'
<1> DEFINE one == IF mapped THEN 1 ELSE 0
<1>1. /\ leaving \in Nat /\ closing = leaving /\ external = leaving + one /\ one \in Nat
      /\ mapped <=> Registered(slot) # {}
      /\ polled = Registered(slot) /\ events = polled
  BY DEF Inv, Types, PollMatchesSlots
<1> HIDE DEF one
<1>2. closing' = leaving' /\ leaving' \in Nat /\ external' = leaving' + one /\ external' \in Nat
  BY <1>1
<1>3. Types' /\ Apart' /\ (events = polled)'
  BY <1>2 DEF Inv, Types, Apart
<1>4. PollMatchesSlots'
  BY <1>1, <1>2, Zenon DEF PollMatchesSlots, one
<1>5. QueuedIsRegistered'
  BY DEF Inv, QueuedIsRegistered
<1> QED BY <1>3, <1>4, <1>5 DEF Inv

\* An error stops the poll, and rearm() starts it again.
LEMMA ErrorInv == ASSUME Inv, onPollError PROVE Inv'
<1>1. /\ polled = Registered(slot) /\ polled # {} /\ leaving \in Nat /\ closing = leaving
      /\ rearm(slot, {}, {}) /\ schedule(Directions) /\ UNCHANGED <<slot, flagged, external>>
  BY DEF onPollError, Inv, Types, PollMatchesSlots
<1>2. /\ events' = Registered(slot) /\ polled' = Registered(slot)
      /\ mapped' <=> Registered(slot) # {}
      /\ closing' = leaving'
      /\ leaving' = leaving + (IF Registered(slot) # {} THEN 0 ELSE 1)
  BY <1>1, Rearms
<1>3. mapped' /\ mapped /\ leaving' = leaving /\ closing' = leaving
  BY <1>1, <1>2 DEF Inv, PollMatchesSlots
<1>4. ready' \in Seq(Handles) /\ Range(ready') \subseteq Range(ready) \cup Range(slot)
  BY <1>1, Schedules
<1>5. Types' /\ Apart' /\ (events = polled)'
  BY <1>1, <1>2, <1>3, <1>4 DEF Inv, Types, Apart
<1>6. PollMatchesSlots'
  <2>1. external = leaving + 1
    BY <1>3 DEF Inv, PollMatchesSlots
  <2>2. Registered(slot') = Registered(slot)
    BY <1>1
  <2> QED BY <1>1, <1>2, <1>3, <2>1, <2>2 DEF PollMatchesSlots
<1>7. QueuedIsRegistered'
  BY <1>1, <1>4 DEF Inv, QueuedIsRegistered
<1> QED BY <1>5, <1>6, <1>7 DEF Inv

\* closeAll() cancels what is registered and closes the poller.
LEMMA CloseAllInv == ASSUME Inv, closeAll PROVE Inv'
<1>1. /\ ready' = <<>> /\ slot' = Empty /\ events' = {} /\ polled' = {} /\ ~mapped'
      /\ flagged' = flagged \cup (Range(slot) \ {Nothing}) /\ external' = external
  BY Zenon DEF closeAll
<1>2. Range(slot) \subseteq Handles \cup {Nothing}
  BY DEF Inv, Types, Range
<1>3. /\ closing' = leaving' /\ leaving' \in Nat
      /\ external' = leaving' + 0 /\ external' \in Nat
  <2>1. /\ closing = leaving /\ leaving \in Nat
        /\ external = leaving + (IF mapped THEN 1 ELSE 0)
    BY DEF Inv, Types, PollMatchesSlots
  <2>2. CASE mapped
    BY <1>1, <2>1, <2>2 DEF closeAll, closeExternalHandle
  <2>3. CASE ~mapped
    BY <1>1, <2>1, <2>3 DEF closeAll
  <2> QED BY <2>2, <2>3
<1>4. Types' /\ Apart' /\ (events = polled)'
  <2>1. slot' \in [Directions -> Handles \cup {Nothing}] /\ slot'["reader"] = Nothing
    BY <1>1 DEF Empty, Directions
  <2>2. flagged' \in SUBSET Handles /\ ready' \in Seq(Handles)
    BY <1>1, <1>2 DEF Inv, Types
  <2>3. closing' \in Nat
    BY <1>3
  <2> QED BY <1>1, <1>3, <2>1, <2>2, <2>3 DEF Types, Apart
<1>5. PollMatchesSlots'
  <2>1. Registered(slot') = {}
    BY <1>1 DEF Registered, Empty
  <2>2. (IF mapped' THEN 1 ELSE 0) = 0
    BY <1>1
  <2> QED BY <1>1, <1>3, <2>1, <2>2, Zenon DEF PollMatchesSlots
<1>6. QueuedIsRegistered'
  <2>1. Range(ready') = {}
    BY <1>1 DEF Range
  <2>2. Range(slot') \subseteq {Nothing}
    BY <1>1 DEF Range, Empty
  <2> QED BY <1>4, <2>1, <2>2, NothingAssumption DEF QueuedIsRegistered, Types
<1> QED BY <1>4, <1>5, <1>6 DEF Inv

\* Every step of the poller keeps it.
LEMMA StepInv == Inv /\ [Next]_vars => Inv'
<1> SUFFICES ASSUME Inv, [Next]_vars PROVE Inv'
  OBVIOUS
<1>1. ASSUME NEW d \in Directions, NEW h \in Handles, add(d, h) PROVE Inv'
  BY <1>1, AddInv
<1>2. ASSUME NEW d \in Directions, remove(d) PROVE Inv'
  BY <1>2, RemoveInv
<1>3. CASE addNoMemory
  BY <1>3, CountInv DEF addNoMemory, closeExternalHandle, Inv, Types, PollMatchesSlots
<1>4. ASSUME NEW fired \in SUBSET Directions, onPoll(fired) PROVE Inv'
  BY <1>4, Schedules, QueueInv DEF onPoll
<1>5. CASE onPollError
  BY <1>5, ErrorInv
<1>6. CASE run
  <2>1. ready \in Seq(Handles) /\ ready # <<>> /\ ready' = Tail(ready)
    BY <1>6 DEF run, Inv, Types
  <2>2. ready' \in Seq(Handles) /\ Range(ready') \subseteq Range(ready)
    BY <2>1, RangeTail
  <2> QED BY <1>6, <2>2, QueueInv DEF run
<1>7. CASE onClosed
  BY <1>7, CountInv DEF onClosed, Inv, Types, PollMatchesSlots
<1>8. CASE closeAll
  BY <1>8, CloseAllInv
<1>9. CASE UNCHANGED vars
  <2>1. ready' \in Seq(Handles) /\ Range(ready') \subseteq Range(ready)
    BY <1>9 DEF vars, Inv, Types
  <2> QED BY <1>9, <2>1, QueueInv DEF vars
<1> QED BY <1>1, <1>2, <1>3, <1>4, <1>5, <1>6, <1>7, <1>8, <1>9 DEF Next

\* Whatever the program does with add_reader() and its siblings, and however the
\* events, errors and close callbacks come, the descriptor is polled for what is
\* registered and the counters are exact.
THEOREM PollerCorrect == Spec => [](PollMatchesSlots /\ QueuedIsRegistered)
<1>1. Inv => PollMatchesSlots /\ QueuedIsRegistered
  BY DEF Inv
<1> QED BY <1>1, InitInv, StepInv, PTL DEF Spec

-----------------------------------------------------------------------------
(* The sock_*() operations.                                                *)

SockTypes ==
    /\ op \in [Ops -> {"idle", "waiting", "settled", "leaving"}]
    /\ dir \in [Ops -> Directions]
    /\ sock_watchers \in [Directions -> Ops \cup {Nothing}]
    /\ owner \in [Handles -> Ops \cup {Nothing, Program}]

SockInv == Inv /\ SockTypes /\ WaiterIsWatched

\* Every step of an operation is a step of the poller or none of its business.
LEMMA StepsOfPoller == ASSUME Inv, SockTypes, [SockNext]_allVars PROVE [Next]_vars
<1>1. CASE UNCHANGED vars
  BY <1>1
<1>2. ASSUME NEW d \in Directions, NEW h \in Handles, add(d, h) PROVE Next
  BY <1>2 DEF Next
<1>3. ASSUME NEW d \in Directions, remove(d) PROVE Next
  BY <1>3 DEF Next
<1>4. CASE addNoMemory \/ onPollError \/ run \/ onClosed \/ closeAll
  BY <1>4 DEF Next
<1>5. ASSUME NEW o \in Ops, NEW d \in Directions, StartReady(o, d) \/ StartRaises(o, d)
      PROVE [Next]_vars
  BY <1>1, <1>4, <1>5 DEF StartReady, StartRaises
<1>6. ASSUME NEW o \in Ops, NEW d \in Directions, NEW h \in Handles, StartWatching(o, d, h)
      PROVE [Next]_vars
  BY <1>2, <1>6 DEF StartWatching
<1>7. ASSUME NEW o \in Ops, Cancel(o) \/ Resume(o) PROVE [Next]_vars
  <2>1. dir[o] \in Directions
    BY DEF SockTypes
  <2> QED BY <1>1, <1>3, <1>7, <2>1 DEF Cancel, Resume
<1>8. ASSUME NEW d \in Directions, NEW h \in Handles, ProgramAdd(d, h) PROVE [Next]_vars
  BY <1>2, <1>8 DEF ProgramAdd
<1>9. ASSUME NEW d \in Directions, ProgramRemove(d) \/ Arrives(d) PROVE [Next]_vars
  BY <1>1, <1>3, <1>9 DEF ProgramRemove, Arrives
<1>10. CASE Polls
  <2>1. polled \cap avail \in SUBSET Directions
    BY DEF Inv, Types
  <2> QED BY <1>10, <2>1 DEF Polls, Next
<1>11. CASE RunCallback \/ PollFails \/ Closes \/ CloseLoop
  BY <1>4, <1>11 DEF RunCallback, PollFails, Closes, CloseLoop
<1>12. CASE UNCHANGED allVars
  BY <1>1, <1>12 DEF allVars
<1> QED BY <1>5, <1>6, <1>7, <1>8, <1>9, <1>10, <1>11, <1>12 DEF SockNext

\* A waiting task stays watched when its slot, its token and its handle's owner
\* stay, or its token goes, or it stops waiting.
LEMMA StillWatched ==
    ASSUME WaiterIsWatched, mixed' = mixed, closed => closed',
           \A o \in Ops : op'[o] = "waiting" /\ sock_watchers'[dir'[o]] = o =>
               /\ op[o] = "waiting" /\ dir'[o] = dir[o] /\ sock_watchers[dir[o]] = o
               /\ slot[dir[o]] # Nothing => slot'[dir[o]] = slot[dir[o]] /\ owner'[slot[dir[o]]] = owner[slot[dir[o]]]
    PROVE  WaiterIsWatched'
  BY DEF WaiterIsWatched

\* Every step of an operation keeps it.
LEMMA SockStepInv == SockInv /\ [SockNext]_allVars => SockInv'
<1> SUFFICES ASSUME SockInv, [SockNext]_allVars PROVE SockInv'
  OBVIOUS
<1> USE DEF SockInv
<1>1. Inv'
  BY StepsOfPoller, StepInv
<1>2. SockTypes' /\ WaiterIsWatched'
  <2>1. ASSUME NEW o \in Ops, NEW d \in Directions, StartReady(o, d) PROVE SockTypes' /\ WaiterIsWatched'
    BY <2>1, StillWatched DEF StartReady, SockTypes, vars
  <2>2. ASSUME NEW o \in Ops, NEW d \in Directions, StartRaises(o, d) PROVE SockTypes' /\ WaiterIsWatched'
    <3>1. UNCHANGED <<slot, op, dir, owner, mixed, closed>> /\ op[o] = "idle"
          /\ sock_watchers' = [sock_watchers EXCEPT ![d] = o]
      BY <2>2 DEF StartRaises, addNoMemory, vars
    <3>2. SockTypes'
      BY <3>1 DEF SockTypes
    <3> QED BY <3>1, <3>2, StillWatched DEF SockTypes
  <2>3. ASSUME NEW o \in Ops, NEW d \in Directions, NEW h \in Handles, StartWatching(o, d, h)
        PROVE SockTypes' /\ WaiterIsWatched'
    <3>1. /\ op' = [op EXCEPT ![o] = "waiting"] /\ dir' = [dir EXCEPT ![o] = d]
          /\ sock_watchers' = [sock_watchers EXCEPT ![d] = o] /\ owner' = [owner EXCEPT ![h] = o]
          /\ slot' = [slot EXCEPT ![d] = h] /\ UNCHANGED <<mixed, closed>>
          /\ h \notin Range(slot) /\ op[o] = "idle" /\ h # Nothing
      BY <2>3, NothingAssumption DEF StartWatching, add, Free
    <3>2. SockTypes'
      BY <3>1 DEF SockTypes
    <3>3. ASSUME NEW p \in Ops, op'[p] = "waiting", sock_watchers'[dir'[p]] = p, ~mixed, ~closed
          PROVE slot'[dir'[p]] # Nothing /\ owner'[slot'[dir'[p]]] = p
      <4>1. CASE p = o
        BY <3>1, <4>1 DEF SockTypes, Inv, Types
      <4>2. CASE p # o
        <5>1. op[p] = "waiting" /\ dir'[p] = dir[p] /\ dir[p] \in Directions
          BY <3>1, <3>3, <4>2 DEF SockTypes
        <5>2. dir[p] # d /\ sock_watchers[dir[p]] = p
          BY <3>1, <3>3, <4>2, <5>1 DEF SockTypes
        <5>3. slot[dir[p]] # Nothing /\ owner[slot[dir[p]]] = p
          BY <3>3, <5>1, <5>2 DEF WaiterIsWatched
        <5>4. slot'[dir[p]] = slot[dir[p]] /\ slot[dir[p]] # h /\ slot[dir[p]] \in Handles
          BY <3>1, <5>1, <5>2, <5>3 DEF Inv, Types, Range
        <5> QED BY <3>1, <5>1, <5>3, <5>4 DEF SockTypes
      <4> QED BY <4>1, <4>2
    <3> QED BY <3>1, <3>2, <3>3 DEF WaiterIsWatched
  <2>4. ASSUME NEW o \in Ops, Cancel(o) PROVE SockTypes' /\ WaiterIsWatched'
    <3>1. op' = [op EXCEPT ![o] = "leaving"] /\ UNCHANGED <<slot, dir, sock_watchers, owner, mixed, closed>>
      BY <2>4 DEF Cancel, vars
    <3>2. SockTypes'
      BY <3>1 DEF SockTypes
    <3> QED BY <3>1, <3>2, StillWatched DEF SockTypes
  <2>5. ASSUME NEW o \in Ops, Resume(o) PROVE SockTypes' /\ WaiterIsWatched'
    <3>1. op' = [op EXCEPT ![o] = "idle"] /\ UNCHANGED <<dir, owner, mixed, closed>> /\ dir[o] \in Directions
      BY <2>5 DEF Resume, remove, vars, SockTypes
    <3>2. CASE UNCHANGED <<slot, sock_watchers>>
      <4>1. SockTypes'
        BY <3>1, <3>2 DEF SockTypes
      <4> QED BY <3>1, <3>2, <4>1, StillWatched DEF SockTypes
    <3>3. CASE /\ sock_watchers[dir[o]] = o /\ sock_watchers' = [sock_watchers EXCEPT ![dir[o]] = Nothing]
               /\ slot' = slot \/ slot' = [slot EXCEPT ![dir[o]] = Nothing]
      <4>1. SockTypes'
        BY <3>1, <3>3 DEF SockTypes
      <4>2. ASSUME NEW p \in Ops, op'[p] = "waiting", sock_watchers'[dir'[p]] = p
            PROVE  /\ op[p] = "waiting" /\ dir'[p] = dir[p] /\ sock_watchers[dir[p]] = p
                   /\ slot'[dir[p]] = slot[dir[p]]
        <5>1. p # o /\ op[p] = "waiting" /\ dir'[p] = dir[p] /\ dir[p] \in Directions
          BY <3>1, <4>2 DEF SockTypes
        <5>2. dir[p] # dir[o] /\ sock_watchers[dir[p]] = p
          BY <3>1, <3>3, <4>2, <5>1, OpsAssumption DEF SockTypes
        <5> QED BY <3>1, <3>3, <5>1, <5>2 DEF Inv, Types
      <4> QED BY <3>1, <4>1, <4>2, StillWatched
    <3> QED BY <2>5, <3>1, <3>2, <3>3 DEF Resume, remove, vars
  <2>6. CASE RunCallback
    <3>1. UNCHANGED <<slot, dir, sock_watchers, owner, mixed, closed>>
      BY <2>6 DEF RunCallback, run
    <3>2. op' = op \/ (\E o \in Ops : op' = [op EXCEPT ![o] = "settled"])
      BY <2>6 DEF RunCallback
    <3>3. SockTypes'
      BY <3>1, <3>2 DEF SockTypes
    <3> QED BY <3>1, <3>2, <3>3, StillWatched DEF SockTypes
  <2>7. ASSUME NEW d \in Directions, NEW h \in Handles, ProgramAdd(d, h) PROVE SockTypes' /\ WaiterIsWatched'
    BY <2>7 DEF ProgramAdd, SockTypes, WaiterIsWatched
  <2>8. ASSUME NEW d \in Directions, ProgramRemove(d) PROVE SockTypes' /\ WaiterIsWatched'
    BY <2>8 DEF ProgramRemove, sockVars, SockTypes, WaiterIsWatched
  <2>9. ASSUME UNCHANGED <<slot, op, dir, sock_watchers, owner, mixed, closed>> PROVE SockTypes' /\ WaiterIsWatched'
    BY <2>9, StillWatched DEF SockTypes
  <2>10. ASSUME NEW d \in Directions, Arrives(d) PROVE SockTypes' /\ WaiterIsWatched'
    BY <2>9, <2>10 DEF Arrives, vars
  <2>11. CASE Polls \/ PollFails \/ Closes
    BY <2>9, <2>11 DEF Polls, PollFails, Closes, onPoll, onPollError, onClosed, sockVars
  <2>12. CASE CloseLoop
    <3>1. closed' /\ UNCHANGED <<op, dir, sock_watchers, owner>>
      BY <2>12, Zenon DEF CloseLoop, closeAll, sockVars
    <3> QED BY <3>1 DEF SockTypes, WaiterIsWatched
  <2>13. CASE UNCHANGED allVars
    BY <2>9, <2>13 DEF allVars, vars, sockVars
  <2> QED BY <2>1, <2>2, <2>3, <2>4, <2>5, <2>6, <2>7, <2>8, <2>10, <2>11, <2>12, <2>13 DEF SockNext
<1> QED BY <1>1, <1>2

\* No operation has begun.
LEMMA SockInitInv == SockInit => SockInv
<1> SUFFICES ASSUME SockInit PROVE SockInv
  OBVIOUS
<1>1. Inv
  BY InitInv DEF SockInit
<1>2. SockTypes
  BY DEF SockInit, SockTypes, Directions
<1>3. WaiterIsWatched
  BY DEF SockInit, WaiterIsWatched
<1> QED BY <1>1, <1>2, <1>3 DEF SockInv

\* The sock_*() operations and the program's own watchers, mixed in any order, are
\* a behaviour of the poller: they reach it through add() and remove() only.
THEOREM OperationsArePoller == SockSpec => Spec
<1>1. SockInit => Init
  BY DEF SockInit
<1>2. SockInv /\ [SockNext]_allVars => [Next]_vars
  BY StepsOfPoller DEF SockInv
<1> QED BY <1>1, <1>2, SockInitInv, SockStepInv, PTL DEF SockSpec, Spec

\* The descriptor is polled for exactly what is registered, and the counters that
\* closeAllHandles() asserts are exact, whatever the operations do.
THEOREM PollIsExact == SockSpec => []PollMatchesSlots
<1>1. PollMatchesSlots /\ QueuedIsRegistered => PollMatchesSlots
  OBVIOUS
<1> QED BY <1>1, OperationsArePoller, PollerCorrect, PTL

\* A callback that was queued before remove_reader() or a second add_reader() does
\* not run after it.
THEOREM RemovedDoNotRun == SockSpec => []QueuedIsRegistered
<1>1. PollMatchesSlots /\ QueuedIsRegistered => QueuedIsRegistered
  OBVIOUS
<1> QED BY <1>1, OperationsArePoller, PollerCorrect, PTL

\* The cleanup of an operation that ended never removes the watcher of a later one
\* that waits, for any number of operations on the descriptor.
THEOREM WaitersStayWatched == SockSpec => []WaiterIsWatched
<1>1. SockInv => WaiterIsWatched
  BY DEF SockInv
<1> QED BY <1>1, SockInitInv, SockStepInv, PTL DEF SockSpec
=============================================================================
