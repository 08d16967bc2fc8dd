----------------------------- MODULE LoopProofs -----------------------------
(***************************************************************************)
(* Proofs about the scheduler of the module Loop, for any sets of handles  *)
(* and any limits.  The inductive invariant has three parts, each          *)
(* preserved by every step on its own: the flags are Boolean (TypeFlags);  *)
(* the batch discipline of onIdle and runReady (Batch), which also types   *)
(* the queues and counters; and the control invariant (Control) that ties  *)
(* the queues to the libuv handles and the stop flags to the phase.        *)
(***************************************************************************)
EXTENDS Loop, TLAPS

\* waker_pending says exactly that a wakeup is on its way or being served
WakerInv == ~closed => (waker_pending <=> async_pending \/ phase = "waking")

\* ready work keeps the idle handle active; the exceptions are a collection
\* of due timers that failed, which is followed by nothing but the way out,
\* and a call_soon that failed behind a drained inbox, whose wakeup is still
\* on its way
IdleInv ==
    ready # <<>> /\ ~idle_active =>
        \/ phase \in {"out", "leaving"} \/ (phase = "top" /\ stop_flag)
        \/ async_pending \/ phase = "waking" \/ stranded

\* stop() and captureFatal set both flags, so a drain that goes on after a
\* batch has seen neither
StopInv ==
    /\ phase = "idle" /\ batches # 0 => ~stop_flag /\ ~fatal
    /\ phase \in {"pendingcb", "idle", "batch", "callback"} /\ stop_flag => stopping

PollInv ==
    /\ closed => phase = "out"
    /\ phase \in {"waking", "pollcb"} => woken

Control ==
    /\ WakerInv /\ IdleInv /\ StopInv /\ PollInv
    /\ WakeupNotLost /\ NoSecondWake /\ NeverSleepsOnWork /\ FatalStopsLoop

\* a handle that is closing still counts as open, so neither counter of
\* externalHandleClosed passes below zero
HandleCounts == closing_handles <= external_handles

Batch == TypeQueues /\ TypeCounts /\ HandleCounts /\ BatchExact /\ DrainBounded

IInv == TypeFlags /\ Batch /\ Control

-----------------------------------------------------------------------------
(* Sequences.                                                              *)

\* What is pushed behind the ready queue leaves the batch being run, its
\* first n handles, as it was.
LEMMA AppendKeepsBatch ==
    ASSUME NEW s \in Seq(Callbacks), NEW t \in Seq(Callbacks),
           NEW n \in Nat, n <= Len(s)
    PROVE  /\ s \o t \in Seq(Callbacks)
           /\ n <= Len(s \o t)
           /\ SubSeq(s \o t, 1, n) = SubSeq(s, 1, n)
<1>1. s \o t \in Seq(Callbacks) /\ Len(s \o t) = Len(s) + Len(t)
  OBVIOUS
<1>2. n <= Len(s \o t)
  BY <1>1
<1>3. SubSeq(s \o t, 1, n) = SubSeq(s, 1, n)
  BY <1>1, <1>2
<1> QED
  BY <1>1, <1>2, <1>3

\* What a handler pushes is a sequence of handles.
LEMMA PushedType == Pushed \subseteq Seq(Callbacks)
<1> SUFFICES ASSUME NEW q \in Pushed PROVE q \in Seq(Callbacks)
  OBVIOUS
<1>1. CASE q = <<>>
  BY <1>1
<1>2. ASSUME NEW c \in Native, q = <<c>> PROVE q \in Seq(Callbacks)
  BY <1>2 DEF Callbacks
<1> QED
  BY <1>1, <1>2 DEF Pushed

\* What collectDueTimers moves to the ready queue is a sequence of handles.
LEMMA CollectionsType ==
    ASSUME NEW T \in SUBSET Callbacks, NEW q \in Collections(T)
    PROVE  q \in Seq(Callbacks)
<1>1. PICK n \in 0..Cardinality(T) : q \in [1..n -> T]
  BY DEF Collections
<1>2. n \in Nat
  OBVIOUS
<1> QED
  BY <1>1, <1>2

-----------------------------------------------------------------------------
(* The three parts of the invariant, action by action.                     *)

\* Every handler leaves the flags Boolean.
LEMMA TypeFlagsStep == TypeFlags /\ [Next]_vars => TypeFlags'
<1> SUFFICES ASSUME TypeFlags, [Next]_vars PROVE TypeFlags'
  OBVIOUS
<1> USE DEF TypeFlags, queues, uv, stops, drain, native, sleep, memory
<1>1. ASSUME NEW c \in Soon, CallSoon(c) PROVE TypeFlags'
  BY ZenonT(90), <1>1 DEF CallSoon, InPython, DrainThreadsafe, StartIdle
<1>2. ASSUME NEW c \in Native, CallLater(c) PROVE TypeFlags'
  BY ZenonT(90), <1>2 DEF CallLater, InPython, ArmTimer
<1>3. ASSUME NEW c \in Native, CallLaterDue(c) PROVE TypeFlags'
  BY ZenonT(90), <1>3 DEF CallLaterDue, InPython, PushReady, StartIdle
<1>4. ASSUME NEW q \in Pushed, OpenHandle(q) PROVE TypeFlags'
  BY ZenonT(90), <1>4 DEF OpenHandle, InPython, PushReady, StartIdle
<1>5. CASE CloseHandle
  BY ZenonT(90), <1>5 DEF CloseHandle, InPython, Transports
<1>6. CASE Resolve
  BY ZenonT(90), <1>6 DEF Resolve, InPython
<1>7. CASE Write
  BY ZenonT(90), <1>7 DEF Write, InPython
<1>8. CASE Stop
  BY ZenonT(90), <1>8 DEF Stop, InPython
<1>9. CASE RaiseExit
  BY ZenonT(90), <1>9 DEF RaiseExit, CaptureFatal
<1>10. CASE ProtocolExit
  BY ZenonT(90), <1>10 DEF ProtocolExit, CaptureFatal
<1>11. CASE FlushExit
  BY ZenonT(90), <1>11 DEF FlushExit, CaptureFatal
<1>12. ASSUME NEW c \in Soon, CallSoonThreadsafe(c) PROVE TypeFlags'
  BY ZenonT(90), <1>12 DEF CallSoonThreadsafe
<1>13. ASSUME NEW c \in Native, IoReady(c) PROVE TypeFlags'
  BY ZenonT(90), <1>13 DEF IoReady, PushReady, StartIdle
<1>14. CASE ProtocolCall
  BY ZenonT(90), <1>14 DEF ProtocolCall
<1>15. CASE Resolved
  BY ZenonT(90), <1>15 DEF Resolved
<1>16. CASE CallSoonNoMemory
  BY ZenonT(90), <1>16 DEF CallSoonNoMemory, InPython
<1>17. CASE OnWakeNoMemory
  BY ZenonT(90), <1>17 DEF OnWakeNoMemory, CaptureFatal
<1>18. CASE OnTimerNoMemory
  BY ZenonT(90), <1>18 DEF OnTimerNoMemory, CaptureFatal, ArmTimer
<1>19. CASE StartTurn
  BY ZenonT(90), <1>19 DEF StartTurn
<1>20. CASE Leave
  BY ZenonT(90), <1>20 DEF Leave
<1>21. CASE LeaveDone
  BY ZenonT(90), <1>21 DEF LeaveDone
<1>22. CASE BeginBatch
  BY ZenonT(90), <1>22 DEF BeginBatch
<1>23. CASE RunOne
  BY ZenonT(90), <1>23 DEF RunOne
<1>24. CASE Return
  BY ZenonT(90), <1>24 DEF Return
<1>25. CASE EndBatch
  BY ZenonT(90), <1>25 DEF EndBatch, StopIdle, YieldAfterBatch
<1>26. CASE EndDrain
  BY ZenonT(90), <1>26 DEF EndDrain, StopIdle
<1>27. CASE Flush
  BY ZenonT(90), <1>27 DEF Flush
<1>28. CASE FlushDone
  BY ZenonT(90), <1>28 DEF FlushDone, EnterPoll
<1>29. CASE SkipFlush
  BY ZenonT(90), <1>29 DEF SkipFlush, EnterPoll
<1>30. CASE WakeDispatch
  BY ZenonT(90), <1>30 DEF WakeDispatch
<1>31. CASE OnWake
  BY ZenonT(90), <1>31 DEF OnWake, DrainThreadsafe, StartIdle
<1>32. CASE ProtocolReturn
  BY ZenonT(90), <1>32 DEF ProtocolReturn
<1>33. CASE PollReturn
  BY ZenonT(90), <1>33 DEF PollReturn
<1>34. ASSUME NEW q \in Pushed, HandleClosed(q) PROVE TypeFlags'
  BY ZenonT(90), <1>34 DEF HandleClosed, PushReady, StartIdle
<1>35. CASE CloseReturn
  BY ZenonT(90), <1>35 DEF CloseReturn
<1>36. CASE ClosingDone
  BY ZenonT(90), <1>36 DEF ClosingDone
<1>37. CASE OnTimer
  BY ZenonT(90), <1>37 DEF OnTimer, PushReady, StartIdle, ArmTimer
<1>38. CASE TimersDone
  BY ZenonT(90), <1>38 DEF TimersDone
<1>39. CASE Run
  BY ZenonT(90), <1>39 DEF Run, StartIdle, ArmTimer
<1>40. CASE Close
  BY ZenonT(90), <1>40 DEF Close
<1>41. CASE UNCHANGED vars
  BY ZenonT(90), <1>41 DEF vars
<1>42. CASE StartPending
  BY ZenonT(90), <1>42 DEF StartPending
<1>43. CASE PendingReturn
  BY ZenonT(90), <1>43 DEF PendingReturn
<1> QED
  BY ZenonT(90), <1>1, <1>2, <1>3, <1>4, <1>5, <1>6, <1>7, <1>8, <1>9, <1>10,
     <1>11, <1>12, <1>13, <1>14, <1>15, <1>16, <1>17, <1>18, <1>19, <1>20,
     <1>21, <1>22, <1>23, <1>24, <1>25, <1>26, <1>27, <1>28, <1>29, <1>30,
     <1>31, <1>32, <1>33, <1>34, <1>35, <1>36, <1>37, <1>38, <1>39, <1>40,
     <1>41, <1>42, <1>43 DEF Next, UserStep, OtherThread, Environment, LoopStep

\* Every handler keeps the batch of runReady at the head of the ready queue
\* and within onIdle's limits.
LEMMA BatchStep == Batch /\ [Next]_vars => Batch'
<1> SUFFICES ASSUME Batch, [Next]_vars PROVE Batch'
  OBVIOUS
<1> USE DEF Batch, TypeQueues, TypeCounts, HandleCounts, BatchExact,
            DrainBounded, Phases, queues, uv, stops,
            drain, native, sleep, memory
<1>1. ASSUME NEW c \in Soon, CallSoon(c) PROVE Batch'
  <2>1. <<c>> \in Seq(Callbacks) /\ inbox \o <<c>> \in Seq(Callbacks)
    BY DEF Callbacks
  <2>2. ready' = ready \o (inbox \o <<c>>)
    BY SMTT(60), <1>1, <2>1 DEF CallSoon, DrainThreadsafe
  <2> QED
    BY <1>1, <2>1, <2>2, AppendKeepsBatch DEF CallSoon, DrainThreadsafe
<1>2. ASSUME NEW c \in Native, CallLater(c) PROVE Batch'
  BY <1>2 DEF CallLater, Callbacks
<1>3. ASSUME NEW c \in Native, CallLaterDue(c) PROVE Batch'
  <2>1. <<c>> \in Seq(Callbacks)
    BY DEF Callbacks
  <2> QED
    BY <1>3, <2>1, AppendKeepsBatch DEF CallLaterDue, PushReady
<1>4. ASSUME NEW q \in Pushed, OpenHandle(q) PROVE Batch'
  BY <1>4, PushedType, AppendKeepsBatch DEF OpenHandle, PushReady
<1>5. CASE CloseHandle
  BY <1>5 DEF CloseHandle, InPython, Transports
<1>6. CASE Resolve
  BY <1>6 DEF Resolve, InPython
<1>7. CASE Write
  BY <1>7 DEF Write, InPython
<1>8. CASE Stop
  BY <1>8 DEF Stop, InPython
<1>9. CASE RaiseExit
  BY <1>9 DEF RaiseExit, CaptureFatal
<1>10. CASE ProtocolExit
  BY <1>10 DEF ProtocolExit, CaptureFatal
<1>11. CASE FlushExit
  BY <1>11 DEF FlushExit, CaptureFatal
<1>12. ASSUME NEW c \in Soon, CallSoonThreadsafe(c) PROVE Batch'
  BY <1>12 DEF CallSoonThreadsafe, Callbacks
<1>13. ASSUME NEW c \in Native, IoReady(c) PROVE Batch'
  <2>1. <<c>> \in Seq(Callbacks)
    BY DEF Callbacks
  <2> QED
    BY <1>13, <2>1, AppendKeepsBatch DEF IoReady, PushReady
<1>14. CASE ProtocolCall
  BY <1>14 DEF ProtocolCall
<1>15. CASE Resolved
  BY <1>15 DEF Resolved
<1>16. CASE CallSoonNoMemory
  BY <1>16, AppendKeepsBatch DEF CallSoonNoMemory
<1>17. CASE OnWakeNoMemory
  BY <1>17 DEF OnWakeNoMemory, CaptureFatal
<1>18. CASE OnTimerNoMemory
  <2>1. PICK q \in Collections(timers) : \E c \in timers \ Elems(q) :
            timers' = timers \ (Elems(q) \cup {c}) /\ ready' = ready \o q
    BY <1>18 DEF OnTimerNoMemory
  <2> QED
    BY SMTT(60), <1>18, <2>1, CollectionsType, AppendKeepsBatch DEF OnTimerNoMemory
<1>19. CASE StartTurn
  BY <1>19 DEF StartTurn
<1>20. CASE Leave
  BY <1>20 DEF Leave
<1>21. CASE LeaveDone
  BY <1>21 DEF LeaveDone
<1>22. CASE BeginBatch
  BY <1>22, LimitAssumption DEF BeginBatch, DrainExhausted
<1>23. CASE RunOne
  BY <1>23 DEF RunOne
<1>24. CASE Return
  BY <1>24 DEF Return
<1>25. CASE EndBatch
  BY <1>25 DEF EndBatch, StopIdle, YieldAfterBatch
<1>26. CASE EndDrain
  BY <1>26 DEF EndDrain, StopIdle
<1>27. CASE Flush
  BY <1>27 DEF Flush
<1>28. CASE FlushDone
  BY <1>28 DEF FlushDone, EnterPoll
<1>29. CASE SkipFlush
  BY <1>29 DEF SkipFlush, EnterPoll
<1>30. CASE WakeDispatch
  BY <1>30 DEF WakeDispatch
<1>31. CASE OnWake
  <2>1. ready' = ready \o inbox
    BY <1>31 DEF OnWake, DrainThreadsafe
  <2> QED
    BY <1>31, <2>1, AppendKeepsBatch DEF OnWake, DrainThreadsafe
<1>32. CASE ProtocolReturn
  BY <1>32 DEF ProtocolReturn
<1>33. CASE PollReturn
  BY <1>33 DEF PollReturn
<1>34. ASSUME NEW q \in Pushed, HandleClosed(q) PROVE Batch'
  BY <1>34, PushedType, AppendKeepsBatch DEF HandleClosed, PushReady
<1>35. CASE CloseReturn
  BY <1>35 DEF CloseReturn
<1>36. CASE ClosingDone
  BY <1>36 DEF ClosingDone
<1>37. CASE OnTimer
  <2>1. PICK q \in Collections(timers) :
            timers' = timers \ Elems(q) /\ ready' = ready \o q
    BY <1>37 DEF OnTimer, PushReady
  <2> QED
    BY <1>37, <2>1, CollectionsType, AppendKeepsBatch DEF OnTimer
<1>38. CASE TimersDone
  BY <1>38 DEF TimersDone
<1>39. CASE Run
  BY <1>39 DEF Run, StartIdle, ArmTimer
<1>40. CASE Close
  BY <1>40 DEF Close
<1>41. CASE UNCHANGED vars
  BY <1>41 DEF vars
<1>42. CASE StartPending
  BY <1>42 DEF StartPending
<1>43. CASE PendingReturn
  BY <1>43 DEF PendingReturn
<1> QED
  BY <1>1, <1>2, <1>3, <1>4, <1>5, <1>6, <1>7, <1>8, <1>9, <1>10, <1>11,
     <1>12, <1>13, <1>14, <1>15, <1>16, <1>17, <1>18, <1>19, <1>20, <1>21,
     <1>22, <1>23, <1>24, <1>25, <1>26, <1>27, <1>28, <1>29, <1>30, <1>31,
     <1>32, <1>33, <1>34, <1>35, <1>36, <1>37, <1>38, <1>39, <1>40, <1>41,
     <1>42, <1>43 DEF Next, UserStep, OtherThread, Environment, LoopStep

\* Every handler keeps the queues announced and the stop flags consistent.
LEMMA ControlStep == Control /\ [Next]_vars => Control'
<1> SUFFICES ASSUME Control, [Next]_vars PROVE Control'
  OBVIOUS
<1> USE DEF Control, WakerInv, IdleInv, StopInv, PollInv, WakeupNotLost,
            NoSecondWake, NeverSleepsOnWork, Asleep, FatalStopsLoop,
            queues, uv, stops, drain, native, sleep, memory
<1>1. ASSUME NEW c \in Soon, CallSoon(c) PROVE Control'
  BY <1>1 DEF CallSoon, InPython, DrainThreadsafe, StartIdle
<1>2. ASSUME NEW c \in Native, CallLater(c) PROVE Control'
  BY <1>2 DEF CallLater, InPython, ArmTimer
<1>3. ASSUME NEW c \in Native, CallLaterDue(c) PROVE Control'
  BY <1>3 DEF CallLaterDue, InPython, PushReady, StartIdle
<1>4. ASSUME NEW q \in Pushed, OpenHandle(q) PROVE Control'
  BY <1>4 DEF OpenHandle, InPython, PushReady, StartIdle
<1>5. CASE CloseHandle
  BY <1>5 DEF CloseHandle, InPython, Transports
<1>6. CASE Resolve
  BY <1>6 DEF Resolve, InPython
<1>7. CASE Write
  BY <1>7 DEF Write, InPython
<1>8. CASE Stop
  BY <1>8 DEF Stop, InPython
<1>9. CASE RaiseExit
  BY <1>9 DEF RaiseExit, CaptureFatal
<1>10. CASE ProtocolExit
  BY <1>10 DEF ProtocolExit, CaptureFatal
<1>11. CASE FlushExit
  BY <1>11 DEF FlushExit, CaptureFatal
<1>12. ASSUME NEW c \in Soon, CallSoonThreadsafe(c) PROVE Control'
  BY <1>12 DEF CallSoonThreadsafe
<1>13. ASSUME NEW c \in Native, IoReady(c) PROVE Control'
  BY <1>13 DEF IoReady, PushReady, StartIdle
<1>14. CASE ProtocolCall
  BY <1>14 DEF ProtocolCall
<1>15. CASE Resolved
  BY <1>15 DEF Resolved
<1>16. CASE CallSoonNoMemory
  BY <1>16 DEF CallSoonNoMemory, InPython
<1>17. CASE OnWakeNoMemory
  BY <1>17 DEF OnWakeNoMemory, CaptureFatal
<1>18. CASE OnTimerNoMemory
  BY <1>18 DEF OnTimerNoMemory, CaptureFatal, ArmTimer
<1>19. CASE StartTurn
  BY <1>19 DEF StartTurn
<1>20. CASE Leave
  BY <1>20 DEF Leave
<1>21. CASE LeaveDone
  BY <1>21 DEF LeaveDone
<1>22. CASE BeginBatch
  BY <1>22 DEF BeginBatch
<1>23. CASE RunOne
  BY <1>23 DEF RunOne
<1>24. CASE Return
  BY <1>24 DEF Return
<1>25. CASE EndBatch
  <2>1. CASE StopIdle
    BY <1>25, <2>1 DEF EndBatch, StopIdle
  <2>2. CASE ~YieldAfterBatch /\ phase' = "idle" /\ UNCHANGED idle_active
    BY <1>25, <2>2 DEF EndBatch, YieldAfterBatch
  <2> QED
    BY <1>25, <2>1, <2>2 DEF EndBatch
<1>26. CASE EndDrain
  BY <1>26 DEF EndDrain, StopIdle
<1>27. CASE Flush
  BY <1>27 DEF Flush
<1>28. CASE FlushDone
  BY <1>28 DEF FlushDone, EnterPoll
<1>29. CASE SkipFlush
  BY <1>29 DEF SkipFlush, EnterPoll
<1>30. CASE WakeDispatch
  BY <1>30 DEF WakeDispatch
<1>31. CASE OnWake
  BY <1>31 DEF OnWake, DrainThreadsafe, StartIdle
<1>32. CASE ProtocolReturn
  BY <1>32 DEF ProtocolReturn
<1>33. CASE PollReturn
  BY <1>33 DEF PollReturn
<1>34. ASSUME NEW q \in Pushed, HandleClosed(q) PROVE Control'
  BY <1>34 DEF HandleClosed, PushReady, StartIdle
<1>35. CASE CloseReturn
  BY <1>35 DEF CloseReturn
<1>36. CASE ClosingDone
  BY <1>36 DEF ClosingDone
<1>37. CASE OnTimer
  BY <1>37 DEF OnTimer, PushReady, StartIdle, ArmTimer
<1>38. CASE TimersDone
  BY <1>38 DEF TimersDone
<1>39. CASE Run
  BY <1>39 DEF Run, StartIdle, ArmTimer
<1>40. CASE Close
  BY <1>40 DEF Close
<1>41. CASE UNCHANGED vars
  BY <1>41 DEF vars
<1>42. CASE StartPending
  BY <1>42 DEF StartPending
<1>43. CASE PendingReturn
  BY <1>43 DEF PendingReturn
<1> QED
  BY <1>1, <1>2, <1>3, <1>4, <1>5, <1>6, <1>7, <1>8, <1>9, <1>10, <1>11,
     <1>12, <1>13, <1>14, <1>15, <1>16, <1>17, <1>18, <1>19, <1>20, <1>21,
     <1>22, <1>23, <1>24, <1>25, <1>26, <1>27, <1>28, <1>29, <1>30, <1>31,
     <1>32, <1>33, <1>34, <1>35, <1>36, <1>37, <1>38, <1>39, <1>40, <1>41,
     <1>42, <1>43 DEF Next, UserStep, OtherThread, Environment, LoopStep

-----------------------------------------------------------------------------
(* Theorems.                                                               *)

\* A new loop, as newLoop and _setup_self_pipe leave it, satisfies the
\* invariant.
LEMMA InitInv == Init => IInv
<1> SUFFICES ASSUME Init PROVE IInv
  OBVIOUS
<1>1. TypeFlags
  BY DEF Init, TypeFlags
<1>2. Batch
  BY DEF Init, Batch, TypeQueues, TypeCounts, HandleCounts, BatchExact,
            DrainBounded, Phases
<1>3. Control
  BY DEF Init, Control, WakerInv, IdleInv, StopInv, PollInv, WakeupNotLost,
         NoSecondWake, NeverSleepsOnWork, Asleep, FatalStopsLoop
<1> QED
  BY <1>1, <1>2, <1>3 DEF IInv

\* The inductive invariant holds of every state of the scheduler.
THEOREM Invariant == Spec => []IInv
<1>1. IInv /\ [Next]_vars => IInv'
  BY TypeFlagsStep, BatchStep, ControlStep DEF IInv
<1> QED
  BY InitInv, <1>1, PTL DEF Spec

\* The scheduler's variables keep their types in every reachable state.
THEOREM TypeCorrect == Spec => []TypeOK
<1>1. IInv => TypeOK
  BY DEF IInv, Batch, TypeOK
<1> QED
  BY Invariant, <1>1, PTL

\* callSoonThreadsafe and onWake never lose a wakeup: an inbox with handles
\* in it has one on its way, for any number of producers in any phase.
THEOREM NoLostWakeup == Spec => []WakeupNotLost
<1>1. IInv => WakeupNotLost
  BY DEF IInv, Control
<1> QED
  BY Invariant, <1>1, PTL

\* The loop never sleeps in uv__io_poll with work it knows of.
THEOREM SleepsOnlyWhenIdle == Spec => []NeverSleepsOnWork
<1>1. IInv => NeverSleepsOnWork
  BY DEF IInv, Control
<1> QED
  BY Invariant, <1>1, PTL

\* runReady runs exactly the callbacks that were queued when it was entered.
THEOREM BatchRunsWhatWasQueued == Spec => []BatchExact
<1>1. IInv => BatchExact
  BY DEF IInv, Batch
<1> QED
  BY Invariant, <1>1, PTL

\* onIdle gives the poll its turn after a bounded number of callbacks, for
\* any values of the three limits.
THEOREM DrainIsBounded == Spec => []DrainBounded
<1>1. IInv => DrainBounded
  BY DEF IInv, Batch
<1> QED
  BY Invariant, <1>1, PTL

\* captureFatal stops the loop it captured an exception for.
THEOREM FatalEndsTheRun == Spec => []FatalStopsLoop
<1>1. IInv => FatalStopsLoop
  BY DEF IInv, Control
<1> QED
  BY Invariant, <1>1, PTL

\* After stop() or a captured exception no batch begins but the first of a turn
\* whose pending callbacks stopped the loop.
THEOREM StopHolds == Spec => NoBatchAfterStop
<1>1. IInv /\ [Next]_vars
        => [phase = "idle" /\ phase' = "batch" => batches = 0 \/ (~stop_flag /\ ~fatal)]_vars
  BY DEF IInv, Control, StopInv
<1> QED
  BY Invariant, <1>1, PTL DEF Spec, NoBatchAfterStop
=============================================================================
