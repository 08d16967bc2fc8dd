--------------------------- MODULE ThreadsProofs ----------------------------
(***************************************************************************)
(* Proofs about what native threads share with the loop: the thread-safe   *)
(* handle (ThreadSafeHandle), for any threads, any handles and any depth   *)
(* of nested runs, and the storage of a resolver request (Resolver), for   *)
(* any set of requests.                                                    *)
(***************************************************************************)
EXTENDS ThreadSafeHandle, Resolver, TLAPS

-----------------------------------------------------------------------------
(***************************************************************************)
(* The thread-safe handle.  The inductive invariant adds to the checked    *)
(* properties that nothing is released before the state word is DONE, and  *)
(* that a lock is released only with the word at DONE.                     *)
(***************************************************************************)

\* callback and arguments are only released by the side that settled the word
ClearedIsDone == \A h \in Handles : cleared[h] => run_state[h] = "DONE"

\* a released waiter belongs to a callback that is over
ReleasedIsDone ==
    \A t \in Threads :
        wait[t] # None /\ wait[t].on = "released"
            => run_state[wait[t].handle] = "DONE"

NotEnteredYet == \A h \in Handles : run_state[h] = "PENDING" => started[h] = 0

Word == EnteredOnce /\ NotEnteredYet /\ ClearedIsDone

HandleInv == HandleTypeOK /\ Word /\ ReleasedIsDone /\ CancelReleases /\ WaitersParked

-----------------------------------------------------------------------------
\* The innermost run of a thread that runs something is a handle.
LEMMA PayloadType ==
    ASSUME HandleTypeOK, NEW t \in Threads, running[t] # <<>>
    PROVE  /\ RunningPayload(t) \in Handles
           /\ Runs(t, RunningPayload(t))
           /\ Tail(running[t]) \in Seq(Handles)
<1>1. running[t] \in Seq(Handles)
  BY DEF HandleTypeOK
<1>2. 1 \in 1..Len(running[t]) /\ running[t][1] = Head(running[t])
  BY <1>1
<1> QED
  BY <1>1, <1>2 DEF RunningPayload, Runs

\* What a thread that has to wait does to its own record and the list.
Parked(t, h, m, o) ==
    /\ wait[t] = None /\ run_state[h] = "RUNNING"
    /\ wait' = [wait EXCEPT ![t] = [handle |-> h, method |-> m, on |-> o]]
    /\ waiters' = [waiters EXCEPT
                     ![h] = IF o = "lock" THEN @ \cup {t} ELSE @]
    /\ UNCHANGED <<run_state, cancelled, cleared, running, started>>

\* cancel() and cancelled() only wait for a callback that is running.
LEMMA AwaitParks ==
    ASSUME NEW t, NEW h, NEW m, Await(t, h, m)
    PROVE  \E o \in {"lock", "yield"} : Parked(t, h, m, o)
BY DEF Await, Park, Parked, InPython, MustWait

\* Every section of run(), cancel() and cancelled() keeps the types.
LEMMA TypeStep == HandleInv /\ [HandleNext]_handleVars => HandleTypeOK'
<1> SUFFICES ASSUME HandleInv, [HandleNext]_handleVars PROVE HandleTypeOK'
  OBVIOUS
<1> USE DEF HandleInv, HandleTypeOK
<1>1. ASSUME NEW t \in Threads, NEW h \in Handles, Run(t, h) PROVE HandleTypeOK'
  BY <1>1 DEF Run, Word, NotEnteredYet
<1>2. ASSUME NEW t \in Threads, NEW h \in Handles, Cancel(t, h) PROVE HandleTypeOK'
  BY <1>2 DEF Cancel, SetCancelled
<1>3. ASSUME NEW t \in Threads, NEW h \in Handles,
             NEW m \in {"cancel", "cancelled"}, Await(t, h, m)
      PROVE  HandleTypeOK'
  <2>1. PICK o \in {"lock", "yield"} : Parked(t, h, m, o)
    BY <1>3, AwaitParks
  <2>2. wait' \in [Threads -> Calls \cup {None}]
    BY <2>1 DEF Parked, Calls
  <2>3. waiters' \in [Handles -> SUBSET Threads]
    <3>1. waiters[h] \in SUBSET Threads /\ waiters[h] \cup {t} \in SUBSET Threads
      OBVIOUS
    <3> QED
      BY <2>1, <3>1 DEF Parked
  <2> QED
    BY <1>3, <2>2, <2>3 DEF Await, Park
<1>4. ASSUME NEW t \in Threads, Finish(t) PROVE HandleTypeOK'
  <2> DEFINE h == RunningPayload(t)
  <2>1. /\ h \in Handles
        /\ Tail(running[t]) \in Seq(Handles)
    BY <1>4, PayloadType DEF Finish
  <2>2. \A u \in waiters[h] :
            [wait[u] EXCEPT !.on = "released"] \in Calls
    <3> SUFFICES ASSUME NEW u \in waiters[h]
                 PROVE  [wait[u] EXCEPT !.on = "released"] \in Calls
      OBVIOUS
    <3>1. u \in Threads /\ wait[u] # None
      BY <2>1 DEF WaitersParked
    <3>2. wait[u] \in Calls
      BY <3>1
    <3> QED
      BY <3>2 DEF Calls
  <2>3. wait' \in [Threads -> Calls \cup {None}]
    BY <1>4, <2>1, <2>2 DEF Finish
  <2> HIDE DEF h
  <2>4. run_state' \in [Handles -> {"PENDING", "RUNNING", "DONE"}]
    BY <1>4, <2>1 DEF Finish, h
  <2>5. cleared' \in [Handles -> BOOLEAN]
    BY <1>4, <2>1 DEF Finish, h
  <2>6. waiters' \in [Handles -> SUBSET Threads]
    BY <1>4, <2>1 DEF Finish, h
  <2>7. running' \in [Threads -> Seq(Handles)]
    BY <1>4, <2>1 DEF Finish
  <2> QED
    BY <1>4, <2>3, <2>4, <2>5, <2>6, <2>7 DEF Finish
<1>5. ASSUME NEW t \in Threads, Resume(t) PROVE HandleTypeOK'
  BY <1>5 DEF Resume, SetCancelled, Awake, Calls
<1>6. CASE UNCHANGED handleVars
  BY <1>6 DEF handleVars
<1> QED
  BY <1>1, <1>2, <1>3, <1>4, <1>5, <1>6 DEF HandleNext

\* The state word: each section hands the callback to one side only.
LEMMA WordStep == HandleInv /\ [HandleNext]_handleVars => Word'
<1> SUFFICES ASSUME HandleInv, [HandleNext]_handleVars PROVE Word'
  OBVIOUS
<1> USE DEF HandleInv, HandleTypeOK, Word, EnteredOnce, NotEnteredYet, ClearedIsDone
<1>1. ASSUME NEW t \in Threads, NEW h \in Handles, Run(t, h) PROVE Word'
  BY <1>1 DEF Run
<1>2. ASSUME NEW t \in Threads, NEW h \in Handles, Cancel(t, h) PROVE Word'
  BY <1>2 DEF Cancel, SetCancelled
<1>3. ASSUME NEW t \in Threads, NEW h \in Handles,
             NEW m \in {"cancel", "cancelled"}, Await(t, h, m)
      PROVE  Word'
  BY <1>3 DEF Await, Park
<1>4. ASSUME NEW t \in Threads, Finish(t) PROVE Word'
  BY <1>4, PayloadType DEF Finish
<1>5. ASSUME NEW t \in Threads, Resume(t) PROVE Word'
  BY ZenonT(60), <1>5 DEF Resume, SetCancelled, Awake, Calls, ReleasedIsDone
<1>6. CASE UNCHANGED handleVars
  BY <1>6 DEF handleVars
<1> QED
  BY <1>1, <1>2, <1>3, <1>4, <1>5, <1>6 DEF HandleNext

\* A lock is only released with the word at DONE, which is final.
LEMMA ReleasedStep == HandleInv /\ [HandleNext]_handleVars => ReleasedIsDone'
<1> SUFFICES ASSUME HandleInv, [HandleNext]_handleVars PROVE ReleasedIsDone'
  OBVIOUS
<1> USE NoneAssumption DEF HandleInv, HandleTypeOK, ReleasedIsDone
<1>1. ASSUME NEW t \in Threads, NEW h \in Handles, Run(t, h)
      PROVE  ReleasedIsDone'
  BY <1>1 DEF Run, Calls
<1>2. ASSUME NEW t \in Threads, NEW h \in Handles, Cancel(t, h)
      PROVE  ReleasedIsDone'
  BY <1>2 DEF Cancel, Calls
<1>3. ASSUME NEW t \in Threads, NEW h \in Handles,
             NEW m \in {"cancel", "cancelled"}, Await(t, h, m)
      PROVE  ReleasedIsDone'
  <2>1. PICK o \in {"lock", "yield"} : Parked(t, h, m, o)
    BY <1>3, AwaitParks
  <2> QED
    BY <2>1 DEF Parked
<1>4. ASSUME NEW t \in Threads, Finish(t) PROVE ReleasedIsDone'
  BY <1>4, PayloadType DEF Finish, WaitersParked, Calls
<1>5. ASSUME NEW t \in Threads, Resume(t) PROVE ReleasedIsDone'
  BY <1>5 DEF Resume
<1>6. CASE UNCHANGED handleVars
  BY <1>6 DEF handleVars
<1> QED
  BY <1>1, <1>2, <1>3, <1>4, <1>5, <1>6 DEF HandleNext

\* Whoever ends the race between cancel() and the callback releases what the
\* handle holds.
LEMMA ReleasesStep == HandleInv /\ [HandleNext]_handleVars => CancelReleases'
<1> SUFFICES ASSUME HandleInv, [HandleNext]_handleVars PROVE CancelReleases'
  OBVIOUS
<1> USE DEF HandleInv, HandleTypeOK, CancelReleases
<1>1. ASSUME NEW t \in Threads, NEW h \in Handles, Run(t, h)
      PROVE  CancelReleases'
  BY <1>1 DEF Run
<1>2. ASSUME NEW t \in Threads, NEW h \in Handles, Cancel(t, h)
      PROVE  CancelReleases'
  BY <1>2 DEF Cancel, SetCancelled, Word, EnteredOnce
<1>3. ASSUME NEW t \in Threads, NEW h \in Handles,
             NEW m \in {"cancel", "cancelled"}, Await(t, h, m)
      PROVE  CancelReleases'
  BY <1>3 DEF Await, Park
<1>4. ASSUME NEW t \in Threads, Finish(t) PROVE CancelReleases'
  BY <1>4, PayloadType DEF Finish
<1>5. ASSUME NEW t \in Threads, Resume(t) PROVE CancelReleases'
  BY <1>5 DEF Resume, SetCancelled
<1>6. CASE UNCHANGED handleVars
  BY <1>6 DEF handleVars
<1> QED
  BY <1>1, <1>2, <1>3, <1>4, <1>5, <1>6 DEF HandleNext

\* The list of waiters names exactly the threads parked on a lock.
LEMMA WaitersStep == HandleInv /\ [HandleNext]_handleVars => WaitersParked'
<1> SUFFICES ASSUME HandleInv, [HandleNext]_handleVars PROVE WaitersParked'
  OBVIOUS
<1> USE NoneAssumption DEF HandleInv, HandleTypeOK, WaitersParked
<1>1. ASSUME NEW t \in Threads, NEW h \in Handles, Run(t, h)
      PROVE  WaitersParked'
  BY <1>1 DEF Run
<1>2. ASSUME NEW t \in Threads, NEW h \in Handles, Cancel(t, h)
      PROVE  WaitersParked'
  BY <1>2 DEF Cancel
<1>3. ASSUME NEW t \in Threads, NEW h \in Handles,
             NEW m \in {"cancel", "cancelled"}, Await(t, h, m)
      PROVE  WaitersParked'
  <2>1. PICK o \in {"lock", "yield"} : Parked(t, h, m, o)
    BY <1>3, AwaitParks
  <2>2. wait'[t] # None
    BY <2>1 DEF Parked, Calls
  <2>3. ASSUME NEW g \in Handles
        PROVE  waiters'[g] = {u \in Threads : /\ wait'[u] # None
                                              /\ wait'[u].handle = g
                                              /\ wait'[u].on = "lock"}
    BY <2>1, <2>2 DEF Parked
  <2>4. ASSUME NEW g \in Handles, waiters'[g] # {}
        PROVE  run_state'[g] = "RUNNING"
    BY <2>1, <2>4 DEF Parked
  <2> QED
    BY <2>3, <2>4
<1>4. ASSUME NEW t \in Threads, Finish(t) PROVE WaitersParked'
  BY <1>4, PayloadType DEF Finish, Calls
<1>5. ASSUME NEW t \in Threads, Resume(t) PROVE WaitersParked'
  BY <1>5 DEF Resume, Awake, Calls
<1>6. CASE UNCHANGED handleVars
  BY <1>6 DEF handleVars
<1> QED
  BY <1>1, <1>2, <1>3, <1>4, <1>5, <1>6 DEF HandleNext

-----------------------------------------------------------------------------
(* Theorems.                                                               *)

\* The inductive invariant holds in every reachable state.
THEOREM HandleInvariant == HandleSpec => []HandleInv
<1>1. HandleInit => HandleInv
  BY NoneAssumption
     DEF HandleInit, HandleInv, HandleTypeOK, Word, EnteredOnce, NotEnteredYet, ClearedIsDone,
         ReleasedIsDone, CancelReleases, WaitersParked
<1>2. HandleInv /\ [HandleNext]_handleVars => HandleInv'
  BY TypeStep, WordStep, ReleasedStep, ReleasesStep, WaitersStep DEF HandleInv
<1> QED
  BY <1>1, <1>2, PTL DEF HandleSpec

\* The variables of the handle keep their types.
THEOREM HandleTypeCorrect == HandleSpec => []HandleTypeOK
<1>1. HandleInv => HandleTypeOK
  BY DEF HandleInv
<1> QED
  BY HandleInvariant, <1>1, PTL

\* A callback is entered at most once, and never after a cancel() that found
\* it pending.
THEOREM EntersOnce == HandleSpec => []EnteredOnce
<1>1. HandleInv => EnteredOnce
  BY DEF HandleInv, Word
<1> QED
  BY HandleInvariant, <1>1, PTL

\* The callback and its arguments outlive the call that borrows them.
THEOREM BorrowsSafely == HandleSpec => []BorrowedWhileRunning
<1>1. HandleInv => BorrowedWhileRunning
  BY DEF HandleInv, Word, ClearedIsDone, BorrowedWhileRunning
<1> QED
  BY HandleInvariant, <1>1, PTL

\* A cancelled handle that is not running has released everything.
THEOREM CancelLeavesNothing == HandleSpec => []CancelReleases
<1>1. HandleInv => CancelReleases
  BY DEF HandleInv
<1> QED
  BY HandleInvariant, <1>1, PTL

\* Every lock on the list belongs to a thread still parked on it.
THEOREM WaitersAreParked == HandleSpec => []WaitersParked
<1>1. HandleInv => WaitersParked
  BY DEF HandleInv
<1> QED
  BY HandleInvariant, <1>1, PTL

\* When cancel() or cancelled() returns, no other thread is in the callback.
THEOREM ReturnsSettled == HandleSpec => SettledOnReturn
<1>1. ASSUME HandleInv, NEW t \in Threads, NEW h \in Handles, Cancel(t, h)
      PROVE  run_state'[h] # "RUNNING" \/ Runs(t, h)
  <2>1. CASE run_state[h] # "RUNNING"
    BY <1>1, <2>1 DEF HandleInv, HandleTypeOK, Cancel
  <2>2. CASE RunningPayload(t) = h
    <3>1. running[t] # <<>>
      BY <2>2, NoneAssumption DEF RunningPayload
    <3> QED
      BY <1>1, <2>2, <3>1, PayloadType DEF HandleInv
  <2> QED
    BY <1>1, <2>1, <2>2 DEF Cancel, MustWait
<1>2. ASSUME HandleInv, NEW t \in Threads, Resume(t)
      PROVE  run_state'[wait[t].handle] # "RUNNING"
  BY <1>2 DEF HandleInv, HandleTypeOK, Resume, Awake, ReleasedIsDone, Calls
<1>3. HandleInv /\ [HandleNext]_handleVars
        => [\A t \in Threads, h \in Handles :
              \/ Cancel(t, h)
              \/ Resume(t) /\ wait[t].handle = h
              => run_state'[h] # "RUNNING" \/ Runs(t, h)]_handleVars
  BY <1>1, <1>2
<1> QED
  BY HandleInvariant, <1>3, PTL DEF HandleSpec, SettledOnReturn

-----------------------------------------------------------------------------
(* Without nested runs, a callback never waits for itself.                 *)

NotNested ==
    /\ \A t \in Threads : Len(running[t]) <= Nesting
    /\ NeverWaitsForItself

\* With at most one run at a time on each thread, comparing with the innermost
\* run is enough: no thread is parked for a callback it is itself running.
THEOREM NoSelfWait == Nesting <= 1 /\ HandleSpec => []NeverWaitsForItself
<1> SUFFICES ASSUME Nesting <= 1 PROVE HandleSpec => []NeverWaitsForItself
  OBVIOUS
<1> USE NestingAssumption DEF NotNested, NeverWaitsForItself
<1>1. HandleInit => NotNested
  BY DEF HandleInit
<1>2. ASSUME HandleInv, HandleInv', NotNested, [HandleNext]_handleVars PROVE NotNested'
  <2> USE <1>2 DEF HandleInv, HandleTypeOK, Runs
  <2>1. ASSUME NEW t \in Threads, NEW h \in Handles, Run(t, h)
        PROVE  NotNested'
    BY <2>1 DEF Run, InPython
  <2>2. ASSUME NEW t \in Threads, NEW h \in Handles, Cancel(t, h)
        PROVE  NotNested'
    BY <2>2 DEF Cancel
  <2>3. ASSUME NEW t \in Threads, NEW h \in Handles,
               NEW m \in {"cancel", "cancelled"}, Await(t, h, m)
        PROVE  NotNested'
    <3>1. PICK o \in {"lock", "yield"} : Parked(t, h, m, o)
      BY <2>3, AwaitParks
    <3>2. ~Runs(t, h)
      BY <2>3 DEF Await, MustWait, RunningPayload
    <3> QED
      BY <3>1, <3>2 DEF Parked
  <2>4. ASSUME NEW t \in Threads, Finish(t) PROVE NotNested'
    <3>1. /\ \A u \in Threads \ {t} : running'[u] = running[u]
          /\ Len(running'[t]) = Len(running[t]) - 1
      <4>1. running[t] \in Seq(Handles) /\ running[t] # <<>>
        BY <2>4 DEF Finish
      <4> QED
        BY <2>4, <4>1 DEF Finish
    <3>2. ASSUME NEW u \in Threads, wait'[u] # None
          PROVE  /\ u # t /\ wait[u] # None
                 /\ wait'[u].handle = wait[u].handle
      BY <2>4, <3>2, PayloadType DEF Finish, WaitersParked, InPython, Calls
    <3>3. \A u \in Threads : Len(running'[u]) <= Nesting
      <4>1. Len(running[t]) \in Nat /\ Len(running[t]) <= Nesting
        OBVIOUS
      <4>2. Len(running'[t]) <= Nesting
        BY <3>1, <4>1
      <4> QED
        BY <3>1, <4>2
    <3>4. ASSUME NEW u \in Threads, wait'[u] # None
          PROVE  ~Runs(u, wait[u].handle)'
      BY <3>1, <3>2, <3>4
    <3> QED
      BY <3>2, <3>3, <3>4
  <2>5. ASSUME NEW t \in Threads, Resume(t) PROVE NotNested'
    BY <2>5 DEF Resume
  <2>6. CASE UNCHANGED handleVars
    BY <2>6 DEF handleVars
  <2> QED
    BY <2>1, <2>2, <2>3, <2>4, <2>5, <2>6 DEF HandleNext
<1>3. NotNested => NeverWaitsForItself
  OBVIOUS
<1> QED
  BY HandleInvariant, <1>1, <1>2, <1>3, PTL DEF HandleSpec

-----------------------------------------------------------------------------
(***************************************************************************)
(* The resolver.  The handover is an argument about who is entitled to     *)
(* free the storage, so the inductive invariant says, for every value of   *)
(* reap_state, which of the two sides has finished with it.  It rests on   *)
(* no request being submitted once the loop is closed, so all of it but    *)
(* the types is lost when getnameinfo(), which does not look at `closed`   *)
(* again, does that (`late`).                                              *)
(***************************************************************************)

TypeFlags == closed \in BOOLEAN /\ dying \in BOOLEAN /\ late \in BOOLEAN

TypeRest ==
    /\ phase \in {"open", "running", "draining", "syncing", "closed"}
    /\ kind \in [Requests -> Kinds]
    /\ req \in [Requests -> {"none", "converting", "queued", "working", "answered", "freed"}]
    /\ fut \in [Requests -> {"none", "pending", "done", "cancelled"}]
    /\ owned \in [Requests -> BOOLEAN]
    /\ reap_state \in 0..3
    /\ reaper \in {"none", "running", "handing", "freeing", "done"}
    /\ release \in {"none", "load", "swap", "done"}
    /\ freed \in Nat

\* A closed loop is one that is being or has been closed.
ClosedPhases == closed <=> phase \in {"draining", "syncing", "closed"}

\* Once close() has returned, only the reaper has requests left.
OnlyReaperWorks ==
    phase = "closed" /\ reaper # "running" =>
        \A r \in Requests : req[r] \notin {"queued", "working", "answered"}

\* What each value of reap_state says about the two sides.
Handover ==
    /\ reaper = "none" <=> reap_state = 0
    /\ reaper # "none" => phase = "closed" /\ \A r \in Requests : ~owned[r]
    /\ reaper \in {"running", "handing"} => reap_state \in {1, 2}
    /\ reaper = "freeing" => reap_state = 2
    /\ reaper = "done" => reap_state \in {2, 3}
    /\ release # "none" => dying /\ phase = "closed"
    /\ reap_state = 2 => release = "done"
    /\ release = "swap" => reap_state \in {1, 3}

\* How often the storage has been freed, from the same values.
Frees ==
    /\ release # "done" => freed = 0
    /\ release = "done" => reap_state # 1
    /\ release = "done" /\ reap_state \in {0, 3} => freed = 1
    /\ release = "done" /\ reap_state = 2 => freed = (IF reaper = "done" THEN 1 ELSE 0)

ResolverTypes == TypeFlags /\ TypeRest
Ownership == ClosedPhases /\ OnlyReaperWorks /\ Handover /\ Frees

ResolverInv == ResolverTypes /\ (late \/ Ownership)

-----------------------------------------------------------------------------

\* The initial state satisfies the inductive invariant.
LEMMA ResolverInitInv == Init => ResolverInv
  <1> SUFFICES ASSUME Init PROVE ResolverInv
    OBVIOUS
  <1>1. TypeFlags
    BY ZenonT(30) DEF Init, TypeFlags
  <1>2. TypeRest
    BY DEF Init, TypeRest
  <1>3. ClosedPhases /\ OnlyReaperWorks
    BY DEF Init, ClosedPhases, OnlyReaperWorks
  <1>4. Handover /\ Frees
    BY DEF Init, Handover, Frees
  <1> QED BY <1>1, <1>2, <1>3, <1>4 DEF ResolverInv, ResolverTypes, Ownership

\* Every step preserves the types.
LEMMA ResolverTypeStep == ASSUME ResolverTypes, [Next]_vars PROVE ResolverTypes'
  <1> USE KindsAssumption
  <1> TypeFlags /\ TypeRest
    BY DEF ResolverTypes
  <1>1. ASSUME NEW r \in Requests, Call(r) PROVE ResolverTypes'
    <2>1. TypeFlags'
      BY <1>1, ZenonT(30) DEF Call, TypeFlags
    <2>2. TypeRest'
      BY <1>1 DEF Call, TypeRest
    <2> QED BY <2>1, <2>2 DEF ResolverTypes
  <1>2. ASSUME NEW r \in Requests, Raise(r) PROVE ResolverTypes'
    <2>1. TypeFlags'
      BY <1>2, ZenonT(30) DEF Raise, Idle, TypeFlags
    <2>2. TypeRest'
      BY <1>2 DEF Raise, Idle, TypeRest
    <2> QED BY <2>1, <2>2 DEF ResolverTypes
  <1>3. ASSUME NEW r \in Requests, Resolve(r) PROVE ResolverTypes'
    <2>1. TypeFlags'
      BY <1>3, ZenonT(30) DEF Resolve, Idle, TypeFlags
    <2>2. TypeRest'
      BY <1>3 DEF Resolve, Idle, TypeRest
    <2> QED BY <2>1, <2>2 DEF ResolverTypes
  <1>4. ASSUME NEW r \in Requests, Submit(r) PROVE ResolverTypes'
    <2>1. TypeFlags'
      BY <1>4, ZenonT(30) DEF Submit, Idle, TypeFlags
    <2>2. TypeRest'
      BY <1>4 DEF Submit, Idle, TypeRest
    <2> QED BY <2>1, <2>2 DEF ResolverTypes
  <1>5. ASSUME NEW r \in Requests, CancelFuture(r) PROVE ResolverTypes'
    <2>1. TypeFlags'
      BY <1>5, ZenonT(30) DEF CancelFuture, Idle, TypeFlags
    <2>2. TypeRest'
      BY <1>5 DEF CancelFuture, Idle, TypeRest
    <2> QED BY <2>1, <2>2 DEF ResolverTypes
  <1>6. ASSUME NEW r \in Requests, WorkerTakes(r) PROVE ResolverTypes'
    <2>1. TypeFlags'
      BY <1>6, ZenonT(30) DEF WorkerTakes, TypeFlags
    <2>2. TypeRest'
      BY <1>6 DEF WorkerTakes, TypeRest
    <2> QED BY <2>1, <2>2 DEF ResolverTypes
  <1>7. ASSUME NEW r \in Requests, WorkerAnswers(r) PROVE ResolverTypes'
    <2>1. TypeFlags'
      BY <1>7, ZenonT(30) DEF WorkerAnswers, TypeFlags
    <2>2. TypeRest'
      BY <1>7 DEF WorkerAnswers, TypeRest
    <2> QED BY <2>1, <2>2 DEF ResolverTypes
  <1>8. ASSUME NEW r \in Requests, OnInfo(r) PROVE ResolverTypes'
    <2>1. TypeFlags'
      BY <1>8, ZenonT(30) DEF OnInfo, isReaping, TypeFlags
    <2>2. TypeRest'
      BY <1>8 DEF OnInfo, isReaping, TypeRest
    <2> QED BY <2>1, <2>2 DEF ResolverTypes
  <1>9. ASSUME NEW r \in Requests, ReaperOnInfo(r) PROVE ResolverTypes'
    <2>1. TypeFlags'
      BY <1>9, ZenonT(30) DEF ReaperOnInfo, TypeFlags
    <2>2. TypeRest'
      BY <1>9 DEF ReaperOnInfo, TypeRest
    <2> QED BY <2>1, <2>2 DEF ResolverTypes
  <1>10. CASE RunForever
    <2>1. TypeFlags'
      BY <1>10, ZenonT(30) DEF RunForever, Converting, TypeFlags
    <2>2. TypeRest'
      BY <1>10 DEF RunForever, Converting, TypeRest
    <2> QED BY <2>1, <2>2 DEF ResolverTypes
  <1>11. CASE Stopped
    <2>1. TypeFlags'
      BY <1>11, ZenonT(30) DEF Stopped, Converting, TypeFlags
    <2>2. TypeRest'
      BY <1>11 DEF Stopped, Converting, TypeRest
    <2> QED BY <2>1, <2>2 DEF ResolverTypes
  <1>12. CASE CloseLoop
    <2>1. TypeFlags'
      BY <1>12, ZenonT(30) DEF CloseLoop, StartClosing, Converting, TypeFlags
    <2>2. TypeRest'
      BY <1>12 DEF CloseLoop, StartClosing, Converting, TypeRest
    <2> QED BY <2>1, <2>2 DEF ResolverTypes
  <1>13. CASE FinishClosing
    <2>1. TypeFlags'
      BY <1>13, ZenonT(30) DEF FinishClosing, Outstanding, TypeFlags
    <2>2. TypeRest'
      <3>1. CASE Outstanding = {}
        BY <1>13, <3>1 DEF FinishClosing, TypeRest
      <3>2. CASE Outstanding # {}
        <4>1. owned' = [r \in Requests |-> FALSE]
          BY <1>13, <3>2 DEF FinishClosing
        <4>2. owned' \in [Requests -> BOOLEAN]
          BY <4>1
        <4>3. /\ reap_state' \in 0..3 /\ reaper' \in {"none", "running", "handing", "freeing", "done"}
              /\ phase' \in {"open", "running", "draining", "syncing", "closed"}
          BY <1>13, <3>2 DEF FinishClosing, TypeRest
        <4> QED BY <1>13, <4>2, <4>3 DEF FinishClosing, TypeRest
      <3> QED BY <3>1, <3>2
    <2> QED BY <2>1, <2>2 DEF ResolverTypes
  <1>14. CASE FinishSyncing
    <2>1. TypeFlags'
      BY <1>14, ZenonT(30) DEF FinishSyncing, Outstanding, TypeFlags
    <2>2. TypeRest'
      BY <1>14 DEF FinishSyncing, Outstanding, TypeRest
    <2> QED BY <2>1, <2>2 DEF ResolverTypes
  <1>15. CASE Dealloc
    <2>1. TypeFlags'
      BY <1>15, ZenonT(30) DEF Dealloc, StartClosing, Converting, TypeFlags
    <2>2. TypeRest'
      BY <1>15 DEF Dealloc, StartClosing, Converting, TypeRest
    <2> QED BY <2>1, <2>2 DEF ResolverTypes
  <1>16. CASE ReleaseLoad
    <2>1. TypeFlags'
      BY <1>16, ZenonT(30) DEF ReleaseLoad, TypeFlags
    <2>2. TypeRest'
      BY <1>16 DEF ReleaseLoad, TypeRest
    <2> QED BY <2>1, <2>2 DEF ResolverTypes
  <1>17. CASE ReleaseSwap
    <2>1. TypeFlags'
      BY <1>17, ZenonT(30) DEF ReleaseSwap, TypeFlags
    <2>2. TypeRest'
      BY <1>17 DEF ReleaseSwap, TypeRest
    <2> QED BY <2>1, <2>2 DEF ResolverTypes
  <1>18. CASE ReaperFinishes
    <2>1. TypeFlags'
      BY <1>18, ZenonT(30) DEF ReaperFinishes, Outstanding, TypeFlags
    <2>2. TypeRest'
      BY <1>18 DEF ReaperFinishes, Outstanding, TypeRest
    <2> QED BY <2>1, <2>2 DEF ResolverTypes
  <1>19. CASE ReaperHandsOver
    <2>1. TypeFlags'
      BY <1>19, ZenonT(30) DEF ReaperHandsOver, TypeFlags
    <2>2. TypeRest'
      BY <1>19 DEF ReaperHandsOver, TypeRest
    <2> QED BY <2>1, <2>2 DEF ResolverTypes
  <1>20. CASE ReaperFrees
    <2>1. TypeFlags'
      BY <1>20, ZenonT(30) DEF ReaperFrees, TypeFlags
    <2>2. TypeRest'
      BY <1>20 DEF ReaperFrees, TypeRest
    <2> QED BY <2>1, <2>2 DEF ResolverTypes
  <1>21. CASE UNCHANGED vars
    <2>1. TypeFlags'
      BY <1>21, ZenonT(30) DEF vars, TypeFlags
    <2>2. TypeRest'
      BY <1>21 DEF vars, TypeRest
    <2> QED BY <2>1, <2>2 DEF ResolverTypes
  <1> QED
    BY <1>1, <1>2, <1>3, <1>4, <1>5, <1>6, <1>7, <1>8, <1>9, <1>10, <1>11, <1>12, <1>13, <1>14, <1>15, <1>16, <1>17, <1>18, <1>19, <1>20, <1>21 DEF Next

\* Every step that is not a late submission preserves what is said of ownership.
LEMMA OwnershipStep ==
    ASSUME ResolverTypes, Ownership, [Next]_vars, ~late' PROVE Ownership'
  <1> USE KindsAssumption
  <1> TypeFlags /\ TypeRest /\ ClosedPhases /\ OnlyReaperWorks /\ Handover /\ Frees
    BY DEF ResolverTypes, Ownership
  <1>1. ASSUME NEW r \in Requests, Call(r) PROVE Ownership'
    <2>1. ClosedPhases'
      BY <1>1 DEF Call, ClosedPhases, TypeRest
    <2>2. OnlyReaperWorks'
      BY <1>1 DEF Call, OnlyReaperWorks, ClosedPhases, Handover, TypeRest
    <2>3. Handover'
      BY <1>1 DEF Call, Handover, TypeRest, ClosedPhases, Frees
    <2>4. Frees'
      BY <1>1 DEF Call, Frees, Handover, TypeRest
    <2> QED BY <2>1, <2>2, <2>3, <2>4 DEF Ownership
  <1>2. ASSUME NEW r \in Requests, Raise(r) PROVE Ownership'
    <2>1. ClosedPhases'
      BY <1>2 DEF Raise, Idle, ClosedPhases, TypeRest
    <2>2. OnlyReaperWorks'
      BY <1>2 DEF Raise, Idle, OnlyReaperWorks, ClosedPhases, Handover, TypeRest
    <2>3. Handover'
      BY <1>2 DEF Raise, Idle, Handover, TypeRest, ClosedPhases, Frees
    <2>4. Frees'
      BY <1>2 DEF Raise, Idle, Frees, Handover, TypeRest
    <2> QED BY <2>1, <2>2, <2>3, <2>4 DEF Ownership
  <1>3. ASSUME NEW r \in Requests, Resolve(r) PROVE Ownership'
    <2>1. ClosedPhases'
      BY <1>3 DEF Resolve, Idle, ClosedPhases, TypeRest
    <2>2. OnlyReaperWorks'
      BY <1>3 DEF Resolve, Idle, OnlyReaperWorks, ClosedPhases, Handover, TypeRest
    <2>3. Handover'
      BY <1>3 DEF Resolve, Idle, Handover, TypeRest, ClosedPhases, Frees
    <2>4. Frees'
      BY <1>3 DEF Resolve, Idle, Frees, Handover, TypeRest
    <2> QED BY <2>1, <2>2, <2>3, <2>4 DEF Ownership
  <1>4. ASSUME NEW r \in Requests, Submit(r) PROVE Ownership'
    <2>1. ClosedPhases'
      BY <1>4 DEF Submit, Idle, ClosedPhases, TypeRest
    <2>2. OnlyReaperWorks'
      BY <1>4 DEF Submit, Idle, OnlyReaperWorks, ClosedPhases, Handover, TypeRest
    <2>3. Handover'
      BY <1>4 DEF Submit, Idle, Handover, TypeRest, ClosedPhases, Frees
    <2>4. Frees'
      BY <1>4 DEF Submit, Idle, Frees, Handover, TypeRest
    <2> QED BY <2>1, <2>2, <2>3, <2>4 DEF Ownership
  <1>5. ASSUME NEW r \in Requests, CancelFuture(r) PROVE Ownership'
    <2>1. ClosedPhases'
      BY <1>5 DEF CancelFuture, Idle, ClosedPhases, TypeRest
    <2>2. OnlyReaperWorks'
      BY <1>5 DEF CancelFuture, Idle, OnlyReaperWorks, ClosedPhases, Handover, TypeRest
    <2>3. Handover'
      BY <1>5 DEF CancelFuture, Idle, Handover, TypeRest, ClosedPhases, Frees
    <2>4. Frees'
      BY <1>5 DEF CancelFuture, Idle, Frees, Handover, TypeRest
    <2> QED BY <2>1, <2>2, <2>3, <2>4 DEF Ownership
  <1>6. ASSUME NEW r \in Requests, WorkerTakes(r) PROVE Ownership'
    <2>1. ClosedPhases'
      BY <1>6 DEF WorkerTakes, ClosedPhases, TypeRest
    <2>2. OnlyReaperWorks'
      BY <1>6 DEF WorkerTakes, OnlyReaperWorks, ClosedPhases, Handover, TypeRest
    <2>3. Handover'
      BY <1>6 DEF WorkerTakes, Handover, TypeRest, ClosedPhases, Frees
    <2>4. Frees'
      BY <1>6 DEF WorkerTakes, Frees, Handover, TypeRest
    <2> QED BY <2>1, <2>2, <2>3, <2>4 DEF Ownership
  <1>7. ASSUME NEW r \in Requests, WorkerAnswers(r) PROVE Ownership'
    <2>1. ClosedPhases'
      BY <1>7 DEF WorkerAnswers, ClosedPhases, TypeRest
    <2>2. OnlyReaperWorks'
      BY <1>7 DEF WorkerAnswers, OnlyReaperWorks, ClosedPhases, Handover, TypeRest
    <2>3. Handover'
      BY <1>7 DEF WorkerAnswers, Handover, TypeRest, ClosedPhases, Frees
    <2>4. Frees'
      BY <1>7 DEF WorkerAnswers, Frees, Handover, TypeRest
    <2> QED BY <2>1, <2>2, <2>3, <2>4 DEF Ownership
  <1>8. ASSUME NEW r \in Requests, OnInfo(r) PROVE Ownership'
    <2>1. ClosedPhases'
      BY <1>8 DEF OnInfo, isReaping, ClosedPhases, TypeRest
    <2>2. OnlyReaperWorks'
      BY <1>8 DEF OnInfo, isReaping, OnlyReaperWorks, ClosedPhases, Handover, TypeRest
    <2>3. Handover'
      BY <1>8 DEF OnInfo, isReaping, Handover, TypeRest, ClosedPhases, Frees
    <2>4. Frees'
      BY <1>8 DEF OnInfo, isReaping, Frees, Handover, TypeRest
    <2> QED BY <2>1, <2>2, <2>3, <2>4 DEF Ownership
  <1>9. ASSUME NEW r \in Requests, ReaperOnInfo(r) PROVE Ownership'
    <2>1. ClosedPhases'
      BY <1>9 DEF ReaperOnInfo, ClosedPhases, TypeRest
    <2>2. OnlyReaperWorks'
      BY <1>9 DEF ReaperOnInfo, OnlyReaperWorks, ClosedPhases, Handover, TypeRest
    <2>3. Handover'
      BY <1>9 DEF ReaperOnInfo, Handover, TypeRest, ClosedPhases, Frees
    <2>4. Frees'
      BY <1>9 DEF ReaperOnInfo, Frees, Handover, TypeRest
    <2> QED BY <2>1, <2>2, <2>3, <2>4 DEF Ownership
  <1>10. CASE RunForever
    <2>1. ClosedPhases'
      BY <1>10 DEF RunForever, Converting, ClosedPhases, TypeRest
    <2>2. OnlyReaperWorks'
      BY <1>10 DEF RunForever, Converting, OnlyReaperWorks, ClosedPhases, Handover, TypeRest
    <2>3. Handover'
      BY <1>10 DEF RunForever, Converting, Handover, TypeRest, ClosedPhases, Frees
    <2>4. Frees'
      BY <1>10 DEF RunForever, Converting, Frees, Handover, TypeRest
    <2> QED BY <2>1, <2>2, <2>3, <2>4 DEF Ownership
  <1>11. CASE Stopped
    <2>1. ClosedPhases'
      BY <1>11 DEF Stopped, Converting, ClosedPhases, TypeRest
    <2>2. OnlyReaperWorks'
      BY <1>11 DEF Stopped, Converting, OnlyReaperWorks, ClosedPhases, Handover, TypeRest
    <2>3. Handover'
      BY <1>11 DEF Stopped, Converting, Handover, TypeRest, ClosedPhases, Frees
    <2>4. Frees'
      BY <1>11 DEF Stopped, Converting, Frees, Handover, TypeRest
    <2> QED BY <2>1, <2>2, <2>3, <2>4 DEF Ownership
  <1>12. CASE CloseLoop
    <2>1. ClosedPhases'
      BY <1>12 DEF CloseLoop, StartClosing, Converting, ClosedPhases, TypeRest
    <2>2. OnlyReaperWorks'
      BY <1>12 DEF CloseLoop, StartClosing, Converting, OnlyReaperWorks, ClosedPhases, Handover, TypeRest
    <2>3. Handover'
      BY <1>12 DEF CloseLoop, StartClosing, Converting, Handover, TypeRest, ClosedPhases, Frees
    <2>4. Frees'
      BY <1>12 DEF CloseLoop, StartClosing, Converting, Frees, Handover, TypeRest
    <2> QED BY <2>1, <2>2, <2>3, <2>4 DEF Ownership
  <1>13. CASE FinishClosing
    <2>1. ClosedPhases'
      BY <1>13 DEF FinishClosing, Outstanding, ClosedPhases, TypeRest
    <2>2. OnlyReaperWorks'
      BY <1>13 DEF FinishClosing, Outstanding, OnlyReaperWorks, ClosedPhases, Handover, TypeRest
    <2>3. Handover'
      BY <1>13 DEF FinishClosing, Outstanding, Handover, TypeRest, ClosedPhases, Frees
    <2>4. Frees'
      BY <1>13 DEF FinishClosing, Outstanding, Frees, Handover, TypeRest
    <2> QED BY <2>1, <2>2, <2>3, <2>4 DEF Ownership
  <1>14. CASE FinishSyncing
    <2>1. ClosedPhases'
      BY <1>14 DEF FinishSyncing, Outstanding, ClosedPhases, TypeRest
    <2>2. OnlyReaperWorks'
      BY <1>14 DEF FinishSyncing, Outstanding, OnlyReaperWorks, ClosedPhases, Handover, TypeRest
    <2>3. Handover'
      BY <1>14 DEF FinishSyncing, Outstanding, Handover, TypeRest, ClosedPhases, Frees
    <2>4. Frees'
      BY <1>14 DEF FinishSyncing, Outstanding, Frees, Handover, TypeRest
    <2> QED BY <2>1, <2>2, <2>3, <2>4 DEF Ownership
  <1>15. CASE Dealloc
    <2>1. ClosedPhases'
      BY <1>15 DEF Dealloc, StartClosing, Converting, ClosedPhases, TypeRest
    <2>2. OnlyReaperWorks'
      BY <1>15 DEF Dealloc, StartClosing, Converting, OnlyReaperWorks, ClosedPhases, Handover, TypeRest
    <2>3. Handover'
      BY <1>15 DEF Dealloc, StartClosing, Converting, Handover, TypeRest, ClosedPhases, Frees
    <2>4. Frees'
      BY <1>15 DEF Dealloc, StartClosing, Converting, Frees, Handover, TypeRest
    <2> QED BY <2>1, <2>2, <2>3, <2>4 DEF Ownership
  <1>16. CASE ReleaseLoad
    <2>1. ClosedPhases'
      BY <1>16 DEF ReleaseLoad, ClosedPhases, TypeRest
    <2>2. OnlyReaperWorks'
      BY <1>16 DEF ReleaseLoad, OnlyReaperWorks, ClosedPhases, Handover, TypeRest
    <2>3. Handover'
      BY <1>16 DEF ReleaseLoad, Handover, TypeRest, ClosedPhases, Frees
    <2>4. Frees'
      BY <1>16 DEF ReleaseLoad, Frees, Handover, TypeRest
    <2> QED BY <2>1, <2>2, <2>3, <2>4 DEF Ownership
  <1>17. CASE ReleaseSwap
    <2>1. ClosedPhases'
      BY <1>17 DEF ReleaseSwap, ClosedPhases, TypeRest
    <2>2. OnlyReaperWorks'
      BY <1>17 DEF ReleaseSwap, OnlyReaperWorks, ClosedPhases, Handover, TypeRest
    <2>3. Handover'
      BY <1>17 DEF ReleaseSwap, Handover, TypeRest, ClosedPhases, Frees
    <2>4. Frees'
      BY <1>17 DEF ReleaseSwap, Frees, Handover, TypeRest
    <2> QED BY <2>1, <2>2, <2>3, <2>4 DEF Ownership
  <1>18. CASE ReaperFinishes
    <2>1. ClosedPhases'
      BY <1>18 DEF ReaperFinishes, Outstanding, ClosedPhases, TypeRest
    <2>2. OnlyReaperWorks'
      BY <1>18 DEF ReaperFinishes, Outstanding, OnlyReaperWorks, ClosedPhases, Handover, TypeRest
    <2>3. Handover'
      BY <1>18 DEF ReaperFinishes, Outstanding, Handover, TypeRest, ClosedPhases, Frees
    <2>4. Frees'
      BY <1>18 DEF ReaperFinishes, Outstanding, Frees, Handover, TypeRest
    <2> QED BY <2>1, <2>2, <2>3, <2>4 DEF Ownership
  <1>19. CASE ReaperHandsOver
    <2>1. ClosedPhases'
      BY <1>19 DEF ReaperHandsOver, ClosedPhases, TypeRest
    <2>2. OnlyReaperWorks'
      BY <1>19 DEF ReaperHandsOver, OnlyReaperWorks, ClosedPhases, Handover, TypeRest
    <2>3. Handover'
      BY <1>19 DEF ReaperHandsOver, Handover, TypeRest, ClosedPhases, Frees
    <2>4. Frees'
      BY <1>19 DEF ReaperHandsOver, Frees, Handover, TypeRest
    <2> QED BY <2>1, <2>2, <2>3, <2>4 DEF Ownership
  <1>20. CASE ReaperFrees
    <2>1. ClosedPhases'
      BY <1>20 DEF ReaperFrees, ClosedPhases, TypeRest
    <2>2. OnlyReaperWorks'
      BY <1>20 DEF ReaperFrees, OnlyReaperWorks, ClosedPhases, Handover, TypeRest
    <2>3. Handover'
      BY <1>20 DEF ReaperFrees, Handover, TypeRest, ClosedPhases, Frees
    <2>4. Frees'
      BY <1>20 DEF ReaperFrees, Frees, Handover, TypeRest
    <2> QED BY <2>1, <2>2, <2>3, <2>4 DEF Ownership
  <1>21. CASE UNCHANGED vars
    <2>1. ClosedPhases'
      BY <1>21 DEF vars, ClosedPhases
    <2>2. OnlyReaperWorks'
      BY <1>21 DEF vars, OnlyReaperWorks
    <2>3. Handover'
      BY <1>21 DEF vars, Handover
    <2>4. Frees'
      BY <1>21 DEF vars, Frees
    <2> QED BY <2>1, <2>2, <2>3, <2>4 DEF Ownership
  <1> QED
    BY <1>1, <1>2, <1>3, <1>4, <1>5, <1>6, <1>7, <1>8, <1>9, <1>10, <1>11, <1>12, <1>13, <1>14, <1>15, <1>16, <1>17, <1>18, <1>19, <1>20, <1>21 DEF Next

\* A late submission is never taken back.
LEMMA LateStays == ASSUME [Next]_vars, late PROVE late'
  <1>1. ASSUME NEW r \in Requests,
               Call(r) \/ Raise(r) \/ Resolve(r) \/ CancelFuture(r) \/ WorkerTakes(r)
                  \/ WorkerAnswers(r) \/ OnInfo(r) \/ ReaperOnInfo(r)
        PROVE  late'
    BY <1>1, Zenon DEF Call, Raise, Resolve, CancelFuture, WorkerTakes, WorkerAnswers, OnInfo, ReaperOnInfo
  <1>2. ASSUME NEW r \in Requests, Submit(r) PROVE late'
    BY <1>2, Zenon DEF Submit
  <1>3. CASE RunForever \/ Stopped \/ CloseLoop \/ FinishClosing \/ FinishSyncing \/ Dealloc
    BY <1>3, Zenon DEF RunForever, Stopped, CloseLoop, FinishClosing, FinishSyncing, Dealloc
  <1>4. CASE ReleaseLoad \/ ReleaseSwap \/ ReaperFinishes \/ ReaperHandsOver \/ ReaperFrees
    BY <1>4, Zenon DEF ReleaseLoad, ReleaseSwap, ReaperFinishes, ReaperHandsOver, ReaperFrees
  <1>5. CASE UNCHANGED vars
    BY <1>5, Zenon DEF vars
  <1> QED BY <1>1, <1>2, <1>3, <1>4, <1>5, Zenon DEF Next

\* The inductive invariant holds throughout.
THEOREM ResolverInvariant == Spec => []ResolverInv
  <1>1. ResolverInv /\ [Next]_vars => ResolverInv'
    <2> SUFFICES ASSUME ResolverInv, [Next]_vars PROVE ResolverInv'
      OBVIOUS
    <2>1. ResolverTypes'
      BY ResolverTypeStep DEF ResolverInv
    <2>2. CASE late
      BY <2>1, <2>2, LateStays, Zenon DEF ResolverInv
    <2>3. CASE ~late /\ ~late'
      BY <2>1, <2>3, OwnershipStep, Zenon DEF ResolverInv
    <2> QED BY <2>1, <2>2, <2>3, Zenon DEF ResolverInv
  <1> QED BY ResolverInitInv, <1>1, PTL DEF Spec

\* Type correctness, whatever the conversions of arguments do.
THEOREM ResolverTypeCorrect == Spec => []TypeOK
  <1>1. ResolverInv => TypeOK
    BY DEF ResolverInv, ResolverTypes, TypeFlags, TypeRest, TypeOK
  <1> QED BY ResolverInvariant, <1>1, PTL

\* Until getnameinfo() submits to a closed loop, the storage of the loop is freed
\* once, by whichever side is last to need it, for any number of requests and any
\* interleaving of close(), deallocation, the reaper thread and libuv's workers.
THEOREM FreedOnce == Spec => []StorageOwned
  <1>1. ResolverInv => StorageOwned
    BY DEF ResolverInv, ResolverTypes, Ownership, TypeRest, Handover, Frees, OnlyReaperWorks,
           StorageOwned, Outstanding
  <1> QED BY ResolverInvariant, <1>1, PTL

\* Until then the two panics on an invalid ownership state are unreachable.
THEOREM NeverPanics == Spec => []NoInvalidOwner
  <1>1. ResolverInv => NoInvalidOwner
    BY DEF ResolverInv, ResolverTypes, Ownership, TypeRest, Handover, NoInvalidOwner
  <1> QED BY ResolverInvariant, <1>1, PTL

\* Until then the reaper thread never has a Python reference to release.
THEOREM ReaperStaysNative == Spec => []ReaperIsNative
  <1>1. ResolverInv => ReaperIsNative
    BY DEF ResolverInv, Ownership, Handover, ReaperIsNative
  <1> QED BY ResolverInvariant, <1>1, PTL
=============================================================================
