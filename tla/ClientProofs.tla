---------------------------- MODULE ClientProofs ----------------------------
(***************************************************************************)
(* Proofs about the calls a client makes: create_connection() and its like *)
(* (Connect), sendfile() (Sendfile) and the default executor (Executors),  *)
(* for any number of addresses, blocks, jobs and executors.                *)
(*                                                                         *)
(* Each part has an inductive invariant over its own variables, an         *)
(* "InitInv" and a "StepInv" lemma for it, and an "InvImplies" lemma that  *)
(* draws the properties from it.  ProgramProofs puts the parts together.   *)
(***************************************************************************)
EXTENDS Connect, Sendfile, Executors, TLAPS

-----------------------------------------------------------------------------
(* Connecting (Connect) *)

\* An attempt that won is that of an address.
LEMMA WinnerIsAddr == ASSUME winner \in 0..N, winner # 0 PROVE winner \in Addrs
  BY AddrsAssumption DEF Addrs

Before == {"idle", "getaddrinfo", "getlocal", "connected", "leaving"}

ConnectTypes ==
    /\ kind \in {"none", "seq", "race", "unix", "sock"}
    /\ at \in Before \cup {"connect", "wrap", "waiter", "done"}
    /\ wake \in {"no", "ok", "raised", "cancelling", "cancelled"}
    /\ att \in [Addrs -> {"idle", "resolving", "connecting", "failed", "cancelled", "won"}]
    /\ awake \in [Addrs -> {"no", "ok", "raised", "cancelled"}]
    /\ sock \in [Addrs -> {"none", "open", "closed", "adopted"}]
    /\ errors \in Seq([addr : Addrs, n : Nat])
    /\ winner \in 0..N
    /\ transport \in {"none", "open", "closing"}
    /\ result \in {"none", "returned", "raised"}

\* Nothing is there before the first attempt; attempts run while the caller waits
\* for them, and a winner has cancelled the others.
Phases ==
    /\ at \in Before => /\ winner = 0 /\ errors = <<>>
                        /\ \A a \in Addrs : att[a] = "idle" /\ sock[a] = "none"
    /\ Running # {} => at = "connect"
    /\ wake = "cancelling" => at = "connect"
    /\ at \in {"wrap", "waiter"} => winner # 0
    /\ winner # 0 => \A a \in Running : awake[a] = "cancelled"

\* Who has which socket.
Sockets ==
    /\ \A a \in Addrs : sock[a] = "open" => a \in Running \/ a = winner
    /\ \A a \in Addrs : sock[a] = "adopted" => a = winner /\ at \in {"waiter", "done"}
    /\ at = "waiter" => sock[winner] = "adopted" /\ transport = "open"

\* The slots are in the order of the addresses, a failed attempt has filled its
\* own, and an attempt is cancelled for a winner or with the caller.
Slots ==
    /\ kind # "sock" => Started = 1..Len(errors)
    /\ kind = "sock" => errors = <<>> /\ winner # 0
    /\ kind = "unix" => Len(errors) <= 1
    /\ \A i \in 1..Len(errors) : errors[i].addr = i
    /\ \A i \in 1..Len(errors) : att[i] = "failed" => errors[i].n > 0
    /\ \A a \in Addrs : att[a] = "cancelled" \/ (a \in Running /\ awake[a] = "cancelled") =>
                            winner # 0 \/ wake = "cancelled"
    /\ at = "done" /\ wake # "cancelled" /\ errors # <<>> /\ winner = 0 =>
          /\ \A i \in 1..Len(errors) : att[i] = "failed"
          /\ kind # "unix" => Started = Addrs

ConnectInv == ConnectTypes /\ Phases /\ Sockets /\ NoSocketLeaks /\ Slots

\* Nothing has been tried yet, or a call is over and its locals are gone.
Fresh ==
    /\ at \in Before /\ kind \in {"none", "seq", "race", "unix"}
    /\ wake \in {"no", "ok", "raised", "cancelled"}
    /\ att = [a \in Addrs |-> "idle"] /\ awake \in [Addrs -> {"no", "ok", "raised", "cancelled"}]
    /\ sock = [a \in Addrs |-> "none"]
    /\ errors = <<>> /\ winner = 0 /\ transport = "none" /\ result = "none"

\* A caller that has tried no address has nothing to give back.
LEMMA NothingTried == Fresh => ConnectInv
<1> SUFFICES ASSUME Fresh PROVE ConnectInv
  OBVIOUS
<1> USE DEF Fresh
<1>1. ConnectTypes
  BY AddrsAssumption DEF ConnectTypes
<1>2. Running = {} /\ Started = {}
  BY DEF Running, Started
<1>3. Phases /\ Sockets
  BY <1>2 DEF Phases, Sockets, Before
<1>4. NoSocketLeaks
  BY DEF NoSocketLeaks, Before
<1>5. Slots
  BY <1>2 DEF Slots, Before
<1> QED BY <1>1, <1>3, <1>4, <1>5 DEF ConnectInv

\* No call has begun.
LEMMA ConnectInitInv == ConnectInit => ConnectInv
  BY NothingTried DEF ConnectInit, Fresh, Before

\* The caller, before and after its attempts.
LEMMA CallerInv ==
    ASSUME ConnectInv, Resolved \/ HasAddresses \/ Made \/ Return \/ Wrap \/ WrapFails \/ Settled \/ Call
    PROVE  ConnectInv'
<1> USE DEF ConnectInv
<1>1. CASE Resolved
  <2>1. ConnectTypes'
    BY <1>1, AddrsAssumption DEF Resolved, ConnectTypes, Ends, attempts, Before
  <2>2. Phases'
    BY <1>1 DEF Resolved, ConnectTypes, Phases, Ends, attempts, Before, Running
  <2>3. Sockets' /\ NoSocketLeaks'
    BY <1>1 DEF Resolved, ConnectTypes, Phases, Sockets, NoSocketLeaks, Ends, attempts, Before, Running
  <2>4. Slots'
    BY <1>1 DEF Resolved, ConnectTypes, Phases, Slots, Ends, attempts, Before, Running, Started
  <2> QED BY <2>1, <2>2, <2>3, <2>4
<1>2. CASE HasAddresses
  <2>1. ConnectTypes'
    BY <1>2, AddrsAssumption DEF HasAddresses, ConnectTypes, Ends, attempts, Before
  <2>2. Phases'
    BY <1>2 DEF HasAddresses, ConnectTypes, Phases, Ends, attempts, Before, Running
  <2>3. Sockets' /\ NoSocketLeaks'
    BY <1>2 DEF HasAddresses, ConnectTypes, Phases, Sockets, NoSocketLeaks, Ends, attempts, Before, Running
  <2>4. Slots'
    BY <1>2 DEF HasAddresses, ConnectTypes, Phases, Slots, Ends, attempts, Before, Running, Started
  <2> QED BY <2>1, <2>2, <2>3, <2>4
<1>3. CASE Made
  <2>1. ConnectTypes'
    BY <1>3, AddrsAssumption DEF Made, ConnectTypes, Ends, attempts, Before
  <2>2. Phases'
    BY <1>3 DEF Made, ConnectTypes, Phases, Ends, attempts, Before, Running
  <2>3. Sockets' /\ NoSocketLeaks'
    BY <1>3 DEF Made, ConnectTypes, Phases, Sockets, NoSocketLeaks, Ends, attempts, Before, Running
  <2>4. Slots'
    BY <1>3 DEF Made, ConnectTypes, Phases, Slots, Ends, attempts, Before, Running, Started
  <2> QED BY <2>1, <2>2, <2>3, <2>4
<1>4. CASE Return
  <2>1. ConnectTypes'
    BY <1>4, AddrsAssumption DEF Return, ConnectTypes, Ends, attempts, Before
  <2>2. Phases'
    BY <1>4 DEF Return, ConnectTypes, Phases, Ends, attempts, Before, Running
  <2>3. Sockets' /\ NoSocketLeaks'
    BY <1>4 DEF Return, ConnectTypes, Phases, Sockets, NoSocketLeaks, Ends, attempts, Before, Running
  <2>4. Slots'
    BY <1>4 DEF Return, ConnectTypes, Phases, Slots, Ends, attempts, Before, Running, Started
  <2> QED BY <2>1, <2>2, <2>3, <2>4
<1>5. CASE Wrap
  <2>1. ConnectTypes'
    BY <1>5, AddrsAssumption DEF Wrap, ConnectTypes, Ends, attempts, Before
  <2>2. Phases'
    BY <1>5 DEF Wrap, ConnectTypes, Phases, Ends, attempts, Before, Running
  <2>3. Sockets' /\ NoSocketLeaks'
    BY <1>5, WinnerIsAddr DEF Wrap, ConnectTypes, Phases, Sockets, NoSocketLeaks, Ends, attempts, Before, Running
  <2>4. Slots'
    BY <1>5 DEF Wrap, ConnectTypes, Phases, Slots, Ends, attempts, Before, Running, Started
  <2> QED BY <2>1, <2>2, <2>3, <2>4
<1>6. CASE WrapFails
  <2>1. ConnectTypes'
    BY <1>6, AddrsAssumption DEF WrapFails, ConnectTypes, Ends, attempts, Before
  <2>2. Phases'
    BY <1>6 DEF WrapFails, ConnectTypes, Phases, Ends, attempts, Before, Running
  <2>3. Sockets' /\ NoSocketLeaks'
    BY <1>6, WinnerIsAddr DEF WrapFails, ConnectTypes, Phases, Sockets, NoSocketLeaks, Ends, attempts, Before, Running
  <2>4. Slots'
    BY <1>6 DEF WrapFails, ConnectTypes, Phases, Slots, Ends, attempts, Before, Running, Started
  <2> QED BY <2>1, <2>2, <2>3, <2>4
<1>7. CASE Settled
  <2>1. ConnectTypes'
    BY <1>7, AddrsAssumption DEF Settled, ConnectTypes, Ends, attempts, Before
  <2>2. Phases'
    BY <1>7 DEF Settled, ConnectTypes, Phases, Ends, attempts, Before, Running
  <2>3. Running = {} /\ at = "connect" /\ UNCHANGED <<att, awake, sock, errors, kind, wake, winner, transport>>
    BY <1>7 DEF Settled, attempts
  <2>4. CASE winner # 0 /\ wake # "cancelled"
    <3>1. at' = "wrap" /\ UNCHANGED result
      BY <1>7, <2>4 DEF Settled
    <3>2. Sockets' /\ NoSocketLeaks'
      BY <2>3, <3>1 DEF Sockets, NoSocketLeaks, Running
    <3>3. Slots'
      BY <2>3, <3>1 DEF Slots, Running, Started
    <3> QED BY <2>1, <2>2, <3>2, <3>3
  <2>5. CASE ~(winner # 0 /\ wake # "cancelled")
    <3>1. at' = "done" /\ result' = "raised"
      BY <1>7, <2>5 DEF Settled, Ends
    <3>2. dropped' <=> winner # 0
      BY <1>7, <2>5, Zenon DEF Settled
    <3>3. \A a \in Addrs : sock[a] = "open" => a = winner /\ winner # 0
      BY <2>3, AddrsAssumption DEF Sockets, Addrs
    <3>4. Sockets'
      BY <2>3, <3>1 DEF Sockets, Running
    <3>5. NoSocketLeaks'
      BY <2>3, <3>1, <3>2, <3>3 DEF Sockets, NoSocketLeaks
    <3>6. ASSUME wake # "cancelled", winner = 0
          PROVE  /\ \A i \in 1..Len(errors) : att[i] = "failed"
                 /\ kind # "unix" => Started = Addrs
      <4>1. \A a \in (IF kind = "unix" THEN {1} ELSE Addrs) : att[a] = "failed"
        <5>1. 1 \in Addrs
          BY AddrsAssumption DEF Addrs
        <5> QED BY <1>7, <3>6, <5>1 DEF Settled, Over, Slots
      <4>2. kind # "sock" /\ Started = 1..Len(errors)
        BY <3>6 DEF Slots
      <4>3. CASE kind # "unix"
        BY <4>1, <4>2, <4>3 DEF Started
      <4>4. CASE kind = "unix"
        <5>1. \A i \in 1..Len(errors) : i = 1
          BY <4>4 DEF ConnectTypes, Slots
        <5> QED BY <4>1, <4>4, <5>1
      <4> QED BY <4>3, <4>4
    <3>7. Slots'
      BY <2>3, <3>1, <3>6 DEF Slots, Running, Started
    <3> QED BY <2>1, <2>2, <3>4, <3>5, <3>7
  <2> QED BY <2>4, <2>5
<1>8. CASE Call
  <2>1. ConnectTypes'
    <3>1. at' \in {"wrap", "connect", "getaddrinfo"} /\ winner' \in {0, 1}
      BY <1>8 DEF Call
    <3>2. PICK c \in {"won", "idle"}, k \in {"open", "none"} :
              att' = [att EXCEPT ![1] = c] /\ sock' = [sock EXCEPT ![1] = k]
      BY <1>8 DEF Call
    <3>3. /\ att' \in [Addrs -> {"idle", "resolving", "connecting", "failed", "cancelled", "won"}]
          /\ sock' \in [Addrs -> {"none", "open", "closed", "adopted"}]
      BY <3>2 DEF ConnectTypes
    <3>4. winner' \in 0..N
      <4>1. 0 \in 0..N /\ 1 \in 0..N
        BY AddrsAssumption
      <4> QED BY <3>1, <4>1
    <3>5. kind' \in {"seq", "race", "unix", "sock"} /\ UNCHANGED <<wake, awake, errors, transport, result>>
      BY <1>8 DEF Call
    <3> QED BY <3>1, <3>3, <3>4, <3>5 DEF ConnectTypes, Before
  <2>2. Phases'
    BY <1>8 DEF Call, ConnectTypes, Phases, Ends, attempts, Before, Running
  <2>3. Sockets' /\ NoSocketLeaks'
    BY <1>8 DEF Call, ConnectTypes, Phases, Sockets, NoSocketLeaks, Ends, attempts, Before, Running
  <2>4. Slots'
    BY <1>8 DEF Call, ConnectTypes, Phases, Slots, Ends, attempts, Before, Running, Started
  <2> QED BY <2>1, <2>2, <2>3, <2>4
<1> QED BY <1>1, <1>2, <1>3, <1>4, <1>5, <1>6, <1>7, <1>8

\* A cancellation reaches the attempts that run.
LEMMA CancelsInv ==
    ASSUME ConnectInv, CancelCaller \/ PassOn
    PROVE  ConnectInv'
<1> USE DEF ConnectInv
<1>1. /\ UNCHANGED <<att, sock, errors, kind, at, winner, transport, result, dropped>>
      /\ wake' \in {"cancelling", "cancelled"}
      /\ wake' = "cancelling" => UNCHANGED awake /\ at = "connect" /\ wake # "cancelled"
      /\ wake' = "cancelled" => awake' = [a \in Addrs |-> IF a \in Running THEN "cancelled" ELSE awake[a]]
      /\ at # "done"
  BY DEF CancelCaller, PassOn, Phases
<1>2. awake' \in [Addrs -> {"no", "ok", "raised", "cancelled"}]
  BY <1>1 DEF ConnectTypes
<1>3. ConnectTypes'
  BY <1>1, <1>2 DEF ConnectTypes
<1>4. Running' = Running /\ Started' = Started
  BY <1>1 DEF Running, Started
<1>5. Phases'
  BY <1>1, <1>4 DEF Phases, Running, ConnectTypes
<1>6. Sockets' /\ NoSocketLeaks'
  BY <1>1, <1>4 DEF Sockets, NoSocketLeaks
<1>7. Slots'
  BY <1>1, <1>4 DEF Slots, Running
<1> QED BY <1>3, <1>5, <1>6, <1>7

\* A slot counts the exceptions of its address.
LEMMA SlotTyped == ASSUME ConnectTypes, NEW i \in 1..Len(errors) PROVE errors[i].n \in Nat
<1> DEFINE E == [addr : Addrs, n : Nat]
<1>1. errors \in Seq(E)
  BY DEF ConnectTypes
<1>2. ASSUME NEW e \in E PROVE e.n \in Nat
  OBVIOUS
<1> HIDE DEF E
<1> QED BY <1>1, <1>2

\* The failures of an attempt join its slot.
LEMMA RecordedSlots ==
    ASSUME ConnectInv, NEW a \in Addrs, NEW n \in Nat
    PROVE  LET es == Recorded(errors, a, n) IN
           /\ es \in Seq([addr : Addrs, n : Nat]) /\ Len(es) = Len(errors)
           /\ \A i \in 1..Len(errors) : es[i].addr = i
           /\ \A i \in 1..Len(errors) : es[i].n = IF i = a THEN errors[i].n + n ELSE errors[i].n
<1> DEFINE E == [addr : Addrs, n : Nat]
           es == Recorded(errors, a, n)
           new(i) == IF errors[i].addr = a THEN Slot(a, errors[i].n + n) ELSE errors[i]
<1>1. errors \in Seq(E) /\ Len(errors) \in Nat /\ DOMAIN errors = 1..Len(errors)
  BY DEF ConnectInv, ConnectTypes
<1>2. es = [i \in 1..Len(errors) |-> new(i)]
  BY <1>1 DEF Recorded
<1>3. ASSUME NEW i \in 1..Len(errors)
      PROVE  new(i) \in E /\ new(i).addr = i /\ new(i).n = IF i = a THEN errors[i].n + n ELSE errors[i].n
  <2>1. errors[i] \in E /\ errors[i].addr = i
    <3>1. errors[i].addr = i
      BY DEF ConnectInv, Slots
    <3> HIDE DEF E
    <3>2. errors[i] \in E
      BY <1>1
    <3> QED BY <3>1, <3>2
  <2>2. CASE i = a
    <3>1. new(i) = [addr |-> a, n |-> errors[i].n + n]
      BY <2>1, <2>2 DEF Slot
    <3>2. errors[i].n + n \in Nat
      BY <2>1
    <3> QED BY <2>2, <3>1, <3>2
  <2>3. CASE i # a
    BY <2>1, <2>3
  <2> QED BY <2>2, <2>3
<1> HIDE DEF E, es, new
<1>4. es \in Seq(E) /\ Len(es) = Len(errors)
  BY <1>1, <1>2, <1>3
<1>5. \A i \in 1..Len(errors) : es[i] = new(i)
  BY <1>2
<1> QED BY <1>3, <1>4, <1>5 DEF E, es

\* An attempt ends without a connection.
LEMMA LoseInv == ASSUME ConnectInv, NEW a \in Addrs, Lose(a) PROVE ConnectInv'
<1> USE DEF ConnectInv
<1> DEFINE n == IF awake[a] = "cancelled" THEN 0 ELSE 1
           es == Recorded(errors, a, n)
           over == IF awake[a] = "cancelled" THEN "cancelled" ELSE "failed"
<1>1. /\ a \in Running /\ att' = [att EXCEPT ![a] = over] /\ sock' = [sock EXCEPT ![a] = "closed"]
      /\ errors' = es /\ UNCHANGED <<awake, kind, at, wake, winner, transport, result, dropped>>
  BY DEF Lose, Failed, caller
<1>2. n \in Nat /\ over \in {"cancelled", "failed"}
  OBVIOUS
<1>3. /\ es \in Seq([addr : Addrs, n : Nat]) /\ Len(es) = Len(errors)
      /\ \A i \in 1..Len(errors) : es[i].addr = i
      /\ \A i \in 1..Len(errors) : es[i].n = IF i = a THEN errors[i].n + n ELSE errors[i].n
  BY <1>2, RecordedSlots, ZenonT(30)
<1> HIDE DEF n, es, over
<1>4. ConnectTypes'
  BY <1>1, <1>2, <1>3, SMTT(30) DEF ConnectTypes
<1>5. Running' = Running \ {a} /\ Started' = Started /\ at = "connect"
  BY <1>1, <1>2 DEF Running, Started, ConnectTypes, Phases
<1>6. Phases'
  BY <1>1, <1>5 DEF Phases, Before
<1>7. Sockets' /\ NoSocketLeaks'
  BY <1>1, <1>5 DEF Sockets, NoSocketLeaks, ConnectTypes
<1>8. Slots'
  <2>1. ASSUME NEW i \in 1..Len(errors), att'[i] = "failed" PROVE es[i].n > 0
    <3>1. errors[i].n \in Nat
      BY SlotTyped
    <3>2. CASE i = a
      <4>1. n = 1
        BY <1>1, <2>1, <3>2 DEF ConnectTypes, n, over
      <4> QED BY <1>3, <3>1, <3>2, <4>1
    <3>3. CASE i # a
      <4>1. att[i] = "failed"
        BY <1>1, <2>1, <3>3 DEF ConnectTypes
      <4> QED BY <1>3, <3>1, <3>3, <4>1 DEF Slots
    <3> QED BY <3>2, <3>3
  <2>2. es = <<>> <=> errors = <<>>
    BY <1>3 DEF ConnectTypes
  <2>3. \A b \in Addrs : att'[b] = "cancelled" \/ (b \in Running' /\ awake'[b] = "cancelled") =>
                            winner # 0 \/ wake = "cancelled"
    BY <1>1, <1>5 DEF Slots, ConnectTypes, over
  <2> QED BY <1>1, <1>3, <1>5, <2>1, <2>2, <2>3 DEF Slots
<1> QED BY <1>4, <1>6, <1>7, <1>8

\* An attempt goes on, or wins.
LEMMA GoesOnInv == ASSUME ConnectInv, NEW a \in Addrs, Answer(a) \/ Watch(a) \/ Win(a) PROVE ConnectInv'
<1> USE DEF ConnectInv
<1>1. CASE Answer(a)
  <2>1. PICK how \in {"ok", "raised"} : awake' = [awake EXCEPT ![a] = how]
    BY <1>1 DEF Answer
  <2>2. a \in Running /\ awake[a] = "no" /\ UNCHANGED <<att, sock, errors, kind, at, wake, winner, transport, result, dropped>>
    BY <1>1 DEF Answer, caller
  <2>3. Running' = Running /\ Started' = Started
    BY <2>2 DEF Running, Started
  <2>4. ConnectTypes'
    BY <2>1, <2>2 DEF ConnectTypes
  <2>5. Phases' /\ Sockets' /\ NoSocketLeaks'
    BY <2>1, <2>2, <2>3 DEF Phases, Sockets, NoSocketLeaks, ConnectTypes
  <2>6. Slots'
    BY <2>1, <2>2, <2>3 DEF Slots, ConnectTypes
  <2> QED BY <2>4, <2>5, <2>6
<1>2. CASE Watch(a)
  <2>1. /\ att[a] = "resolving" /\ awake[a] = "ok"
        /\ att' = [att EXCEPT ![a] = "connecting"] /\ awake' = [awake EXCEPT ![a] = "no"]
        /\ UNCHANGED <<sock, errors, kind, at, wake, winner, transport, result, dropped>>
    BY <1>2 DEF Watch, caller
  <2>2. Running' = Running /\ Started' = Started /\ a \in Running
    BY <2>1 DEF Running, Started, ConnectTypes
  <2>3. ConnectTypes'
    BY <2>1 DEF ConnectTypes
  <2>4. Phases'
    BY <2>1, <2>2 DEF Phases, ConnectTypes, Before
  <2>5. Sockets' /\ NoSocketLeaks'
    BY <2>1, <2>2 DEF Sockets, NoSocketLeaks
  <2>6. Slots'
    BY <2>1, <2>2 DEF Slots, ConnectTypes
  <2> QED BY <2>3, <2>4, <2>5, <2>6
<1>3. CASE Win(a)
  <2>1. /\ a \in Running /\ awake[a] = "ok" /\ winner' = a /\ att' = [att EXCEPT ![a] = "won"]
        /\ awake' = [b \in Addrs |-> IF b \in Running /\ b # a THEN "cancelled" ELSE awake[b]]
        /\ UNCHANGED <<sock, errors, kind, at, wake, transport, result, dropped>>
    BY <1>3 DEF Win
  <2>2. Running' = Running \ {a} /\ Started' = Started /\ at = "connect" /\ winner = 0
    BY <2>1 DEF Running, Started, ConnectTypes, Phases
  <2>3. a \in 0..N /\ a # 0
    BY AddrsAssumption DEF Addrs
  <2>4. ConnectTypes'
    <3>1. awake' \in [Addrs -> {"no", "ok", "raised", "cancelled"}]
      BY <2>1 DEF ConnectTypes
    <3> QED BY <2>1, <2>3, <3>1 DEF ConnectTypes
  <2>5. Phases'
    <3>1. \A b \in Running' : awake'[b] = "cancelled"
      BY <2>1, <2>2 DEF Running
    <3> QED BY <2>1, <2>2, <2>3, <3>1 DEF Phases, Before
  <2>6. Sockets' /\ NoSocketLeaks'
    <3>1. 0 \notin Addrs
      BY AddrsAssumption DEF Addrs
    <3> QED BY <2>1, <2>2, <3>1 DEF Sockets, NoSocketLeaks
  <2>7. Slots'
    BY <2>1, <2>2, <2>3 DEF Slots, ConnectTypes
  <2> QED BY <2>4, <2>5, <2>6, <2>7
<1> QED BY <1>1, <1>2, <1>3

\* The next attempt: its slot comes behind those of the attempts before it.
LEMMA StartInv == ASSUME ConnectInv, NEW a \in Addrs, Start(a) PROVE ConnectInv'
<1> USE DEF ConnectInv
<1>1. PICK k \in Nat, t \in {"failed", "resolving"} :
          /\ att' = [att EXCEPT ![a] = t] /\ errors' = Append(errors, Slot(a, k))
          /\ sock' = sock \/ \E c \in {"open", "closed"} : sock' = [sock EXCEPT ![a] = c]
          /\ t = "failed" => k > 0 /\ (sock' = sock \/ sock' = [sock EXCEPT ![a] = "closed"])
  <2>1. CASE /\ att' = [att EXCEPT ![a] = "failed"] /\ errors' = Append(errors, Slot(a, 1)) /\ UNCHANGED sock
    BY <2>1
  <2>2. ASSUME NEW b \in (IF kind = "unix" THEN {0} ELSE 0..MaxBinds),
               \/ /\ att' = [att EXCEPT ![a] = "resolving"] /\ sock' = [sock EXCEPT ![a] = "open"]
                  /\ errors' = Append(errors, Slot(a, b))
               \/ /\ att' = [att EXCEPT ![a] = "failed"] /\ sock' = [sock EXCEPT ![a] = "closed"]
                  /\ errors' = Append(errors, Slot(a, IF b = 0 THEN 1 ELSE b))
        PROVE  \E k \in Nat, t \in {"failed", "resolving"} :
                  /\ att' = [att EXCEPT ![a] = t] /\ errors' = Append(errors, Slot(a, k))
                  /\ sock' = sock \/ \E c \in {"open", "closed"} : sock' = [sock EXCEPT ![a] = c]
                  /\ t = "failed" => k > 0 /\ (sock' = sock \/ sock' = [sock EXCEPT ![a] = "closed"])
    <3>1. b \in Nat /\ (IF b = 0 THEN 1 ELSE b) \in Nat /\ (IF b = 0 THEN 1 ELSE b) > 0
      BY AddrsAssumption
    <3> QED BY <2>2, <3>1
  <2> QED BY <2>1, <2>2 DEF Start
<1>2. /\ at = "connect" /\ wake # "cancelled" /\ winner = 0 /\ Started = 1..(a - 1) /\ kind # "sock"
      /\ kind = "unix" => a = 1
      /\ awake' \in [Addrs -> {"no", "ok", "raised", "cancelled"}] /\ awake'[a] \in {"no", "ok"}
      /\ \A b \in Addrs \ {a} : awake'[b] = awake[b]
      /\ UNCHANGED <<kind, at, wake, winner, transport, result, dropped>>
  BY DEF Start, MayStart, caller, ConnectTypes, Slots
<1>3. a \in Nat \ {0} /\ Len(errors) = a - 1
  <2>1. a \in Nat \ {0} /\ 1..(a - 1) = 1..Len(errors) /\ Len(errors) \in Nat
    BY <1>2, AddrsAssumption DEF Slots, ConnectTypes, Addrs
  <2>2. a - 1 \in 1..(a - 1) \/ a = 1
    BY <2>1
  <2>3. Len(errors) \in 1..Len(errors) \/ Len(errors) = 0
    BY <2>1
  <2> QED BY <2>1, <2>2, <2>3
<1>4. /\ errors' \in Seq([addr : Addrs, n : Nat]) /\ Len(errors') = a
      /\ errors'[a] = Slot(a, k) /\ \A i \in 1..(a - 1) : errors'[i] = errors[i]
  <2> DEFINE E == [addr : Addrs, n : Nat]
  <2>1. Slot(a, k) \in E /\ errors \in Seq(E)
    BY DEF Slot, ConnectTypes
  <2> HIDE DEF E
  <2>2. errors' \in Seq(E) /\ Len(errors') = Len(errors) + 1
        /\ errors'[Len(errors) + 1] = Slot(a, k) /\ \A i \in 1..Len(errors) : errors'[i] = errors[i]
    BY <1>1, <2>1
  <2> QED BY <1>3, <2>2 DEF E
<1>5. a \notin Running /\ att[a] = "idle" /\ sock[a] # "open" /\ sock[a] # "adopted"
  <2>1. a \notin Started
    BY <1>2, <1>3
  <2> QED BY <1>2, <1>3, <2>1 DEF Started, Running, Sockets
<1>6. ConnectTypes'
  <2>1. att' \in [Addrs -> {"idle", "resolving", "connecting", "failed", "cancelled", "won"}]
    BY <1>1 DEF ConnectTypes
  <2>2. sock' \in [Addrs -> {"none", "open", "closed", "adopted"}]
    BY <1>1 DEF ConnectTypes
  <2> QED BY <1>2, <1>4, <2>1, <2>2 DEF ConnectTypes
<1>7. /\ \A b \in Addrs \ {a} : (b \in Running' <=> b \in Running) /\ att'[b] = att[b]
      /\ Running' \subseteq Addrs /\ att'[a] = t /\ (a \in Running' <=> t = "resolving")
      /\ Started' = 1..a
  <2>1. att'[a] = t /\ \A b \in Addrs \ {a} : att'[b] = att[b]
    BY <1>1 DEF ConnectTypes
  <2>2. Started' = Started \cup {a}
    BY <2>1 DEF Started
  <2>3. Started' = 1..a
    BY <1>2, <1>3, <2>2
  <2> QED BY <2>1, <2>3 DEF Running
<1>8. Phases'
  BY <1>2, <1>7 DEF Phases, Before
<1>9. Sockets' /\ NoSocketLeaks'
  BY <1>1, <1>2, <1>5, <1>7 DEF Sockets, NoSocketLeaks, ConnectTypes
<1>10. Slots'
  <2>1. \A i \in 1..a : errors'[i].addr = i
    <3>1. errors'[a].addr = a
      BY <1>4 DEF Slot
    <3>2. \A i \in 1..(a - 1) : errors'[i].addr = i
      BY <1>3, <1>4 DEF Slots
    <3> QED BY <1>3, <3>1, <3>2
  <2>2. ASSUME NEW i \in 1..a, att'[i] = "failed" PROVE errors'[i].n > 0
    <3>1. CASE i = a
      <4>1. t = "failed" /\ k > 0
        BY <1>1, <1>7, <2>2, <3>1
      <4>2. errors'[i].n = k
        BY <1>4, <3>1 DEF Slot
      <4> QED BY <4>1, <4>2
    <3>2. CASE i # a
      <4>1. i \in 1..(a - 1) /\ i \in Addrs \ {a}
        BY <1>3, <3>2, AddrsAssumption DEF Addrs
      <4>2. att[i] = "failed" /\ errors'[i] = errors[i]
        BY <1>4, <1>7, <2>2, <4>1
      <4>3. errors[i].n > 0
        BY <1>3, <4>1, <4>2 DEF Slots
      <4> QED BY <4>2, <4>3
    <3> QED BY <3>1, <3>2
  <2>3. \A b \in Addrs : att'[b] = "cancelled" \/ (b \in Running' /\ awake'[b] = "cancelled") =>
                            winner # 0 \/ wake = "cancelled"
    BY <1>2, <1>7 DEF Slots
  <2>4. kind' # "sock" /\ at' # "done" /\ winner' = winner /\ wake' = wake /\ (kind' = "unix" => a <= 1)
    BY <1>2, <1>3
  <2>5. 1..Len(errors') = 1..a /\ Started' = 1..Len(errors')
    BY <1>4, <1>7
  <2> QED BY <1>4, <2>1, <2>2, <2>3, <2>4, <2>5 DEF Slots
<1> QED BY <1>6, <1>8, <1>9, <1>10

\* Every step of a call, of its attempts and of the operating system keeps it.
LEMMA ConnectStepInv == ConnectInv /\ [ConnectNext]_connectVars => ConnectInv'
<1> SUFFICES ASSUME ConnectInv, [ConnectNext]_connectVars PROVE ConnectInv'
  OBVIOUS
<1>1. CASE UNCHANGED connectVars
  <2>1. UNCHANGED <<att, awake, sock, errors, kind, at, wake, winner, transport, result, dropped>>
    BY <1>1 DEF connectVars, attempts, caller
  <2>2. ConnectTypes' /\ Phases'
    BY <2>1 DEF ConnectInv, ConnectTypes, Phases, Running
  <2>3. Sockets' /\ NoSocketLeaks' /\ Slots'
    BY <2>1 DEF ConnectInv, Sockets, NoSocketLeaks, Slots, Running, Started
  <2> QED BY <2>2, <2>3 DEF ConnectInv
<1> QED BY <1>1, CallerInv, CancelsInv, LoseInv, GoesOnInv, StartInv DEF ConnectNext, AttemptSteps, CallerSteps

\* The invariant says what Connect promises.
LEMMA ConnectInvImplies == ConnectInv => NoSocketLeaks /\ FailuresInOrder
<1> SUFFICES ASSUME ConnectInv, at = "done", wake # "cancelled", errors # <<>>, winner = 0
             PROVE  /\ [i \in DOMAIN errors |-> errors[i].addr] = [i \in 1..Len(errors) |-> i]
                    /\ \A i \in DOMAIN errors : errors[i].n > 0
                    /\ kind # "unix" => Len(errors) = N
  BY DEF ConnectInv, FailuresInOrder
<1>1. DOMAIN errors = 1..Len(errors) /\ Len(errors) \in Nat
  BY DEF ConnectInv, ConnectTypes
<1>2. \A i \in 1..Len(errors) : errors[i].addr = i /\ errors[i].n > 0
  BY DEF ConnectInv, Slots
<1>3. CASE kind # "unix"
  <2>1. 1..Len(errors) = 1..N
    BY <1>3 DEF ConnectInv, Slots, Addrs
  <2> DEFINE n == Len(errors)
  <2>2. n \in Nat /\ 1..n = 1..N
    BY <1>1, <2>1
  <2> HIDE DEF n
  <2>3. n = N
    <3>1. N \in 1..n
      BY <2>2, AddrsAssumption
    <3>2. n \in 1..n
      BY <2>2, <3>1, AddrsAssumption
    <3>3. n \in 1..N
      BY <2>2, <3>2
    <3> QED BY <2>2, <3>1, <3>3, AddrsAssumption
  <2>4. Len(errors) = N
    BY <2>3 DEF n
  <2> QED BY <1>1, <1>2, <2>4
<1> QED BY <1>1, <1>2, <1>3

-----------------------------------------------------------------------------
(* sendfile() and sock_sendfile() (Sendfile) *)

SendfileType ==
    [buf : Seq(Nat), wire : Seq(Nat), high : Nat, low : Nat, paused : BOOLEAN,
     reading : BOOLEAN, closing : BOOLEAN, lost : BOOLEAN, proto : {"app", "sendfile"}, told : BOOLEAN,
     waiter : {"none", "pending", "failed", "cancelled"}, resumeR : BOOLEAN, resumeW : BOOLEAN,
     at : {"idle", "drain", "send", "watch", "read", "drainChunk", "sendall", "end"},
     wake : {"no", "ok", "raised", "cancelled"}, chunk : Nat, total : Nat, fallback : BOOLEAN, sock : BOOLEAN,
     dup : BOOLEAN, pos : Nat, worker : BOOLEAN, dropped : Nat, strayed : Nat, writes : Nat]

\* What the invariant is about.
Core(x) == <<x.at, x.proto, x.high, x.low, x.reading, x.closing, x.resumeR, x.sock, x.total, x.pos,
             x.dup, x.worker, x.strayed>>

\* Who has the transport's protocol, whose limits are set, where the reading that
\* was on is remembered, when the duplicate is open, and where the file is.
Borrowed(x) ==
    /\ x.at \in {"idle", "end"} \/ x.sock => x.proto = "app"
    /\ x.at \notin {"drain", "send", "watch"} \/ x.sock => x.high = Marks[1] /\ x.low = Marks[2]
    /\ x.proto = "app" => x.reading \/ x.closing
    /\ x.proto = "sendfile" => x.resumeR \/ x.closing
    /\ x.at = "idle" => ~x.sock
    /\ x.dup => x.at \in {"send", "watch"} /\ ~x.sock
    /\ x.at # "end" => x.strayed = 0
    /\ x.strayed \in {0, 1} /\ (x.strayed = 1 => ~x.worker)
    /\ x.at = "end" /\ x.total > 0 => x.pos = x.total + x.strayed

\* What of it the finally clauses need.
Lent(x) ==
    /\ x.proto = "app" => x.reading \/ x.closing
    /\ x.proto = "sendfile" => x.resumeR \/ x.closing
    /\ x.sock => x.proto = "app" /\ x.high = Marks[1] /\ x.low = Marks[2] /\ ~x.dup
    /\ x.strayed = 0

SendfileInv == st \in SendfileType /\ Borrowed(st)

\* Nothing is borrowed before the first call.
LEMMA SendfileInitInv == SendfileInit => SendfileInv
<1>1. Marks[1] \in Nat /\ Marks[2] \in Nat /\ <<>> \in Seq(Nat)
  BY FileAssumption
<1>2. NoCall \in SendfileType
  BY <1>1, ZenonT(60) DEF NoCall, SendfileType
<1>3. Borrowed(NoCall)
  BY DEF NoCall, Borrowed
<1> QED BY <1>2, <1>3 DEF SendfileInit, SendfileInv

\* Until the call ends they find it.
LEMMA BorrowedIsLent == ASSUME NEW x, Borrowed(x), x.at # "end" PROVE Lent(x)
  BY DEF Borrowed, Lent

\* It depends on nothing else.
LEMMA SameCore ==
    ASSUME NEW x, NEW y, Borrowed(x), Core(y) = Core(x)
    PROVE  Borrowed(y)
  BY DEF Borrowed, Core

\* A future that is set touches nothing of it,
LEMMA WakesOnly ==
    ASSUME NEW x \in SendfileType, NEW how \in {"no", "ok", "raised", "cancelled"}
    PROVE  Wake(x, how) \in SendfileType /\ Core(Wake(x, how)) = Core(x)
<1>1. [x EXCEPT !.wake = how] \in SendfileType
  BY ZenonT(60) DEF SendfileType
<1>2. Core([x EXCEPT !.wake = how]) = Core(x)
  BY DEF SendfileType, Core
<1> QED BY <1>1, <1>2 DEF Wake

\* nor does pause_writing(), told to whichever protocol the transport has,
LEMMA PausesWriting ==
    ASSUME NEW x \in SendfileType
    PROVE  maybePauseProtocol(x) \in SendfileType /\ Core(maybePauseProtocol(x)) = Core(x)
<1> DEFINE y == [x EXCEPT !.paused = TRUE]
<1>1. y \in SendfileType
  BY ZenonT(60) DEF SendfileType
<1>2. Core(y) = Core(x)
  BY DEF SendfileType, Core
<1> HIDE DEF y
<1>3. [y EXCEPT !.told = TRUE] \in SendfileType /\ [y EXCEPT !.waiter = "pending"] \in SendfileType
  BY <1>1, ZenonT(60) DEF SendfileType
<1>4. Core([y EXCEPT !.told = TRUE]) = Core(y) /\ Core([y EXCEPT !.waiter = "pending"]) = Core(y)
  BY <1>1 DEF SendfileType, Core
<1>5. pause_writing(y) \in SendfileType /\ Core(pause_writing(y)) = Core(y)
  BY <1>1, <1>3, <1>4 DEF pause_writing
<1> QED BY <1>2, <1>5 DEF maybePauseProtocol, y

\* nor resume_writing(),
LEMMA ResumesWriting ==
    ASSUME NEW x \in SendfileType
    PROVE  maybeResumeProtocol(x) \in SendfileType /\ Core(maybeResumeProtocol(x)) = Core(x)
<1> DEFINE y == [x EXCEPT !.paused = FALSE]
<1>1. y \in SendfileType
  BY ZenonT(60) DEF SendfileType
<1>2. Core(y) = Core(x)
  BY DEF SendfileType, Core
<1> HIDE DEF y
<1> DEFINE z == [y EXCEPT !.waiter = "none"]
<1>3. [y EXCEPT !.told = FALSE] \in SendfileType /\ z \in SendfileType
  BY <1>1, ZenonT(60) DEF SendfileType
<1>4. Core([y EXCEPT !.told = FALSE]) = Core(y) /\ Core(z) = Core(y)
  BY <1>1 DEF SendfileType, Core
<1>5. Wake(z, "ok") \in SendfileType /\ Core(Wake(z, "ok")) = Core(y)
  BY <1>3, <1>4, WakesOnly
<1>6. resume_writing(y) \in SendfileType /\ Core(resume_writing(y)) = Core(y)
  BY <1>1, <1>3, <1>4, <1>5 DEF resume_writing
<1> QED BY <1>2, <1>6 DEF maybeResumeProtocol, y

\* nor connection_lost(),
LEMMA LosesConnection ==
    ASSUME NEW x \in SendfileType
    PROVE  connection_lost(x) \in SendfileType /\ Core(connection_lost(x)) = Core(x)
<1> DEFINE y == [x EXCEPT !.lost = TRUE, !.waiter = "failed"]
<1>1. [x EXCEPT !.lost = TRUE] \in SendfileType /\ y \in SendfileType
  BY ZenonT(60) DEF SendfileType
<1>2. Core([x EXCEPT !.lost = TRUE]) = Core(x) /\ Core(y) = Core(x)
  BY DEF SendfileType, Core
<1> QED BY <1>1, <1>2, WakesOnly DEF connection_lost

\* nor a write().
LEMMA Writes ==
    ASSUME NEW x \in SendfileType, NEW b \in Nat
    PROVE  write(x, b) \in SendfileType /\ Core(write(x, b)) = Core(x)
<1> DEFINE y == [x EXCEPT !.buf = Append(@, b)]
<1>1. Append(x.buf, b) \in Seq(Nat)
  BY DEF SendfileType
<1>2. y \in SendfileType
  BY <1>1, ZenonT(60) DEF SendfileType
<1>3. Core(y) = Core(x)
  BY DEF SendfileType, Core
<1> QED BY <1>2, <1>3, PausesWriting DEF write

\* The protocol, the limits and the reading are the application's.
Returned(x) ==
    /\ x.proto = "app" /\ x.high = Marks[1] /\ x.low = Marks[2]
    /\ x.reading \/ x.closing
    /\ x.total > 0 => x.pos = x.total
    /\ ~x.dup /\ x.strayed = 0

\* The limits that the application set are two numbers.
LEMMA MarksAreLimits == Marks[1] \in Nat /\ Marks[2] \in Nat
  BY FileAssumption

\* set_write_buffer_limits() changes the limits and nothing else of it.
LEMMA Limits ==
    ASSUME NEW x \in SendfileType, NEW h \in Nat, NEW l \in Nat
    PROVE  /\ set_write_buffer_limits(x, h, l) \in SendfileType
           /\ Core(set_write_buffer_limits(x, h, l)) =
                <<x.at, x.proto, h, l, x.reading, x.closing, x.resumeR, x.sock, x.total, x.pos,
                  x.dup, x.worker, x.strayed>>
<1> DEFINE y == [x EXCEPT !.high = h, !.low = l]
<1>1. y \in SendfileType
  BY ZenonT(60) DEF SendfileType
<1>2. Core(y) = <<x.at, x.proto, h, l, x.reading, x.closing, x.resumeR, x.sock, x.total, x.pos,
                  x.dup, x.worker, x.strayed>>
  BY DEF SendfileType, Core
<1> QED BY <1>1, <1>2, PausesWriting DEF set_write_buffer_limits

\* The stand-in remembers the reading that it stops.
LEMMA StandsIn ==
    ASSUME NEW x \in SendfileType, x.reading \/ x.closing
    PROVE  /\ StandIn(x) \in SendfileType
           /\ StandIn(x).resumeR \/ StandIn(x).closing
           /\ StandIn(x).proto = "sendfile" /\ StandIn(x).at = x.at /\ StandIn(x).sock = x.sock
           /\ StandIn(x).high = x.high /\ StandIn(x).low = x.low
           /\ StandIn(x).total = x.total /\ StandIn(x).pos = x.pos
           /\ StandIn(x).dup = x.dup /\ StandIn(x).strayed = x.strayed
<1> DEFINE w == IF x.paused THEN "pending" ELSE "none"
<1>1. /\ x.reading \in BOOLEAN /\ x.paused \in BOOLEAN
      /\ w \in {"none", "pending", "failed", "cancelled"}
  BY DEF SendfileType
<1> HIDE DEF w
<1>2. [x EXCEPT !.resumeR = x.reading, !.resumeW = x.paused, !.reading = FALSE,
                !.waiter = w, !.proto = "sendfile"] \in SendfileType
  BY <1>1, ZenonT(60) DEF SendfileType
<1>3. StandIn(x) \in SendfileType
  BY <1>2 DEF StandIn, w
<1>4. /\ StandIn(x).resumeR = x.reading /\ StandIn(x).closing = x.closing
      /\ StandIn(x).proto = "sendfile" /\ StandIn(x).at = x.at /\ StandIn(x).sock = x.sock
      /\ StandIn(x).high = x.high /\ StandIn(x).low = x.low
      /\ StandIn(x).total = x.total /\ StandIn(x).pos = x.pos
      /\ StandIn(x).dup = x.dup /\ StandIn(x).strayed = x.strayed
  BY DEF SendfileType, StandIn
<1> QED BY <1>3, <1>4

\* restore() gives the protocol back, and resumes the reading that it was to resume.
LEMMA Restores ==
    ASSUME NEW x \in SendfileType, Lent(x)
    PROVE  /\ restore(x) \in SendfileType
           /\ restore(x).proto = "app" /\ (restore(x).reading \/ restore(x).closing)
           /\ restore(x).at = x.at /\ restore(x).sock = x.sock
           /\ restore(x).high = x.high /\ restore(x).low = x.low
           /\ restore(x).total = x.total /\ restore(x).pos = x.pos
           /\ restore(x).dup = x.dup /\ restore(x).strayed = x.strayed
<1> DEFINE r == x.reading \/ (x.resumeR /\ ~x.closing)
           t == x.told /\ ~(x.resumeW /\ ~x.paused)
<1>1. r \in BOOLEAN /\ t \in BOOLEAN
  BY Zenon
<1>2. r \/ x.closing
  BY DEF Lent, SendfileType
<1>3. restore(x) = [x EXCEPT !.proto = "app", !.waiter = "none", !.reading = r, !.told = t]
  BY DEF restore
<1> HIDE DEF r, t
<1>4. [x EXCEPT !.proto = "app", !.waiter = "none", !.reading = r, !.told = t] \in SendfileType
  BY <1>1, ZenonT(60) DEF SendfileType
<1>5. /\ restore(x).proto = "app" /\ restore(x).reading = r /\ restore(x).closing = x.closing
      /\ restore(x).at = x.at /\ restore(x).sock = x.sock
      /\ restore(x).high = x.high /\ restore(x).low = x.low
      /\ restore(x).total = x.total /\ restore(x).pos = x.pos
      /\ restore(x).dup = x.dup /\ restore(x).strayed = x.strayed
  BY <1>3 DEF SendfileType
<1> QED BY <1>2, <1>3, <1>4, <1>5

\* The file is left where the last block that was sent ends.
LEMMA Positions ==
    ASSUME NEW x \in SendfileType
    PROVE  /\ Positioned(x) \in SendfileType
           /\ Positioned(x).total > 0 => Positioned(x).pos = Positioned(x).total
           /\ Core(Positioned(x)) = <<x.at, x.proto, x.high, x.low, x.reading, x.closing, x.resumeR,
                                      x.sock, x.total, Positioned(x).pos, x.dup, x.worker, x.strayed>>
<1> DEFINE p == IF x.total > 0 THEN x.total ELSE x.pos
<1>1. p \in Nat /\ Positioned(x) = [x EXCEPT !.pos = p]
  BY DEF SendfileType, Positioned
<1>2. Positioned(x).total = x.total /\ Positioned(x).pos = p
  BY <1>1 DEF SendfileType
<1>3. x.total > 0 => p = x.total
  OBVIOUS
<1> HIDE DEF p
<1>4. [x EXCEPT !.pos = p] \in SendfileType
  BY <1>1, ZenonT(60) DEF SendfileType
<1>5. Core([x EXCEPT !.pos = p]) = <<x.at, x.proto, x.high, x.low, x.reading, x.closing, x.resumeR,
                                      x.sock, x.total, p, x.dup, x.worker, x.strayed>>
  BY DEF SendfileType, Core
<1> QED BY <1>1, <1>2, <1>3, <1>4, <1>5

\* The finally clauses of _transport_sendfile_native().
LEMMA LeavesNative ==
    ASSUME NEW x \in SendfileType, Lent(x)
    PROVE  /\ NativeLeaves(x) \in SendfileType /\ Returned(NativeLeaves(x))
           /\ NativeLeaves(x).at = x.at /\ NativeLeaves(x).sock = x.sock
           /\ NativeLeaves(x).total = x.total
<1> DEFINE p == Positioned(x)
           d == [p EXCEPT !.dup = FALSE]
           q == set_write_buffer_limits(d, Marks[1], Marks[2])
<1>1. /\ p \in SendfileType /\ (p.total > 0 => p.pos = p.total)
      /\ p.at = x.at /\ p.proto = x.proto /\ p.high = x.high /\ p.low = x.low /\ p.reading = x.reading
      /\ p.closing = x.closing /\ p.resumeR = x.resumeR /\ p.sock = x.sock /\ p.total = x.total
      /\ p.dup = x.dup /\ p.strayed = x.strayed
  BY Positions DEF Core
<1> HIDE DEF p
<1>2. CASE x.sock
  <2>1. NativeLeaves(x) = p
    BY <1>2 DEF NativeLeaves, p
  <2> QED BY <1>1, <1>2, <2>1 DEF Lent, Returned
<1>3. CASE ~x.sock
  <2>1. d \in SendfileType
    BY <1>1, ZenonT(60) DEF SendfileType
  <2>2. /\ d.at = p.at /\ d.proto = p.proto /\ d.reading = p.reading /\ d.closing = p.closing
        /\ d.resumeR = p.resumeR /\ d.sock = p.sock /\ d.total = p.total /\ d.pos = p.pos
        /\ d.dup = FALSE /\ d.strayed = p.strayed
    BY <1>1 DEF SendfileType
  <2>3. NativeLeaves(x) = restore(q)
    BY <1>3 DEF NativeLeaves, p
  <2> HIDE DEF d
  <2>4. /\ q \in SendfileType
        /\ Core(q) = <<d.at, d.proto, Marks[1], Marks[2], d.reading, d.closing, d.resumeR, d.sock, d.total, d.pos,
                       d.dup, d.worker, d.strayed>>
    BY <2>1, Limits, MarksAreLimits
  <2> HIDE DEF q
  <2>5. /\ q.at = x.at /\ q.proto = x.proto /\ q.high = Marks[1] /\ q.low = Marks[2] /\ q.reading = x.reading
        /\ q.closing = x.closing /\ q.resumeR = x.resumeR /\ q.sock = x.sock /\ q.total = x.total
        /\ q.total > 0 => q.pos = q.total
        /\ ~q.dup /\ q.strayed = x.strayed
    BY <1>1, <2>2, <2>4 DEF Core
  <2>6. Lent(q)
    BY <1>3, <2>5 DEF Lent
  <2> DEFINE z == restore(q)
  <2>7. /\ z \in SendfileType /\ z.proto = "app" /\ (z.reading \/ z.closing)
        /\ z.at = q.at /\ z.sock = q.sock /\ z.high = q.high /\ z.low = q.low
        /\ z.total = q.total /\ z.pos = q.pos /\ z.dup = q.dup /\ z.strayed = q.strayed
    BY <2>4, <2>6, Restores
  <2> HIDE DEF z
  <2> QED BY <2>3, <2>5, <2>7 DEF Returned, Lent, z
<1> QED BY <1>2, <1>3 DEF SendfileType

\* The places where the task is, and how its await ended.
Places == {"idle", "drain", "send", "watch", "read", "drainChunk", "sendall", "end"}
Outcomes == {"no", "ok", "raised", "cancelled"}

\* The task goes to a place.
To(x, p) == [x EXCEPT !.at = p]
Waits(x, p, w) == [x EXCEPT !.at = p, !.wake = w]

\* Going on to the next await changes the place and nothing else of it.
LEMMA Moves ==
    ASSUME NEW x \in SendfileType, NEW p \in Places, NEW w \in Outcomes, NEW y \in {To(x, p), Waits(x, p, w)}
    PROVE  /\ y \in SendfileType
           /\ y.at = p /\ y.proto = x.proto /\ y.high = x.high /\ y.low = x.low /\ y.reading = x.reading
           /\ y.closing = x.closing /\ y.resumeR = x.resumeR /\ y.sock = x.sock
           /\ y.total = x.total /\ y.pos = x.pos
           /\ y.dup = x.dup /\ y.worker = x.worker /\ y.strayed = x.strayed
<1>1. [x EXCEPT !.at = p, !.wake = w] \in SendfileType /\ [x EXCEPT !.at = p] \in SendfileType
  BY ZenonT(60) DEF SendfileType, Places, Outcomes
<1>2. y \in SendfileType
  BY <1>1 DEF To, Waits
<1>3. CASE y = To(x, p)
  BY <1>2, <1>3, SMTT(60) DEF SendfileType, To
<1>4. CASE y = Waits(x, p, w)
  BY <1>2, <1>4, SMTT(60) DEF SendfileType, Waits
<1> QED BY <1>2, <1>3, <1>4

\* A call may end once it has given the transport back.
LEMMA EndsReturned ==
    ASSUME NEW x \in SendfileType, Returned(x)
    PROVE  Ended(x) \in SendfileType /\ Borrowed(Ended(x))
<1> DEFINE y == Ended(x)
<1>1. y = Waits(x, "end", "no") /\ "end" \in Places /\ "no" \in Outcomes
  BY DEF Ended, Waits, Places, Outcomes
<1> HIDE DEF y
<1>2. /\ y \in SendfileType /\ y.at = "end" /\ y.proto = x.proto /\ y.high = x.high /\ y.low = x.low
      /\ y.reading = x.reading /\ y.closing = x.closing /\ y.total = x.total /\ y.pos = x.pos
      /\ y.dup = x.dup /\ y.strayed = x.strayed
  BY <1>1, Moves
<1>3. y \in SendfileType /\ Borrowed(y)
  BY <1>2 DEF Returned, Borrowed, SendfileType
<1> QED BY <1>3 DEF y

\* A read() is handed to the executor, in the middle of a call.
LEMMA StartsRead ==
    ASSUME NEW x \in SendfileType, Lent(x), ~x.dup, x.high = Marks[1], x.low = Marks[2]
    PROVE  Reads(x) \in SendfileType /\ Borrowed(Reads(x))
<1> DEFINE y == Reads(x)
<1>1. y \in SendfileType
  BY ZenonT(60) DEF Reads, SendfileType
<1>2. /\ y.at = "read" /\ y.proto = x.proto /\ y.high = x.high /\ y.low = x.low /\ y.reading = x.reading
      /\ y.closing = x.closing /\ y.resumeR = x.resumeR /\ y.sock = x.sock
      /\ y.dup = x.dup /\ y.strayed = x.strayed
  BY DEF Reads, SendfileType
<1> HIDE DEF y
<1>3. y \in SendfileType /\ Borrowed(y)
  BY <1>1, <1>2 DEF Borrowed, Lent
<1> QED BY <1>3 DEF y

\* The fallback begins with a transport that nobody has borrowed,
LEMMA StartsFallback ==
    ASSUME NEW x \in SendfileType, x.proto = "app", x.high = Marks[1], x.low = Marks[2], x.reading \/ x.closing,
           ~x.dup, x.strayed = 0
    PROVE  FallbackStarts(x) \in SendfileType /\ Borrowed(FallbackStarts(x))
<1> DEFINE y == IF x.sock THEN x ELSE StandIn(x)
<1>1. y \in SendfileType /\ Lent(y) /\ ~y.dup /\ y.high = Marks[1] /\ y.low = Marks[2]
  <2>1. CASE x.sock
    <3>1. y = x
      BY <2>1
    <3> HIDE DEF y
    <3> QED BY <3>1 DEF Lent
  <2>2. CASE ~x.sock
    <3>1. y = StandIn(x)
      BY <2>2
    <3> HIDE DEF y
    <3> QED BY <2>2, <3>1, StandsIn DEF Lent
  <2> QED BY <2>1, <2>2
<1> HIDE DEF y
<1>2. Reads(y) \in SendfileType /\ Borrowed(Reads(y))
  BY <1>1, StartsRead
<1> QED BY <1>2 DEF FallbackStarts, y

\* where an attempt that the kernel refused leaves it.
LEMMA FailsNative ==
    ASSUME NEW x \in SendfileType, Lent(x)
    PROVE  NativeFails(x) \in SendfileType /\ Borrowed(NativeFails(x))
  BY LeavesNative, EndsReturned, StartsFallback DEF NativeFails, Returned

\* drain() goes on or waits.
LEMMA DrainsTo ==
    ASSUME NEW x \in SendfileType, NEW then \in Places, NEW ready \in SendfileType, Borrowed(ready),
           \A w \in Outcomes : Borrowed(Waits(x, then, w))
    PROVE  drain(x, then, ready) \in SendfileType /\ Borrowed(drain(x, then, ready))
<1>1. "raised" \in Outcomes /\ "no" \in Outcomes
  BY DEF Outcomes
<1>2. \A w \in Outcomes : Waits(x, then, w) \in SendfileType
  BY Moves
<1>3. drain(x, then, ready) \in {ready, Waits(x, then, "raised"), Waits(x, then, "no")}
  BY DEF drain, Waits
<1> QED BY <1>1, <1>2, <1>3

\* os.dup() gives the call its descriptor, or ends it.
LEMMA StartsSend ==
    ASSUME NEW x \in SendfileType, Lent(x), NEW fails \in BOOLEAN
    PROVE  Duplicates(x, fails) \in SendfileType /\ Borrowed(Duplicates(x, fails))
<1>1. Ended(NativeLeaves(x)) \in SendfileType /\ Borrowed(Ended(NativeLeaves(x)))
  BY LeavesNative, EndsReturned
<1>2. ASSUME NEW b \in BOOLEAN, NEW y, y = [x EXCEPT !.at = "send", !.wake = "no", !.dup = b], x.sock => ~b
      PROVE  y \in SendfileType /\ Borrowed(y)
  <2>1. y \in SendfileType
    BY <1>2, ZenonT(60) DEF SendfileType
  <2>2. /\ y.at = "send" /\ y.proto = x.proto /\ y.high = x.high /\ y.low = x.low /\ y.reading = x.reading
        /\ y.closing = x.closing /\ y.resumeR = x.resumeR /\ y.sock = x.sock
        /\ y.dup = b /\ y.strayed = x.strayed
    BY <1>2 DEF SendfileType
  <2> QED BY <1>2, <2>1, <2>2 DEF Borrowed, Lent
<1>3. CASE x.sock
  <2> DEFINE y == [x EXCEPT !.at = "send", !.wake = "no"]
  <2>1. y = Waits(x, "send", "no") /\ "send" \in Places /\ "no" \in Outcomes
    BY DEF Waits, Places, Outcomes
  <2> HIDE DEF y
  <2>2. /\ y \in SendfileType /\ y.at = "send" /\ y.proto = x.proto /\ y.high = x.high /\ y.low = x.low
        /\ y.reading = x.reading /\ y.closing = x.closing /\ y.resumeR = x.resumeR /\ y.sock = x.sock
        /\ y.dup = x.dup /\ y.strayed = x.strayed
    BY <2>1, Moves
  <2>3. y \in SendfileType /\ Borrowed(y)
    BY <1>3, <2>2 DEF Borrowed, Lent
  <2>4. Duplicates(x, fails) = y
    BY <1>3 DEF Duplicates, y
  <2> QED BY <2>3, <2>4
<1>4. CASE ~x.sock
  BY <1>1, <1>2, <1>4 DEF Duplicates
<1> QED BY <1>3, <1>4 DEF SendfileType

\* sendfile() of the kernel begins with a transport that nobody has borrowed.
LEMMA StartsNative ==
    ASSUME NEW x \in SendfileType, x.proto = "app", x.high = Marks[1], x.low = Marks[2], x.reading \/ x.closing,
           ~x.dup, x.strayed = 0, NEW fails \in BOOLEAN
    PROVE  NativeStarts(x, fails) \in SendfileType /\ Borrowed(NativeStarts(x, fails))
<1> DEFINE y == IF x.sock THEN x ELSE set_write_buffer_limits(StandIn(x), 0, 0)
           ready == Duplicates(y, fails)
<1>1. y \in SendfileType /\ Lent(y) /\ ~y.dup
  <2>1. CASE x.sock
    <3>1. y = x
      BY <2>1
    <3> HIDE DEF y
    <3> QED BY <3>1 DEF Lent
  <2>2. CASE ~x.sock
    <3> DEFINE z == StandIn(x)
    <3>1. /\ z \in SendfileType /\ (z.resumeR \/ z.closing) /\ z.proto = "sendfile" /\ z.sock = x.sock
          /\ z.dup = x.dup /\ z.strayed = x.strayed
      BY StandsIn
    <3> HIDE DEF z
    <3>2. y = set_write_buffer_limits(z, 0, 0)
      BY <2>2 DEF z
    <3> HIDE DEF y
    <3>3. y \in SendfileType /\ Core(y) = <<z.at, z.proto, 0, 0, z.reading, z.closing, z.resumeR, z.sock, z.total, z.pos,
                                            z.dup, z.worker, z.strayed>>
      <4>1. 0 \in Nat
        OBVIOUS
      <4> QED BY <3>1, <3>2, <4>1, Limits, ZenonT(60)
    <3>4. /\ y.proto = "sendfile" /\ y.sock = z.sock /\ y.resumeR = z.resumeR /\ y.closing = z.closing
          /\ y.dup = z.dup /\ y.strayed = z.strayed
      BY <3>1, <3>3 DEF Core
    <3> QED BY <2>2, <3>1, <3>3, <3>4 DEF Lent
  <2> QED BY <2>1, <2>2
<1>2. NativeStarts(x, fails) = IF y.buf = <<>> THEN ready ELSE drain(y, "drain", ready)
  BY DEF NativeStarts
<1> HIDE DEF y
<1>3. ready \in SendfileType /\ Borrowed(ready)
  BY <1>1, StartsSend
<1> HIDE DEF ready
<1>4. ASSUME NEW w \in Outcomes PROVE Borrowed(Waits(y, "drain", w))
  <2> DEFINE z == Waits(y, "drain", w)
  <2>1. "drain" \in Places /\ z \in {To(y, "drain"), Waits(y, "drain", w)}
    BY DEF Places
  <2> HIDE DEF z
  <2>2. /\ z.at = "drain" /\ z.proto = y.proto /\ z.high = y.high /\ z.low = y.low
        /\ z.reading = y.reading /\ z.closing = y.closing /\ z.resumeR = y.resumeR /\ z.sock = y.sock
        /\ z.dup = y.dup /\ z.strayed = y.strayed
    BY SMTT(60), <1>1, <2>1, Moves
  <2>3. Borrowed(z)
    BY <1>1, <2>2 DEF Borrowed, Lent
  <2> QED BY <2>3 DEF z
<1>5. drain(y, "drain", ready) \in SendfileType /\ Borrowed(drain(y, "drain", ready))
  BY <1>1, <1>3, <1>4, DrainsTo DEF Places
<1> QED BY <1>2, <1>3, <1>5

\* Blocks go to the end of what the socket has.
LEMMA MovedBlocks ==
    ASSUME NEW w \in Seq(Nat), NEW t \in Nat, NEW n \in Nat
    PROVE  w \o [i \in 1..n |-> t + i] \in Seq(Nat)
<1> DEFINE m == [i \in 1..n |-> t + i]
<1>1. m \in Seq(Nat)
  OBVIOUS
<1> HIDE DEF m
<1>2. w \o m \in Seq(Nat)
  BY <1>1
<1> QED BY <1>2 DEF m

\* The calls and the task's steps over the descriptor.
LEMMA NativeInv ==
    ASSUME SendfileInv, sendfile \/ sock_sendfile \/ Drained \/ Send \/ Resumed
    PROVE  SendfileInv'
<1> USE DEF SendfileInv
<1>1. ASSUME NEW x \in SendfileType, Borrowed(x), x.at = "idle"
      PROVE  /\ \A fails \in BOOLEAN : NativeStarts(x, fails) \in SendfileType /\ Borrowed(NativeStarts(x, fails))
             /\ FallbackStarts(x) \in SendfileType /\ Borrowed(FallbackStarts(x))
  BY <1>1, StartsNative, StartsFallback DEF Borrowed
<1>2. CASE sendfile
  <2> PICK native \in BOOLEAN, fallback \in BOOLEAN, fails \in BOOLEAN :
         LET x == [st EXCEPT !.fallback = fallback] IN
           st' = IF native THEN NativeStarts(x, fails) ELSE FallbackStarts(x)
    BY <1>2 DEF sendfile
  <2> DEFINE x == [st EXCEPT !.fallback = fallback]
  <2>1. x \in SendfileType
    BY ZenonT(60) DEF SendfileType
  <2>2. Core(x) = Core(st) /\ x.at = "idle"
    BY <1>2 DEF SendfileType, Core, sendfile
  <2>3. st' = NativeStarts(x, fails) \/ st' = FallbackStarts(x)
    OBVIOUS
  <2> HIDE DEF x
  <2> QED BY <1>1, <2>1, <2>2, <2>3, SameCore
<1>3. CASE sock_sendfile
  <2> PICK fallback \in BOOLEAN : st' = NativeStarts([st EXCEPT !.sock = TRUE, !.fallback = fallback], FALSE)
    BY <1>3 DEF sock_sendfile
  <2> DEFINE x == [st EXCEPT !.sock = TRUE, !.fallback = fallback]
  <2>1. x \in SendfileType
    BY ZenonT(60) DEF SendfileType
  <2>2. /\ x.proto = st.proto /\ x.high = st.high /\ x.low = st.low /\ x.reading = st.reading
        /\ x.closing = st.closing /\ x.dup = st.dup /\ x.strayed = st.strayed /\ st.at = "idle"
    BY <1>3 DEF SendfileType, sock_sendfile
  <2>3. st' = NativeStarts(x, FALSE)
    OBVIOUS
  <2> HIDE DEF x
  <2>4. /\ x.proto = "app" /\ x.high = Marks[1] /\ x.low = Marks[2] /\ (x.reading \/ x.closing)
        /\ ~x.dup /\ x.strayed = 0
    BY <2>2 DEF Borrowed
  <2>5. NativeStarts(x, FALSE) \in SendfileType /\ Borrowed(NativeStarts(x, FALSE))
    BY <2>1, <2>4, StartsNative
  <2> QED BY <2>3, <2>5
<1>4. CASE Drained
  <2>1. Lent(st)
    BY <1>4, BorrowedIsLent DEF Drained
  <2>2. CASE st' = Ended(NativeLeaves(st))
    BY <2>1, <2>2, LeavesNative, EndsReturned
  <2>3. ASSUME NEW fails \in BOOLEAN, st' = Duplicates(st, fails) PROVE SendfileInv'
    BY <2>1, <2>3, StartsSend
  <2> QED BY <1>4, <2>2, <2>3 DEF Drained
<1>5. CASE Send
  <2>1. CASE st' = Ended(NativeLeaves(st)) \/ st' = NativeFails(st)
    <3>1. Lent(st)
      BY <1>5, BorrowedIsLent DEF Send
    <3> QED BY <2>1, <3>1, LeavesNative, EndsReturned, FailsNative
  <2>2. ASSUME NEW n \in 1..(FileLen - st.total), st' = [Moved(st, n) EXCEPT !.total = @ + n]
        PROVE  SendfileInv'
    <3> DEFINE x == Moved(st, n)
    <3>1. n \in Nat /\ st.total \in Nat
      BY FileAssumption DEF SendfileType
    <3>2. st.wire \o [i \in 1..n |-> st.total + i] \in Seq(Nat)
      BY <3>1, MovedBlocks DEF SendfileType
    <3>3. x \in SendfileType
      BY <3>2, ZenonT(60) DEF SendfileType, Moved
    <3>4. Core(x) = Core(st)
      BY DEF SendfileType, Moved, Core
    <3>5. st' = [x EXCEPT !.total = @ + n]
      BY <2>2
    <3> HIDE DEF x
    <3>6. x.total + n \in Nat
      <4>1. x.total \in Nat
        BY <3>3 DEF SendfileType
      <4> QED BY <3>1, <4>1
    <3>7. st' \in SendfileType
      BY <3>3, <3>5, <3>6, ZenonT(60) DEF SendfileType
    <3>8. /\ st'.at = x.at /\ st'.proto = x.proto /\ st'.high = x.high
          /\ st'.low = x.low /\ st'.reading = x.reading /\ st'.closing = x.closing
          /\ st'.resumeR = x.resumeR /\ st'.sock = x.sock
          /\ st'.dup = x.dup /\ st'.worker = x.worker /\ st'.strayed = x.strayed
      BY <3>3, <3>5 DEF SendfileType
    <3>9. x.at = "send" /\ Borrowed(x)
      <4>1. Borrowed(x)
        BY <3>4, SameCore
      <4>2. x.at = st.at
        BY <3>4 DEF Core
      <4> QED BY <1>5, <4>1, <4>2 DEF Send
    <3> QED BY <3>7, <3>8, <3>9 DEF Borrowed
  <2>3. CASE st' = [st EXCEPT !.at = "watch", !.wake = "no"]
    <3>1. st' = Waits(st, "watch", "no") /\ "watch" \in Places /\ "no" \in Outcomes
      BY <2>3 DEF Waits, Places, Outcomes
    <3>2. /\ st' \in SendfileType /\ st'.at = "watch" /\ st'.proto = st.proto /\ st'.high = st.high
          /\ st'.low = st.low /\ st'.reading = st.reading /\ st'.closing = st.closing
          /\ st'.resumeR = st.resumeR /\ st'.sock = st.sock
          /\ st'.dup = st.dup /\ st'.worker = st.worker /\ st'.strayed = st.strayed
      BY <3>1, Moves
    <3>3. st.at = "send"
      BY <1>5 DEF Send
    <3> QED BY <3>2, <3>3 DEF Borrowed
  <2> QED BY <1>5, <2>1, <2>2, <2>3 DEF Send
<1>6. CASE Resumed
  <2>0. Lent(st)
    BY <1>6, BorrowedIsLent DEF Resumed
  <2>1. CASE st' = NativeFails(st)
    BY <2>0, <2>1, FailsNative
  <2>2. CASE st' = [Ended(NativeLeaves(st)) EXCEPT !.dropped = st.chunk]
    <3> DEFINE x == Ended(NativeLeaves(st))
    <3>1. x \in SendfileType /\ Borrowed(x) /\ st.chunk \in Nat
      BY <2>0, LeavesNative, EndsReturned DEF SendfileType
    <3>2. st' = [x EXCEPT !.dropped = st.chunk]
      BY <2>2
    <3> HIDE DEF x
    <3>3. st' \in SendfileType
      BY <3>1, <3>2, ZenonT(60) DEF SendfileType
    <3>4. Core(st') = Core(x)
      BY <3>1, <3>2 DEF SendfileType, Core
    <3> QED BY <3>1, <3>3, <3>4, SameCore
  <2>3. CASE st' = [st EXCEPT !.at = "send", !.wake = "no", !.chunk = 0, !.total = @ + st.chunk]
    <3>1. st.total + st.chunk \in Nat /\ 0 \in Nat
      BY DEF SendfileType
    <3>2. st' \in SendfileType
      BY <2>3, <3>1, ZenonT(60) DEF SendfileType
    <3>3. /\ st'.at = "send" /\ st'.proto = st.proto /\ st'.high = st.high
          /\ st'.low = st.low /\ st'.reading = st.reading /\ st'.closing = st.closing
          /\ st'.resumeR = st.resumeR /\ st'.sock = st.sock
          /\ st'.dup = st.dup /\ st'.worker = st.worker /\ st'.strayed = st.strayed
      BY <2>3 DEF SendfileType
    <3>4. st.at = "watch"
      BY <1>6 DEF Resumed
    <3> QED BY <3>2, <3>3, <3>4 DEF Borrowed
  <2> QED BY <1>6, <2>1, <2>2, <2>3 DEF Resumed
<1> QED BY <1>2, <1>3, <1>4, <1>5, <1>6

\* The fallback's steps.
LEMMA FallbackInv ==
    ASSUME SendfileInv, HasRead \/ ChunkDrained \/ AllSent
    PROVE  SendfileInv'
<1> USE DEF SendfileInv
<1>1. st.at \in {"read", "drainChunk", "sendall"}
  BY DEF HasRead, ChunkDrained, AllSent
<1>2. FallbackLeaves(st) \in SendfileType /\ Borrowed(FallbackLeaves(st))
  <2> DEFINE p == Positioned(st)
             y == IF st.sock THEN p ELSE restore(p)
  <2>1. /\ p \in SendfileType /\ (p.total > 0 => p.pos = p.total)
        /\ p.at = st.at /\ p.proto = st.proto /\ p.high = st.high /\ p.low = st.low /\ p.reading = st.reading
        /\ p.closing = st.closing /\ p.resumeR = st.resumeR /\ p.sock = st.sock /\ p.total = st.total
        /\ p.dup = st.dup /\ p.strayed = st.strayed
    BY Positions DEF Core
  <2>2. FallbackLeaves(st) = Ended(y)
    BY DEF FallbackLeaves
  <2> HIDE DEF p
  <2>3. Lent(p)
    BY <1>1, <2>1 DEF Borrowed, Lent
  <2>4. y \in SendfileType /\ Returned(y)
    <3>1. CASE st.sock
      <4>1. y = p
        BY <3>1
      <4> HIDE DEF y
      <4> QED BY <1>1, <2>1, <3>1, <4>1 DEF Returned, Borrowed
    <3>2. CASE ~st.sock
      <4>1. y = restore(p)
        BY <3>2
      <4> HIDE DEF y
      <4> QED BY <1>1, <2>1, <2>3, <4>1, Restores DEF Returned, Borrowed
    <3> QED BY <3>1, <3>2 DEF SendfileType
  <2> HIDE DEF y
  <2> QED BY <2>2, <2>4, EndsReturned
<1>3. ASSUME NEW y \in SendfileType, y.at \in {"read", "drainChunk", "sendall"}, y.proto = st.proto,
             y.high = st.high, y.low = st.low, y.reading = st.reading, y.closing = st.closing,
             y.resumeR = st.resumeR, y.sock = st.sock, y.dup = st.dup, y.strayed = st.strayed
      PROVE  Borrowed(y)
  BY <1>1, <1>3 DEF Borrowed
<1>4. ASSUME NEW x \in SendfileType, Core(x) = Core(st), NEW c \in Nat,
             NEW y, y = [x EXCEPT !.chunk = c, !.total = @ + 1]
      PROVE  Reads(y) \in SendfileType /\ Borrowed(Reads(y))
  <2>1. x.total + 1 \in Nat
    <3>1. x.total \in Nat
      BY DEF SendfileType
    <3> QED BY <3>1
  <2>2. y \in SendfileType
    BY <1>4, <2>1, ZenonT(60) DEF SendfileType
  <2>3. /\ y.at = x.at /\ y.proto = x.proto /\ y.high = x.high /\ y.low = x.low /\ y.reading = x.reading
        /\ y.closing = x.closing /\ y.resumeR = x.resumeR /\ y.sock = x.sock /\ y.dup = x.dup
        /\ y.strayed = x.strayed
    BY <1>4 DEF SendfileType
  <2>4. Borrowed(x) /\ x.at \in {"read", "drainChunk", "sendall"}
    BY <1>1, <1>4, SameCore DEF Core
  <2>5. Lent(y) /\ ~y.dup /\ y.high = Marks[1] /\ y.low = Marks[2]
    BY <2>3, <2>4 DEF Lent, Borrowed
  <2> QED BY <2>2, <2>5, StartsRead
<1>a. WriteChunk(st) \in SendfileType /\ Borrowed(WriteChunk(st))
  <2> DEFINE x == write(st, st.total + 1)
  <2>1. st.total + 1 \in Nat
    BY DEF SendfileType
  <2>2. x \in SendfileType /\ Core(x) = Core(st)
    BY <2>1, Writes
  <2>3. WriteChunk(st) = Reads([x EXCEPT !.total = @ + 1])
    BY DEF WriteChunk
  <2> HIDE DEF x
  <2>4. x.chunk \in Nat
    BY <2>2 DEF SendfileType
  <2>5. [x EXCEPT !.total = @ + 1] = [x EXCEPT !.chunk = x.chunk, !.total = @ + 1]
    BY <2>2, ZenonT(60) DEF SendfileType
  <2> QED BY <1>4, <2>2, <2>3, <2>4, <2>5
<1>5. ASSUME NEW p \in {"drainChunk", "sendall"}, NEW w \in Outcomes
      PROVE  Waits(st, p, w) \in SendfileType /\ Borrowed(Waits(st, p, w))
  <2> DEFINE y == Waits(st, p, w)
  <2>1. p \in Places
    BY DEF Places
  <2>2. y \in {To(st, p), Waits(st, p, w)}
    OBVIOUS
  <2> HIDE DEF y
  <2>3. y \in SendfileType /\ Borrowed(y)
    BY <1>3, <2>1, <2>2, Moves
  <2> QED BY <2>3 DEF y
<1>6. CASE HasRead
  <2>1. CASE st' = [st EXCEPT !.at = "sendall", !.wake = "no"]
    <3>1. st' = Waits(st, "sendall", "no") /\ "no" \in Outcomes
      BY <2>1 DEF Waits, Outcomes
    <3> QED BY <1>5, <3>1
  <2>2. CASE st' = drain(st, "drainChunk", WriteChunk(st))
    <3>1. "drainChunk" \in Places
      BY DEF Places
    <3> QED BY <1>a, <1>5, <2>2, <3>1, DrainsTo
  <2> QED BY <1>2, <1>6, <2>1, <2>2 DEF HasRead
<1>7. CASE ChunkDrained
  BY <1>2, <1>a, <1>7 DEF ChunkDrained
<1>8. CASE AllSent
  <2>1. CASE st' = Reads([st EXCEPT !.chunk = 0, !.total = @ + 1])
    BY <1>4, <2>1
  <2>2. CASE st' = [FallbackLeaves(st) EXCEPT !.dropped = st.chunk]
    <3> DEFINE x == FallbackLeaves(st)
    <3>1. x \in SendfileType /\ Borrowed(x) /\ st.chunk \in Nat
      BY <1>2 DEF SendfileType
    <3>2. st' = [x EXCEPT !.dropped = st.chunk]
      BY <2>2
    <3> HIDE DEF x
    <3>3. st' \in SendfileType
      BY <3>1, <3>2, ZenonT(60) DEF SendfileType
    <3>4. Core(st') = Core(x)
      BY <3>1, <3>2 DEF SendfileType, Core
    <3> QED BY <3>1, <3>3, <3>4, SameCore
  <2> QED BY <1>8, <2>1, <2>2 DEF AllSent
<1> QED BY <1>6, <1>7, <1>8

\* What happens around the task.
LEMMA AroundInv ==
    ASSUME SendfileInv, Watched \/ Read \/ SendAll \/ onWritten \/ onClosed \/ Cancel \/ AppWrites \/ CloseTransport
    PROVE  SendfileInv'
<1> USE DEF SendfileInv
<1>1. ASSUME st' \in SendfileType, Core(st') = Core(st) PROVE SendfileInv'
  BY <1>1, SameCore
<1>2. ASSUME NEW c \in Nat, NEW w \in Seq(Nat), st' = [st EXCEPT !.wire = w, !.chunk = c, !.wake = "ok"]
      PROVE  SendfileInv'
  <2>1. st' \in SendfileType
    BY <1>2, ZenonT(60) DEF SendfileType
  <2>2. Core(st') = Core(st)
    BY <1>2 DEF SendfileType, Core
  <2> QED BY <1>1, <2>1, <2>2
<1>3. ASSUME NEW w \in Outcomes, st' = [st EXCEPT !.wake = w]
      PROVE  SendfileInv'
  <2>1. st' \in SendfileType
    BY <1>3, ZenonT(60) DEF SendfileType, Outcomes
  <2>2. Core(st') = Core(st)
    BY <1>3 DEF SendfileType, Core
  <2> QED BY <1>1, <2>1, <2>2
<1>4. ASSUME NEW n \in Nat, st' = [Moved(st, n) EXCEPT !.chunk = n, !.wake = "ok"] PROVE SendfileInv'
  <2> DEFINE w == st.wire \o [i \in 1..n |-> st.total + i]
  <2>1. w \in Seq(Nat)
    BY MovedBlocks DEF SendfileType
  <2>2. st' = [[st EXCEPT !.wire = w] EXCEPT !.chunk = n, !.wake = "ok"]
    BY <1>4 DEF Moved
  <2> HIDE DEF w
  <2> DEFINE x == [st EXCEPT !.wire = w]
  <2>3. x \in SendfileType
    BY <2>1, ZenonT(60) DEF SendfileType
  <2>4. Core(x) = Core(st)
    BY DEF SendfileType, Core
  <2>5. st' = [x EXCEPT !.chunk = n, !.wake = "ok"]
    BY <2>2
  <2> HIDE DEF x
  <2>6. st' \in SendfileType
    BY <2>3, <2>5, ZenonT(60) DEF SendfileType
  <2>7. Core(st') = Core(x)
    BY <2>3, <2>5 DEF SendfileType, Core
  <2> QED BY <1>1, <2>4, <2>6, <2>7
<1>5. CASE Watched
  <2>1. ASSUME NEW n \in 1..(FileLen - st.total), st' = [Moved(st, n) EXCEPT !.chunk = n, !.wake = "ok"]
        PROVE  SendfileInv'
    <3>1. n \in Nat
      BY FileAssumption DEF SendfileType
    <3> QED BY <1>4, <2>1, <3>1
  <2> QED BY <1>3, <1>5, <2>1 DEF Watched, Outcomes
<1>6. CASE Read
  <2> PICK how \in {"ok", "raised"} :
         LET moved == IF how = "ok" /\ st.pos < FileLen THEN 1 ELSE 0
         IN  st' = [st EXCEPT !.worker = FALSE, !.pos = @ + moved,
                              !.wake = IF Awaiting(st, "read") THEN how ELSE @,
                              !.strayed = IF st.at = "end" THEN @ + moved ELSE @]
    BY <1>6 DEF Read
  <2> DEFINE moved == IF how = "ok" /\ st.pos < FileLen THEN 1 ELSE 0
             p == st.pos + moved
             w == IF Awaiting(st, "read") THEN how ELSE st.wake
             s == IF st.at = "end" THEN st.strayed + moved ELSE st.strayed
  <2>1. moved \in {0, 1} /\ st.pos \in Nat /\ st.strayed \in Nat
    BY DEF SendfileType
  <2>2. w \in Outcomes
    BY DEF SendfileType, Outcomes
  <2>3. st' = [st EXCEPT !.worker = FALSE, !.pos = p, !.wake = w, !.strayed = s]
    OBVIOUS
  <2> HIDE DEF moved, w
  <2>4. p \in Nat /\ s \in Nat
    BY <2>1
  <2> HIDE DEF p, s
  <2>5. st' \in SendfileType
    BY <2>2, <2>3, <2>4, ZenonT(60) DEF SendfileType, Outcomes
  <2>6. /\ st'.at = st.at /\ st'.proto = st.proto /\ st'.high = st.high
        /\ st'.low = st.low /\ st'.reading = st.reading /\ st'.closing = st.closing
        /\ st'.resumeR = st.resumeR /\ st'.sock = st.sock /\ st'.dup = st.dup /\ st'.total = st.total
        /\ st'.pos = p /\ st'.strayed = s /\ st'.worker = FALSE
    BY <2>3 DEF SendfileType
  <2>7. st.worker
    BY <1>6 DEF Read
  <2>8. CASE st.at # "end"
    BY <2>5, <2>6, <2>8 DEF Borrowed, s
  <2>9. CASE st.at = "end"
    <3>1. st.strayed = 0
      BY <2>7, <2>9 DEF Borrowed
    <3>2. s = moved /\ (st.total > 0 => p = st.total + s)
      BY <2>1, <2>9, <3>1 DEF Borrowed, SendfileType, s, p
    <3> QED BY <2>1, <2>5, <2>6, <2>9, <3>2 DEF Borrowed
  <2> QED BY <2>8, <2>9
<1>7. CASE SendAll
  BY <1>3, <1>4, <1>7 DEF SendAll, Outcomes
<1>8. CASE onWritten
  <2> DEFINE b == Tail(st.buf)
             w == Append(st.wire, Head(st.buf))
             x == [st EXCEPT !.buf = b, !.wire = w]
  <2>1. b \in Seq(Nat) /\ w \in Seq(Nat)
    BY <1>8 DEF onWritten, SendfileType
  <2>2. st' = maybeResumeProtocol(x)
    BY <1>8 DEF onWritten
  <2> HIDE DEF b, w
  <2>3. x \in SendfileType
    BY <2>1, ZenonT(60) DEF SendfileType
  <2>4. Core(x) = Core(st)
    BY DEF SendfileType, Core
  <2> HIDE DEF x
  <2> QED BY <1>1, <2>2, <2>3, <2>4, ResumesWriting
<1>9. CASE onClosed
  BY <1>1, <1>9, LosesConnection DEF onClosed
<1>10. CASE Cancel
  <2> PICK begun \in BOOLEAN :
         st' = [st EXCEPT !.wake = "cancelled", !.worker = @ /\ begun,
                          !.waiter = IF st.at \in Drains /\ st.wake = "no" THEN "cancelled" ELSE @]
    BY <1>10 DEF Cancel
  <2> DEFINE v == IF st.at \in Drains /\ st.wake = "no" THEN "cancelled" ELSE st.waiter
             k == st.worker /\ begun
  <2>1. v \in {"none", "pending", "failed", "cancelled"} /\ st.worker \in BOOLEAN
    BY DEF SendfileType
  <2>2. k \in BOOLEAN /\ (k => st.worker)
    BY <2>1, Zenon
  <2>3. st' = [st EXCEPT !.wake = "cancelled", !.worker = k, !.waiter = v]
    BY Zenon
  <2> HIDE DEF v, k
  <2>4. st' \in SendfileType
    BY <2>1, <2>2, <2>3, ZenonT(60) DEF SendfileType
  <2>5. /\ st'.at = st.at /\ st'.proto = st.proto /\ st'.high = st.high
        /\ st'.low = st.low /\ st'.reading = st.reading /\ st'.closing = st.closing
        /\ st'.resumeR = st.resumeR /\ st'.sock = st.sock /\ st'.dup = st.dup /\ st'.total = st.total
        /\ st'.pos = st.pos /\ st'.strayed = st.strayed /\ st'.worker = k
    BY <2>3 DEF SendfileType
  <2> QED BY <2>2, <2>4, <2>5 DEF Borrowed
<1>11. CASE AppWrites
  <2> DEFINE b == IF st.at = "idle" THEN Old ELSE New
             x == write(st, b)
  <2>1. b \in Nat /\ st' = [x EXCEPT !.writes = @ + 1]
    BY <1>11, FileAssumption DEF AppWrites, Old, New
  <2> HIDE DEF b
  <2>2. x \in SendfileType /\ Core(x) = Core(st)
    BY <2>1, Writes
  <2> HIDE DEF x
  <2>3. x.writes + 1 \in Nat
    <3>1. x.writes \in Nat
      BY <2>2 DEF SendfileType
    <3> QED BY <3>1
  <2>4. st' \in SendfileType
    BY <2>1, <2>2, <2>3, ZenonT(60) DEF SendfileType
  <2>5. Core(st') = Core(x)
    BY <2>1, <2>2 DEF SendfileType, Core
  <2> QED BY <1>1, <2>2, <2>4, <2>5
<1>12. CASE CloseTransport
  <2> PICK drop \in BOOLEAN :
         st' = [st EXCEPT !.closing = TRUE, !.reading = FALSE, !.buf = IF drop THEN <<>> ELSE @]
    BY <1>12 DEF CloseTransport
  <2> DEFINE b == IF drop THEN <<>> ELSE st.buf
  <2>1. b \in Seq(Nat) /\ st' = [st EXCEPT !.closing = TRUE, !.reading = FALSE, !.buf = b]
    BY DEF SendfileType
  <2> HIDE DEF b
  <2>2. st' \in SendfileType
    BY <2>1, ZenonT(60) DEF SendfileType
  <2>3. /\ st'.at = st.at /\ st'.proto = st.proto /\ st'.high = st.high /\ st'.low = st.low /\ st'.closing
        /\ st'.sock = st.sock /\ st'.total = st.total /\ st'.pos = st.pos
        /\ st'.dup = st.dup /\ st'.worker = st.worker /\ st'.strayed = st.strayed
    BY <2>1 DEF SendfileType
  <2> QED BY <2>2, <2>3 DEF Borrowed
<1> QED BY <1>5, <1>6, <1>7, <1>8, <1>9, <1>10, <1>11, <1>12

\* Every step keeps the invariant.
LEMMA SendfileStepInv == SendfileInv /\ [SendfileNext]_st => SendfileInv'
<1> SUFFICES ASSUME SendfileInv, [SendfileNext]_st PROVE SendfileInv'
  OBVIOUS
<1>1. CASE UNCHANGED st
  BY <1>1 DEF SendfileInv
<1>2. CASE SendfileNext
  BY <1>2, NativeInv, FallbackInv, AroundInv DEF SendfileNext, TaskSteps, LoopSteps
<1> QED BY <1>1, <1>2

\* It says what sendfile() promises of the transport and of the file.
LEMMA SendfileInvImplies == SendfileInv => TransportRestored /\ FilePositioned
<1>1. Marks = <<Marks[1], Marks[2]>>
  BY FileAssumption
<1>2. SendfileInv => TransportRestored
  BY <1>1 DEF SendfileInv, Borrowed, TransportRestored
<1>3. SendfileInv => FilePositioned
  BY DEF SendfileInv, Borrowed, FilePositioned
<1> QED BY <1>2, <1>3

-----------------------------------------------------------------------------
(* The default executor (Executors) *)

JobStates == {"none", "queued", "running", "done"}
JobType == [at : JobStates, on : Pools \cup {NoPool, Own}, asDefault : BOOLEAN]
Joined == {"notifying", "scheduling", "refused", "raised", "done"}
ExecType ==
    [loop : {"stopped", "running", "closing", "closed"}, default : Pools \cup {NoPool, Own}, called : BOOLEAN,
     shut : SUBSET (Pools \cup {NoPool, Own}), replaced : SUBSET (Pools \cup {NoPool, Own}),
     task : {"none", "waiting", "returned", "warned", "cancelled"}, fut : {"none", "pending", "done", "cancelled"},
     wake : {"no", "ok", "timeout", "cancelled"}, pool : Pools \cup {NoPool, Own}, timed : BOOLEAN,
     joiner : {"none", "shutting", "joining"} \cup Joined, note : {"none", "queued", "ran"},
     taken : Pools \cup {NoPool, Own}]

ExecTypes == ex \in ExecType /\ job \in [Jobs -> JobType]

\* A job of the default executor that set_default_executor() did not take away.
Kept(j) == job[j].asDefault /\ job[j].on \notin ex.replaced

(***************************************************************************)
(* Until the shutdown the jobs kept are on the default executor; while it  *)
(* waits they are on the one it shuts, which takes no more jobs once the   *)
(* thread has begun, and has none left when the thread is past its join.   *)
(***************************************************************************)
ExecInv ==
    /\ ExecTypes
    /\ \A j \in Jobs : job[j].asDefault => job[j].on # NoPool
    /\ \A j \in Jobs : job[j].at = "none" => ~job[j].asDefault
    /\ ex.called <=> ex.task # "none"
    /\ ~ex.called /\ ~isClosed(ex) => \A j \in Jobs : Kept(j) => job[j].on = ex.default
    /\ ex.task = "waiting" => \A j \in Jobs : Kept(j) => job[j].on = ex.pool
    /\ ex.joiner \in {"joining"} \cup Joined => ex.pool \in ex.shut
    /\ ex.joiner \in Joined => \A j \in Jobs : job[j].on = ex.pool => job[j].at = "done"
    /\ ex.task = "none" => ex.joiner = "none"
    /\ ex.task = "returned" => \A j \in Jobs : Kept(j) => job[j].at = "done"

\* The executors and the jobs start in it.
LEMMA ExecInitInv == ExecInit => ExecInv
<1> SUFFICES ASSUME ExecInit PROVE ExecInv
  OBVIOUS
<1>1. ex \in ExecType /\ ex.called = FALSE /\ ex.task = "none" /\ ex.joiner = "none"
  BY ZenonT(60) DEF ExecInit, ExecType, Joined
<1>2. job \in [Jobs -> JobType] /\ \A j \in Jobs : job[j].asDefault = FALSE
  BY ZenonT(60) DEF ExecInit, JobType, JobStates
<1> QED BY <1>1, <1>2 DEF ExecInv, ExecTypes, Kept, Joined

\* A job submitted changes one record.
LEMMA SubmittedJob ==
  ASSUME ExecTypes, NEW j \in Jobs, NEW p \in Pools \cup {NoPool, Own}, NEW d \in BOOLEAN, Submitted(j, p, d)
  PROVE  /\ job' \in [Jobs -> JobType]
         /\ p \notin ex.shut
         /\ job'[j].at = "queued" /\ job'[j].on = p /\ job'[j].asDefault = d
         /\ \A k \in Jobs \ {j} : job'[k] = job[k]
  BY DEF ExecTypes, JobType, JobStates, Submitted

\* Every step keeps it.
LEMMA ExecStepInv == ExecInv /\ [ExecNext]_execVars => ExecInv'
<1> SUFFICES ASSUME ExecInv, [ExecNext]_execVars PROVE ExecInv'
  OBVIOUS
<1>1. ASSUME NEW j \in Jobs, run_in_executor(j) PROVE ExecInv'
  <2> DEFINE p == IF ex.default = NoPool THEN Own ELSE ex.default
  <2>1. /\ p \in Pools \cup {NoPool, Own} /\ p # NoPool /\ ~ex.called /\ ~isClosed(ex)
        /\ Submitted(j, p, TRUE) /\ ex' = [ex EXCEPT !.default = p]
    BY ZenonT(60), <1>1 DEF run_in_executor, Callable, ExecInv, ExecTypes, ExecType, JobType, JobStates, Kept, isClosed, NoPool, Own, Joined
  <2>2. /\ job' \in [Jobs -> JobType]
        /\ job'[j].at = "queued" /\ job'[j].on = p /\ job'[j].asDefault = TRUE
        /\ \A k \in Jobs \ {j} : job'[k] = job[k]
    BY <2>1, SubmittedJob DEF ExecInv, Joined
  <2>3. ex.task = "none" /\ ex.joiner = "none"
    BY <2>1 DEF ExecInv, Joined
  <2>4. \A k \in Jobs : Kept(k)' => job'[k].on = p
    <3> TAKE k \in Jobs
    <3>1. CASE k = j
      BY <3>1, <2>2
    <3>2. CASE k # j
      <4>1. Kept(k)' = Kept(k)
        BY <2>1, <2>2, <3>2 DEF Kept, ExecInv, ExecTypes, ExecType, JobType, JobStates, Kept, isClosed, Joined
      <4>2. Kept(k) => job[k].on = ex.default /\ job[k].on # NoPool
        BY <2>1 DEF ExecInv, Kept, Joined
      <4>3. ex.default # NoPool => p = ex.default
        OBVIOUS
      <4> QED BY <4>1, <4>2, <4>3, <2>2, <3>2
    <3> QED BY <3>1, <3>2
  <2>5. ex' \in ExecType /\ ex'.default = p /\ ex'.task = "none" /\ ex'.joiner = "none" /\ ex'.called = FALSE
    BY <2>1, <2>3 DEF ExecInv, ExecTypes, ExecType, JobType, JobStates, Kept, isClosed, Joined
  <2> HIDE DEF p
  <2>6. \A k \in Jobs : /\ job'[k].asDefault => job'[k].on # NoPool
                        /\ job'[k].at = "none" => ~job'[k].asDefault
    BY <2>1, <2>2 DEF ExecInv, Joined
  <2> QED BY <2>2, <2>4, <2>5, <2>6, ZenonT(60) DEF ExecInv, ExecTypes, Joined
<1>2. ASSUME NEW j \in Jobs, submit(j) PROVE ExecInv'
  <2>1. PICK p \in Pools : Submitted(j, p, FALSE)
    BY <1>2 DEF submit
  <2>2. /\ job' \in [Jobs -> JobType] /\ p \notin ex.shut
        /\ job'[j].at = "queued" /\ job'[j].on = p /\ job'[j].asDefault = FALSE
        /\ \A k \in Jobs \ {j} : job'[k] = job[k]
    BY <2>1, SubmittedJob DEF ExecInv, Joined
  <2>3. ex' = ex
    BY <1>2 DEF submit
  <2>4. \A k \in Jobs : Kept(k)' => k # j /\ Kept(k)
    BY <2>2, <2>3 DEF Kept
  <2>5. (~ex'.called /\ ~isClosed(ex')) => \A k \in Jobs : Kept(k)' => job'[k].on = ex'.default
    BY <2>2, <2>3, <2>4 DEF ExecInv, Joined
  <2>6. ex'.task = "waiting" => \A k \in Jobs : Kept(k)' => job'[k].on = ex'.pool
    BY <2>2, <2>3, <2>4 DEF ExecInv, Joined
  <2>7. ex'.joiner \in Joined => \A k \in Jobs : job'[k].on = ex'.pool => job'[k].at = "done"
    BY <2>2, <2>3, <2>4 DEF ExecInv, Joined
  <2>8. ex'.task = "returned" => \A k \in Jobs : Kept(k)' => job'[k].at = "done"
    BY <2>2, <2>3, <2>4 DEF ExecInv, Joined
  <2>9. \A k \in Jobs : /\ job'[k].asDefault => job'[k].on # NoPool
                        /\ job'[k].at = "none" => ~job'[k].asDefault
    BY <2>2 DEF ExecInv, Joined
  <2> QED BY ZenonT(60), <2>2, <2>3, <2>5, <2>6, <2>7, <2>8, <2>9 DEF ExecInv, ExecTypes, Joined
<1>3. ASSUME NEW j \in Jobs, Worker(j) PROVE ExecInv'
  <2>1. /\ job' \in [Jobs -> JobType] /\ ex' = ex
        /\ job[j].at \in {"queued", "running"} /\ job'[j].at \in {"running", "done"}
        /\ job'[j].on = job[j].on /\ job'[j].asDefault = job[j].asDefault
        /\ \A k \in Jobs \ {j} : job'[k] = job[k]
    BY <1>3 DEF Worker, ExecInv, ExecTypes, ExecType, JobType, JobStates, Kept, isClosed, Joined
  <2>2. \A k \in Jobs : /\ job'[k].on = job[k].on /\ job'[k].asDefault = job[k].asDefault
                        /\ job'[k].at = "none" => job[k].at = "none"
    BY <2>1
  <2>3. \A k \in Jobs : job[k].at = "done" => job'[k].at = "done"
    BY <2>1
  <2>4. \A k \in Jobs : Kept(k)' <=> Kept(k)
    BY <2>1, <2>2 DEF Kept
  <2>5. (~ex'.called /\ ~isClosed(ex')) => \A k \in Jobs : Kept(k)' => job'[k].on = ex'.default
    <3>1. (~ex.called /\ ~isClosed(ex)) => \A k \in Jobs : Kept(k) => job[k].on = ex.default
      BY DEF ExecInv, Joined
    <3> QED BY <2>1, <2>2, <2>4, <3>1
  <2>6. ex'.task = "waiting" => \A k \in Jobs : Kept(k)' => job'[k].on = ex'.pool
    <3>1. ex.task = "waiting" => \A k \in Jobs : Kept(k) => job[k].on = ex.pool
      BY DEF ExecInv, Joined
    <3> QED BY <2>1, <2>2, <2>4, <3>1
  <2>7. ex'.joiner \in Joined => \A k \in Jobs : job'[k].on = ex'.pool => job'[k].at = "done"
    <3>1. ex.joiner \in Joined => \A k \in Jobs : job[k].on = ex.pool => job[k].at = "done"
      BY DEF ExecInv, Joined
    <3> QED BY <2>1, <2>2, <2>3, <3>1
  <2>8. ex'.task = "returned" => \A k \in Jobs : Kept(k)' => job'[k].at = "done"
    <3>1. ex.task = "returned" => \A k \in Jobs : Kept(k) => job[k].at = "done"
      BY DEF ExecInv, Joined
    <3> QED BY <2>1, <2>3, <2>4, <3>1
  <2>9. \A k \in Jobs : /\ job'[k].asDefault => job'[k].on # NoPool
                        /\ job'[k].at = "none" => ~job'[k].asDefault
    BY <2>2 DEF ExecInv, Joined
  <2> QED BY ZenonT(60), <2>1, <2>5, <2>6, <2>7, <2>8, <2>9 DEF ExecInv, ExecTypes, Joined
<1>4. ASSUME NEW p \in Pools, set_default_executor(p) PROVE ExecInv'
  <2>1. /\ ExecTypes' /\ job' = job
        /\ ex'.default = p /\ ex'.replaced = ex.replaced \cup ({ex.default} \ {NoPool})
        /\ ex'.loop = ex.loop /\ ex'.called = ex.called /\ ex'.shut = ex.shut /\ ex'.task = ex.task /\ ex'.pool = ex.pool /\ ex'.joiner = ex.joiner
    BY ZenonT(60), <1>4 DEF set_default_executor, ExecInv, ExecTypes, ExecType, JobType, JobStates, Joined
  <2>2. \A j \in Jobs : Kept(j)' => Kept(j) /\ job[j].on # ex.default
    BY <2>1 DEF ExecInv, Kept, Joined
  <2> QED BY <2>1, <2>2 DEF ExecInv, isClosed, Joined
<1>5. ASSUME shutdown_default_executor PROVE ExecInv'
  <2>1. /\ ExecTypes' /\ job' = job
        /\ ex'.called = TRUE /\ ex.task = "none" /\ ex.loop = "running"
        /\ \/ ex.default = NoPool /\ ex'.task = "returned" /\ ex'.joiner = ex.joiner
           \/ ex'.task = "waiting" /\ ex'.pool = ex.default /\ ex'.joiner = "shutting"
        /\ ex'.loop = ex.loop /\ ex'.default = ex.default /\ ex'.shut = ex.shut /\ ex'.replaced = ex.replaced
    <3>1. ex \in ExecType /\ job' = job /\ job \in [Jobs -> JobType] /\ ex.loop = "running" /\ ex.task = "none"
      BY <1>5 DEF shutdown_default_executor, ExecInv, ExecTypes, Joined
    <3>2. CASE ex.default = NoPool /\ ex' = [ex EXCEPT !.called = TRUE, !.task = "returned"]
      BY ZenonT(60), <3>1, <3>2 DEF ExecTypes, ExecType, Joined
    <3>3. ASSUME NEW t \in BOOLEAN,
                 ex' = [ex EXCEPT !.called = TRUE, !.task = "waiting", !.fut = "pending", !.pool = ex.default,
                                  !.timed = t, !.joiner = "shutting"]
          PROVE  /\ ExecTypes'
                 /\ ex'.called = TRUE /\ ex'.task = "waiting" /\ ex'.pool = ex.default /\ ex'.joiner = "shutting"
                 /\ ex'.loop = ex.loop /\ ex'.default = ex.default /\ ex'.shut = ex.shut /\ ex'.replaced = ex.replaced
      BY ZenonT(60), <3>1, <3>3 DEF ExecTypes, ExecType, Joined
    <3> QED BY <1>5, <3>1, <3>2, <3>3 DEF shutdown_default_executor
  <2>2. ~ex.called /\ ~isClosed(ex) /\ ex.joiner = "none"
    BY <2>1 DEF ExecInv, isClosed, Joined
  <2>3. \A j \in Jobs : Kept(j)' => Kept(j) /\ job[j].on = ex.default /\ job[j].on # NoPool
    BY <2>1, <2>2 DEF ExecInv, Kept, Joined
  <2> QED BY <2>1, <2>2, <2>3 DEF ExecInv, Joined
<1>6. ASSUME Timeout \/ Interrupt("cancelled") PROVE ExecInv'
  <2>1. /\ ExecTypes' /\ job' = job
        /\ ex'.loop = ex.loop /\ ex'.default = ex.default /\ ex'.called = ex.called /\ ex'.shut = ex.shut /\ ex'.replaced = ex.replaced /\ ex'.task = ex.task /\ ex'.pool = ex.pool /\ ex'.joiner = ex.joiner
    <3>1. PICK how \in {"timeout", "cancelled"} : Interrupt(how)
      BY <1>6 DEF Timeout
    <3>2. ex \in ExecType /\ job' = job /\ job \in [Jobs -> JobType]
      BY <3>1 DEF Interrupt, ExecInv, ExecTypes, Joined
    <3>3. PICK f \in {"none", "pending", "done", "cancelled"} : ex' = [ex EXCEPT !.wake = how, !.fut = f]
      BY ZenonT(60), <3>1, <3>2 DEF Interrupt, ExecType, Joined
    <3> QED BY ZenonT(60), <3>2, <3>3 DEF ExecTypes, ExecType, Joined
  <2> QED BY <2>1 DEF ExecInv, Kept, isClosed, Joined
<1>7. ASSUME Resumes PROVE ExecInv'
  <2>1. /\ ExecTypes' /\ job' = job
        /\ ex.task = "waiting" /\ ex'.shut \in {ex.shut, ex.shut \cup {ex.pool}}
        /\ \/ ex.joiner = "done" /\ ex'.task = "returned"
           \/ ex'.task \in {"warned", "cancelled"}
        /\ ex'.loop = ex.loop /\ ex'.default = ex.default /\ ex'.called = ex.called /\ ex'.replaced = ex.replaced /\ ex'.pool = ex.pool /\ ex'.joiner = ex.joiner
    <3>1. ex \in ExecType /\ job' = job /\ job \in [Jobs -> JobType] /\ ex.task = "waiting"
      BY <1>7 DEF Resumes, ExecInv, ExecTypes, Joined
    <3>2. CASE ex.joiner = "done" /\ ex' = [ex EXCEPT !.task = "returned"]
      BY <3>1, <3>2 DEF ExecTypes, ExecType, Joined
    <3>3. CASE ex' = [ex EXCEPT !.task = "warned", !.shut = @ \cup {ex.pool}]
      BY ZenonT(60), <3>1, <3>3 DEF ExecTypes, ExecType, Joined
    <3>4. CASE ex' = [ex EXCEPT !.task = "cancelled"]
      BY <3>1, <3>4 DEF ExecTypes, ExecType, Joined
    <3> QED BY <1>7, <3>2, <3>3, <3>4 DEF Resumes
  <2>2. \A j \in Jobs : Kept(j)' => Kept(j) /\ job[j].on = ex.pool
    BY <2>1 DEF ExecInv, Kept, Joined
  <2> QED BY <2>1, <2>2 DEF ExecInv, Joined
<1>8. ASSUME NoteRuns PROVE ExecInv'
  <2>1. /\ ExecTypes' /\ job' = job
        /\ ex'.loop = ex.loop /\ ex'.default = ex.default /\ ex'.called = ex.called /\ ex'.shut = ex.shut /\ ex'.replaced = ex.replaced /\ ex'.task = ex.task /\ ex'.pool = ex.pool /\ ex'.joiner = ex.joiner
    <3>1. ex \in ExecType /\ job' = job /\ job \in [Jobs -> JobType]
      BY <1>8 DEF NoteRuns, ExecInv, ExecTypes, Joined
    <3>2. CASE ex' = [ex EXCEPT !.fut = "done", !.wake = "ok", !.note = "ran"]
      BY ZenonT(60), <3>1, <3>2 DEF ExecTypes, ExecType, Joined
    <3>3. CASE ex' = [ex EXCEPT !.note = "ran"]
      BY <3>1, <3>3 DEF ExecTypes, ExecType, Joined
    <3> QED BY <1>8, <3>2, <3>3 DEF NoteRuns, _set_result_unless_cancelled
  <2> QED BY <2>1 DEF ExecInv, Kept, isClosed, Joined
<1>9. ASSUME _shutdown_executor PROVE ExecInv'
  <2>1. /\ ExecTypes' /\ job' = job
        /\ \/ ex.joiner = "shutting" /\ ex'.joiner = "joining" /\ ex'.shut = ex.shut \cup {ex.pool}
           \/ /\ ex.joiner = "joining" /\ ex'.joiner = "notifying" /\ ex'.shut = ex.shut
              /\ Unfinished(ex.pool) = {}
           \/ ex.joiner \in Joined /\ ex'.joiner \in Joined /\ ex'.shut = ex.shut
        /\ ex'.loop = ex.loop /\ ex'.default = ex.default /\ ex'.called = ex.called /\ ex'.replaced = ex.replaced /\ ex'.task = ex.task /\ ex'.pool = ex.pool
    <3>1. ex \in ExecType /\ job' = job /\ job \in [Jobs -> JobType]
      BY <1>9 DEF _shutdown_executor, ExecInv, ExecTypes, Joined
    <3>2. CASE ex.joiner = "shutting" /\ ex' = [ex EXCEPT !.shut = @ \cup {ex.pool}, !.joiner = "joining"]
      BY ZenonT(60), <3>1, <3>2 DEF ExecTypes, ExecType, Joined
    <3>3. CASE ex.joiner = "joining" /\ Unfinished(ex.pool) = {} /\ ex' = [ex EXCEPT !.joiner = "notifying"]
      BY <3>1, <3>3 DEF ExecTypes, ExecType, Joined
    <3>4. CASE ex.joiner = "scheduling" /\ ex' = [ex EXCEPT !.note = "queued", !.joiner = "done"]
      BY ZenonT(60), <3>1, <3>4 DEF ExecTypes, ExecType, Joined
    <3>5. ASSUME NEW to \in Joined, ex.joiner \in {"notifying", "refused"}, ex' = [ex EXCEPT !.joiner = to]
          PROVE  /\ ExecTypes' /\ ex.joiner \in Joined /\ ex'.joiner \in Joined /\ ex'.shut = ex.shut
                 /\ ex'.loop = ex.loop /\ ex'.default = ex.default /\ ex'.called = ex.called
                 /\ ex'.replaced = ex.replaced /\ ex'.task = ex.task /\ ex'.pool = ex.pool
      BY ZenonT(60), <3>1, <3>5 DEF ExecTypes, ExecType, Joined
    <3> QED BY <1>9, <3>2, <3>3, <3>4, <3>5 DEF _shutdown_executor, Joined
  <2>2. Unfinished(ex.pool) = {} => \A j \in Jobs : job[j].on = ex.pool => job[j].at = "done"
    BY DEF Unfinished
  <2>3. \A j \in Jobs : Kept(j)' <=> Kept(j)
    BY <2>1 DEF Kept
  <2> QED BY <2>1, <2>2, <2>3 DEF ExecInv, isClosed, Joined
<1>10. ASSUME RunOrStop \/ LoopClose PROVE ExecInv'
  <2>1. /\ ExecTypes' /\ job' = job
        /\ isClosed(ex)' \/ (ex'.default = ex.default /\ ~isClosed(ex))
        /\ ex.shut \subseteq ex'.shut
        /\ ex'.called = ex.called /\ ex'.replaced = ex.replaced /\ ex'.task = ex.task /\ ex'.pool = ex.pool /\ ex'.joiner = ex.joiner
    <3>1. ex \in ExecType /\ job' = job /\ job \in [Jobs -> JobType]
      BY <1>10 DEF RunOrStop, LoopClose, ExecInv, ExecTypes, Joined
    <3>2. ASSUME NEW l \in {"stopped", "running"}, ~isClosed(ex), ex' = [ex EXCEPT !.loop = l]
          PROVE  /\ ex' \in ExecType /\ ex.shut \subseteq ex'.shut
                 /\ isClosed(ex)' \/ (ex'.default = ex.default /\ ~isClosed(ex))
                 /\ ex'.called = ex.called /\ ex'.replaced = ex.replaced /\ ex'.task = ex.task
                 /\ ex'.pool = ex.pool /\ ex'.joiner = ex.joiner
      BY <3>1, <3>2 DEF ExecType, isClosed, Joined
    <3>3. CASE RunOrStop
      BY <3>1, <3>2, <3>3 DEF RunOrStop, ExecTypes
    <3>4. CASE ex' = [ex EXCEPT !.loop = "closing", !.taken = ex.default, !.default = NoPool]
      BY ZenonT(60), <3>1, <3>4 DEF ExecTypes, ExecType, isClosed, Joined
    <3>5. CASE ex' = [ex EXCEPT !.loop = "closed", !.shut = @ \cup ({ex.taken} \ {NoPool})]
      BY ZenonT(60), <3>1, <3>5 DEF ExecTypes, ExecType, isClosed, Joined
    <3> QED BY <1>10, <3>3, <3>4, <3>5 DEF LoopClose
  <2>2. \A j \in Jobs : Kept(j)' <=> Kept(j)
    BY <2>1 DEF Kept
  <2> QED BY <2>1, <2>2 DEF ExecInv, Joined
<1>11. ASSUME UNCHANGED execVars PROVE ExecInv'
  <2>1. ex' = ex /\ job' = job
    BY <1>11 DEF execVars
  <2>2. \A j \in Jobs : Kept(j)' <=> Kept(j)
    BY <2>1 DEF Kept
  <2> QED BY <2>1, <2>2, ZenonT(60) DEF ExecInv, ExecTypes, isClosed, Joined
<1> QED BY <1>1, <1>2, <1>3, <1>4, <1>5, <1>6, <1>7, <1>8, <1>9, <1>10, <1>11 DEF ExecNext

\* What it says of the shutdown.
LEMMA ExecInvImplies == ExecInv => DefaultDrained
  BY DEF ExecInv, DefaultDrained, Kept, Joined
=============================================================================
