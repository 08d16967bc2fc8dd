--------------------------- MODULE ServiceProofs ----------------------------
(***************************************************************************)
(* Proofs about the calls of a parent and of a server: subprocesses        *)
(* (ProcessReaper, LibuvProcess), listening sockets (Listeners), datagram  *)
(* endpoints, pipes and start_tls() (Endpoints), for any number of         *)
(* children, loops and pids, of servers, hosts and addresses, and of       *)
(* records.                                                                *)
(*                                                                         *)
(* As in ClientProofs each part has an inductive invariant over its own    *)
(* variables.                                                              *)
(***************************************************************************)
EXTENDS ProcessReaper, LibuvProcess, Listeners, Endpoints, FiniteSetTheorems, TLAPS

-----------------------------------------------------------------------------
(* The reaper thread (ProcessReaper) *)

ReaperTypes ==
    /\ os \in [Children -> {"none", "running", "zombie", "reaped"}]
    /\ pid \in [Children -> Pids \cup {Nothing}] /\ loop \in [Children -> Loops \cup {Nothing}]
    /\ processes \in [Pids -> Children \cup {Nothing}]
    /\ reaper \in {"waiting", "scanning", "removing", "reporting"}
    /\ scan \in SUBSET Children /\ found \in Children \cup {Nothing}
    /\ reports \in [Children -> Nat]
    /\ registering \in [Loops -> Children \cup {Nothing}]

\* What a child spawned and one about to be registered have.
Spawned ==
    /\ \A c \in Children : os[c] # "none" => pid[c] \in Pids /\ loop[c] \in Loops
    /\ \A l \in Loops : registering[l] # Nothing => os[registering[l]] # "none" /\ loop[registering[l]] = l

\* What the reaper holds where it stands.
Holds ==
    /\ reaper = "waiting" => scan = {}
    /\ found # Nothing <=> reaper \in {"removing", "reporting"}
    /\ found # Nothing => os[found] = "reaped"
    /\ \A c \in scan : Registered(c)
    /\ \A p \in Pids : processes[p] # Nothing => Registered(processes[p])

\* A child that runs keeps its entry: only one that was waited for is removed.
RunningKept ==
    \A c \in Children \ overwritten : Registered(c) /\ os[c] = "running" => processes[pid[c]] = c

ReaperInv == ReaperTypes /\ Spawned /\ Holds /\ RunningKept /\ NoChildForgotten

\* The reaper starts in it.
LEMMA ReaperInitInv == ReaperInit => ReaperInv
  BY NothingAssumption
  DEF ReaperInit, ReaperInv, ReaperTypes, Spawned, Holds, RunningKept, NoChildForgotten, Registered

\* A step that neither spawns nor registers leaves the registered ones so.
LEMMA SameRegistered ==
  ASSUME ReaperTypes, os' \in [Children -> {"none", "running", "zombie", "reaped"}],
         \A c \in Children : os'[c] = "none" <=> os[c] = "none",
         UNCHANGED <<loop, registering>>
  PROVE  \A c \in Children : Registered(c)' <=> Registered(c)
  BY DEF Registered

\* poll() changes a child that has exited, and only that one.
LEMMA PollOnly ==
  ASSUME ReaperTypes, NEW c \in Children, poll(c)
  PROVE  /\ os' \in [Children -> {"none", "running", "zombie", "reaped"}]
         /\ \A d \in Children : os'[d] = "none" <=> os[d] = "none"
         /\ \A d \in Children : os'[d] = "running" <=> os[d] = "running"
         /\ \A d \in Children : os[d] = "reaped" => os'[d] = "reaped"
         /\ returncode(c) => os'[c] = "reaped"
         /\ ~returncode(c) => os[c] \in {"none", "running"}
  BY DEF ReaperTypes, poll, returncode

\* Every step keeps it.
LEMMA ReaperStepInv == ReaperInv /\ [ReaperNext]_reaperVars => ReaperInv'
<1> SUFFICES ASSUME ReaperInv, [ReaperNext]_reaperVars PROVE ReaperInv'
  OBVIOUS
<1> USE NothingAssumption DEF kernel, thread, calls
<1>1. ASSUME NEW c \in Children, Exits(c) PROVE ReaperInv'
  <2>1. /\ os' \in [Children -> {"none", "running", "zombie", "reaped"}]
        /\ \A d \in Children : os'[d] = "none" <=> os[d] = "none"
        /\ \A d \in Children : os'[d] = "running" => os[d] = "running"
        /\ \A d \in Children : os[d] = "reaped" => os'[d] = "reaped"
    BY <1>1 DEF Exits, ReaperInv, ReaperTypes
  <2>2. \A d \in Children : Registered(d)' <=> Registered(d)
    BY <1>1, <2>1, SameRegistered DEF Exits, ReaperInv
  <2> QED BY <1>1, <2>1, <2>2 DEF Exits, ReaperInv, ReaperTypes, Spawned, Holds, RunningKept, NoChildForgotten
<1>2. ASSUME NEW c \in Children, NEW l \in Loops, spawn(c, l) PROVE ReaperInv'
  <2>1. PICK p \in Pids : pid' = [pid EXCEPT ![c] = p]
    BY <1>2 DEF spawn
  <2>2. /\ os[c] = "none" /\ registering[l] = Nothing
        /\ os' = [os EXCEPT ![c] = "running"] /\ loop' = [loop EXCEPT ![c] = l]
        /\ registering' = [registering EXCEPT ![l] = c]
        /\ UNCHANGED <<processes, reaper, scan, found, reports, closed, overwritten>>
    BY <1>2 DEF spawn, InLoop
  <2>3. ReaperTypes'
    BY <2>1, <2>2 DEF ReaperInv, ReaperTypes
  <2>4. /\ ~Registered(c)' /\ ~Registered(c)
        /\ \A d \in Children \ {c} : Registered(d)' <=> Registered(d)
    BY <2>2 DEF ReaperInv, ReaperTypes, Spawned, Registered
  <2>5. \A d \in Children \ {c} : os'[d] = os[d] /\ pid'[d] = pid[d] /\ loop'[d] = loop[d]
    BY <2>1, <2>2 DEF ReaperInv, ReaperTypes
  <2>6. Spawned'
    BY <2>1, <2>2 DEF ReaperInv, ReaperTypes, Spawned
  <2>7. Holds'
    BY <2>2, <2>4, <2>5 DEF ReaperInv, ReaperTypes, Holds
  <2> QED BY <2>2, <2>3, <2>4, <2>5, <2>6, <2>7 DEF ReaperInv, RunningKept, NoChildForgotten
<1>3. ASSUME NEW l \in Loops, register(l) PROVE ReaperInv'
  <2>1. PICK c \in Children : registering[l] = c /\ pid[c] \in Pids /\ loop[c] = l /\ os[c] # "none"
    BY <1>3 DEF register, ReaperInv, ReaperTypes, Spawned
  <2>2. /\ processes' = [processes EXCEPT ![pid[c]] = c]
        /\ registering' = [registering EXCEPT ![l] = Nothing]
        /\ overwritten' = overwritten \cup ({processes[pid[c]]} \ {Nothing})
        /\ UNCHANGED <<os, pid, loop, reaper, scan, found, reports, closed>>
    BY <1>3, <2>1 DEF register
  <2>3. ReaperTypes'
    BY <2>1, <2>2 DEF ReaperInv, ReaperTypes
  <2>4. Registered(c)' /\ \A d \in Children \ {c} : Registered(d)' <=> Registered(d)
    BY <2>1, <2>2 DEF ReaperInv, ReaperTypes, Registered
  <2>5. Spawned'
    BY <2>1, <2>2 DEF ReaperInv, ReaperTypes, Spawned
  <2>6. Holds'
    BY <2>1, <2>2, <2>4 DEF ReaperInv, ReaperTypes, Holds
  <2>7. \A d \in Children \ overwritten' :
            d \notin overwritten /\ (d # c /\ pid[d] \in Pids /\ processes[pid[d]] = d => processes'[pid[d]] = d)
    BY <2>1, <2>2 DEF ReaperInv, ReaperTypes
  <2>8. processes'[pid[c]] = c
    BY <2>1, <2>2 DEF ReaperInv, ReaperTypes
  <2>9. \A d \in Children : Registered(d) => pid[d] \in Pids
    BY DEF ReaperInv, Spawned, Registered
  <2> QED BY <2>1, <2>2, <2>3, <2>4, <2>5, <2>6, <2>7, <2>8, <2>9 DEF ReaperInv, RunningKept, NoChildForgotten
<1>4. ASSUME NEW c \in Children, exitedCalled(c) PROVE ReaperInv'
  BY <1>4 DEF exitedCalled, ReaperInv, ReaperTypes, Spawned, Holds, RunningKept, NoChildForgotten, Registered
<1>5. ASSUME NEW c \in Children, send_signal(c) PROVE ReaperInv'
  <2>1. /\ poll(c) /\ ReaperTypes
        /\ UNCHANGED <<pid, loop, processes, reaper, scan, found, reports, registering, closed, overwritten>>
    BY <1>5 DEF send_signal, ReaperInv
  <2>2. \A d \in Children : Registered(d)' <=> Registered(d)
    BY <2>1, PollOnly, SameRegistered
  <2> QED BY <2>1, <2>2, PollOnly DEF ReaperInv, ReaperTypes, Spawned, Holds, RunningKept, NoChildForgotten
<1>6. ASSUME NEW l \in Loops, kill(l) \/ close(l) PROVE ReaperInv'
  BY <1>6 DEF kill, close, ReaperInv, ReaperTypes, Spawned, Holds, RunningKept, NoChildForgotten, Registered
<1>7. ASSUME snapshot PROVE ReaperInv'
  <2>1. /\ reaper = "waiting" /\ reaper' = "scanning"
        /\ scan' = {processes[p] : p \in Pids} \ {Nothing}
        /\ UNCHANGED <<os, pid, loop, processes, found, reports, registering, closed, overwritten>>
    BY <1>7 DEF snapshot
  <2>2. scan' \in SUBSET Children /\ scan = {} /\ found = Nothing
    BY <2>1 DEF ReaperInv, ReaperTypes, Holds
  <2>3. \A c \in Children : Registered(c)' <=> Registered(c)
    BY <2>1 DEF Registered
  <2>4. \A c \in scan' : Registered(c)
    BY <2>1 DEF ReaperInv, Holds
  <2> QED BY <2>1, <2>2, <2>3, <2>4 DEF ReaperInv, ReaperTypes, Spawned, Holds, RunningKept, NoChildForgotten
<1>8. ASSUME NEW c \in Children, reaperPolls(c) PROVE ReaperInv'
  <2>1. /\ poll(c) /\ ReaperTypes /\ reaper = "scanning" /\ c \in scan /\ scan' = scan \ {c}
        /\ IF returncode(c) THEN reaper' = "removing" /\ found' = c ELSE UNCHANGED <<reaper, found>>
        /\ UNCHANGED <<pid, loop, processes, reports, registering, closed, overwritten>>
    BY <1>8 DEF reaperPolls, ReaperInv
  <2>2. \A d \in Children : Registered(d)' <=> Registered(d)
    BY <2>1, PollOnly, SameRegistered
  <2>3. found = Nothing /\ Registered(c)
    BY <2>1 DEF ReaperInv, Holds
  <2>4. ReaperTypes'
    BY <2>1, PollOnly DEF ReaperTypes
  <2>5. Spawned' /\ RunningKept'
    BY <2>1, <2>2, PollOnly DEF ReaperInv, ReaperTypes, Spawned, RunningKept
  <2>6. Holds'
    BY <2>1, <2>2, <2>3, PollOnly DEF ReaperInv, ReaperTypes, Holds
  <2>7. ~returncode(c) /\ c \notin overwritten => processes[pid[c]] = c
    BY <2>1, <2>3, PollOnly DEF ReaperInv, RunningKept, Registered
  <2> QED BY <2>1, <2>2, <2>3, <2>4, <2>5, <2>6, <2>7 DEF ReaperInv, NoChildForgotten
<1>9. ASSUME removeEntry PROVE ReaperInv'
  <2>1. /\ reaper = "removing" /\ reaper' = "reporting"
        /\ processes' = [processes EXCEPT ![pid[found]] = IF @ = found THEN Nothing ELSE @]
        /\ UNCHANGED <<os, pid, loop, scan, found, reports, registering, closed, overwritten>>
    BY <1>9 DEF removeEntry
  <2>2. found \in Children /\ os[found] = "reaped" /\ pid[found] \in Pids
    BY <2>1 DEF ReaperInv, ReaperTypes, Spawned, Holds
  <2>3. /\ processes' \in [Pids -> Children \cup {Nothing}]
        /\ \A p \in Pids : processes'[p] = processes[p] \/ (processes[p] = found /\ processes'[p] = Nothing)
    BY <2>1, <2>2 DEF ReaperInv, ReaperTypes
  <2>4. \A c \in Children : (Registered(c)' <=> Registered(c)) /\ (Registered(c) => pid[c] \in Pids)
    BY <2>1 DEF Registered, ReaperInv, Spawned
  <2> QED BY <2>1, <2>2, <2>3, <2>4 DEF ReaperInv, ReaperTypes, Spawned, Holds, RunningKept, NoChildForgotten
<1>10. ASSUME report PROVE ReaperInv'
  <2>1. /\ reaper = "reporting" /\ reaper' = "scanning" /\ found' = Nothing
        /\ reports' = IF loop[found] \in closed THEN reports ELSE [reports EXCEPT ![found] = @ + 1]
        /\ UNCHANGED <<os, pid, loop, processes, scan, registering, closed, overwritten>>
    BY <1>10 DEF report
  <2>2. found \in Children
    BY <2>1 DEF ReaperInv, ReaperTypes, Holds
  <2>3. /\ reports' \in [Children -> Nat]
        /\ \A c \in Children \ {found} : reports'[c] = reports[c]
        /\ loop[found] \in closed \/ reports'[found] # 0
    BY <2>1, <2>2 DEF ReaperInv, ReaperTypes
  <2>4. \A c \in Children : Registered(c)' <=> Registered(c)
    BY <2>1 DEF Registered
  <2> QED BY <2>1, <2>2, <2>3, <2>4 DEF ReaperInv, ReaperTypes, Spawned, Holds, RunningKept, NoChildForgotten
<1>11. ASSUME scanned PROVE ReaperInv'
  BY <1>11 DEF scanned, ReaperInv, ReaperTypes, Spawned, Holds, RunningKept, NoChildForgotten, Registered
<1>12. ASSUME UNCHANGED reaperVars PROVE ReaperInv'
  BY <1>12 DEF reaperVars, ReaperInv, ReaperTypes, Spawned, Holds, RunningKept, NoChildForgotten, Registered
<1> QED
  BY <1>1, <1>2, <1>3, <1>4, <1>5, <1>6, <1>7, <1>8, <1>9, <1>10, <1>11, <1>12
  DEF ReaperNext, Reaper, LoopCalls

\* A child registered and not reported is in the dictionary, in the reaper's
\* snapshot or in its hands, unless its loop is closed or a later child with
\* its pid took its entry over: for any children, loops and pids.
THEOREM ReaperForgetsNone == ReaperSpec => []NoChildForgotten
<1>1. ReaperInv => NoChildForgotten
  BY DEF ReaperInv
<1> QED BY ReaperInitInv, ReaperStepInv, <1>1, PTL DEF ReaperSpec

-----------------------------------------------------------------------------
(* A child that libuv spawns (LibuvProcess) *)

Fds == {"child", "mine"} \X Nat

ChildStates == {"none", "running", "zombie", "reaped"}

PopenTypes ==
    po \in [call : {"none", "starting", "waiter", "undoing", "returned", "raised", "abandoned"},
            wake : {"no", "ok", "raised", "cancelled"},
            at : {"none", "opening", "leaving", "left"}, raised : BOOLEAN,
            reqs : Seq({"none", "pipe", "fd"}), open : SUBSET Fds, again : SUBSET Fds, lost : SUBSET Fds,
            child : ChildStates, handle : {"none", "open", "closing", "closed"}, EXITED : BOOLEAN,
            ready : BOOLEAN, fatal : BOOLEAN, returncode : BOOLEAN, hit : SUBSET ChildStates,
            loop : BOOLEAN]

\* The descriptors, until spawn_libuv() is left: all that were opened are open,
\* and one that is lost belongs to a call that raises.
Descriptors ==
    /\ po.again = {}
    /\ po.at = "none" => po.reqs = <<>>
    /\ po.at \in {"none", "opening"} => ~po.raised /\ po.lost = {}
    /\ po.at \in {"none", "opening", "leaving"} => po.open = Opened({"child", "mine"})
    /\ po.at = "leaving" => po.lost \subseteq Opened({"mine"}) /\ (po.raised \/ po.lost = {})
    /\ po.at = "left" => po.open = po.lost \cup IF po.raised THEN {} ELSE Opened({"mine"})

\* Whoever has heard of the exit knows that libuv has waited for the child, and
\* the wrapper's flag was set then.
ExitSeen ==
    /\ po.at \in {"none", "opening"} => po.child = "none" /\ po.call \in {"none", "starting"}
    /\ po.raised => po.child = "none"
    /\ po.ready \/ po.returncode => po.child = "reaped"
    /\ po.child = "reaped" => po.EXITED
    /\ po.call = "raised" => po.child \in {"none", "reaped"}
    /\ "reaped" \notin po.hit

PopenInv == PopenTypes /\ Descriptors /\ ExitSeen

\* Nothing is open before the call.
LEMMA PopenInitInv == PopenInit => PopenInv
<1> SUFFICES ASSUME PopenInit PROVE PopenInv
  OBVIOUS
<1> USE DEF PopenInit, NotSpawned
<1>1. PopenTypes
  <2>1. <<>> \in Seq({"none", "pipe", "fd"})
    OBVIOUS
  <2> QED BY <2>1, ZenonT(60) DEF PopenTypes, ChildStates
<1>2. ExitSeen
  BY DEF ExitSeen
<1>3. Descriptors
  BY DEF Descriptors, Opened
<1> QED BY <1>1, <1>2, <1>3 DEF PopenInv

\* One more request, and the descriptors it opens.
LEMMA OpensMore ==
    ASSUME PopenTypes, PopenTypes', NEW r \in {"none", "pipe", "fd"}, po'.reqs = Append(po.reqs, r),
           NEW i, i = Len(po.reqs) + 1
    PROVE  Opened({"child", "mine"})' = Opened({"child", "mine"})
                \cup (IF Inherits(r, i) THEN {} ELSE {Child(i)}) \cup (IF r = "pipe" THEN {Mine(i)} ELSE {})
<1>1. /\ DOMAIN po.reqs = 1 .. Len(po.reqs) /\ DOMAIN po'.reqs = 1 .. i /\ i \in Nat \ {0}
      /\ po'.reqs[i] = r /\ \A j \in 1 .. Len(po.reqs) : po'.reqs[j] = po.reqs[j]
  BY DEF PopenTypes
<1>2. ASSUME NEW k \in {"child", "mine"}, NEW j \in 1 .. i
      PROVE  <<k, j>> \in Opened({"child", "mine"})' <=>
                \/ <<k, j>> \in Opened({"child", "mine"})
                \/ j = i /\ k = "child" /\ ~Inherits(r, i)
                \/ j = i /\ k = "mine" /\ r = "pipe"
  BY <1>1 DEF Opened
<1>3. /\ Opened({"child", "mine"})' \subseteq {"child", "mine"} \X (1 .. i)
      /\ Opened({"child", "mine"}) \subseteq {"child", "mine"} \X (1 .. i)
  BY <1>1 DEF Opened
<1> QED BY <1>1, <1>2, <1>3 DEF Child, Mine

\* A step that leaves the descriptors alone.
LEMMA KeepsDescriptors ==
    ASSUME Descriptors, po'.at = po.at, po'.reqs = po.reqs, po'.raised = po.raised,
           po'.open = po.open, po'.again = po.again, po'.lost = po.lost
    PROVE  Descriptors'
<1>1. \A k : Opened(k)' = Opened(k)
  BY DEF Opened
<1> QED BY <1>1, Zenon DEF Descriptors

\* What transport_send_signal() does to the child's record.
LEMMA SendsToChild ==
    ASSUME PopenInv, NEW y, y = transport_send_signal(po)
    PROVE  \/ y = po
           \/ ~po.EXITED /\ y = [po EXCEPT !.hit = @ \cup {po.child}]
  BY DEF transport_send_signal, sendSignal

\* A stream is opened: what it leaves open is on record, also when it raises.
LEMMA OpenStreamInv == ASSUME PopenInv, open_stream PROVE PopenInv'
<1> USE DEF PopenInv
<1>1. PICK r \in {"none", "pipe", "fd"} :
       LET i == Len(po.reqs) + 1
           kid == IF Inherits(r, i) THEN {} ELSE {Child(i)}
           mine == IF r = "pipe" THEN {Mine(i)} ELSE {}
           opened == [po EXCEPT !.open = @ \cup kid \cup mine, !.reqs = Append(@, r)]
       IN \/ po' = opened
          \/ po' = [po EXCEPT !.at = "leaving", !.raised = TRUE]
          \/ /\ r = "pipe"
             /\ po' = [opened EXCEPT !.lost = mine, !.at = "leaving", !.raised = TRUE]
  BY DEF open_stream
<1> DEFINE i == Len(po.reqs) + 1
           kid == IF Inherits(r, i) THEN {} ELSE {Child(i)}
           mine == IF r = "pipe" THEN {Mine(i)} ELSE {}
           opened == [po EXCEPT !.open = @ \cup kid \cup mine, !.reqs = Append(@, r)]
<1>2. /\ po.open \cup kid \cup mine \in SUBSET Fds /\ mine \in SUBSET Fds
      /\ Append(po.reqs, r) \in Seq({"none", "pipe", "fd"})
  BY DEF PopenTypes, Fds, Child, Mine
<1>3. po.at = "opening" /\ po.child = "none"
  BY DEF open_stream, ExitSeen
<1>4. CASE po' = opened
  <2>1. PopenTypes'
    BY <1>2, <1>4, ZenonT(60) DEF PopenTypes
  <2>2. ExitSeen'
    BY <1>4, <2>1 DEF PopenTypes, ExitSeen
  <2>3. po'.reqs = Append(po.reqs, r) /\ po'.open = po.open \cup kid \cup mine
        /\ po'.at = "opening" /\ po'.again = {} /\ po'.lost = {} /\ ~po'.raised
    BY <1>3, <1>4 DEF PopenTypes, Descriptors
  <2>4. Opened({"child", "mine"})' = Opened({"child", "mine"}) \cup kid \cup mine
    BY <2>1, <2>3, OpensMore
  <2>5. Descriptors'
    BY <1>3, <2>3, <2>4 DEF Descriptors
  <2> QED BY <2>1, <2>2, <2>5
<1>5. CASE po' = [po EXCEPT !.at = "leaving", !.raised = TRUE]
  <2>1. PopenTypes'
    BY <1>5, ZenonT(60) DEF PopenTypes
  <2>2. ExitSeen'
    BY <1>3, <1>5, <2>1 DEF PopenTypes, ExitSeen
  <2>3. Descriptors'
    BY <1>3, <1>5, <2>1 DEF PopenTypes, Descriptors, Opened
  <2> QED BY <2>1, <2>2, <2>3
<1>6. CASE /\ r = "pipe"
           /\ po' = [opened EXCEPT !.lost = mine, !.at = "leaving", !.raised = TRUE]
  <2>1. PopenTypes'
    BY <1>2, <1>6, ZenonT(60) DEF PopenTypes
  <2>2. ExitSeen'
    BY <1>3, <1>6, <2>1 DEF PopenTypes, ExitSeen
  <2>3. po'.reqs = Append(po.reqs, r) /\ po'.open = po.open \cup kid \cup mine
        /\ po'.at = "leaving" /\ po'.again = {} /\ po'.lost = mine /\ po'.raised
    BY <1>3, <1>6 DEF PopenTypes, Descriptors
  <2>4. Opened({"child", "mine"})' = Opened({"child", "mine"}) \cup kid \cup mine
    BY <2>1, <2>3, OpensMore
  <2>5. mine \subseteq Opened({"mine"})'
    BY <1>6, <2>1, <2>3 DEF PopenTypes, Opened, Mine
  <2>6. Descriptors'
    BY <1>3, <2>3, <2>4, <2>5 DEF Descriptors
  <2> QED BY <2>1, <2>2, <2>6
<1> QED BY <1>1, <1>4, <1>5, <1>6

\* The clauses that leave spawn_libuv() close what is open and nothing twice.
LEMMA LeaveInv == ASSUME PopenInv, Leave PROVE PopenInv'
<1> USE DEF PopenInv
<1> DEFINE fds == Opened(IF po.raised THEN {"child", "mine"} ELSE {"child"}) \ po.lost
<1>1. /\ po' = [po EXCEPT !.open = @ \ fds, !.again = @ \cup (fds \ po.open), !.at = "left",
                         !.call = IF po.raised THEN "raised" ELSE "waiter"]
      /\ po.at = "leaving"
  BY DEF Leave, Closed
<1>2. /\ Opened({"child"}) \subseteq Opened({"child", "mine"})
      /\ Opened({"mine"}) \subseteq Opened({"child", "mine"})
      /\ Opened({"child", "mine"}) \ Opened({"child"}) = Opened({"mine"})
  BY DEF Opened
<1>3. fds \subseteq po.open /\ po.again = {}
  BY <1>1, <1>2 DEF Descriptors
<1>4. po.open \ fds \in SUBSET Fds /\ po.again \cup (fds \ po.open) \in SUBSET Fds
  BY <1>3 DEF PopenTypes
<1>5. PopenTypes'
  <2>1. (IF po.raised THEN "raised" ELSE "waiter") \in {"raised", "waiter"}
    OBVIOUS
  <2> QED BY <1>1, <1>4, <2>1, ZenonT(60) DEF PopenTypes
<1>6. /\ po'.at = "left" /\ po'.open = po.open \ fds /\ po'.again = {} /\ po'.lost = po.lost
      /\ po'.raised = po.raised /\ po'.reqs = po.reqs
  BY <1>1, <1>3 DEF PopenTypes
<1>7. po.open \ fds = po.lost \cup IF po.raised THEN {} ELSE Opened({"mine"})
  BY <1>1, <1>2 DEF Descriptors
<1>8. Opened({"mine"})' = Opened({"mine"})
  BY <1>6 DEF Opened
<1>9. Descriptors'
  BY <1>6, <1>7, <1>8 DEF Descriptors
<1>10. ExitSeen'
  BY <1>1, <1>5 DEF PopenTypes, ExitSeen
<1> QED BY <1>5, <1>9, <1>10

\* The handle and the coroutine leave the descriptors alone.
LEMMA HandleInv ==
    ASSUME PopenInv, onExit \/ onProcessClosed \/ Popen_exited \/ ChildExits \/ AppSignals \/ CloseLoop
                     \/ PipesConnected \/ CancelCall \/ CallResumes \/ Undone
    PROVE  PopenInv'
<1> USE DEF PopenInv
<1>1. CASE onExit
  <2>1. PICK oom \in BOOLEAN : po' = [po EXCEPT !.child = "reaped", !.EXITED = TRUE, !.ready = ~oom,
                                      !.fatal = oom, !.handle = "closing"]
    BY <1>1 DEF onExit
  <2>2. PopenTypes'
    BY <2>1, ZenonT(60) DEF PopenTypes, ChildStates
  <2>3. Descriptors'
    BY <2>1, KeepsDescriptors DEF PopenTypes
  <2>4. ExitSeen'
    <3>1. po'.child = "reaped" /\ po'.at = po.at /\ po'.call = po.call /\ po'.hit = po.hit
          /\ po.child = "zombie"
      BY <1>1, <2>1 DEF PopenTypes, onExit
    <3>2. po'.EXITED /\ (po'.raised <=> po.raised)
      BY <2>1, Zenon DEF PopenTypes
    <3> QED BY <3>1, <3>2 DEF ExitSeen
  <2> QED BY <2>2, <2>3, <2>4
<1>2. CASE onProcessClosed
  <2>1. po' = [po EXCEPT !.handle = "closed"]
    BY <1>2 DEF onProcessClosed
  <2>2. PopenTypes'
    BY <2>1, ZenonT(60) DEF PopenTypes, ChildStates
  <2>3. Descriptors'
    BY <2>1, KeepsDescriptors DEF PopenTypes
  <2>4. ExitSeen'
    <3>1. po'.at = po.at /\ po'.call = po.call /\ po'.hit = po.hit /\ po'.child = po.child
      BY <2>1 DEF PopenTypes
    <3>2. po'.EXITED = po.EXITED /\ po'.raised = po.raised /\ po'.ready = po.ready /\ po'.returncode = po.returncode
      BY <2>1, Zenon DEF PopenTypes
    <3> QED BY <1>2, <3>1, <3>2 DEF ExitSeen, onProcessClosed
  <2> QED BY <2>2, <2>3, <2>4
<1>3. CASE Popen_exited
  <2>1. po' = [po EXCEPT !.ready = FALSE, !.returncode = TRUE]
    BY <1>3 DEF Popen_exited
  <2>2. PopenTypes'
    BY <2>1, ZenonT(60) DEF PopenTypes, ChildStates
  <2>3. Descriptors'
    BY <2>1, KeepsDescriptors DEF PopenTypes
  <2>4. ExitSeen'
    <3>1. po'.at = po.at /\ po'.call = po.call /\ po'.hit = po.hit /\ po'.child = po.child
      BY <2>1 DEF PopenTypes
    <3>2. po'.EXITED = po.EXITED /\ po'.raised = po.raised
      BY <2>1, Zenon DEF PopenTypes
    <3> QED BY <1>3, <3>1, <3>2 DEF ExitSeen, Popen_exited
  <2> QED BY <2>2, <2>3, <2>4
<1>4. CASE ChildExits
  <2>1. po' = [po EXCEPT !.child = "zombie"]
    BY <1>4 DEF ChildExits
  <2>2. PopenTypes'
    BY <2>1, ZenonT(60) DEF PopenTypes, ChildStates
  <2>3. Descriptors'
    BY <2>1, KeepsDescriptors DEF PopenTypes
  <2>4. ExitSeen'
    <3>1. po'.at = po.at /\ po'.call = po.call /\ po'.hit = po.hit /\ po'.child = "zombie"
      BY <2>1 DEF PopenTypes
    <3>2. po'.EXITED = po.EXITED /\ po'.raised = po.raised /\ po'.ready = po.ready /\ po'.returncode = po.returncode
      BY <2>1, Zenon DEF PopenTypes
    <3> QED BY <1>4, <3>1, <3>2 DEF ExitSeen, ChildExits
  <2> QED BY <2>2, <2>3, <2>4
<1>5. CASE CloseLoop
  <2>1. po' = [po EXCEPT !.loop = FALSE, !.ready = FALSE, !.handle = IF @ = "open" THEN "closing" ELSE @]
    BY <1>5 DEF CloseLoop
  <2>2. PopenTypes'
    BY <2>1, ZenonT(120) DEF PopenTypes, ChildStates
  <2>3. Descriptors'
    BY <2>1, KeepsDescriptors DEF PopenTypes
  <2>4. ExitSeen'
    <3>1. po'.at = po.at /\ po'.call = po.call /\ po'.hit = po.hit /\ po'.child = po.child
      BY <2>1 DEF PopenTypes
    <3>2. po'.EXITED = po.EXITED /\ po'.raised = po.raised /\ ~po'.ready /\ po'.returncode = po.returncode
      BY <2>1, Zenon DEF PopenTypes
    <3> QED BY <1>5, <3>1, <3>2 DEF ExitSeen, CloseLoop
  <2> QED BY <2>2, <2>3, <2>4
<1>6. CASE PipesConnected \/ CancelCall \/ Undone
  <2>1. PopenTypes'
    BY <1>6, ZenonT(60) DEF PopenTypes, PipesConnected, CancelCall, Undone
  <2>2. Descriptors'
    BY <1>6, KeepsDescriptors DEF PopenTypes, PipesConnected, CancelCall, Undone
  <2>3. ExitSeen'
    BY <1>6, <2>1 DEF PopenTypes, ExitSeen, PipesConnected, CancelCall, Undone
  <2> QED BY <2>1, <2>2, <2>3
<1>7. ASSUME NEW y, y = transport_send_signal(po),
             NEW c \in {"undoing", po.call}, NEW w \in {"no", po.wake},
             c = "undoing" => po.call = "waiter",
             po' = [y EXCEPT !.call = c, !.wake = w]
      PROVE  PopenInv'
  <2>1. PopenTypes'
    <3>1. po.hit \cup {po.child} \in SUBSET ChildStates
      BY DEF PopenTypes
    <3>2. CASE y = po
      BY <1>7, <3>2, ZenonT(60) DEF PopenTypes
    <3>3. CASE y = [po EXCEPT !.hit = @ \cup {po.child}]
      BY <1>7, <3>1, <3>3, ZenonT(60) DEF PopenTypes
    <3> QED BY <1>7, <3>2, <3>3, SendsToChild
  <2>2. Descriptors'
    BY <1>7, SendsToChild, KeepsDescriptors DEF PopenTypes
  <2>3. ExitSeen'
    BY <1>7, <2>1, SendsToChild DEF PopenTypes, ExitSeen
  <2> QED BY <2>1, <2>2, <2>3
<1>8. CASE AppSignals
  <2> DEFINE y == transport_send_signal(po)
  <2>1. po' = y /\ po.call = "returned"
    BY <1>8 DEF AppSignals
  <2>2. po' = [y EXCEPT !.call = po.call, !.wake = po.wake]
    <3>1. y = po \/ y = [po EXCEPT !.hit = @ \cup {po.child}]
      BY SendsToChild
    <3> QED BY <2>1, <3>1, Zenon DEF PopenTypes
  <2> HIDE DEF y
  <2> QED BY <1>7, <2>1, <2>2 DEF y
<1>9. CASE CallResumes
  <2>1. CASE po.wake = "ok"
    <3>1. po' = [po EXCEPT !.call = "returned", !.wake = "no"]
      BY <1>9, <2>1 DEF CallResumes
    <3>2. PopenTypes'
      BY <3>1, ZenonT(60) DEF PopenTypes
    <3>3. Descriptors'
      BY <3>1, KeepsDescriptors DEF PopenTypes
    <3>4. ExitSeen'
      <4>1. po.call = "waiter"
        BY <1>9 DEF CallResumes
      <4> QED BY <3>1, <3>2, <4>1 DEF PopenTypes, ExitSeen
    <3> QED BY <3>2, <3>3, <3>4
  <2>2. CASE po.wake # "ok"
    BY <1>7, <1>9, <2>2 DEF CallResumes
  <2> QED BY <2>1, <2>2
<1> QED BY <1>1, <1>2, <1>3, <1>4, <1>5, <1>6, <1>8, <1>9

\* Every step of the call, of libuv and of the operating system keeps it.
LEMMA PopenStepInv == PopenInv /\ [PopenNext]_po => PopenInv'
<1> SUFFICES ASSUME PopenInv, [PopenNext]_po PROVE PopenInv'
  OBVIOUS
<1> USE DEF PopenInv
<1>1. CASE Popen
  <2>1. PopenTypes'
    BY <1>1, ZenonT(60) DEF Popen, PopenTypes
  <2>2. Descriptors'
    <3>1. po'.at = "opening" /\ po'.reqs = <<>> /\ po'.open = {} /\ po'.again = {} /\ po'.lost = {}
          /\ ~po'.raised
      BY <1>1 DEF Popen, NotSpawned
    <3>2. Opened({"child", "mine"})' = {}
      BY <3>1 DEF Opened
    <3> QED BY <3>1, <3>2 DEF Descriptors
  <2>3. ExitSeen'
    <3>1. po'.child = "none" /\ po'.hit = {} /\ po'.call = "starting"
      BY <1>1 DEF Popen, NotSpawned
    <3>2. ~po'.ready /\ ~po'.returncode
      BY <1>1, Zenon DEF Popen, NotSpawned
    <3> QED BY <3>1, <3>2 DEF ExitSeen
  <2> QED BY <2>1, <2>2, <2>3
<1>2. CASE spawnProcess
  <2>1. po.at = "opening"
    BY <1>2 DEF spawnProcess
  <2>2. CASE po' = [po EXCEPT !.at = "leaving", !.child = "running", !.handle = "open"]
    <3>1. PopenTypes'
      BY <2>2, ZenonT(60) DEF PopenTypes, ChildStates
    <3>2. /\ po'.at = "leaving" /\ po'.reqs = po.reqs /\ po'.open = po.open /\ po'.again = po.again
          /\ po'.lost = po.lost /\ po'.call = po.call /\ po'.hit = po.hit /\ po'.child = "running"
      BY <2>2 DEF PopenTypes
    <3>3. /\ po'.raised = po.raised /\ po'.ready = po.ready
          /\ po'.returncode = po.returncode
      BY <2>2, Zenon DEF PopenTypes
    <3>4. Opened({"child", "mine"})' = Opened({"child", "mine"})
      BY <3>2 DEF Opened
    <3>5. Descriptors'
      BY <2>1, <3>2, <3>3, <3>4 DEF Descriptors
    <3>6. ExitSeen'
      BY <2>1, <3>2, <3>3 DEF ExitSeen, Descriptors
    <3> QED BY <3>1, <3>5, <3>6
  <2>3. CASE po' = [po EXCEPT !.at = "leaving", !.raised = TRUE]
    <3>1. PopenTypes'
      BY <2>3, ZenonT(60) DEF PopenTypes
    <3>2. /\ po'.at = "leaving" /\ po'.reqs = po.reqs /\ po'.open = po.open /\ po'.again = po.again
          /\ po'.lost = po.lost /\ po'.raised
      BY <2>3 DEF PopenTypes
    <3>3. Opened({"child", "mine"})' = Opened({"child", "mine"})
      BY <3>2 DEF Opened
    <3>4. Descriptors'
      BY <2>1, <3>2, <3>3 DEF Descriptors
    <3>5. ExitSeen'
      BY <2>1, <2>3, <3>1 DEF PopenTypes, ExitSeen
    <3> QED BY <3>1, <3>4, <3>5
  <2> QED BY <1>2, <2>2, <2>3 DEF spawnProcess
<1>3. CASE UNCHANGED po
  <2>1. po' = po
    BY <1>3
  <2>2. PopenTypes'
    BY <2>1 DEF PopenTypes
  <2>3. Descriptors'
    BY <2>1 DEF Descriptors, Opened
  <2>4. ExitSeen'
    BY <2>1 DEF ExitSeen
  <2> QED BY <2>2, <2>3, <2>4
<1> QED BY <1>1, <1>2, <1>3, OpenStreamInv, LeaveInv, HandleInv DEF PopenNext, PopenSteps

\* The invariant says what LibuvProcess promises.
LEMMA PopenInvImplies == PopenInv => SignalsOwnChild /\ DescriptorsBalance /\ FailedCallReaps
  BY DEF PopenInv, Descriptors, ExitSeen, SignalsOwnChild, DescriptorsBalance, FailedCallReaps

-----------------------------------------------------------------------------
(* Listening sockets (Listeners) *)

Listening ==
    [at : {"idle", "resolving", "stat", "serve", "sleeping", "returned", "undo", "cleanup", "unlink",
           "raised", "unbound", "closed"},
     then : {"none", "raised", "closed"}, wake : {"no", "ok", "raised", "cancelled"}, host : Nat,
     open : SUBSET Nat, readers : SUBSET Nat, path : BOOLEAN, identity : Servers \cup {Gone}]

ListenTypes ==
    /\ ls \in [Servers -> Listening]
    /\ file \in Servers \cup {Gone}
    /\ unlinked \in SUBSET (Servers \X Servers)

\* Before it has sockets, and once close() has been through them, a server has
\* none; while it has some they are numbered, and so are those watched.
Balanced(r) ==
    /\ r.readers \subseteq r.open
    /\ \E n \in Nat : r.open = 1..n
    /\ r.at \in {"idle", "resolving", "cleanup", "unlink", "raised", "closed"} => r.open = {}
    /\ r.at \in {"undo", "cleanup", "unlink"} => r.then \in {"raised", "closed"}

\* Between bind() and os.stat(), and between the comparison and os.unlink(), the
\* path names the server's own file or none: no other call runs there.
OwnPath(s) ==
    /\ ls[s].at \in {"stat", "unlink"} => file \in {s, Gone}
    /\ ls[s].identity \in {s, Gone}

ListenInv ==
    /\ ListenTypes
    /\ \A s \in Servers : Balanced(ls[s]) /\ OwnPath(s)
    /\ UnlinksOwnPath

\* No server listens at first.
LEMMA ListenInitInv == ListenInit => ListenInv
<1> SUFFICES ASSUME ListenInit PROVE ListenInv
  OBVIOUS
<1>1. NotCalled \in Listening
  <2>1. 0 \in Nat
    OBVIOUS
  <2> QED BY <2>1, ZenonT(60) DEF NotCalled, Listening
<1>2. ListenTypes
  BY <1>1 DEF ListenInit, ListenTypes
<1>3. Balanced(NotCalled)
  <2>1. 1..0 = {}
    OBVIOUS
  <2> QED BY <2>1 DEF Balanced, NotCalled
<1>4. \A s \in Servers : Balanced(ls[s]) /\ OwnPath(s)
  BY <1>3 DEF ListenInit, OwnPath, NotCalled
<1> QED BY <1>2, <1>4 DEF ListenInv, ListenInit, UnlinksOwnPath

\* A step of one call, which leaves the path as it is.
LEMMA OneServer ==
    ASSUME ListenInv, NEW s \in Servers, NEW r \in Listening, Becomes(s, r), UNCHANGED <<file, unlinked>>,
           Balanced(r), r.identity \in {s, Gone}, r.at \in {"stat", "unlink"} => file \in {s, Gone}
    PROVE  ListenInv'
<1>1. ls' = [ls EXCEPT ![s] = r] /\ ls \in [Servers -> Listening]
  BY DEF Becomes, ListenInv, ListenTypes
<1>2. ls'[s] = r /\ \A t \in Servers \ {s} : ls'[t] = ls[t]
  BY <1>1
<1>3. ListenTypes'
  BY <1>1 DEF ListenInv, ListenTypes
<1>4. ASSUME NEW t \in Servers PROVE Balanced(ls[t])' /\ OwnPath(t)'
  BY <1>2 DEF ListenInv, OwnPath
<1>5. UnlinksOwnPath'
  BY DEF ListenInv, UnlinksOwnPath
<1> QED BY <1>3, <1>4, <1>5 DEF ListenInv

\* The record of a call, as a step of it finds it.
LEMMA FoundPath ==
    ASSUME ListenInv, NEW s \in Servers
    PROVE  ls[s] \in Listening /\ Balanced(ls[s]) /\ ls[s].identity \in {s, Gone}
  BY DEF ListenInv, ListenTypes, OwnPath

\* A step that changes neither the sockets nor the file it was bound to.
LEMMA KeepsSockets ==
    ASSUME ListenInv, NEW s \in Servers, NEW r \in Listening, Becomes(s, r), UNCHANGED <<file, unlinked>>,
           r.open = ls[s].open, r.readers = ls[s].readers, r.identity = ls[s].identity,
           r.at \notin {"stat", "unlink"},
           r.at \in {"idle", "resolving", "cleanup", "raised", "closed"} =>
               ls[s].at \in {"idle", "resolving", "cleanup", "unlink", "raised", "closed"},
           r.at \in {"undo", "cleanup"} => r.then \in {"raised", "closed"}
    PROVE  ListenInv'
<1>1. Balanced(r)
  BY FoundPath DEF Balanced
<1> QED BY <1>1, FoundPath, OneServer

\* create_server(), up to its sockets.
LEMMA CallsInv ==
    ASSUME ListenInv, NEW s \in Servers, create_server(s) \/ HostResolved(s) \/ Cancelled(s) \/ _bind_tcp(s)
    PROVE  ListenInv'
<1> DEFINE x == ls[s]
<1>0. x \in Listening /\ Balanced(x) /\ x.identity \in {s, Gone}
  BY FoundPath
<1> HIDE DEF x
<1>1. ASSUME x.at = "idle", Becomes(s, [x EXCEPT !.at = "resolving"]), UNCHANGED <<file, unlinked>>
      PROVE  ListenInv'
  <2> DEFINE r == [x EXCEPT !.at = "resolving"]
  <2>1. r \in Listening
    BY <1>0, <1>1, ZenonT(60) DEF Listening
  <2>2. r.at = "resolving" /\ r.open = x.open /\ r.readers = x.readers /\ r.identity = x.identity
    BY <1>0 DEF Listening
  <2> HIDE DEF r
  <2> QED BY <1>0, <1>1, <2>1, <2>2, KeepsSockets DEF r, x
<1>2. ASSUME x.at = "idle", Becomes(s, [x EXCEPT !.at = "serve", !.open = {1}]), UNCHANGED <<file, unlinked>>
      PROVE  ListenInv'
  <2> DEFINE r == [x EXCEPT !.at = "serve", !.open = {1}]
  <2>1. r \in Listening
    <3>1. {1} \in SUBSET Nat
      BY <1>0 DEF Listening
    <3> QED BY <1>0, <1>2, <3>1, ZenonT(60) DEF Listening
  <2>2. r.at = "serve" /\ r.open = 1..1 /\ r.readers = x.readers /\ r.identity = x.identity
    BY <1>0 DEF Listening
  <2> HIDE DEF r
  <2>3. Balanced(r)
    BY <1>0, <1>2, <2>2 DEF Balanced
  <2> QED BY <1>0, <1>2, <2>1, <2>2, <2>3, OneServer DEF r, x
<1>3. ASSUME NEW w \in {"no", "ok", "raised", "cancelled"},
             x.at \in {"resolving", "sleeping"}, Becomes(s, [x EXCEPT !.wake = w]), UNCHANGED <<file, unlinked>>
      PROVE  ListenInv'
  <2> DEFINE r == [x EXCEPT !.wake = w]
  <2>1. r \in Listening
    BY <1>0, <1>3, ZenonT(60) DEF Listening
  <2>2. r.at = x.at /\ r.open = x.open /\ r.readers = x.readers /\ r.identity = x.identity
    BY <1>0 DEF Listening
  <2> HIDE DEF r
  <2> QED BY <1>0, <1>3, <2>1, <2>2, KeepsSockets DEF r, x
<1>4. ASSUME x.at = "resolving", Becomes(s, [x EXCEPT !.wake = "no", !.host = @ + 1]), UNCHANGED <<file, unlinked>>
      PROVE  ListenInv'
  <2> DEFINE r == [x EXCEPT !.wake = "no", !.host = @ + 1]
  <2>1. r \in Listening
    <3>1. x.host + 1 \in Nat
      BY <1>0 DEF Listening
    <3> QED BY <1>0, <1>4, <3>1, ZenonT(60) DEF Listening
  <2>2. r.at = "resolving" /\ r.open = x.open /\ r.readers = x.readers /\ r.identity = x.identity
    BY <1>0, <1>4 DEF Listening
  <2> HIDE DEF r
  <2> QED BY <1>0, <1>4, <2>1, <2>2, KeepsSockets DEF r, x
<1>5. ASSUME x.at = "resolving", Becomes(s, [[x EXCEPT !.wake = "no", !.host = @ + 1] EXCEPT !.at = "raised"]), UNCHANGED <<file, unlinked>>
      PROVE  ListenInv'
  <2> DEFINE r == [[x EXCEPT !.wake = "no", !.host = @ + 1] EXCEPT !.at = "raised"]
  <2>1. r \in Listening
    <3>1. x.host + 1 \in Nat
      BY <1>0 DEF Listening
    <3> QED BY <1>0, <1>5, <3>1, ZenonT(60) DEF Listening
  <2>2. r.at = "raised" /\ r.open = x.open /\ r.readers = x.readers /\ r.identity = x.identity
    BY <1>0 DEF Listening
  <2> HIDE DEF r
  <2> QED BY <1>0, <1>5, <2>1, <2>2, KeepsSockets DEF r, x
<1>6. ASSUME NEW k \in Nat, x.at = "resolving",
             Becomes(s, [[x EXCEPT !.wake = "no", !.host = @ + 1] EXCEPT !.at = "serve", !.open = 1..k]), UNCHANGED <<file, unlinked>>
      PROVE  ListenInv'
  <2> DEFINE r == [[x EXCEPT !.wake = "no", !.host = @ + 1] EXCEPT !.at = "serve", !.open = 1..k]
  <2>1. r \in Listening
    <3>1. x.host + 1 \in Nat /\ 1..k \in SUBSET Nat
      BY <1>0 DEF Listening
    <3> QED BY <1>0, <1>6, <3>1, ZenonT(60) DEF Listening
  <2>2. r.at = "serve" /\ r.open = 1..k /\ r.readers = x.readers /\ r.identity = x.identity
    BY <1>0 DEF Listening
  <2> HIDE DEF r
  <2>3. Balanced(r)
    BY <1>0, <1>6, <2>2 DEF Balanced
  <2> QED BY <1>0, <1>6, <2>1, <2>2, <2>3, OneServer DEF r, x
<1>7. CASE create_server(s)
  BY <1>1, <1>2, <1>7 DEF create_server, Step, x
<1>8. CASE HostResolved(s)
  BY <1>3, <1>8 DEF HostResolved, x
<1>9. CASE Cancelled(s)
  BY <1>3, <1>9 DEF Cancelled, x
<1>10. CASE _bind_tcp(s)
  <2>1. x.at = "resolving" /\ UNCHANGED <<file, unlinked>>
    BY <1>10 DEF _bind_tcp, Step, x
  <2>2. \/ Becomes(s, [x EXCEPT !.wake = "no", !.host = @ + 1])
        \/ Becomes(s, [[x EXCEPT !.wake = "no", !.host = @ + 1] EXCEPT !.at = "raised"])
        \/ \E k \in 1..Addresses :
             Becomes(s, [[x EXCEPT !.wake = "no", !.host = @ + 1] EXCEPT !.at = "serve", !.open = 1..k])
    BY <1>10 DEF _bind_tcp, x
  <2>3. \A k \in 1..Addresses : k \in Nat
    BY AddressesAssumption
  <2> QED BY <1>4, <1>5, <1>6, <2>1, <2>2, <2>3
<1> QED BY <1>7, <1>8, <1>9, <1>10

\* start_serving(), and a close() that is due.
LEMMA ServesInv ==
    ASSUME ListenInv, NEW s \in Servers, stat(s) \/ serve(s) \/ slept(s) \/ AppCloses(s)
    PROVE  ListenInv'
<1> DEFINE x == ls[s]
<1>0. x \in Listening /\ Balanced(x) /\ x.identity \in {s, Gone}
  BY FoundPath
<1> HIDE DEF x
<1>1. ASSUME NEW a \in {"serve", "returned"},
             Becomes(s, [x EXCEPT !.at = a]), UNCHANGED <<file, unlinked>>
      PROVE  ListenInv'
  <2> DEFINE r == [x EXCEPT !.at = a]
  <2>1. r \in Listening
    BY <1>0, <1>1, ZenonT(60) DEF Listening
  <2>2. r.at = a /\ r.open = x.open /\ r.readers = x.readers /\ r.identity = x.identity
    BY <1>0 DEF Listening
  <2> HIDE DEF r
  <2> QED BY <1>0, <1>1, <2>1, <2>2, KeepsSockets DEF r, x
<1>2. ASSUME file \in {s, Gone},
             Becomes(s, [x EXCEPT !.at = "serve", !.path = TRUE, !.identity = file]), UNCHANGED <<file, unlinked>>
      PROVE  ListenInv'
  <2> DEFINE r == [x EXCEPT !.at = "serve", !.path = TRUE, !.identity = file]
  <2>1. r \in Listening
    BY <1>0, <1>2, ZenonT(60) DEF Listening
  <2>2. r.at = "serve" /\ r.open = x.open /\ r.readers = x.readers /\ r.identity = file
    BY <1>0 DEF Listening
  <2> HIDE DEF r
  <2>3. Balanced(r)
    BY <1>0, <1>2, <2>2 DEF Balanced
  <2> QED BY <1>0, <1>2, <2>1, <2>2, <2>3, OneServer DEF r, x
<1>3. ASSUME NEW h \in {"raised", "closed"},
             Becomes(s, [x EXCEPT !.at = "undo", !.then = h]), UNCHANGED <<file, unlinked>>
      PROVE  ListenInv'
  <2> DEFINE r == [x EXCEPT !.at = "undo", !.then = h]
  <2>1. r \in Listening
    BY <1>0, <1>3, ZenonT(60) DEF Listening
  <2>2. r.at = "undo" /\ r.then = h /\ r.open = x.open /\ r.readers = x.readers /\ r.identity = x.identity
    BY <1>0 DEF Listening
  <2> HIDE DEF r
  <2> QED BY <1>0, <1>3, <2>1, <2>2, KeepsSockets DEF r, x
<1>4. ASSUME 
             Becomes(s, [x EXCEPT !.at = "sleeping", !.readers = x.open]), UNCHANGED <<file, unlinked>>
      PROVE  ListenInv'
  <2> DEFINE r == [x EXCEPT !.at = "sleeping", !.readers = x.open]
  <2>1. r \in Listening
    BY <1>0, <1>4, ZenonT(60) DEF Listening
  <2>2. r.at = "sleeping" /\ r.open = x.open /\ r.readers = x.open /\ r.identity = x.identity
    BY <1>0 DEF Listening
  <2> HIDE DEF r
  <2>3. Balanced(r)
    BY <1>0, <1>4, <2>2 DEF Balanced
  <2> QED BY <1>0, <1>4, <2>1, <2>2, <2>3, OneServer DEF r, x
<1>5. ASSUME NEW k \in 0..(Cardinality(x.open) - 1), 
             Becomes(s, [x EXCEPT !.at = "undo", !.then = "raised", !.readers = 1..k]), UNCHANGED <<file, unlinked>>
      PROVE  ListenInv'
  <2> DEFINE r == [x EXCEPT !.at = "undo", !.then = "raised", !.readers = 1..k]
  <2>1. r \in Listening
    <3>1. 1..k \in SUBSET Nat
      BY <1>0 DEF Listening
    <3> QED BY <1>0, <1>5, <3>1, ZenonT(60) DEF Listening
  <2>2. r.at = "undo" /\ r.then = "raised" /\ r.open = x.open /\ r.readers = 1..k /\ r.identity = x.identity
    BY <1>0 DEF Listening
  <2> HIDE DEF r
  <2>3. PICK n \in Nat : x.open = 1..n
    BY <1>0 DEF Balanced
  <2>4. Cardinality(1..n) = n
    <3>1. Cardinality(1..n) = IF 1 > n THEN 0 ELSE n - 1 + 1
      BY FS_Interval
    <3> QED BY <3>1
  <2>5. k \in 0..(n - 1)
    BY <1>5, <2>3, <2>4
  <2>6. Balanced(r)
    BY <2>2, <2>3, <2>5 DEF Balanced
  <2> QED BY <1>0, <1>5, <2>1, <2>2, <2>6, OneServer DEF r, x
<1>6. CASE stat(s)
  <2>1. file \in {s, Gone}
    BY <1>6 DEF ListenInv, OwnPath, stat, Step
  <2> QED BY <1>1, <1>2, <1>3, <1>6, <2>1 DEF stat, x
<1>7. CASE serve(s)
  BY <1>1, <1>4, <1>5, <1>7 DEF serve, x
<1>8. CASE slept(s)
  BY <1>1, <1>3, <1>8 DEF slept, x
<1>9. CASE AppCloses(s)
  BY <1>3, <1>9 DEF AppCloses, x
<1> QED BY <1>6, <1>7, <1>8, <1>9

\* close() takes the watchers and the sockets, and looks at the path.
LEMMA ServerCloseInv ==
    ASSUME ListenInv, NEW s \in Servers, Server_close(s) \/ cleanup(s)
    PROVE  ListenInv'
<1> DEFINE x == ls[s]
<1>0. x \in Listening /\ Balanced(x) /\ x.identity \in {s, Gone}
  BY FoundPath
<1> HIDE DEF x
<1>1. CASE Server_close(s)
  <2> DEFINE a == IF x.path THEN "cleanup" ELSE x.then
             r == [x EXCEPT !.open = {}, !.readers = {}, !.path = FALSE, !.at = a]
  <2>1. x.at = "undo" /\ Becomes(s, r) /\ UNCHANGED <<file, unlinked>>
    BY <1>1 DEF Server_close, Step, x
  <2>2. a \in {"cleanup", "raised", "closed"} /\ x.then \in {"raised", "closed"}
    BY <1>0, <2>1 DEF Balanced
  <2> HIDE DEF a
  <2>3. r \in Listening
    BY <1>0, <2>2, ZenonT(60) DEF Listening
  <2>4. r.at = a /\ r.then = x.then /\ r.open = {} /\ r.readers = {} /\ r.identity = x.identity
    BY <1>0 DEF Listening
  <2> HIDE DEF r
  <2>5. Balanced(r)
    <3>1. 1..0 = {}
      OBVIOUS
    <3> QED BY <2>2, <2>4, <3>1 DEF Balanced
  <2> QED BY <1>0, <2>1, <2>2, <2>3, <2>4, <2>5, OneServer
<1>2. CASE cleanup(s)
  <2>1. x.at = "cleanup" /\ UNCHANGED <<file, unlinked>> /\ x.then \in {"raised", "closed"} /\ x.open = {}
    BY <1>0, <1>2 DEF cleanup, Step, x, Balanced
  <2>2. PICK a : Becomes(s, [x EXCEPT !.at = a]) /\ ((a = "unlink" /\ file = x.identity) \/ a = x.then)
    BY <1>2 DEF cleanup, x
  <2> DEFINE r == [x EXCEPT !.at = a]
  <2>3. a \in {"unlink", "raised", "closed"}
    BY <2>1, <2>2
  <2>4. r \in Listening
    BY <1>0, <2>3, ZenonT(60) DEF Listening
  <2>5. r.at = a /\ r.then = x.then /\ r.open = x.open /\ r.readers = x.readers /\ r.identity = x.identity
    BY <1>0 DEF Listening
  <2> HIDE DEF r
  <2>6. Balanced(r)
    BY <1>0, <2>1, <2>3, <2>5 DEF Balanced
  <2> QED BY <1>0, <2>1, <2>2, <2>3, <2>4, <2>5, <2>6, OneServer DEF r
<1> QED BY <1>1, <1>2

\* A step that changes the path.  Where it names another server afterwards, no
\* server is between a check of the path and the use of it.
LEMMA PathStep ==
    ASSUME ListenInv, NEW s \in Servers, NEW r \in Listening, ls' = [ls EXCEPT ![s] = r],
           Balanced(r), r.identity \in {s, Gone}, r.at # "unlink", file' \in {s, Gone},
           file' = s => \A t \in Servers \ {s} : ls[t].at \notin Synchronous,
           unlinked' \in SUBSET (Servers \X Servers), UnlinksOwnPath'
    PROVE  ListenInv'
<1>1. ls'[s] = r /\ (\A t \in Servers \ {s} : ls'[t] = ls[t])
  BY DEF ListenInv, ListenTypes
<1>2. ListenTypes'
  BY DEF ListenInv, ListenTypes
<1>3. ASSUME NEW t \in Servers PROVE Balanced(ls[t])' /\ OwnPath(t)'
  <2>1. CASE t = s
    BY <1>1, <2>1 DEF OwnPath
  <2>2. CASE t # s
    BY <1>1, <2>2 DEF ListenInv, OwnPath, Synchronous
  <2> QED BY <2>1, <2>2
<1> QED BY <1>2, <1>3 DEF ListenInv

\* Every step of a call, of a server and of the path keeps it.
LEMMA ListenStepInv == ListenInv /\ [ListenNext]_listenVars => ListenInv'
<1> SUFFICES ASSUME ListenInv, [ListenNext]_listenVars PROVE ListenInv'
  OBVIOUS
<1>1. ASSUME NEW s \in Servers, create_unix_server(s) PROVE ListenInv'
  <2> DEFINE x == ls[s]
  <2>0. x \in Listening /\ Balanced(x) /\ x.identity \in {s, Gone} /\ x.at = "idle" /\ x.open = {} /\ x.readers = {}
    BY <1>1, FoundPath DEF create_unix_server, Step, Balanced
  <2> HIDE DEF x
  <2>1. CASE Becomes(s, [x EXCEPT !.at = "raised"]) /\ UNCHANGED <<file, unlinked>>
    <3> DEFINE r == [x EXCEPT !.at = "raised"]
    <3>1. r \in Listening
      BY <2>0, ZenonT(60) DEF Listening
    <3>2. r.at = "raised" /\ r.open = x.open /\ r.readers = x.readers /\ r.identity = x.identity
      BY <2>0 DEF Listening
    <3> HIDE DEF r
    <3> QED BY <2>0, <2>1, <3>1, <3>2, KeepsSockets DEF r, x
  <2>2. CASE Becomes(s, [x EXCEPT !.at = "unbound", !.open = {1}]) /\ UNCHANGED <<file, unlinked>>
    <3> DEFINE r == [x EXCEPT !.at = "unbound", !.open = {1}]
    <3>1. r \in Listening
      <4>1. {1} \in SUBSET Nat
        OBVIOUS
      <4> QED BY <2>0, <4>1, ZenonT(60) DEF Listening
    <3>2. r.at = "unbound" /\ r.open = 1..1 /\ r.readers = {} /\ r.identity = x.identity
      BY <2>0 DEF Listening
    <3> HIDE DEF r
    <3>3. Balanced(r)
      BY <3>2 DEF Balanced
    <3> QED BY <2>0, <2>2, <3>1, <3>2, <3>3, OneServer DEF r
  <2>3. ASSUME NEW a \in {"stat", "serve"}, Becomes(s, [x EXCEPT !.at = a, !.open = {1}]), file' = s,
               unlinked' = unlinked
        PROVE  ListenInv'
    <3> DEFINE r == [x EXCEPT !.at = a, !.open = {1}]
    <3>1. r \in Listening
      <4>1. {1} \in SUBSET Nat
        OBVIOUS
      <4> QED BY <2>0, <4>1, ZenonT(60) DEF Listening
    <3>2. r.at = a /\ r.open = 1..1 /\ r.readers = {} /\ r.identity = x.identity
      BY <2>0 DEF Listening
    <3> HIDE DEF r
    <3>3. Balanced(r)
      BY <3>2 DEF Balanced
    <3>4. \A t \in Servers \ {s} : ls[t].at \notin Synchronous
      BY <1>1 DEF create_unix_server, Step, LoopFree
    <3>5. unlinked' \in SUBSET (Servers \X Servers) /\ UnlinksOwnPath'
      BY <2>3 DEF ListenInv, ListenTypes, UnlinksOwnPath
    <3>6. ls' = [ls EXCEPT ![s] = r]
      BY <2>3 DEF Becomes, r
    <3> QED BY <2>0, <2>3, <3>1, <3>2, <3>3, <3>4, <3>5, <3>6, PathStep
  <2> QED BY <1>1, <2>1, <2>2, <2>3 DEF create_unix_server, x
<1>2. ASSUME NEW s \in Servers, unlink(s) PROVE ListenInv'
  <2> DEFINE x == ls[s]
             r == [x EXCEPT !.at = x.then]
  <2>0. x \in Listening /\ Balanced(x) /\ x.identity \in {s, Gone} /\ x.at = "unlink" /\ x.open = {}
        /\ x.then \in {"raised", "closed"} /\ file \in {s, Gone}
    BY <1>2, FoundPath DEF unlink, Step, Balanced, ListenInv, OwnPath
  <2>1. ls' = [ls EXCEPT ![s] = r] /\ file' = Gone /\ unlinked' = unlinked \cup ({<<s, file>>} \ {<<s, Gone>>})
    BY <1>2 DEF unlink, Becomes
  <2> HIDE DEF x
  <2>2. r \in Listening
    BY <2>0, ZenonT(60) DEF Listening
  <2>3. r.at = x.then /\ r.then = x.then /\ r.open = {} /\ r.readers = x.readers /\ r.identity = x.identity
    BY <2>0 DEF Listening
  <2> HIDE DEF r
  <2>4. Balanced(r)
    BY <2>0, <2>3 DEF Balanced
  <2>5. unlinked' \subseteq unlinked \cup {<<s, s>>}
    BY <2>0, <2>1
  <2>6. unlinked' \in SUBSET (Servers \X Servers) /\ UnlinksOwnPath'
    BY <2>5 DEF ListenInv, ListenTypes, UnlinksOwnPath
  <2>7. Gone # s
    BY GoneAssumption
  <2> QED BY <2>0, <2>1, <2>2, <2>3, <2>4, <2>6, <2>7, PathStep
<1>3. CASE OthersUnlink
  BY <1>3 DEF OthersUnlink, ListenInv, ListenTypes, OwnPath, UnlinksOwnPath
<1>4. CASE UNCHANGED listenVars
  BY <1>4 DEF listenVars, ListenInv, ListenTypes, OwnPath, UnlinksOwnPath
<1> QED BY <1>1, <1>2, <1>3, <1>4, CallsInv, ServesInv, ServerCloseInv DEF ListenNext

\* The invariant says what Listeners promises.
LEMMA ListenInvImplies == ListenInv => NoListenerLeaks /\ UnlinksOwnPath
  BY DEF ListenInv, Balanced, NoListenerLeaks

-----------------------------------------------------------------------------
(* Datagram endpoints, pipes, start_tls() (Endpoints) *)

Entries == {"made", "receive", "result", "resume", "wakeup", "lost"}
Futures == {"pending", "set", "raised", "cancelled"}

DatagramType ==
    [at : {"idle", "resolving", "bind", "connecting", "attach", "waiting", "returned", "raised"},
     q : Seq(Entries), fut : Futures, cancelled : BOOLEAN, lookups : Int, remote : BOOLEAN,
     wake : {"no", "ok", "raised", "cancelled"}, sock : {"none", "open", "closed", "adopted"},
     transport : {"none", "open", "closing", "closed"}, made : BOOLEAN, receiving : BOOLEAN, lost : BOOLEAN]

\* There is a socket from bind() on and a transport from _attach_datagram() on, and
\* connection_made() is the first of what that one scheduled.
DatagramPhases(y) ==
    /\ y.at \in {"idle", "resolving", "bind"} => y.sock = "none"
    /\ y.at \in {"idle", "resolving", "bind", "connecting", "attach"} => y.transport = "none"
    /\ y.at \in {"waiting", "returned"} => y.transport # "none"
    /\ y.transport = "none" => y.q = <<>> /\ ~y.made /\ ~y.lost
    /\ y.transport # "none" /\ ~y.made => y.q # <<>> /\ Head(y.q) = "made"
    /\ y.at = "raised" => y.sock \in {"none", "closed"} \/ y.transport \in {"closing", "closed"}
    /\ y.at = "returned" \/ y.lost => y.made

DatagramInv == dg \in DatagramType /\ DatagramPhases(dg)

\* There is no endpoint at first.
LEMMA DatagramInitInv == dg = NoDatagram => DatagramInv
<1>1. <<>> \in Seq(Entries) /\ 0 \in Int
  OBVIOUS
<1>2. NoDatagram \in DatagramType
  BY <1>1, ZenonT(60) DEF NoDatagram, DatagramType, Futures
<1>3. DatagramPhases(NoDatagram)
  BY DEF NoDatagram, DatagramPhases
<1> QED BY <1>2, <1>3 DEF DatagramInv

\* What is appended leaves the head.
LEMMA AppendedEntry ==
    ASSUME NEW q \in Seq(Entries), NEW e \in Entries
    PROVE  /\ Append(q, e) \in Seq(Entries) /\ Append(q, e) # <<>>
           /\ q # <<>> => Head(Append(q, e)) = Head(q)
<1>1. Append(q, e) \in Seq(Entries) /\ Len(Append(q, e)) = Len(q) + 1 /\ Len(q) \in Nat
  OBVIOUS
<1>2. Append(q, e) # <<>>
  BY <1>1
<1>3. ASSUME q # <<>> PROVE Head(Append(q, e)) = Head(q)
  <2>1. Len(q) # 0
    BY <1>3
  <2>2. Append(q, e)[1] = q[1]
    BY <1>1, <2>1
  <2> QED BY <1>1, <1>2, <1>3, <2>2
<1> QED BY <1>1, <1>2, <1>3

\* A callback leaves the ready queue and nothing else.
LEMMA RanDatagram ==
    ASSUME NEW y \in DatagramType, y.q # <<>>
    PROVE  /\ Next1(y) \in DatagramType
           /\ Next1(y).at = y.at /\ Next1(y).sock = y.sock /\ Next1(y).transport = y.transport
           /\ Next1(y).made = y.made /\ Next1(y).lost = y.lost
<1>1. Tail(y.q) \in Seq(Entries)
  BY DEF DatagramType
<1>2. Next1(y) \in DatagramType
  BY <1>1, ZenonT(60) DEF DatagramType, Next1
<1> QED BY <1>2 DEF DatagramType, Next1

\* close() changes an open transport only.
LEMMA ClosesDatagram ==
    ASSUME NEW y \in DatagramType
    PROVE  /\ Closing(y) \in DatagramType
           /\ Closing(y).at = y.at /\ Closing(y).sock = y.sock /\ Closing(y).q = y.q
           /\ Closing(y).made = y.made /\ Closing(y).lost = y.lost
           /\ Closing(y).transport = IF y.transport = "open" THEN "closing" ELSE y.transport
<1>1. [y EXCEPT !.transport = "closing"] \in DatagramType
  BY ZenonT(60) DEF DatagramType
<1>2. Closing(y) \in DatagramType
  BY <1>1 DEF Closing
<1> QED BY <1>2 DEF DatagramType, Closing

\* A future that is set wakes the call that awaits it, if it does.
LEMMA SettlesDatagram ==
    ASSUME NEW y \in DatagramType, NEW how \in Futures
    PROVE  /\ Settle(y, how) \in DatagramType
           /\ Settle(y, how).at = y.at /\ Settle(y, how).sock = y.sock /\ Settle(y, how).transport = y.transport
           /\ Settle(y, how).made = y.made /\ Settle(y, how).lost = y.lost
           /\ Settle(y, how).q \in {y.q, Append(y.q, "wakeup")}
<1>1. Append(y.q, "wakeup") \in Seq(Entries)
  BY AppendedEntry DEF DatagramType, Entries
<1>2. [y EXCEPT !.fut = how, !.q = Append(y.q, "wakeup")] \in DatagramType
  BY <1>1, ZenonT(60) DEF DatagramType
<1>3. Settle(y, how) \in DatagramType
  BY <1>2 DEF Settle
<1> QED BY <1>3 DEF DatagramType, Settle

\* Up to the transport.
LEMMA OpensInv ==
    ASSUME DatagramInv, \/ create_datagram_endpoint \/ Answered \/ _resolve_datagram \/ _bind_datagram
                        \/ _attach_datagram
    PROVE  DatagramInv'
<1> USE DEF DatagramInv
<1>1. ASSUME dg' \in DatagramType, dg'.transport = "none", dg'.q = dg.q, dg'.made = dg.made, dg'.lost = dg.lost,
             dg'.at \in {"resolving", "bind", "connecting", "attach", "raised"}, dg.transport = "none",
             dg'.at \in {"resolving", "bind"} => dg'.sock = "none",
             dg'.at = "raised" => dg'.sock \in {"none", "closed"}
      PROVE  DatagramInv'
  BY <1>1 DEF DatagramPhases
<1>2. /\ dg.at \in {"idle", "resolving", "bind", "connecting", "attach"} /\ dg.transport = "none"
      /\ dg.at \in {"idle", "resolving", "bind"} => dg.sock = "none"
  BY DEF create_datagram_endpoint, Answered, _resolve_datagram, _bind_datagram, _attach_datagram, DatagramPhases
<1>3. CASE create_datagram_endpoint
  <2>1. CASE dg.at = "idle" /\ dg' = [dg EXCEPT !.at = "raised"]
    <3>1. dg' \in DatagramType
      BY <2>1, ZenonT(60) DEF DatagramType
    <3> QED BY <1>1, <1>2, <2>1, <3>1 DEF DatagramType
  <2>2. CASE dg' = [dg EXCEPT !.at = "attach", !.sock = "open"]
    <3>1. dg' \in DatagramType
      BY <2>2, ZenonT(60) DEF DatagramType
    <3> QED BY <1>1, <1>2, <2>2, <3>1 DEF DatagramType
  <2>3. ASSUME NEW n \in 0..2, NEW r \in BOOLEAN, dg.at = "idle",
               dg' = [dg EXCEPT !.at = IF n = 0 THEN "bind" ELSE "resolving", !.lookups = n, !.remote = r]
        PROVE  DatagramInv'
    <3> DEFINE a == IF n = 0 THEN "bind" ELSE "resolving"
    <3>1. a \in {"bind", "resolving"} /\ n \in Int /\ dg' = [dg EXCEPT !.at = a, !.lookups = n, !.remote = r]
      BY <2>3
    <3> HIDE DEF a
    <3>2. dg' \in DatagramType
      BY <3>1, ZenonT(60) DEF DatagramType
    <3> QED BY <1>1, <1>2, <2>3, <3>1, <3>2 DEF DatagramType
  <2> QED BY <1>3, <2>1, <2>2, <2>3 DEF create_datagram_endpoint
<1>4. CASE Answered
  <2>1. ASSUME NEW w \in {"ok", "raised", "cancelled"}, dg.at \in {"resolving", "connecting"},
               dg' = [dg EXCEPT !.wake = w]
        PROVE  DatagramInv'
    <3>1. dg' \in DatagramType
      BY <2>1, ZenonT(60) DEF DatagramType
    <3> QED BY <1>1, <1>2, <2>1, <3>1 DEF DatagramType
  <2> QED BY <1>4, <2>1 DEF Answered
<1>5. CASE _resolve_datagram
  <2> DEFINE a == IF dg.wake # "ok" THEN "raised" ELSE IF dg.lookups = 1 THEN "bind" ELSE dg.at
             n == dg.lookups - 1
  <2>1. /\ dg.at = "resolving" /\ a \in {"raised", "bind", "resolving"} /\ n \in Int
        /\ dg' = [dg EXCEPT !.wake = "no", !.lookups = n, !.at = a]
    BY <1>5 DEF _resolve_datagram, DatagramType
  <2> HIDE DEF a, n
  <2>2. dg' \in DatagramType
    BY <2>1, ZenonT(60) DEF DatagramType
  <2> QED BY <1>1, <1>2, <2>1, <2>2 DEF DatagramType
<1>6. CASE _bind_datagram
  <2>1. ASSUME NEW left \in {"none", "closed"}, dg' = [dg EXCEPT !.at = "raised", !.sock = left]
        PROVE  DatagramInv'
    <3>1. dg' \in DatagramType
      BY <2>1, ZenonT(60) DEF DatagramType
    <3> QED BY <1>1, <1>2, <2>1, <3>1 DEF DatagramType
  <2>2. CASE dg' = [dg EXCEPT !.sock = "open", !.at = IF dg.remote THEN "connecting" ELSE "attach"]
    <3> DEFINE a == IF dg.remote THEN "connecting" ELSE "attach"
    <3>1. a \in {"connecting", "attach"} /\ dg' = [dg EXCEPT !.sock = "open", !.at = a]
      BY <2>2
    <3> HIDE DEF a
    <3>2. dg' \in DatagramType
      BY <3>1, ZenonT(60) DEF DatagramType
    <3> QED BY <1>1, <1>2, <3>1, <3>2 DEF DatagramType
  <2>3. CASE dg' = [dg EXCEPT !.at = "attach", !.wake = "no"]
    <3>1. dg' \in DatagramType
      BY <2>3, ZenonT(60) DEF DatagramType
    <3> QED BY <1>1, <1>2, <2>3, <3>1 DEF DatagramType
  <2>4. CASE dg' = [dg EXCEPT !.at = "raised", !.wake = "no", !.sock = "closed"]
    <3>1. dg' \in DatagramType
      BY <2>4, ZenonT(60) DEF DatagramType
    <3> QED BY <1>1, <1>2, <2>4, <3>1 DEF DatagramType
  <2> QED BY <1>6, <2>1, <2>2, <2>3, <2>4 DEF _bind_datagram
<1>7. CASE _attach_datagram
  <2>1. CASE dg' = [dg EXCEPT !.at = "raised", !.sock = "closed"]
    <3>1. dg' \in DatagramType
      BY <2>1, ZenonT(60) DEF DatagramType
    <3> QED BY <1>1, <1>2, <2>1, <3>1 DEF DatagramType
  <2>2. CASE dg' = [dg EXCEPT !.at = "waiting", !.sock = "adopted", !.transport = "open",
                              !.q = <<"made", "receive", "result">>]
    <3> DEFINE s == <<"made", "receive", "result">>
    <3>1. s \in Seq(Entries) /\ s # <<>> /\ Head(s) = "made"
      BY DEF Entries
    <3>2. dg' = [dg EXCEPT !.at = "waiting", !.sock = "adopted", !.transport = "open", !.q = s]
      BY <2>2
    <3> HIDE DEF s
    <3>3. dg' \in DatagramType
      BY <3>1, <3>2, ZenonT(60) DEF DatagramType
    <3>4. /\ dg'.at = "waiting" /\ dg'.transport = "open" /\ dg'.q = s /\ dg'.made = dg.made /\ dg'.lost = dg.lost
      BY <3>2 DEF DatagramType
    <3> QED BY <1>2, <3>1, <3>3, <3>4 DEF DatagramPhases
  <2> QED BY <1>7, <2>1, <2>2 DEF _attach_datagram
<1> QED BY <1>3, <1>4, <1>5, <1>6, <1>7

\* What keeps the phases: the queue keeps connection_made() first.
LEMMA KeepsPhases ==
    ASSUME NEW x \in DatagramType, NEW y \in DatagramType, DatagramPhases(x),
           y.at = x.at, y.sock = x.sock, y.made = x.made, y.lost = x.lost,
           x.transport # "none", y.transport # "none",
           x.transport \in {"closing", "closed"} => y.transport \in {"closing", "closed"},
           x.q # <<>> /\ ~x.made => y.q # <<>> /\ Head(y.q) = Head(x.q)
    PROVE  DatagramPhases(y)
  BY DEF DatagramPhases, DatagramType

\* An entry of the queue runs.
LEMMA RunsInv ==
    ASSUME DatagramInv, DatagramRuns
    PROVE  DatagramInv'
<1> USE DEF DatagramInv
<1>1. dg.q # <<>> /\ dg.transport # "none" /\ (Head(dg.q) # "made" => dg.made) /\ dg.at \notin {"idle", "resolving", "bind", "connecting", "attach"}
  BY DEF DatagramRuns, DatagramWakes, Runs, DatagramPhases
<1>2. ASSUME dg' \in DatagramType, dg'.at = dg.at, dg'.sock = dg.sock, dg'.made, dg.lost => dg'.lost,
             dg'.transport # "none", dg.transport \in {"closing", "closed"} => dg'.transport \in {"closing", "closed"}
      PROVE  DatagramInv'
  BY <1>1, <1>2 DEF DatagramPhases
<1>3. CASE Runs(dg, "made") /\ \E y \in {dg, Closing(dg)} : dg' = [Next1(y) EXCEPT !.made = TRUE]
  <2> PICK y \in {dg, Closing(dg)} : dg' = [Next1(y) EXCEPT !.made = TRUE]
    BY <1>3
  <2>1. y \in DatagramType /\ y.at = dg.at /\ y.sock = dg.sock /\ y.lost = dg.lost /\ y.q = dg.q
        /\ y.transport # "none" /\ (dg.transport \in {"closing", "closed"} => y.transport \in {"closing", "closed"})
    BY <1>1, ClosesDatagram
  <2> DEFINE z == Next1(y)
  <2>2. z \in DatagramType /\ z.at = y.at /\ z.sock = y.sock /\ z.transport = y.transport /\ z.lost = y.lost
    BY <1>1, <2>1, RanDatagram
  <2>3. dg' = [z EXCEPT !.made = TRUE]
    OBVIOUS
  <2> HIDE DEF z
  <2>4. dg' \in DatagramType
    BY <2>2, <2>3, ZenonT(60) DEF DatagramType
  <2>5. dg'.at = z.at /\ dg'.sock = z.sock /\ dg'.transport = z.transport /\ dg'.lost = z.lost /\ dg'.made
    BY <2>2, <2>3 DEF DatagramType
  <2> QED BY <1>2, <2>1, <2>2, <2>4, <2>5
<1> DEFINE x == Next1(dg)
<1>4. x \in DatagramType /\ x.at = dg.at /\ x.sock = dg.sock /\ x.transport = dg.transport /\ x.made = dg.made /\ x.lost = dg.lost
  BY <1>1, RanDatagram
<1>5. CASE Runs(dg, "receive") /\ IF dg.transport # "open" THEN dg' = Next1(dg)
             ELSE dg' \in {[Next1(dg) EXCEPT !.receiving = TRUE], Closing(Next1(dg))}
  <2>1. dg.made /\ (dg' = x \/ dg' = [x EXCEPT !.receiving = TRUE] \/ dg' = Closing(x))
    BY <1>1, <1>5 DEF Runs
  <2> HIDE DEF x
  <2>2. CASE dg' = x
    BY <1>1, <1>2, <1>4, <2>1, <2>2
  <2>3. CASE dg' = [x EXCEPT !.receiving = TRUE]
    <3>1. dg' \in DatagramType
      BY <1>4, <2>3, ZenonT(60) DEF DatagramType
    <3>2. dg'.at = x.at /\ dg'.sock = x.sock /\ dg'.transport = x.transport /\ dg'.lost = x.lost /\ dg'.made = x.made
      BY <1>4, <2>3 DEF DatagramType
    <3> QED BY <1>1, <1>2, <1>4, <2>1, <3>1, <3>2
  <2>4. CASE dg' = Closing(x)
    BY <1>1, <1>2, <1>4, <2>1, <2>4, ClosesDatagram
  <2> QED BY <2>1, <2>2, <2>3, <2>4
<1>6. CASE Runs(dg, "result") /\ dg' = Settle(Next1(dg), "set")
  <2>1. dg.made /\ dg' = Settle(x, "set") /\ "set" \in Futures
    BY <1>1, <1>6 DEF Runs, Futures
  <2> HIDE DEF x
  <2> QED BY <1>1, <1>2, <1>4, <2>1, SettlesDatagram
<1>7. CASE DatagramWakes
  <2>1. dg.made
    BY <1>1, <1>7 DEF Runs, DatagramWakes
  <2> DEFINE y == Closing(x)
  <2>2. dg' = [y EXCEPT !.at = "raised"] \/ dg' = [x EXCEPT !.at = "returned"]
    BY <1>7 DEF DatagramWakes
  <2> HIDE DEF x
  <2>3. /\ y \in DatagramType /\ y.made = x.made /\ y.lost = x.lost /\ y.transport \in {"closing", "closed"}
    BY <1>1, <1>4, ClosesDatagram DEF DatagramType
  <2> HIDE DEF y
  <2>4. CASE dg' = [y EXCEPT !.at = "raised"]
    <3>1. dg' \in DatagramType
      BY <2>3, <2>4, ZenonT(60) DEF DatagramType
    <3>2. dg'.at = "raised" /\ dg'.transport = y.transport /\ dg'.made = y.made
      BY <2>3, <2>4 DEF DatagramType
    <3> QED BY <1>4, <2>1, <2>3, <3>1, <3>2 DEF DatagramPhases
  <2>5. CASE dg' = [x EXCEPT !.at = "returned"]
    <3>1. dg' \in DatagramType
      BY <1>4, <2>5, ZenonT(60) DEF DatagramType
    <3>2. dg'.at = "returned" /\ dg'.transport = x.transport /\ dg'.made = x.made
      BY <1>4, <2>5 DEF DatagramType
    <3> QED BY <1>1, <1>4, <2>1, <3>1, <3>2 DEF DatagramPhases
  <2> QED BY <2>2, <2>4, <2>5
<1>8. CASE Runs(dg, "lost") /\ dg' = [Next1(dg) EXCEPT !.lost = TRUE]
  <2>1. dg.made /\ dg' = [x EXCEPT !.lost = TRUE]
    BY <1>1, <1>8 DEF Runs
  <2> HIDE DEF x
  <2>2. dg' \in DatagramType
    BY <1>4, <2>1, ZenonT(60) DEF DatagramType
  <2>3. dg'.at = x.at /\ dg'.sock = x.sock /\ dg'.transport = x.transport /\ dg'.lost /\ dg'.made = x.made
    BY <1>4, <2>1 DEF DatagramType
  <2> QED BY <1>1, <1>2, <1>4, <2>1, <2>2, <2>3
<1> QED BY <1>3, <1>5, <1>6, <1>7, <1>8 DEF DatagramRuns

\* The application, the task and the peer act between callbacks.
LEMMA ElseInv ==
    ASSUME DatagramInv, DatagramElse
    PROVE  DatagramInv'
<1> USE DEF DatagramInv
<1>1. ASSUME dg.at = "waiting", dg' = CancelTask(dg) PROVE DatagramInv'
  <2> DEFINE x == Settle(dg, "cancelled")
  <2>1. /\ x \in DatagramType /\ x.at = dg.at /\ x.sock = dg.sock /\ x.transport = dg.transport
        /\ x.made = dg.made /\ x.lost = dg.lost /\ x.q \in {dg.q, Append(dg.q, "wakeup")}
    BY SettlesDatagram DEF Futures
  <2>2. dg' = [x EXCEPT !.cancelled = TRUE]
    BY <1>1 DEF CancelTask
  <2> HIDE DEF x
  <2>3. dg' \in DatagramType
    BY <2>1, <2>2, ZenonT(60) DEF DatagramType
  <2>4. dg'.at = x.at /\ dg'.sock = x.sock /\ dg'.transport = x.transport /\ dg'.lost = x.lost /\ dg'.made = x.made /\ dg'.q = x.q
    BY <2>1, <2>2 DEF DatagramType
  <2>5. dg.q # <<>> => dg'.q # <<>> /\ Head(dg'.q) = Head(dg.q)
    <3>1. dg.q \in Seq(Entries) /\ "wakeup" \in Entries
      BY DEF DatagramType, Entries
    <3> QED BY <2>1, <2>4, <3>1, AppendedEntry
  <2>6. dg.transport # "none"
    BY <1>1 DEF DatagramPhases
  <2> QED BY <2>1, <2>3, <2>4, <2>5, <2>6, KeepsPhases
<1>2. ASSUME dg.at = "returned", dg.transport = "open", dg' = Closing(dg) PROVE DatagramInv'
  BY <1>2, ClosesDatagram, KeepsPhases
<1>3. ASSUME dg.transport = "closing",
             dg' = [dg EXCEPT !.transport = "closed", !.receiving = FALSE, !.q = Append(@, "lost")]
      PROVE  DatagramInv'
  <2> DEFINE s == Append(dg.q, "lost")
  <2>1. s \in Seq(Entries) /\ (dg.q # <<>> => s # <<>> /\ Head(s) = Head(dg.q))
    BY AppendedEntry DEF DatagramType, Entries
  <2>2. dg' = [dg EXCEPT !.transport = "closed", !.receiving = FALSE, !.q = s]
    BY <1>3
  <2> HIDE DEF s
  <2>3. dg' \in DatagramType
    BY <2>1, <2>2, ZenonT(60) DEF DatagramType
  <2>4. dg'.at = dg.at /\ dg'.sock = dg.sock /\ dg'.transport = "closed" /\ dg'.lost = dg.lost /\ dg'.made = dg.made /\ dg'.q = s
    BY <2>2 DEF DatagramType
  <2>5. dg.q # <<>> => dg'.q # <<>> /\ Head(dg'.q) = Head(dg.q)
    BY <2>1, <2>4
  <2>6. dg.transport # "none" /\ dg'.transport \in {"closing", "closed"} /\ dg'.transport # "none"
    BY <1>3, <2>4
  <2> HIDE DEF DatagramInv
  <2>7. DatagramPhases(dg')
    BY <2>3, <2>4, <2>5, <2>6, KeepsPhases DEF DatagramInv
  <2> QED BY <2>3, <2>7 DEF DatagramInv
<1> QED BY <1>1, <1>2, <1>3 DEF DatagramElse

-----------------------------------------------------------------------------
(* connect_read_pipe(), connect_write_pipe() *)

PipeType ==
    [at : {"idle", "waiting", "returned", "raised"}, q : Seq(Entries), fut : Futures, cancelled : BOOLEAN,
     pipe : {"open", "closed"}, dup : {"none", "open", "closed"}, owner : {"none", "pipe", "watch"},
     transport : {"none", "open", "closing", "closed"}, reader : BOOLEAN, queued : BOOLEAN,
     buffered : BOOLEAN, peer : BOOLEAN, loop : BOOLEAN]

\* The pipe is closed with the transport, after its poll and with libuv's descriptor.
Consistent(y) ==
    /\ y.pipe = "closed" <=> y.transport = "closed"
    /\ y.pipe = "closed" => ~y.reader /\ ~y.queued /\ y.dup = "closed"

PipePhases(y) ==
    /\ y.at # "idle" => Consistent(y)
    /\ y.at = "idle" => /\ y.pipe = "open" /\ y.transport = "none" /\ y.owner = "none" /\ y.q = <<>>
                        /\ ~y.reader /\ ~y.queued /\ ~y.buffered

PipeInv == pp \in PipeType /\ PipePhases(pp)

\* There is no pipe at first.
LEMMA PipeInitInv == pp = NoPipe => PipeInv
<1>1. <<>> \in Seq(Entries)
  OBVIOUS
<1>2. NoPipe \in PipeType
  BY <1>1, ZenonT(60) DEF NoPipe, PipeType, Futures
<1>3. PipePhases(NoPipe)
  BY DEF NoPipe, PipePhases
<1> QED BY <1>2, <1>3 DEF PipeInv

\* A transport that is closed by force has closed its duplicate, and nothing polls it.
LEMMA ForceCloses ==
    ASSUME NEW y \in PipeType, y.transport = "closed" => Consistent(y)
    PROVE  forceClose(y) \in PipeType /\ Consistent(forceClose(y)) /\ forceClose(y).at = y.at
<1> DEFINE r == releaseSocketView(y)
           z == [r EXCEPT !.transport = "closed", !.dup = "closed", !.buffered = FALSE]
<1>1. r \in PipeType
  BY ZenonT(60) DEF releaseSocketView, PipeType
<1>2. r.pipe = "closed" /\ ~r.reader /\ ~r.queued /\ r.at = y.at
  BY DEF releaseSocketView, PipeType
<1> HIDE DEF r
<1>3. z \in PipeType
  BY <1>1, ZenonT(60) DEF PipeType
<1>4. z.at = r.at /\ z.pipe = r.pipe /\ z.reader = r.reader /\ z.queued = r.queued /\ z.transport = "closed" /\ z.dup = "closed"
  BY <1>1 DEF PipeType
<1>5. forceClose(y) = IF y.transport = "closed" THEN y ELSE z
  BY DEF forceClose, r
<1> HIDE DEF z
<1>6. Consistent(z)
  BY <1>2, <1>4 DEF Consistent
<1> QED BY <1>2, <1>3, <1>4, <1>5, <1>6

\* A close() that has something to write waits for it, and any other closes at once.
LEMMA ClosesTransport ==
    ASSUME NEW y \in PipeType, Consistent(y)
    PROVE  closeTransport(y) \in PipeType /\ Consistent(closeTransport(y)) /\ closeTransport(y).at = y.at
<1> DEFINE z == [y EXCEPT !.transport = "closing"]
<1>1. z \in PipeType
  BY ZenonT(60) DEF PipeType
<1>2. z.at = y.at /\ z.transport = "closing" /\ z.pipe = y.pipe /\ z.reader = y.reader /\ z.queued = y.queued /\ z.dup = y.dup
  BY DEF PipeType
<1>3. closeTransport(y) = IF y.transport # "open" THEN y ELSE IF y.buffered THEN z ELSE forceClose(y)
  BY DEF closeTransport
<1> HIDE DEF z
<1>4. y.transport = "open" => Consistent(z)
  BY <1>2 DEF Consistent
<1> QED BY <1>1, <1>2, <1>3, <1>4, ForceCloses

\* A step that leaves the pipe, its poll and its descriptor as they are.
LEMMA SamePipe ==
    ASSUME NEW x \in PipeType, NEW y, Consistent(x),
           y.pipe = x.pipe, y.transport = x.transport, y.reader = x.reader, y.queued = x.queued, y.dup = x.dup
    PROVE  Consistent(y)
  BY DEF Consistent

\* A callback leaves the ready queue and nothing else.
LEMMA PipeRan ==
    ASSUME NEW y \in PipeType, y.q # <<>>, Consistent(y)
    PROVE  Next1(y) \in PipeType /\ Next1(y).at = y.at /\ Consistent(Next1(y))
<1>1. Tail(y.q) \in Seq(Entries)
  BY DEF PipeType
<1> DEFINE z == Next1(y)
<1>2. z \in PipeType
  BY <1>1, ZenonT(60) DEF PipeType, Next1
<1>3. z.at = y.at /\ z.pipe = y.pipe /\ z.transport = y.transport /\ z.reader = y.reader /\ z.queued = y.queued /\ z.dup = y.dup
  BY DEF PipeType, Next1
<1> HIDE DEF z
<1>4. z \in PipeType /\ z.at = y.at /\ Consistent(z)
  BY <1>2, <1>3, SamePipe
<1> QED BY <1>4 DEF z

\* A future that is set wakes the call that awaits it, if it does.
LEMMA PipeSettles ==
    ASSUME NEW y \in PipeType, NEW how \in Futures, Consistent(y)
    PROVE  Settle(y, how) \in PipeType /\ Settle(y, how).at = y.at /\ Consistent(Settle(y, how))
<1> DEFINE s == Append(y.q, "wakeup")
           z == [y EXCEPT !.fut = how, !.q = s]
<1>1. s \in Seq(Entries)
  BY AppendedEntry DEF PipeType, Entries
<1>2. Settle(y, how) = IF y.fut = "pending" THEN z ELSE y
  BY DEF Settle
<1> HIDE DEF s
<1>3. z \in PipeType
  BY <1>1, ZenonT(60) DEF PipeType
<1>4. z.at = y.at /\ z.pipe = y.pipe /\ z.transport = y.transport /\ z.reader = y.reader /\ z.queued = y.queued /\ z.dup = y.dup
  BY DEF PipeType
<1> HIDE DEF z
<1>5. Consistent(z)
  BY <1>4, SamePipe
<1> QED BY <1>2, <1>3, <1>4, <1>5

\* The call goes to a place.
LEMMA PipeAt ==
    ASSUME NEW y \in PipeType, NEW a \in {"waiting", "returned", "raised"}, Consistent(y)
    PROVE  [y EXCEPT !.at = a] \in PipeType /\ PipePhases([y EXCEPT !.at = a])
<1> DEFINE z == [y EXCEPT !.at = a]
<1>1. z \in PipeType
  BY ZenonT(60) DEF PipeType
<1>2. z.at = a /\ z.pipe = y.pipe /\ z.transport = y.transport /\ z.reader = y.reader /\ z.queued = y.queued /\ z.dup = y.dup
  BY DEF PipeType
<1> HIDE DEF z
<1>3. z \in PipeType /\ PipePhases(z)
  BY <1>1, <1>2, SamePipe DEF PipePhases
<1> QED BY <1>3 DEF z

\* Every step keeps the invariant of the pipe.
LEMMA PipeStepInv == PipeInv /\ (PipeNext \/ UNCHANGED pp) => PipeInv'
<1> SUFFICES ASSUME PipeInv, PipeNext \/ UNCHANGED pp PROVE PipeInv'
  OBVIOUS
<1> USE DEF PipeInv
<1>1. ASSUME pp' \in PipeType, pp'.at # "idle", Consistent(pp') PROVE PipeInv'
  BY <1>1 DEF PipePhases
<1>2. CASE _connect_pipe
  <2> DEFINE s == <<"made", "result">>
             opened == [pp EXCEPT !.at = "waiting", !.dup = "open", !.transport = "open", !.owner = "pipe", !.q = s]
             adopted == [opened EXCEPT !.owner = "watch"]
  <2>1. pp.at = "idle" /\ s \in Seq(Entries)
    BY <1>2 DEF _connect_pipe, Entries
  <2>2. \/ \E left \in {"none", "closed"} : pp' = [pp EXCEPT !.at = "raised", !.dup = left]
        \/ pp' = opened
        \/ pp' = arm(adopted)
        \/ pp' = [closeTransport(adopted) EXCEPT !.at = "raised"]
    BY <1>2 DEF _connect_pipe
  <2> HIDE DEF s
  <2>3. opened \in PipeType
    BY <2>1, ZenonT(60) DEF PipeType
  <2>4. opened.at = "waiting" /\ opened.transport = "open" /\ opened.pipe = pp.pipe
    BY DEF PipeType
  <2> HIDE DEF opened
  <2>5. adopted \in PipeType
    BY <2>3, ZenonT(60) DEF PipeType
  <2>6. adopted.at = "waiting" /\ adopted.transport = "open" /\ adopted.pipe = pp.pipe
    BY <2>3, <2>4 DEF PipeType
  <2> HIDE DEF adopted
  <2>7. Consistent(opened) /\ Consistent(adopted)
    BY <2>1, <2>4, <2>6 DEF Consistent, PipePhases
  <2>8. CASE \E left \in {"none", "closed"} : pp' = [pp EXCEPT !.at = "raised", !.dup = left]
    <3> PICK left \in {"none", "closed"} : pp' = [pp EXCEPT !.at = "raised", !.dup = left]
      BY <2>8
    <3>1. pp' \in PipeType
      BY ZenonT(60) DEF PipeType
    <3>2. pp'.at = "raised" /\ pp'.pipe = pp.pipe /\ pp'.transport = pp.transport
      BY DEF PipeType
    <3> QED BY <1>1, <2>1, <3>1, <3>2 DEF Consistent, PipePhases
  <2>9. CASE pp' = opened
    BY <1>1, <2>3, <2>4, <2>7, <2>9
  <2>10. CASE pp' = arm(adopted)
    <3>1. pp' = [adopted EXCEPT !.reader = TRUE]
      BY <2>10 DEF arm
    <3>2. pp' \in PipeType
      BY <2>5, <3>1, ZenonT(60) DEF PipeType
    <3>3. pp'.at = adopted.at /\ pp'.pipe = adopted.pipe /\ pp'.transport = adopted.transport
      BY <2>5, <3>1 DEF PipeType
    <3> QED BY <1>1, <2>6, <2>7, <3>2, <3>3 DEF Consistent
  <2>11. CASE pp' = [closeTransport(adopted) EXCEPT !.at = "raised"]
    <3> DEFINE y == closeTransport(adopted)
    <3>1. y \in PipeType /\ Consistent(y)
      BY <2>5, <2>7, ClosesTransport
    <3>2. pp' = [y EXCEPT !.at = "raised"]
      BY <2>11
    <3> HIDE DEF y
    <3> QED BY <3>1, <3>2, PipeAt
  <2> QED BY <2>2, <2>8, <2>9, <2>10, <2>11
<1>3. CASE PipeRuns
  <2>1. pp.q # <<>> /\ pp.at # "idle" /\ Consistent(pp)
    BY <1>3 DEF PipeRuns, Runs, PipePhases
  <2> DEFINE x == Next1(pp)
  <2>2. x \in PipeType /\ x.at = pp.at /\ Consistent(x)
    BY <2>1, PipeRan
  <2>3. \/ pp' = x \/ pp' = Settle(x, "set")
        \/ pp' = [closeTransport(x) EXCEPT !.at = "raised"] \/ pp' = [x EXCEPT !.at = "returned"]
    BY <1>3 DEF PipeRuns
  <2> HIDE DEF x
  <2>4. CASE pp' = [closeTransport(x) EXCEPT !.at = "raised"]
    <3> DEFINE y == closeTransport(x)
    <3>1. y \in PipeType /\ Consistent(y)
      BY <2>2, ClosesTransport
    <3>2. pp' = [y EXCEPT !.at = "raised"]
      BY <2>4
    <3> HIDE DEF y
    <3> QED BY <3>1, <3>2, PipeAt
  <2>5. CASE pp' = [x EXCEPT !.at = "returned"]
    BY <2>2, <2>5, PipeAt
  <2>6. CASE pp' = x \/ pp' = Settle(x, "set")
    BY <1>1, <2>1, <2>2, <2>6, PipeSettles DEF Futures
  <2> QED BY <2>3, <2>4, <2>5, <2>6
<1>4. CASE PeerGone
  <2>1. pp.at # "idle" /\ Consistent(pp) /\ pp' = [pp EXCEPT !.peer = FALSE]
    BY <1>4 DEF PeerGone, PipePhases
  <2>2. pp' \in PipeType
    BY <2>1, ZenonT(60) DEF PipeType
  <2>3. pp'.at = pp.at /\ pp'.pipe = pp.pipe /\ pp'.transport = pp.transport /\ pp'.reader = pp.reader /\ pp'.queued = pp.queued /\ pp'.dup = pp.dup
    BY <2>1 DEF PipeType
  <2> QED BY <1>1, <2>1, <2>2, <2>3, SamePipe
<1>5. CASE Polled
  <2>1. pp.at # "idle" /\ Consistent(pp) /\ pp.reader /\ pp' = [pp EXCEPT !.queued = TRUE]
    BY <1>5 DEF Polled, PipePhases
  <2>2. pp' \in PipeType
    BY <2>1, ZenonT(60) DEF PipeType
  <2>3. pp'.at = pp.at /\ pp'.pipe = pp.pipe /\ pp'.transport = pp.transport
    BY <2>1 DEF PipeType
  <2> QED BY <1>1, <2>1, <2>2, <2>3 DEF Consistent
<1>6. CASE _hangup
  <2> DEFINE y == [pp EXCEPT !.reader = FALSE, !.queued = FALSE]
  <2>1. pp.at # "idle" /\ Consistent(pp) /\ pp' = forceClose(y)
    BY <1>6 DEF _hangup, PipePhases
  <2>2. y \in PipeType
    BY ZenonT(60) DEF PipeType
  <2>3. y.at = pp.at /\ y.pipe = pp.pipe /\ y.transport = pp.transport /\ ~y.reader /\ ~y.queued /\ y.dup = pp.dup
    BY DEF PipeType
  <2> HIDE DEF y
  <2>4. Consistent(y)
    BY <2>1, <2>3 DEF Consistent
  <2> QED BY <1>1, <2>1, <2>2, <2>3, <2>4, ForceCloses
<1>7. CASE Written
  <2> DEFINE y == [pp EXCEPT !.buffered = FALSE]
  <2>1. pp.at # "idle" /\ Consistent(pp) /\ (pp' = y \/ pp' = forceClose(y))
    BY <1>7 DEF Written, PipePhases
  <2>2. y \in PipeType
    BY ZenonT(60) DEF PipeType
  <2>3. y.at = pp.at /\ y.pipe = pp.pipe /\ y.transport = pp.transport /\ y.reader = pp.reader /\ y.queued = pp.queued /\ y.dup = pp.dup
    BY DEF PipeType
  <2> HIDE DEF y
  <2>4. Consistent(y)
    BY <2>1, <2>3, SamePipe
  <2> QED BY <1>1, <2>1, <2>2, <2>3, <2>4, ForceCloses
<1>8. CASE PipeElse
  <2>1. pp.at # "idle" /\ Consistent(pp)
    BY <1>8 DEF PipeElse, PipePhases
  <2>2. CASE pp' = CancelTask(pp)
    <3> DEFINE y == Settle(pp, "cancelled")
    <3>1. y \in PipeType /\ y.at = pp.at /\ Consistent(y)
      BY <2>1, PipeSettles DEF Futures
    <3>2. pp' = [y EXCEPT !.cancelled = TRUE]
      BY <2>2 DEF CancelTask
    <3> HIDE DEF y
    <3>3. pp' \in PipeType
      BY <3>1, <3>2, ZenonT(60) DEF PipeType
    <3>4. pp'.at = y.at /\ pp'.pipe = y.pipe /\ pp'.transport = y.transport /\ pp'.reader = y.reader /\ pp'.queued = y.queued /\ pp'.dup = y.dup
      BY <3>1, <3>2 DEF PipeType
    <3> QED BY <1>1, <2>1, <3>1, <3>3, <3>4, SamePipe
  <2>3. CASE pp' = [pp EXCEPT !.buffered = TRUE]
    <3>1. pp' \in PipeType
      BY <2>3, ZenonT(60) DEF PipeType
    <3>2. pp'.at = pp.at /\ pp'.pipe = pp.pipe /\ pp'.transport = pp.transport /\ pp'.reader = pp.reader /\ pp'.queued = pp.queued /\ pp'.dup = pp.dup
      BY <2>3 DEF PipeType
    <3> QED BY <1>1, <2>1, <3>1, <3>2, SamePipe
  <2>4. CASE pp' = closeTransport(pp)
    BY <1>1, <2>1, <2>4, ClosesTransport
  <2>5. ASSUME LET shut == [pp EXCEPT !.loop = FALSE, !.q = <<>>, !.reader = FALSE, !.queued = FALSE] IN
                 pp' = IF pp.transport \in {"open", "closing"} THEN forceClose(shut) ELSE shut
        PROVE  PipeInv'
    <3> DEFINE y == [pp EXCEPT !.loop = FALSE, !.q = <<>>, !.reader = FALSE, !.queued = FALSE]
    <3>1. <<>> \in Seq(Entries) /\ (pp' = y \/ pp' = forceClose(y))
      BY <2>5
    <3>2. y \in PipeType
      BY <3>1, ZenonT(60) DEF PipeType
    <3>3. y.at = pp.at /\ y.pipe = pp.pipe /\ y.transport = pp.transport /\ ~y.reader /\ ~y.queued /\ y.dup = pp.dup
      BY DEF PipeType
    <3> HIDE DEF y
    <3>4. Consistent(y)
      BY <2>1, <3>3 DEF Consistent
    <3> QED BY <1>1, <2>1, <3>1, <3>2, <3>3, <3>4, ForceCloses
  <2> QED BY <1>8, <2>2, <2>3, <2>4, <2>5 DEF PipeElse
<1>9. CASE UNCHANGED pp
  BY <1>9
<1> QED BY <1>2, <1>3, <1>4, <1>5, <1>6, <1>7, <1>8, <1>9 DEF PipeNext

-----------------------------------------------------------------------------
(* start_tls() *)

TlsType ==
    [at : {"idle", "waiting", "returned", "raised"}, q : Seq(Entries), fut : Futures, cancelled : BOOLEAN,
     server_side : BOOLEAN, protocol : {"app", "ssl"}, reading : BOOLEAN, paused : BOOLEAN, closing : BOOLEAN,
     buffer : Seq(Nat), incoming : Seq(Nat), got : Nat, read : Nat, made : BOOLEAN, early : BOOLEAN]

\* The records from r to g, in order.
Counts(s, r, g) == g >= r /\ Len(s) = g - r /\ \A i \in 1..Len(s) : s[i] = r + i

\* Nothing wakes a task whose future is pending.
Unwoken(y) == y.fut = "pending" => \A i \in 1..Len(y.q) : y.q[i] # "wakeup"

(***************************************************************************)
(* The StreamReader has the records that were not read, and hands them to  *)
(* the SSL object with the protocol; reading is off until connection_made, *)
(* which is first in the queue, has run.                                   *)
(***************************************************************************)
TlsPhases(y) ==
    /\ y.protocol = "app" <=> y.at = "idle"
    /\ y.protocol = "app" => Counts(y.buffer, y.read, y.got) /\ y.q = <<>> /\ ~y.made
    /\ y.protocol = "ssl" /\ y.server_side => Counts(y.incoming, y.read, y.got)
    /\ y.protocol = "ssl" /\ ~y.made => ~y.reading /\ y.q # <<>> /\ Head(y.q) = "made"
    /\ ~y.early
    /\ y.at = "raised" => y.closing /\ y.q = <<>> /\ y.fut # "pending"
    /\ Unwoken(y)

TlsInv == tl \in TlsType /\ TlsPhases(tl)

\* start_tls() has not been called.
LEMMA TlsInitInv == tl = NoTls => TlsInv
<1>1. <<>> \in Seq(Entries) /\ <<>> \in Seq(Nat) /\ 0 \in Nat
  OBVIOUS
<1>2. NoTls \in TlsType
  BY <1>1, ZenonT(60) DEF NoTls, TlsType, Futures
<1>3. Counts(<<>>, 0, 0)
  BY DEF Counts
<1>4. TlsPhases(NoTls)
  <2>1. /\ NoTls.at = "idle" /\ NoTls.protocol = "app" /\ NoTls.q = <<>> /\ NoTls.made = FALSE
        /\ NoTls.buffer = <<>> /\ NoTls.read = 0 /\ NoTls.got = 0 /\ NoTls.early = FALSE
    BY ZenonT(60) DEF NoTls
  <2>2. \A i \in 1..Len(<<>>) : FALSE
    OBVIOUS
  <2> QED BY <1>3, <2>1, <2>2 DEF TlsPhases, Unwoken
<1> QED BY <1>2, <1>4 DEF TlsInv

\* Records stay in order when one arrives,
LEMMA CountsNext ==
    ASSUME NEW s \in Seq(Nat), NEW r \in Nat, NEW g \in Nat, Counts(s, r, g)
    PROVE  Append(s, g + 1) \in Seq(Nat) /\ Counts(Append(s, g + 1), r, g + 1)
<1>1. /\ Append(s, g + 1) \in Seq(Nat) /\ Len(s) \in Nat /\ Len(Append(s, g + 1)) = Len(s) + 1
      /\ Append(s, g + 1)[Len(s) + 1] = g + 1 /\ \A i \in 1..Len(s) : Append(s, g + 1)[i] = s[i]
  OBVIOUS
<1>2. ASSUME NEW i \in 1..(Len(s) + 1) PROVE Append(s, g + 1)[i] = r + i
  <2>1. CASE i = Len(s) + 1
    BY <1>1, <2>1 DEF Counts
  <2>2. CASE i # Len(s) + 1
    <3>1. i \in 1..Len(s)
      BY <1>1, <2>2
    <3> QED BY <1>1, <3>1 DEF Counts
  <2> QED BY <2>1, <2>2
<1> QED BY <1>1, <1>2 DEF Counts

\* and when one is read.
LEMMA CountsRead ==
    ASSUME NEW s \in Seq(Nat), NEW r \in Nat, NEW g \in Nat, Counts(s, r, g), s # <<>>
    PROVE  Head(s) = r + 1 /\ Tail(s) \in Seq(Nat) /\ Counts(Tail(s), r + 1, g)
<1>1. Len(s) \in Nat /\ Len(s) > 0 /\ Tail(s) \in Seq(Nat) /\ Len(Tail(s)) = Len(s) - 1 /\ Head(s) = s[1]
  OBVIOUS
<1>2. \A i \in 1..(Len(s) - 1) : Tail(s)[i] = s[i + 1]
  BY <1>1
<1>3. ASSUME NEW i \in 1..(Len(s) - 1) PROVE Tail(s)[i] = r + 1 + i
  <2>1. i + 1 \in 1..Len(s) /\ i \in Nat
    BY <1>1
  <2> QED BY <1>2, <2>1 DEF Counts
<1>4. Head(s) = r + 1
  BY <1>1 DEF Counts
<1> QED BY <1>1, <1>3, <1>4 DEF Counts

\* Such a sequence is what the property says it is.
LEMMA CountsIs ==
    ASSUME NEW s \in Seq(Nat), NEW r \in Nat, NEW g \in Nat, Counts(s, r, g)
    PROVE  s = [i \in 1..(g - r) |-> r + i]
<1>1. s = [i \in 1..Len(s) |-> s[i]]
  OBVIOUS
<1> QED BY <1>1 DEF Counts

\* A settled future queues one wakeup, behind what is there.
LEMMA TlsSettles ==
    ASSUME NEW y \in TlsType, NEW how \in Futures \ {"pending"}, TlsPhases(y), y.at # "idle", y.at # "raised"
    PROVE  /\ Settle(y, how) \in TlsType /\ TlsPhases(Settle(y, how))
           /\ Settle(y, how).at = y.at /\ Settle(y, how).fut # "pending"
<1> DEFINE s == Append(y.q, "wakeup")
           z == [y EXCEPT !.fut = how, !.q = s]
<1>1. s \in Seq(Entries) /\ s # <<>> /\ (y.q # <<>> => Head(s) = Head(y.q))
  BY AppendedEntry DEF TlsType, Entries
<1>2. Settle(y, how) = IF y.fut = "pending" THEN z ELSE y
  BY DEF Settle
<1> HIDE DEF s
<1>3. z \in TlsType
  BY <1>1, ZenonT(60) DEF TlsType
<1>4. /\ z.at = y.at /\ z.fut = how /\ z.q = s /\ z.protocol = y.protocol /\ z.server_side = y.server_side
      /\ z.incoming = y.incoming /\ z.read = y.read /\ z.got = y.got /\ z.made = y.made /\ z.reading = y.reading
      /\ z.early = y.early /\ z.closing = y.closing
  BY DEF TlsType
<1> HIDE DEF z
<1>5. TlsPhases(z) /\ z.fut # "pending"
  BY <1>1, <1>4 DEF TlsPhases, Unwoken
<1> QED BY <1>2, <1>3, <1>4, <1>5

\* Records come and are read.
LEMMA RecordsInv ==
    ASSUME TlsInv, Received \/ Application
    PROVE  TlsInv'
<1> USE DEF TlsInv
<1>0. tl.buffer \in Seq(Nat) /\ tl.incoming \in Seq(Nat) /\ tl.got \in Nat /\ tl.read \in Nat
  BY DEF TlsType
<1>1. CASE Received /\ tl.protocol = "app"
  <2> DEFINE g == tl.got + 1
             b == Append(tl.buffer, g)
  <2>1. tl' = [tl EXCEPT !.got = g, !.buffer = b] /\ tl.reading
    BY <1>1 DEF Received
  <2>2. g \in Nat /\ b \in Seq(Nat) /\ Counts(b, tl.read, g)
    <3>1. Counts(tl.buffer, tl.read, tl.got)
      BY <1>1 DEF TlsPhases
    <3> QED BY <1>0, <3>1, CountsNext, SMTT(30)
  <2> HIDE DEF g, b
  <2>3. tl' \in TlsType
    BY <2>1, <2>2, ZenonT(60) DEF TlsType
  <2>4. /\ tl'.at = tl.at /\ tl'.fut = tl.fut /\ tl'.q = tl.q /\ tl'.protocol = tl.protocol /\ tl'.buffer = b
        /\ tl'.read = tl.read /\ tl'.got = g /\ tl'.made = tl.made /\ tl'.early = tl.early /\ tl'.closing = tl.closing
    BY <2>1 DEF TlsType
  <2> QED BY <1>1, <2>2, <2>3, <2>4 DEF TlsPhases, Unwoken
<1>2. CASE Received /\ tl.protocol # "app"
  <2> DEFINE g == tl.got + 1
             b == Append(tl.incoming, g)
             e == tl.early \/ ~tl.made
  <2>1. tl' = [tl EXCEPT !.got = g, !.incoming = b, !.early = e] /\ tl.reading /\ tl.protocol = "ssl"
    BY <1>2 DEF Received, TlsType
  <2>2. ~tl.early /\ tl.made
    BY <2>1 DEF TlsPhases
  <2>3. e = FALSE
    BY <2>2
  <2>4. g \in Nat /\ b \in Seq(Nat) /\ (tl.server_side => Counts(b, tl.read, g))
    BY <1>0, <2>1, CountsNext DEF TlsPhases
  <2> HIDE DEF g, b, e
  <2>5. tl' \in TlsType
    BY <2>1, <2>3, <2>4, ZenonT(60) DEF TlsType
  <2>6. /\ tl'.at = tl.at /\ tl'.fut = tl.fut /\ tl'.q = tl.q /\ tl'.protocol = tl.protocol /\ tl'.incoming = b
        /\ tl'.read = tl.read /\ tl'.got = g /\ tl'.made = tl.made /\ tl'.early = e /\ tl'.closing = tl.closing
        /\ tl'.server_side = tl.server_side
    BY <2>1 DEF TlsType
  <2> QED BY <2>1, <2>2, <2>3, <2>4, <2>5, <2>6 DEF TlsPhases, Unwoken
<1>3. ASSUME tl.at = "idle", tl.buffer # <<>>, NEW resume \in {FALSE, tl.paused},
             tl' = [tl EXCEPT !.read = Head(tl.buffer), !.buffer = Tail(@),
                              !.paused = @ /\ ~resume, !.reading = @ \/ resume]
      PROVE  TlsInv'
  <2> DEFINE h == Head(tl.buffer)
             b == Tail(tl.buffer)
             p == tl.paused /\ ~resume
             r == tl.reading \/ resume
  <2>1. tl' = [tl EXCEPT !.read = h, !.buffer = b, !.paused = p, !.reading = r]
    BY <1>3
  <2>2. p \in BOOLEAN /\ r \in BOOLEAN
    BY Zenon
  <2>3. Counts(tl.buffer, tl.read, tl.got) /\ tl.protocol = "app"
    BY <1>3 DEF TlsPhases
  <2>4. h = tl.read + 1 /\ h \in Nat /\ b \in Seq(Nat) /\ Counts(b, h, tl.got)
    BY <1>0, <1>3, <2>3, CountsRead
  <2> HIDE DEF h, b, p, r
  <2>5. tl' \in TlsType
    BY <2>1, <2>2, <2>4, ZenonT(60) DEF TlsType
  <2>6. /\ tl'.at = tl.at /\ tl'.fut = tl.fut /\ tl'.q = tl.q /\ tl'.protocol = tl.protocol /\ tl'.buffer = b
        /\ tl'.read = h /\ tl'.got = tl.got /\ tl'.made = tl.made /\ tl'.early = tl.early /\ tl'.closing = tl.closing
    BY <2>1 DEF TlsType
  <2> QED BY <1>3, <2>3, <2>4, <2>5, <2>6 DEF TlsPhases, Unwoken
<1>4. ASSUME tl.at = "idle", tl' = [tl EXCEPT !.reading = FALSE, !.paused = TRUE]
      PROVE  TlsInv'
  <2>1. tl' \in TlsType
    BY <1>4, ZenonT(60) DEF TlsType
  <2>2. /\ tl'.at = tl.at /\ tl'.fut = tl.fut /\ tl'.q = tl.q /\ tl'.protocol = tl.protocol /\ tl'.buffer = tl.buffer
        /\ tl'.read = tl.read /\ tl'.got = tl.got /\ tl'.made = tl.made /\ tl'.early = tl.early /\ tl'.closing = tl.closing
    BY <1>4 DEF TlsType
  <2> QED BY <1>4, <2>1, <2>2 DEF TlsPhases, Unwoken
<1> QED BY <1>1, <1>2, <1>3, <1>4 DEF Application

\* The call: the protocols change places, and reading is off.
LEMMA StartsTls ==
    ASSUME TlsInv, start_tls
    PROVE  TlsInv'
<1> USE DEF TlsInv
<1> PICK server_side \in BOOLEAN :
       tl' = [tl EXCEPT !.at = "waiting", !.server_side = server_side, !.protocol = "ssl", !.reading = FALSE,
                        !.incoming = IF server_side THEN tl.buffer ELSE <<>>,
                        !.buffer = IF server_side THEN <<>> ELSE @,
                        !.paused = @ /\ ~(server_side /\ tl.buffer # <<>>),
                        !.q = <<"made", "resume">>]
  BY DEF start_tls
<1> DEFINE n == IF server_side THEN tl.buffer ELSE <<>>
           b == IF server_side THEN <<>> ELSE tl.buffer
           p == tl.paused /\ ~(server_side /\ tl.buffer # <<>>)
           s == <<"made", "resume">>
<1>1. tl' = [tl EXCEPT !.at = "waiting", !.server_side = server_side, !.protocol = "ssl", !.reading = FALSE,
                       !.incoming = n, !.buffer = b, !.paused = p, !.q = s]
  OBVIOUS
<1>2. p \in BOOLEAN
  BY Zenon
<1>3. n \in Seq(Nat) /\ b \in Seq(Nat) /\ (server_side => n = tl.buffer)
  BY DEF TlsType
<1>4. s \in Seq(Entries) /\ s # <<>> /\ Head(s) = "made" /\ \A i \in 1..Len(s) : s[i] # "wakeup"
  BY DEF Entries
<1>5. tl.at = "idle"
  BY DEF start_tls
<1> HIDE DEF n, b, p, s
<1>6. tl' \in TlsType
  BY <1>1, <1>2, <1>3, <1>4, ZenonT(60) DEF TlsType
<1>7. /\ tl'.at = "waiting" /\ tl'.fut = tl.fut /\ tl'.q = s /\ tl'.protocol = "ssl" /\ tl'.incoming = n
      /\ tl'.read = tl.read /\ tl'.got = tl.got /\ tl'.made = tl.made /\ tl'.early = tl.early /\ ~tl'.reading
      /\ tl'.server_side = server_side
  BY <1>1 DEF TlsType
<1> QED BY <1>3, <1>4, <1>5, <1>6, <1>7 DEF TlsPhases, Unwoken

\* What runs, and how the handshake ends.
LEMMA HandshakeInv ==
    ASSUME TlsInv, Handshake \/ TlsCancelled
    PROVE  TlsInv'
<1> USE DEF TlsInv
<1>1. tl.at # "idle" /\ tl.at # "raised"
  BY DEF Handshake, TlsCancelled, TlsPhases, TlsType
<1>2. \/ tl' = Settle(tl, "set")
      \/ tl' = [Settle(tl, "raised") EXCEPT !.closing = TRUE]
      \/ tl' = [Settle(tl, "cancelled") EXCEPT !.cancelled = TRUE]
  BY DEF Handshake, TlsCancelled, CancelTask
<1>3. "set" \in Futures \ {"pending"} /\ "raised" \in Futures \ {"pending"} /\ "cancelled" \in Futures \ {"pending"}
  BY DEF Futures
<1>4. CASE tl' = Settle(tl, "set")
  BY <1>1, <1>3, <1>4, TlsSettles
<1>5. CASE tl' = [Settle(tl, "raised") EXCEPT !.closing = TRUE]
  <2> DEFINE y == Settle(tl, "raised")
  <2>1. y \in TlsType /\ TlsPhases(y)
    BY <1>1, <1>3, TlsSettles
  <2>2. tl' = [y EXCEPT !.closing = TRUE]
    BY <1>5
  <2> HIDE DEF y
  <2>3. tl' \in TlsType
    BY <2>1, <2>2, ZenonT(60) DEF TlsType
  <2>4. /\ tl'.at = y.at /\ tl'.fut = y.fut /\ tl'.q = y.q /\ tl'.protocol = y.protocol
        /\ tl'.incoming = y.incoming /\ tl'.buffer = y.buffer /\ tl'.reading = y.reading
        /\ tl'.read = y.read /\ tl'.got = y.got /\ tl'.made = y.made /\ tl'.early = y.early /\ tl'.closing
        /\ tl'.server_side = y.server_side
    BY <2>1, <2>2 DEF TlsType
  <2> QED BY <2>1, <2>3, <2>4 DEF TlsPhases, Unwoken
<1>6. CASE tl' = [Settle(tl, "cancelled") EXCEPT !.cancelled = TRUE]
  <2> DEFINE y == Settle(tl, "cancelled")
  <2>1. y \in TlsType /\ TlsPhases(y)
    BY <1>1, <1>3, TlsSettles
  <2>2. tl' = [y EXCEPT !.cancelled = TRUE]
    BY <1>6
  <2> HIDE DEF y
  <2>3. tl' \in TlsType
    BY <2>1, <2>2, ZenonT(60) DEF TlsType
  <2>4. /\ tl'.at = y.at /\ tl'.fut = y.fut /\ tl'.q = y.q /\ tl'.protocol = y.protocol
        /\ tl'.incoming = y.incoming /\ tl'.buffer = y.buffer /\ tl'.reading = y.reading
        /\ tl'.read = y.read /\ tl'.got = y.got /\ tl'.made = y.made /\ tl'.early = y.early
        /\ tl'.closing = y.closing /\ tl'.server_side = y.server_side
    BY <2>1, <2>2 DEF TlsType
  <2> QED BY <2>1, <2>3, <2>4 DEF TlsPhases, Unwoken
<1> QED BY <1>2, <1>4, <1>5, <1>6

\* A callback of start_tls() or of the transport runs.
LEMMA TlsRunsInv ==
    ASSUME TlsInv, TlsRuns
    PROVE  TlsInv'
<1> USE DEF TlsInv
<1> DEFINE x == Next1(tl)
<1>1. /\ tl.q # <<>> /\ tl.protocol = "ssl" /\ tl.at # "idle" /\ tl.at # "raised"
      /\ Head(tl.q) # "made" => tl.made
  BY DEF TlsRuns, Runs, TlsPhases, TlsType
<1>2. /\ tl.q \in Seq(Entries) /\ Tail(tl.q) \in Seq(Entries)
      /\ \A i \in 1..Len(Tail(tl.q)) : i + 1 \in 1..Len(tl.q) /\ Tail(tl.q)[i] = tl.q[i + 1]
  <2>1. tl.q \in Seq(Entries)
    BY DEF TlsType
  <2> QED BY <1>1, <2>1
<1>3. x \in TlsType
  BY <1>2, ZenonT(60) DEF TlsType, Next1
<1>4. /\ x.at = tl.at /\ x.fut = tl.fut /\ x.q = Tail(tl.q) /\ x.protocol = tl.protocol
      /\ x.incoming = tl.incoming /\ x.read = tl.read /\ x.got = tl.got /\ x.made = tl.made
      /\ x.early = tl.early /\ x.server_side = tl.server_side
  BY DEF TlsType, Next1
<1>5. Unwoken(x)
  BY <1>2, <1>4 DEF TlsPhases, Unwoken
<1>6. \/ tl' = [x EXCEPT !.made = TRUE]
      \/ Head(tl.q) = "resume" /\ tl' = [x EXCEPT !.reading = ~tl.closing]
      \/ Head(tl.q) = "wakeup" /\ tl' = [x EXCEPT !.at = "returned"]
      \/ /\ Head(tl.q) = "wakeup"
         /\ tl' = [tl EXCEPT !.at = "raised", !.closing = TRUE, !.reading = FALSE, !.q = <<>>]
  BY DEF TlsRuns, Runs
<1> HIDE DEF x
<1>7. ASSUME tl' \in TlsType, tl'.made, tl'.at \in {"waiting", "returned"}, tl'.fut = x.fut, tl'.q = x.q,
             tl'.protocol = x.protocol, tl'.incoming = x.incoming, tl'.read = x.read, tl'.got = x.got,
             tl'.early = x.early, tl'.server_side = x.server_side
      PROVE  TlsInv'
  BY <1>1, <1>4, <1>5, <1>7 DEF TlsPhases, Unwoken
<1>8. x.at \in {"waiting", "returned"}
  BY <1>1, <1>3, <1>4 DEF TlsType
<1>9. CASE tl' = [x EXCEPT !.made = TRUE]
  <2>1. tl' \in TlsType
    BY <1>3, <1>9, ZenonT(60) DEF TlsType
  <2> QED BY <1>3, <1>7, <1>8, <1>9, <2>1 DEF TlsType
<1>10. CASE Head(tl.q) = "resume" /\ tl' = [x EXCEPT !.reading = ~tl.closing]
  <2>1. (~tl.closing) \in BOOLEAN
    BY Zenon
  <2>2. tl' \in TlsType
    BY <1>3, <1>10, <2>1, ZenonT(60) DEF TlsType
  <2>3. tl.made
    BY <1>1, <1>10
  <2> QED BY <1>3, <1>4, <1>7, <1>8, <1>10, <2>2, <2>3, ZenonT(60) DEF TlsType
<1>11. CASE Head(tl.q) = "wakeup" /\ tl' = [x EXCEPT !.at = "returned"]
  <2>1. tl' \in TlsType
    BY <1>3, <1>11, ZenonT(60) DEF TlsType
  <2>2. tl.made
    BY <1>1, <1>11
  <2> QED BY <1>3, <1>4, <1>7, <1>11, <2>1, <2>2 DEF TlsType
<1>12. CASE /\ Head(tl.q) = "wakeup"
            /\ tl' = [tl EXCEPT !.at = "raised", !.closing = TRUE, !.reading = FALSE, !.q = <<>>]
  <2>1. <<>> \in Seq(Entries)
    OBVIOUS
  <2>2. tl' \in TlsType
    BY <1>12, <2>1, ZenonT(60) DEF TlsType
  <2>3. tl.made /\ tl.fut # "pending"
    <3>1. 1 \in 1..Len(tl.q) /\ Head(tl.q) = tl.q[1]
      BY <1>1, <1>2
    <3> QED BY <1>1, <1>12, <3>1 DEF TlsPhases, Unwoken
  <2>4. /\ tl'.at = "raised" /\ tl'.closing /\ tl'.q = <<>> /\ tl'.fut = tl.fut /\ tl'.protocol = tl.protocol
        /\ tl'.incoming = tl.incoming /\ tl'.read = tl.read /\ tl'.got = tl.got /\ tl'.made = tl.made
        /\ tl'.early = tl.early /\ tl'.server_side = tl.server_side
    BY <1>12 DEF TlsType
  <2> QED BY <1>1, <2>2, <2>3, <2>4 DEF TlsPhases, Unwoken
<1> QED BY <1>6, <1>9, <1>10, <1>11, <1>12

-----------------------------------------------------------------------------
EndpointInv == DatagramInv /\ PipeInv /\ TlsInv

\* None of the three has begun.
LEMMA EndpointInitInv == EndpointInit => EndpointInv
  BY DatagramInitInv, PipeInitInv, TlsInitInv DEF EndpointInit, EndpointInv

\* Every step keeps the invariant of the call that takes it.
LEMMA EndpointStepInv == EndpointInv /\ [EndpointNext]_endpointVars => EndpointInv'
<1> SUFFICES ASSUME EndpointInv, [EndpointNext]_endpointVars PROVE EndpointInv'
  OBVIOUS
<1>1. UNCHANGED dg => DatagramInv'
  BY DEF EndpointInv, DatagramInv
<1>2. UNCHANGED pp => PipeInv'
  BY DEF EndpointInv, PipeInv
<1>3. UNCHANGED tl => TlsInv'
  BY DEF EndpointInv, TlsInv
<1>4. CASE DatagramNext
  <2>1. UNCHANGED <<pp, tl>>
    BY <1>4 DEF DatagramNext, create_datagram_endpoint, Answered, _resolve_datagram, _bind_datagram,
                _attach_datagram, DatagramRuns, DatagramElse
  <2>2. DatagramInv'
    BY <1>4, OpensInv, RunsInv, ElseInv DEF DatagramNext, EndpointInv
  <2> QED BY <1>2, <1>3, <2>1, <2>2 DEF EndpointInv
<1>5. CASE PipeNext
  <2>1. UNCHANGED <<dg, tl>>
    BY <1>5 DEF PipeNext, _connect_pipe, PipeRuns, PeerGone, Polled, _hangup, Written, PipeElse
  <2>2. PipeInv'
    BY <1>5, PipeStepInv DEF EndpointInv
  <2> QED BY <1>1, <1>3, <2>1, <2>2 DEF EndpointInv
<1>6. CASE TlsNext
  <2>1. UNCHANGED <<dg, pp>>
    BY <1>6 DEF TlsNext, Received, Application, start_tls, Handshake, TlsRuns, TlsCancelled
  <2>2. TlsInv'
    BY <1>6, RecordsInv, StartsTls, HandshakeInv, TlsRunsInv DEF TlsNext, EndpointInv
  <2> QED BY <1>1, <1>2, <2>1, <2>2 DEF EndpointInv
<1> QED BY <1>1, <1>2, <1>3, <1>4, <1>5, <1>6 DEF EndpointNext, EndpointInv, endpointVars

\* It says what the three calls promise.
LEMMA EndpointInvImplies == EndpointInv => DatagramOwned /\ PollGoesFirst /\ HandshakeGetsAll
<1> SUFFICES ASSUME EndpointInv PROVE DatagramOwned /\ PollGoesFirst /\ HandshakeGetsAll
  OBVIOUS
<1>1. DatagramOwned
  BY DEF EndpointInv, DatagramInv, DatagramPhases, DatagramOwned
<1>2. PollGoesFirst
  BY DEF EndpointInv, PipeInv, PipePhases, PipeType, Consistent, PollGoesFirst
<1>3. tl.protocol = "ssl" /\ tl.server_side => tl.incoming = [i \in 1..(tl.got - tl.read) |-> tl.read + i]
  <2>1. tl.incoming \in Seq(Nat) /\ tl.read \in Nat /\ tl.got \in Nat
    BY DEF EndpointInv, TlsInv, TlsType
  <2> QED BY <2>1, CountsIs DEF EndpointInv, TlsInv, TlsPhases
<1>4. HandshakeGetsAll
  BY <1>3 DEF EndpointInv, TlsInv, TlsPhases, HandshakeGetsAll
<1> QED BY <1>1, <1>2, <1>4
=============================================================================
