---------------------------- MODULE LibuvProcess ----------------------------
(***************************************************************************)
(* A child process where libuv spawns it (macOS): spawn_libuv() and        *)
(* open_stream() of zuvloop/_process.py, the handle of zig/process.zig,    *)
(* and _make_subprocess_transport() of zuvloop/_connect.py, which awaits   *)
(* the pipes of the child and undoes the call when that fails.             *)
(*                                                                         *)
(* asyncio's transport is external: it starts the child, connects the      *)
(* pipes in a task, and close() kills a child that has not exited.         *)
(***************************************************************************)
EXTENDS Naturals, Sequences

VARIABLE po

(***************************************************************************)
(* call, wake: the coroutine, and how its await ended; at, raised:         *)
(*   spawn_libuv()                                                         *)
(* reqs: the requests of the streams opened so far                         *)
(* open, again, lost: the descriptors that are open, that were closed      *)
(*   twice, that nobody has                                                *)
(* child: "none", "running", "zombie" or "reaped", with its pid free again *)
(* handle, EXITED: the uv_process_t, and the flag of its wrapper           *)
(* ready: exited() is in the ready queue; fatal: it could not be put there *)
(* returncode: the exit has reached Popen and the transport                *)
(* hit: history, what the signals sent have met; loop: it is open          *)
(***************************************************************************)
Child(i) == <<"child", i>>
Mine(i) == <<"mine", i>>
Inherits(r, i) == r = "none" /\ i = 1   \* no stdin: -1

NotSpawned ==
    [call |-> "none", wake |-> "no", at |-> "none", raised |-> FALSE, reqs |-> <<>>,
     open |-> {}, again |-> {}, lost |-> {}, child |-> "none", handle |-> "none", EXITED |-> FALSE,
     ready |-> FALSE, fatal |-> FALSE, returncode |-> FALSE, hit |-> {}, loop |-> TRUE]

PopenInit == po = NotSpawned

-----------------------------------------------------------------------------
(* spawn_libuv() *)

Popen == po = NotSpawned /\ po' = [po EXCEPT !.call = "starting", !.at = "opening"]

\* A stream of the child, and ours if it is a pipe: the file object that wraps
\* ours closes it, and if that cannot be made nothing does.
open_stream ==
    /\ po.at = "opening" /\ Len(po.reqs) < 3
    /\ \E r \in {"none", "pipe", "fd"} :
         LET i == Len(po.reqs) + 1
             kid == IF Inherits(r, i) THEN {} ELSE {Child(i)}
             mine == IF r = "pipe" THEN {Mine(i)} ELSE {}
             opened == [po EXCEPT !.open = @ \cup kid \cup mine, !.reqs = Append(@, r)]
         IN \/ po' = opened
            \/ po' = [po EXCEPT !.at = "leaving", !.raised = TRUE]
            \/ /\ r = "pipe"
               /\ po' = [opened EXCEPT !.lost = mine, !.at = "leaving", !.raised = TRUE]

spawnProcess ==
    /\ po.at = "opening" /\ Len(po.reqs) = 3
    /\ \/ po' = [po EXCEPT !.at = "leaving", !.child = "running", !.handle = "open"]
       \/ po' = [po EXCEPT !.at = "leaving", !.raised = TRUE]

Closed(y, fds) == [y EXCEPT !.open = @ \ fds, !.again = @ \cup (fds \ y.open)]
Opened(kinds) == {f \in kinds \X DOMAIN po.reqs :
                    /\ f[1] = "child" => ~Inherits(po.reqs[f[2]], f[2])
                    /\ f[1] = "mine" => po.reqs[f[2]] = "pipe"}

\* The except and finally clauses: our ends on an error, the child's in any case.
Leave ==
    /\ po.at = "leaving"
    /\ po' = [Closed(po, Opened(IF po.raised THEN {"child", "mine"} ELSE {"child"}) \ po.lost)
                EXCEPT !.at = "left", !.call = IF po.raised THEN "raised" ELSE "waiter"]

-----------------------------------------------------------------------------
(* The handle *)

ChildExits ==
    /\ po.child = "running"
    /\ po' = [po EXCEPT !.child = "zombie"]

\* libuv has waited for the child.
onExit ==
    /\ po.child = "zombie" /\ po.handle = "open" /\ po.loop
    /\ \E oom \in BOOLEAN :
         po' = [po EXCEPT !.child = "reaped", !.EXITED = TRUE, !.ready = ~oom, !.fatal = oom,
                        !.handle = "closing"]

onProcessClosed ==
    /\ po.handle = "closing"
    /\ po' = [po EXCEPT !.handle = "closed"]

\* Popen.exited() and the transport's _process_exited().
Popen_exited ==
    /\ po.ready /\ po.loop
    /\ po' = [po EXCEPT !.ready = FALSE, !.returncode = TRUE]

\* uv_process_kill(), by the handle's pid, however old.
sendSignalAnytime(y) == [y EXCEPT !.hit = @ \cup {y.child}]

\* sendSignal(): an exited child raises ProcessLookupError, which the transport
\* ignores.
sendSignal(y) == IF y.EXITED THEN y ELSE [y EXCEPT !.hit = @ \cup {y.child}]
transport_send_signal(y) == IF y.returncode THEN y ELSE sendSignal(y)

AppSignals ==
    /\ po.call = "returned"
    /\ po' = transport_send_signal(po)

\* close(): the loop closes the handle with the others, and runs nothing more.
CloseLoop ==
    /\ po.call # "starting" /\ po.loop
    /\ po' = [po EXCEPT !.loop = FALSE, !.ready = FALSE,
                      !.handle = IF @ = "open" THEN "closing" ELSE @]

-----------------------------------------------------------------------------
(* _make_subprocess_transport() *)

PipesConnected ==
    /\ po.call = "waiter" /\ po.wake = "no" /\ po.loop
    /\ \E how \in {"ok", "raised"} : po' = [po EXCEPT !.wake = how]

CancelCall ==
    /\ po.call \in {"waiter", "undoing"} /\ po.wake # "cancelled" /\ po.loop
    /\ po' = [po EXCEPT !.wake = "cancelled"]

\* transport.close(), which kills the child, and _wait().
CallResumes ==
    /\ po.call = "waiter" /\ po.wake # "no" /\ po.loop
    /\ po' = IF po.wake = "ok" THEN [po EXCEPT !.call = "returned", !.wake = "no"]
            ELSE [transport_send_signal(po) EXCEPT !.call = "undoing", !.wake = "no"]

Undone ==
    /\ po.call = "undoing" /\ po.loop
    /\ po.returncode \/ po.wake = "cancelled"
    /\ po' = [po EXCEPT !.call = IF po.wake = "cancelled" THEN "abandoned" ELSE "raised"]

PopenSteps ==
    \/ open_stream \/ spawnProcess \/ Leave \/ onExit \/ onProcessClosed \/ Popen_exited
    \/ PipesConnected \/ CallResumes \/ Undone
PopenNext == Popen \/ PopenSteps \/ ChildExits \/ AppSignals \/ CloseLoop \/ CancelCall

\* SIGKILL ends the child.
PopenFairness == WF_po(PopenSteps) /\ WF_po(po.hit # {} /\ ChildExits)

-----------------------------------------------------------------------------
\* Whatever raises while the streams are opened and the child is spawned, each
\* descriptor is closed once; our ends of the pipes are what a spawn leaves
\* open.  One that open() could not wrap is nobody's.
DescriptorsBalance ==
    /\ po.again = {}
    /\ po.at = "left" =>
          po.open = po.lost \cup IF po.raised THEN {} ELSE Opened({"mine"})

\* "It signals the child it spawned or nothing at all": the pid is not signalled
\* once libuv has waited for the child, also before exited() has run.
SignalsOwnChild == "reaped" \notin po.hit

\* A call that fails after the spawn has waited for its child by the time it
\* raises, unless it is cancelled a second time.
FailedCallReaps == po.call = "raised" => po.child \in {"none", "reaped"}

\* And it does raise, for the child it waits for has been killed.
FailedCallEnds == po.call = "undoing" ~> po.call # "undoing" \/ po.fatal \/ ~po.loop
=============================================================================
