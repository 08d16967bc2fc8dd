--------------------------- MODULE ProcessReaper ---------------------------
(***************************************************************************)
(* Child processes on Linux: zuvloop/_process.py, where one thread of the  *)
(* process polls the children of every loop, and send_signal() of the      *)
(* subprocess transport in zuvloop/_connect.py.                            *)
(*                                                                         *)
(* The loops' threads spawn and signal, the reaper thread polls, and the   *)
(* kernel hands the pid of a child to another one once the child has been  *)
(* waited for, by whichever of the threads came first.                     *)
(***************************************************************************)
EXTENDS Naturals, FiniteSets

CONSTANTS
    Children,   \* the children
    Loops,      \* the loops, each with a thread of its own
    Pids,       \* the kernel's pids
    Nothing     \* no child

ASSUME NothingAssumption == Nothing \notin Children \cup Loops \cup Pids

VARIABLES
    os,           \* the kernel: what became of a child
    pid,          \* its pid
    processes,    \* ProcessReaper.processes, by pid
    reaper,       \* where ProcessReaper.run() is
    scan,         \* the rest of its snapshot
    found,        \* the child whose exit it found
    reports,      \* how often exited() was scheduled for a child
    exited,       \* Popen.returncode is set
    loop,         \* the loop of a child
    killing,      \* by loop, the child send_signal() is about to kill
    registering,  \* by loop, the child whose Popen() is about to register it
    closed,       \* the loops that are closed
    overwritten   \* history: the children whose entry another one took over

reaperVars == <<os, pid, processes, reaper, scan, found, reports, exited,
          loop, killing, registering, closed, overwritten>>
kernel == <<os, pid, loop>>
thread == <<reaper, scan, found>>
calls == <<killing, registering>>

Holders(p) == {c \in Children : pid[c] = p /\ os[c] \in {"running", "zombie"}}
Registered(c) == os[c] # "none" /\ registering[loop[c]] # c

ReaperInit ==
    /\ os = [c \in Children |-> "none"]
    /\ pid = [c \in Children |-> Nothing] /\ loop = [c \in Children |-> Nothing]
    /\ processes = [p \in Pids |-> Nothing]
    /\ reaper = "waiting" /\ scan = {} /\ found = Nothing
    /\ reports = [c \in Children |-> 0] /\ exited = {}
    /\ killing = [l \in Loops |-> Nothing] /\ registering = [l \in Loops |-> Nothing]
    /\ closed = {} /\ overwritten = {}

-----------------------------------------------------------------------------
(* The kernel *)

Exits(c) ==
    /\ os[c] = "running"
    /\ os' = [os EXCEPT ![c] = "zombie"]
    /\ UNCHANGED <<pid, loop, processes, thread, reports, exited, calls, closed, overwritten>>

\* subprocess.Popen.poll(): waits for a child that has exited.
poll(c) == os' = [os EXCEPT ![c] = IF @ = "zombie" THEN "reaped" ELSE @]
returncode(c) == os[c] \in {"zombie", "reaped"}

-----------------------------------------------------------------------------
(* The loops *)

InLoop(l) == killing[l] = Nothing /\ registering[l] = Nothing

\* subprocess.Popen() in Popen.__init__().
spawn(c, l) ==
    /\ InLoop(l) /\ l \notin closed /\ os[c] = "none"
    /\ os' = [os EXCEPT ![c] = "running"]
    /\ loop' = [loop EXCEPT ![c] = l]
    /\ \E p \in Pids : Holders(p) = {} /\ pid' = [pid EXCEPT ![c] = p]
    /\ registering' = [registering EXCEPT ![l] = c]
    /\ UNCHANGED <<processes, thread, reports, exited, killing, closed, overwritten>>

register(l) ==
    /\ registering[l] # Nothing
    /\ processes' = [processes EXCEPT ![pid[registering[l]]] = registering[l]]
    /\ registering' = [registering EXCEPT ![l] = Nothing]
    /\ overwritten' = overwritten \union ({processes[pid[registering[l]]]} \ {Nothing})
    /\ UNCHANGED <<kernel, thread, reports, exited, killing, closed>>

\* The loop runs the exited() the reaper scheduled.
exitedCalled(c) ==
    /\ reports[c] > 0 /\ c \notin exited
    /\ InLoop(loop[c]) /\ loop[c] \notin closed
    /\ exited' = exited \union {c}
    /\ UNCHANGED <<kernel, processes, thread, reports, calls, closed, overwritten>>

\* send_signal(): nothing for a child known to have exited; otherwise the
\* standard library polls, and goes on to os.kill() if the child still runs.
send_signal(c) ==
    /\ Registered(c) /\ InLoop(loop[c]) /\ c \notin exited
    /\ poll(c)
    /\ killing' = [killing EXCEPT ![loop[c]] = IF returncode(c) THEN Nothing ELSE c]
    /\ UNCHANGED <<pid, loop, processes, thread, reports, exited, registering, closed, overwritten>>

kill(l) ==
    /\ killing[l] # Nothing
    /\ killing' = [killing EXCEPT ![l] = Nothing]
    /\ UNCHANGED <<kernel, processes, thread, reports, exited, registering, closed, overwritten>>

close(l) ==
    /\ InLoop(l) /\ l \notin closed
    /\ closed' = closed \union {l}
    /\ UNCHANGED <<kernel, processes, thread, reports, exited, calls, overwritten>>

-----------------------------------------------------------------------------
(* The reaper thread *)

\* The snapshot, under the condition's lock, of a dictionary with entries.
snapshot ==
    /\ reaper = "waiting"
    /\ scan' = {processes[p] : p \in Pids} \ {Nothing}
    /\ scan' # {}
    /\ reaper' = "scanning"
    /\ UNCHANGED <<kernel, processes, found, reports, exited, calls, closed, overwritten>>

\* Mutant: an exit that send_signal() collected is taken for reported.
reaperPollsOwnReap(c) ==
    /\ reaper = "scanning" /\ c \in scan
    /\ scan' = scan \ {c}
    /\ poll(c)
    /\ IF os[c] = "zombie" THEN reaper' = "removing" /\ found' = c ELSE UNCHANGED <<reaper, found>>
    /\ UNCHANGED <<pid, loop, processes, reports, exited, calls, closed, overwritten>>

reaperPolls(c) ==
    /\ reaper = "scanning" /\ c \in scan
    /\ scan' = scan \ {c}
    /\ poll(c)
    /\ IF returncode(c) THEN reaper' = "removing" /\ found' = c ELSE UNCHANGED <<reaper, found>>
    /\ UNCHANGED <<pid, loop, processes, reports, exited, calls, closed, overwritten>>

\* The entry goes, unless another child has come by the pid.
removeEntry ==
    /\ reaper = "removing"
    /\ processes' = [processes EXCEPT ![pid[found]] = IF @ = found THEN Nothing ELSE @]
    /\ reaper' = "reporting"
    /\ UNCHANGED <<kernel, scan, found, reports, exited, calls, closed, overwritten>>

\* call_soon_threadsafe(), which raises RuntimeError on a closed loop.
report ==
    /\ reaper = "reporting"
    /\ reports' = IF loop[found] \in closed THEN reports ELSE [reports EXCEPT ![found] = @ + 1]
    /\ reaper' = "scanning" /\ found' = Nothing
    /\ UNCHANGED <<kernel, processes, scan, exited, calls, closed, overwritten>>

\* Round again, after a pause if there was nothing to report.
scanned ==
    /\ reaper = "scanning" /\ scan = {}
    /\ reaper' = "waiting"
    /\ UNCHANGED <<kernel, processes, scan, found, reports, exited, calls, closed, overwritten>>

-----------------------------------------------------------------------------

Reaper == snapshot \/ (\E c \in Children : reaperPolls(c)) \/ removeEntry \/ report \/ scanned

LoopCalls(l) == register(l) \/ kill(l)

ReaperNext ==
    \/ Reaper
    \/ \E l \in Loops : LoopCalls(l) \/ close(l) \/ \E c \in Children : spawn(c, l)
    \/ \E c \in Children : Exits(c) \/ exitedCalled(c) \/ send_signal(c)

ReaperSpec == ReaperInit /\ [][ReaperNext]_reaperVars

\* Every thread goes on, and a loop runs what was scheduled on it even if its
\* other callbacks keep signalling: the ready queue is served in order.
ReaperFairness == /\ WF_reaperVars(Reaper) /\ \A l \in Loops : WF_reaperVars(LoopCalls(l))
            /\ \A c \in Children : SF_reaperVars(exitedCalled(c)) /\ WF_reaperVars(reaperPolls(c))

-----------------------------------------------------------------------------

\* "Poll every stdlib child": a child that was registered and not reported is
\* in the dictionary, in the reaper's snapshot or in its hands, whatever other
\* child has its pid by now.  (A child whose exit send_signal() collected gives
\* its pid away while it is still in the dictionary, where the next child to
\* register takes its entry over.)
NoChildForgotten ==
    \A c \in Children \ overwritten :
        Registered(c) /\ reports[c] = 0 /\ loop[c] \notin closed
            => processes[pid[c]] = c \/ c \in scan \/ c = found

\* Every exit reaches the transport, whichever thread collected it, unless the
\* loop is closed first or the child's entry was taken over.
ChildReported ==
    \A c \in Children : Registered(c) /\ os[c] = "zombie"
                         ~> c \in exited \/ loop[c] \in closed \/ c \in overwritten

=============================================================================
