------------------------------ MODULE Signals ------------------------------
(***************************************************************************)
(* Ownership of the process-wide signal state by several event loops       *)
(* (zuvloop/_loop.py, zuvloop/_base.py).                                   *)
(*                                                                         *)
(* A signal's disposition and the wakeup descriptor belong to the process, *)
(* so every loop carries a token (SignalOwner), and two globals say whose  *)
(* registration is in force.  A registration is several calls on the main  *)
(* thread, rolled back when one raises.  Between any two of them may run   *)
(* the close() of a loop the garbage collector finds, the close() of one   *)
(* on a worker thread, and the cleanup such a close() leaves to the main   *)
(* thread (Py_AddPendingCall).                                             *)
(***************************************************************************)
EXTENDS Naturals, Sequences, SequencesExt

CONSTANTS
    Loops,      \* event loops; a loop stands for its token and for its csock
    Sigs,       \* signal numbers
    None,       \* no owner, no descriptor
    MaxFails,   \* signal.signal(), set_wakeup_fd() and _defer_close() calls that raise
    MaxDepth    \* calls nested on the main thread

VARIABLES
    loops,      \* per loop: _signal_handlers' keys, _wakeup_fd_attached, the
                \* token's flag, its csock and how often that was closed
    proc,       \* _signal_owners, _wakeup_fd_owner, the signals whose handler is
                \* _noop_signal_handler, the csock the process writes to; and two
                \* histories: signals whose reset raised, and signals whose token
                \* or whose cleanup went while they were not reset
    main,       \* calls in progress on the main thread, the innermost last
    worker,     \* the close() in progress on a worker thread
    pending,    \* cleanups handed to _defer_close(), oldest first
    running,    \* the loop the main thread runs
    fails       \* calls that have raised so far

vars == <<loops, proc, main, worker, pending, running, fails>>

\* A call in progress: its next step and, for a registration, the locals
\* previous_entry, previous_owner and WakeupState.  "before" is a history of
\* what the registration found.
NoWake == [held |-> FALSE, fd |-> None, owner |-> None, att |-> FALSE]
Frame(op, l, s, at, todo) ==
    [op |-> op, l |-> l, s |-> s, at |-> at, todo |-> todo, entry |-> FALSE,
     owner |-> None, stale |-> FALSE, wake |-> NoWake, before |-> <<>>]

Idle == main = <<>>
top == Last(main)
At(p) == ~Idle /\ top.at = p
me == loops[top.l]
Call(f) == main' = Append(main, f)
Return == main' = Front(main)
Resume(f) == main' = [main EXCEPT ![Len(main)] = f]
Goto(p) == Resume([top EXCEPT !.at = p])

Gone(o) == o # None /\ loops[o].finalized
Free(l) == ~loops[l].finalized /\ worker.l # l
InUse(l) == running = l \/ worker.l = l \/ \E i \in DOMAIN main : main[i].l = l

\* A call that may raise OSError either does or does not.
Raises == fails < MaxFails /\ fails' = fails + 1
Succeeds == fails' = fails

\* What a step on the main thread leaves alone.
Others == UNCHANGED <<worker, pending, running>>
Sure == Succeeds /\ Others

WithoutWake(p) == [p EXCEPT !.wakeFd = None, !.wakeOwner = None]
WithReset(p, s) == [p EXCEPT !.noop = @ \ {s}]

Rest == [at |-> "idle", l |-> None, s |-> None, todo |-> {}]

Init ==
    /\ loops = [l \in Loops |-> [handlers |-> {}, attached |-> FALSE, finalized |-> FALSE,
                                 csock |-> "open"]]
    /\ proc = [owner |-> [s \in Sigs |-> None], wakeOwner |-> None, noop |-> {},
               wakeFd |-> None, stuck |-> {}, orphaned |-> {}]
    /\ main = <<>>
    /\ worker = Rest
    /\ pending = <<>>
    /\ running = None
    /\ fails = 0

-----------------------------------------------------------------------------
(* add_signal_handler() *)

\* Read what the registration replaces.
add_signal_handler(l, s) ==
    /\ Idle /\ Free(l)
    /\ Call([Frame("add", l, s, "publish", {}) EXCEPT
                !.entry = s \in loops[l].handlers,
                !.owner = proc.owner[s],
                !.before = <<s \in proc.noop, proc.wakeFd, loops[l].attached>>])
    /\ UNCHANGED <<loops, proc>> /\ Sure

\* The entry and the token are visible before anything process-wide changes.
Publish ==
    /\ At("publish") /\ Goto("attach")
    /\ loops' = [loops EXCEPT ![top.l].handlers = @ \cup {top.s}]
    /\ proc' = [proc EXCEPT !.owner[top.s] = top.l]
    /\ Sure

\* _attach_wakeup_fd() up to the system call: the token goes first.
Attach ==
    /\ At("attach")
    /\ Resume([top EXCEPT !.at = "setfd", !.wake.owner = proc.wakeOwner,
                          !.wake.att = me.attached])
    /\ proc' = [proc EXCEPT !.wakeOwner = top.l]
    /\ UNCHANGED loops /\ Sure

\* set_wakeup_fd() returns the descriptor it replaces; run_forever() ignores it.
AttachSucceeds ==
    /\ At("setfd") /\ Succeeds
    /\ proc' = [proc EXCEPT !.wakeFd = top.l]
    /\ loops' = [loops EXCEPT ![top.l].attached = TRUE]
    /\ \/ top.op = "run" /\ Return /\ running' = top.l
       \/ /\ top.op = "add" /\ UNCHANGED running
          /\ Resume([top EXCEPT !.at = "install", !.wake.held = TRUE,
                                !.wake.fd = proc.wakeFd])
    /\ UNCHANGED <<worker, pending>>

\* set_wakeup_fd() raises: the token goes back unless its holder is gone.
AttachFails ==
    /\ At("setfd") /\ Raises
    /\ proc' = IF Gone(top.wake.owner) THEN WithoutWake(proc)
               ELSE [proc EXCEPT !.wakeOwner = top.wake.owner]
    /\ IF top.op = "run" THEN Return ELSE Goto("rollback")
    /\ UNCHANGED loops /\ Others

\* signal.signal(sig, _noop_signal_handler).
Install ==
    /\ At("install")
    /\ \/ /\ Succeeds /\ Return
          /\ proc' = [proc EXCEPT !.noop = @ \cup {top.s}, !.stuck = @ \ {top.s},
                                  !.orphaned = @ \ {top.s}]
       \/ Raises /\ Goto("rollback") /\ UNCHANGED proc
    /\ UNCHANGED loops /\ Others

\* A reset inside the except clause that raises ends the rollback there.
ResetRaises == Raises /\ Return

\* The except clause finishes the reset a finalized owner's cleanup skipped.
Rollback ==
    /\ At("rollback")
    /\ \/ /\ Succeeds
          /\ Resume([top EXCEPT !.at = "restore", !.stale = Gone(top.owner)])
          /\ proc' = IF Gone(top.owner) THEN WithReset(proc, top.s) ELSE proc
       \/ ResetRaises /\ Gone(top.owner) /\ proc' = [proc EXCEPT !.stuck = @ \cup {top.s}]
    /\ UNCHANGED loops /\ Others

\* The token is dropped whoever held it.
RestoreOwnerNone ==
    /\ At("restore") /\ Goto("restoreFd")
    /\ loops' = [loops EXCEPT ![top.l].handlers = IF top.entry THEN @ ELSE @ \ {top.s}]
    /\ proc' = [proc EXCEPT !.owner[top.s] = None]
    /\ Sure

\* The entry and the token of before.
RestoreOwner ==
    /\ At("restore")
    /\ loops' = [loops EXCEPT ![top.l].handlers = IF top.entry THEN @ ELSE @ \ {top.s}]
    /\ LET owner == IF top.stale THEN None ELSE top.owner IN
        /\ proc' = [proc EXCEPT !.owner[top.s] = owner]
        /\ Goto(IF owner = None THEN "restoreFd" ELSE "revalidate")
    /\ Sure

RevalidateNot == At("revalidate") /\ Goto("restoreFd") /\ UNCHANGED <<loops, proc>> /\ Sure

\* That owner may have been finalized since it was asked.
Revalidate ==
    /\ At("revalidate")
    /\ LET races == Gone(top.owner) /\ proc.owner[top.s] = top.owner
           p == [proc EXCEPT !.owner[top.s] = None]
       IN \/ Succeeds /\ Goto("restoreFd") /\ proc' = IF races THEN WithReset(p, top.s) ELSE proc
          \/ ResetRaises /\ races /\ proc' = [p EXCEPT !.stuck = @ \cup {top.s}]
    /\ UNCHANGED loops /\ Others

\* _restore_wakeup_fd(): the assertion, then the saved descriptor unless it is
\* stale.  A descriptor closed since the check makes the call raise.
RestoreFd ==
    /\ At("restoreFd")
    /\ LET w == top.wake
           abandon == Gone(w.owner) \/ (w.fd # None /\ loops[w.fd].csock = "closed")
       IN IF w.held /\ proc.wakeOwner = top.l
          THEN /\ proc' = [proc EXCEPT !.wakeFd = IF abandon THEN None ELSE w.fd]
               /\ Resume([top EXCEPT !.at = "restoreToken", !.stale = abandon])
          ELSE Goto("raise") /\ UNCHANGED proc
    /\ UNCHANGED loops /\ Sure

RestoreToken ==
    /\ At("restoreToken") /\ Goto("recheckFd")
    /\ proc' = [proc EXCEPT !.wakeOwner = IF top.stale THEN None ELSE top.wake.owner]
    /\ loops' = [loops EXCEPT ![top.l].attached = ~top.stale /\ top.wake.att]
    /\ Sure

RecheckFdNot == At("recheckFd") /\ Goto("raise") /\ UNCHANGED <<loops, proc>> /\ Sure

\* The cleanup may have come between those two steps.
RecheckFd ==
    /\ At("recheckFd") /\ Goto("raise")
    /\ IF Gone(top.wake.owner) /\ proc.wakeOwner = top.wake.owner
       THEN /\ proc' = WithoutWake(proc)
            /\ loops' = [loops EXCEPT ![top.l].attached = FALSE]
       ELSE UNCHANGED <<loops, proc>>
    /\ Sure

\* RuntimeError: the signal cannot be caught.
RaiseToCaller == At("raise") /\ Return /\ UNCHANGED <<loops, proc>> /\ Sure

-----------------------------------------------------------------------------
(* remove_signal_handler(), called or once per signal from close() *)

remove_signal_handler(l, s) ==
    /\ Idle /\ Free(l) /\ s \in loops[l].handlers
    /\ Call(Frame("remove", l, s, "reset", {}))
    /\ UNCHANGED <<loops, proc>> /\ Sure

\* The default disposition comes back if the signal is still this loop's.
Reset ==
    /\ At("reset")
    /\ \/ Succeeds /\ proc.owner[top.s] # top.l /\ Goto("forget") /\ UNCHANGED proc
       \/ Succeeds /\ proc.owner[top.s] = top.l /\ Goto("forget") /\ proc' = WithReset(proc, top.s)
       \/ /\ Raises /\ proc.owner[top.s] = top.l
          /\ IF top.op = "remove" THEN Return ELSE Goto("preserve")
          /\ UNCHANGED proc
    /\ UNCHANGED loops /\ Others

\* _detach_wakeup_fd(): nothing while handlers are left, or on another thread.
Forgotten(l, s, detach) ==
    LET left == loops[l].handlers \ {s}
        detaches == detach /\ loops[l].attached /\ left = {}
        p == [proc EXCEPT !.owner[s] = IF @ = l THEN None ELSE @,
                          !.orphaned = IF proc.owner[s] = l /\ s \in proc.noop
                                       THEN @ \cup {s} ELSE @]
    IN /\ loops' = [loops EXCEPT ![l].handlers = left, ![l].attached = @ /\ ~detaches]
       /\ proc' = IF detaches /\ proc.wakeOwner = l THEN WithoutWake(p) ELSE p

Forget ==
    /\ At("forget")
    /\ Forgotten(top.l, top.s, TRUE)
    /\ IF top.op = "remove" THEN Return ELSE Goto("each")
    /\ Sure

-----------------------------------------------------------------------------
(* close(), called on the main thread or by __del__ in the middle of a call *)

close(l) ==
    /\ Len(main) < MaxDepth
    /\ ~loops[l].finalized /\ ~InUse(l)
    /\ loops' = [loops EXCEPT ![l].finalized = TRUE]
    /\ Call(Frame("close", l, None, "each", loops[l].handlers))
    /\ UNCHANGED proc /\ Sure

CloseEach ==
    /\ At("each")
    /\ \/ \E s \in top.todo : Resume([top EXCEPT !.at = "reset", !.s = s, !.todo = @ \ {s}])
       \/ top.todo = {} /\ Goto("preserve")
    /\ UNCHANGED <<loops, proc>> /\ Sure

\* What the resets left behind needs a cleanup, which takes the descriptor
\* over; otherwise the teardown of the self-pipe closes it.
NeedsCleanup(l) == loops[l].handlers # {} \/ loops[l].attached
Detached(l) == [loops EXCEPT ![l].csock = "detached", ![l].handlers = {}, ![l].attached = FALSE]
CsockClosed(l) == [loops EXCEPT ![l].csock = "closed"]

Preserve ==
    /\ At("preserve")
    /\ \/ /\ NeedsCleanup(top.l)
          /\ loops' = Detached(top.l)
          /\ Resume([top EXCEPT !.at = "unwake", !.todo = me.handlers])
       \/ ~NeedsCleanup(top.l) /\ loops' = CsockClosed(top.l) /\ Return
    /\ UNCHANGED proc /\ Sure

\* _finish_deferred_signal_cleanup(), from close() or as a pending call.
\* Pending calls do not nest.
closeFromPending ==
    /\ pending # <<>> /\ Len(main) < MaxDepth
    /\ \A i \in DOMAIN main : main[i].op # "cleanup"
    /\ Call(Frame("cleanup", Head(pending).l, None, "unwake", Head(pending).todo))
    /\ pending' = Tail(pending)
    /\ UNCHANGED <<loops, proc, worker, running, fails>>

CleanupWake ==
    /\ At("unwake") /\ Goto("resets")
    /\ proc' = IF proc.wakeOwner = top.l THEN WithoutWake(proc) ELSE proc
    /\ UNCHANGED loops /\ Sure

\* A signal taken over by another loop is not reset, one whose reset raises
\* keeps its owner, and the others are still tried.
CleanupReset ==
    /\ At("resets")
    /\ \E s \in top.todo :
        /\ Resume([top EXCEPT !.todo = @ \ {s}])
        /\ \/ proc.owner[s] # top.l /\ Succeeds /\ UNCHANGED proc
           \/ /\ proc.owner[s] = top.l /\ Succeeds
              /\ proc' = WithReset([proc EXCEPT !.owner[s] = None], s)
           \/ /\ proc.owner[s] = top.l /\ Raises
              /\ proc' = [proc EXCEPT !.stuck = @ \cup {s}]
    /\ UNCHANGED loops /\ Others

CleanupCloses ==
    /\ At("resets") /\ top.todo = {}
    /\ loops' = CsockClosed(top.l) /\ Return
    /\ UNCHANGED proc /\ Sure

-----------------------------------------------------------------------------
(* close() on a worker thread: signal.signal() always raises there, and     *)
(* _detach_wakeup_fd() does nothing                                         *)

OnWorker == UNCHANGED <<main, running, fails>>

CloseOnWorker(l) ==
    /\ worker.at = "idle"
    /\ ~loops[l].finalized /\ ~InUse(l)
    /\ loops' = [loops EXCEPT ![l].finalized = TRUE]
    /\ worker' = [at |-> "each", l |-> l, s |-> None, todo |-> loops[l].handlers]
    /\ UNCHANGED <<proc, pending>> /\ OnWorker

WorkerEach ==
    /\ worker.at = "each"
    /\ \/ \E s \in worker.todo :
            worker' = IF proc.owner[s] = worker.l THEN [worker EXCEPT !.at = "preserve"]
                      ELSE [worker EXCEPT !.at = "forget", !.s = s, !.todo = @ \ {s}]
       \/ worker.todo = {} /\ worker' = [worker EXCEPT !.at = "preserve"]
    /\ UNCHANGED <<loops, proc, pending>> /\ OnWorker

WorkerForget ==
    /\ worker.at = "forget"
    /\ Forgotten(worker.l, worker.s, FALSE)
    /\ worker' = [worker EXCEPT !.at = "each"]
    /\ UNCHANGED pending /\ OnWorker

\* What is left goes to the main thread with the detached descriptor.  When the
\* interpreter's queue is full, _defer_close() raises and both are given up.
WorkerPreserve ==
    /\ worker.at = "preserve"
    /\ LET l == worker.l IN
        \/ /\ NeedsCleanup(l)
           /\ loops' = Detached(l)
           /\ pending' = Append(pending, [l |-> l, todo |-> loops[l].handlers])
           /\ UNCHANGED proc /\ Succeeds
        \/ /\ NeedsCleanup(l)
           /\ loops' = Detached(l)
           /\ proc' = [proc EXCEPT !.orphaned = @ \cup {s \in proc.noop : proc.owner[s] = l}]
           /\ UNCHANGED pending /\ Raises
        \/ ~NeedsCleanup(l) /\ loops' = CsockClosed(l) /\ UNCHANGED <<proc, pending>> /\ Succeeds
    /\ worker' = Rest
    /\ UNCHANGED <<main, running>>

-----------------------------------------------------------------------------
(* run_forever() takes the wakeup descriptor if the loop has handlers, and   *)
(* gives it up at the end if they are gone                                   *)

run_forever(l) ==
    /\ Idle /\ running = None /\ Free(l)
    /\ IF loops[l].handlers # {}
       THEN Call(Frame("run", l, None, "attach", {})) /\ UNCHANGED running
       ELSE running' = l /\ UNCHANGED main
    /\ UNCHANGED <<loops, proc, worker, pending, fails>>

RunEnds ==
    /\ Idle /\ running # None
    /\ running' = None
    /\ LET gives == loops[running].attached /\ loops[running].handlers = {} IN
        /\ loops' = [loops EXCEPT ![running].attached = @ /\ ~gives]
        /\ proc' = IF gives /\ proc.wakeOwner = running THEN WithoutWake(proc) ELSE proc
    /\ UNCHANGED <<main, worker, pending, fails>>

Registration ==
    \/ Publish \/ Attach \/ AttachSucceeds \/ AttachFails \/ Install \/ Rollback
    \/ RestoreOwner \/ Revalidate \/ RestoreFd \/ RestoreToken \/ RecheckFd \/ RaiseToCaller
Closing ==
    \/ Reset \/ Forget \/ CloseEach \/ Preserve
    \/ closeFromPending \/ CleanupWake \/ CleanupReset \/ CleanupCloses
Worker == WorkerEach \/ WorkerForget \/ WorkerPreserve

Next ==
    \/ \E l \in Loops, s \in Sigs : add_signal_handler(l, s) \/ remove_signal_handler(l, s)
    \/ \E l \in Loops : close(l) \/ CloseOnWorker(l) \/ run_forever(l)
    \/ Registration \/ Closing \/ Worker \/ RunEnds

Spec == Init /\ [][Next]_vars

-----------------------------------------------------------------------------
\* Between calls, the descriptor the process writes signal numbers to is the
\* token holder's and not a closed one: neither a failed registration that
\* restores what it saved, nor a close() on either thread, nor a cleanup that
\* comes late, leaves another there.
WakeFdValid ==
    Idle => /\ proc.wakeFd = proc.wakeOwner
            /\ proc.wakeFd # None => loops[proc.wakeFd].csock # "closed"

CleanupPending(o, s) ==
    \/ worker.l = o
    \/ \E i \in DOMAIN pending : pending[i].l = o /\ s \in pending[i].todo

\* Between calls, a signal that the no-op handler swallows belongs to an open
\* loop that has a handler for it, or to one whose cleanup is still to come; and
\* a handler that an open loop has registered for a signal it owns keeps the
\* signal caught: no other loop's rollback, close() or late cleanup resets it.
\* Excepted are a signal whose reset raised, which the code leaves with its
\* owner, and one whose former owner was closed by a worker thread in the middle
\* of a rollback: the cleanup then forgets the owner without a reset.  Nor is a
\* signal that the worker's close() owned accounted for when its cleanup found the
\* queue of the interpreter full.
SignalsAccounted ==
    Idle => \A s \in Sigs \ proc.stuck :
        LET o == proc.owner[s] IN
        /\ s \in proc.noop \ proc.orphaned =>
              o # None /\ (Gone(o) => CleanupPending(o, s)) /\ (~Gone(o) => s \in loops[o].handlers)
        /\ o # None /\ ~Gone(o) /\ s \in loops[o].handlers => s \in proc.noop

\* A registration that raises leaves the entry, the token, the disposition and
\* the wakeup descriptor as it found them, except that nothing goes back to a
\* loop finalized meanwhile.
RollbackComplete ==
    At("raise") =>
        LET s == top.s  fd == top.before[2] IN
        /\ (s \in me.handlers) = top.entry
        /\ Gone(top.owner) \/ (proc.owner[s] = top.owner /\ (s \in proc.noop) = top.before[1])
        /\ Gone(fd) \/ (proc.wakeFd = fd /\ me.attached = top.before[3])

=============================================================================
