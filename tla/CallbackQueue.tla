---------------------------- MODULE CallbackQueue ----------------------------
(***************************************************************************)
(* What call_soon and call_soon_threadsafe promise together: one queue,    *)
(* in registration order whichever thread registered, from which the loop  *)
(* takes one callback at a time, loses none and runs none twice.  Closing  *)
(* the loop discards what is left.                                         *)
(***************************************************************************)
EXTENDS Sequences

CONSTANTS Soon, None

VARIABLES waiting, executing

vars == <<waiting, executing>>

Init == waiting = <<>> /\ executing = None

\* a callback is registered behind all earlier ones
Register(c) ==
    /\ waiting' = Append(waiting, c)
    /\ UNCHANGED executing

\* the oldest callback begins to run
Begin ==
    /\ executing = None /\ waiting # <<>>
    /\ executing' = Head(waiting)
    /\ waiting' = Tail(waiting)

End ==
    /\ executing # None
    /\ executing' = None
    /\ UNCHANGED waiting

Discard ==
    /\ executing = None
    /\ waiting' = <<>>
    /\ UNCHANGED executing

Next == (\E c \in Soon : Register(c)) \/ Begin \/ End \/ Discard

Spec == Init /\ [][Next]_vars
=============================================================================
