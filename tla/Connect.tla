------------------------------ MODULE Connect ------------------------------
(***************************************************************************)
(* create_connection(), create_unix_connection() and                       *)
(* connect_accepted_socket() (zuvloop/_connect.py): the addresses of a     *)
(* host are tried one after the other or raced, and the socket that        *)
(* connects is wrapped in a transport.  Every attempt and the caller may   *)
(* be cancelled at each await.                                             *)
(*                                                                         *)
(* An attempt is a task of its own in a race and part of the caller        *)
(* otherwise.  The race itself is asyncio's staggered_race().              *)
(***************************************************************************)
EXTENDS Naturals, Sequences, FiniteSets

CONSTANTS
    N,          \* addresses of the host, numbered in the order they are tried
    Silent,     \* addresses that never answer
    MaxBinds    \* local addresses of the right family that fail to bind

ASSUME AddrsAssumption == N \in Nat \ {0} /\ MaxBinds \in Nat

VARIABLES
    kind,       \* "seq" or "race" (host and port), "unix" (path), "sock" (sock=)
    at,         \* where the caller is
    wake,       \* how its await ended: "no", "ok", "raised", "cancelled"
    att,        \* att[a]: where the attempt at address a is
    awake,      \* awake[a]: how the attempt's await ended
    sock,       \* sock[a]: "none", "open", "closed" or "adopted" by a transport
    errors,     \* the slots: [addr, n], with n the failures in it
    winner,     \* the address that connected first, or 0
    transport,  \* "none", "open" or "closing"
    result,     \* "none", "returned", "raised"
    dropped     \* history: a cancelled race had a winner, which nobody closes

attempts == <<att, awake, sock, errors>>
caller == <<kind, at, wake, winner, transport, result, dropped>>
connectVars == <<attempts, caller>>

Addrs == 1..N
Running == {a \in Addrs : att[a] \in {"resolving", "connecting"}}
Started == {a \in Addrs : att[a] # "idle"}
Over(a) == att[a] \in {"failed", "cancelled"}

ConnectInit ==
    /\ kind = "none" /\ at = "idle" /\ wake = "no"
    /\ att = [a \in Addrs |-> "idle"] /\ awake = [a \in Addrs |-> "no"]
    /\ sock = [a \in Addrs |-> "none"] /\ errors = <<>>
    /\ winner = 0 /\ transport = "none" /\ result = "none" /\ dropped = FALSE

\* One of the three calls, with a host, a path or a connected socket.
Call ==
    /\ at = "idle"
    /\ kind' \in {"seq", "race", "unix", "sock"}
    /\ at' = CASE kind' = "sock" -> "wrap" [] kind' = "unix" -> "connect" [] OTHER -> "getaddrinfo"
    /\ winner' = IF kind' = "sock" THEN 1 ELSE 0
    /\ att' = [att EXCEPT ![1] = IF kind' = "sock" THEN "won" ELSE "idle"]
    /\ sock' = [sock EXCEPT ![1] = IF kind' = "sock" THEN "open" ELSE "none"]
    /\ UNCHANGED <<wake, awake, errors, transport, result, dropped>>

Ends(how) == at' = "done" /\ result' = how

-----------------------------------------------------------------------------
(* _connect_tcp(): the addresses *)

Resolved ==
    /\ at \in {"getaddrinfo", "getlocal"} /\ wake = "no"
    /\ \E how \in {"ok", "raised"} : wake' = how
    /\ UNCHANGED <<attempts, kind, at, winner, transport, result, dropped>>

\* A local_addr that is no literal is resolved as well.
HasAddresses ==
    /\ at \in {"getaddrinfo", "getlocal"} /\ wake # "no"
    /\ IF wake # "ok" THEN Ends("raised")
       ELSE at' \in {"connect", "getlocal"} \ {at} /\ UNCHANGED result
    /\ wake' = "no"
    /\ UNCHANGED <<attempts, kind, winner, transport, dropped>>

(***************************************************************************)
(* _connect_one(): the slot comes first; then the socket, a local address  *)
(* and sock_connect(), which resolves the address before it connects.      *)
(***************************************************************************)

\* When the next attempt may start: in order, the first at once, another when
\* the one before it has failed or, in a race that has no winner, when the
\* delay is over.
MayStart(a) ==
    /\ at = "connect" /\ wake # "cancelled" /\ winner = 0
    /\ Started = 1..(a - 1)
    /\ IF kind = "unix" THEN a = 1
       ELSE kind = "race" \/ \A b \in 1..(a - 1) : Over(b)

Slot(a, n) == [addr |-> a, n |-> n]

\* The slot is appended when the attempt fails.
RecordedAsLost(es, a, n) ==
    Append(SelectSeq(es, LAMBDA e : e.addr # a), Slot(a, n))

\* The failures of an attempt join its slot, wherever that is.
Recorded(es, a, n) ==
    [i \in DOMAIN es |-> IF es[i].addr = a THEN Slot(a, es[i].n + n) ELSE es[i]]

Start(a) ==
    /\ MayStart(a)
    /\ \/ \* socket() raises
          /\ att' = [att EXCEPT ![a] = "failed"]
          /\ errors' = Append(errors, Slot(a, 1))
          /\ UNCHANGED sock
       \/ \E binds \in (IF kind = "unix" THEN {0} ELSE 0..MaxBinds) :
            \/ \* no local address is wanted or one is bound after some failures
               /\ att' = [att EXCEPT ![a] = "resolving"]
               /\ sock' = [sock EXCEPT ![a] = "open"]
               /\ errors' = Append(errors, Slot(a, binds))
            \/ \* none of them binds, or none has the family
               /\ kind # "unix"
               /\ att' = [att EXCEPT ![a] = "failed"]
               /\ sock' = [sock EXCEPT ![a] = "closed"]
               /\ errors' = Append(errors, Slot(a, IF binds = 0 THEN 1 ELSE binds))
    /\ awake' = [awake EXCEPT ![a] = IF kind = "unix" THEN "ok" ELSE "no"]
    /\ UNCHANGED caller

\* The resolver, or the watcher's check() of SO_ERROR, settles the future.
Answer(a) ==
    /\ a \in Running /\ awake[a] = "no"
    /\ a \in Silent => att[a] = "resolving"
    /\ \E how \in {"ok", "raised"} : awake' = [awake EXCEPT ![a] = how]
    /\ UNCHANGED <<att, sock, errors, caller>>

\* The socket is closed on an OSError only.
FailedOpen(a) ==
    /\ att' = [att EXCEPT ![a] = IF awake[a] = "cancelled" THEN "cancelled" ELSE "failed"]
    /\ sock' = [sock EXCEPT ![a] = IF awake[a] = "cancelled" THEN @ ELSE "closed"]
    /\ errors' = Recorded(errors, a, IF awake[a] = "cancelled" THEN 0 ELSE 1)

\* The except clauses of _connect_one(): an OSError is recorded, and whatever
\* the exception the socket is closed.
Failed(a) ==
    /\ att' = [att EXCEPT ![a] = IF awake[a] = "cancelled" THEN "cancelled" ELSE "failed"]
    /\ sock' = [sock EXCEPT ![a] = "closed"]
    /\ errors' = Recorded(errors, a, IF awake[a] = "cancelled" THEN 0 ELSE 1)

\* connect() is in progress, and the descriptor is watched.
Watch(a) ==
    /\ att[a] = "resolving" /\ awake[a] = "ok"
    /\ att' = [att EXCEPT ![a] = "connecting"]
    /\ awake' = [awake EXCEPT ![a] = "no"]
    /\ UNCHANGED <<sock, errors, caller>>

\* connect() raises, or the await did.
Lose(a) ==
    /\ a \in Running /\ awake[a] # "no"
    /\ awake[a] = "ok" => att[a] = "resolving"
    /\ Failed(a)
    /\ UNCHANGED <<awake, caller>>

\* The first to connect wins, and staggered_race() cancels the others.
Win(a) ==
    /\ a \in Running /\ awake[a] = "ok"
    /\ a \notin Silent
    /\ winner' = a
    /\ att' = [att EXCEPT ![a] = "won"]
    /\ awake' = [b \in Addrs |-> IF b \in Running /\ b # a THEN "cancelled" ELSE awake[b]]
    /\ UNCHANGED <<sock, errors, kind, at, wake, transport, result, dropped>>

\* The rest of _connect_tcp(), once no attempt is left running: a winner goes
\* on to be wrapped, no winner is an error, and so is a cancellation.
Settled ==
    /\ at = "connect" /\ Running = {} /\ wake # "cancelling"
    /\ \/ wake = "cancelled"
       \/ winner # 0
       \/ \A a \in (IF kind = "unix" THEN {1} ELSE Addrs) : Over(a)
    /\ IF winner # 0 /\ wake # "cancelled" THEN at' = "wrap" /\ UNCHANGED <<result, dropped>>
       ELSE Ends("raised") /\ dropped' = (winner # 0)
    /\ UNCHANGED <<attempts, kind, wake, winner, transport>>

-----------------------------------------------------------------------------
(* _wrap_socket() and _attach_transport() *)

\* A factory, a context or _make_transport() that raises leaves the socket to
\* be closed here; what raises after the adoption aborts the transport.
WrapFails ==
    /\ at = "wrap"
    /\ \/ sock' = [sock EXCEPT ![winner] = "closed"] /\ UNCHANGED transport
       \/ sock' = [sock EXCEPT ![winner] = "adopted"] /\ transport' = "closing"
    /\ Ends("raised")
    /\ UNCHANGED <<att, awake, errors, kind, wake, winner, dropped>>

Wrap ==
    /\ at = "wrap"
    /\ sock' = [sock EXCEPT ![winner] = "adopted"]
    /\ transport' = "open"
    /\ at' = "waiter"
    /\ UNCHANGED <<att, awake, errors, kind, wake, winner, result, dropped>>

\* connection_made() is called, or the TLS handshake ends.
Made ==
    /\ at = "waiter" /\ wake = "no"
    /\ \E how \in {"ok", "raised"} : wake' = how
    /\ UNCHANGED <<attempts, kind, at, winner, transport, result, dropped>>

Return ==
    /\ at = "waiter" /\ wake # "no"
    /\ IF wake = "ok" THEN Ends("returned") /\ UNCHANGED transport
                      ELSE Ends("raised") /\ transport' = "closing"
    /\ UNCHANGED <<attempts, kind, wake, winner, dropped>>

\* The caller is cancelled.  The cancellation of a call that waits for one
\* attempt is the attempt's; a race passes it on when it runs next.
CancelCaller ==
    /\ at \in {"getaddrinfo", "getlocal", "connect", "waiter"}
    /\ wake \notin {"cancelling", "cancelled"}
    /\ IF at = "connect" /\ kind = "race" THEN wake' = "cancelling" /\ UNCHANGED awake
       ELSE /\ at = "connect" => Running # {}
            /\ wake' = "cancelled"
            /\ awake' = [a \in Addrs |-> IF a \in Running THEN "cancelled" ELSE awake[a]]
    /\ UNCHANGED <<att, sock, errors, kind, at, winner, transport, result, dropped>>

PassOn ==
    /\ wake = "cancelling"
    /\ wake' = "cancelled"
    /\ awake' = [a \in Addrs |-> IF a \in Running THEN "cancelled" ELSE awake[a]]
    /\ UNCHANGED <<att, sock, errors, kind, at, winner, transport, result, dropped>>

AttemptSteps == \E a \in Addrs : Start(a) \/ Watch(a) \/ Lose(a) \/ Win(a)
CallerSteps == HasAddresses \/ PassOn \/ Settled \/ WrapFails \/ Wrap \/ Return
ConnectNext ==
    \/ Call \/ AttemptSteps \/ CallerSteps \/ Resolved \/ Made \/ CancelCaller
    \/ \E a \in Addrs : Answer(a)

-----------------------------------------------------------------------------
\* However the call ends, no socket of an attempt stays open behind it: the
\* winner belongs to the transport that is returned, or to one that closes,
\* and the others are closed.  The race that is cancelled while it waits for
\* the losers drops its winner unclosed, and is excepted.
NoSocketLeaks ==
    at = "done" =>
        /\ \A a \in Addrs : sock[a] = "open" => dropped /\ a = winner
        /\ \A a \in Addrs : sock[a] = "adopted" =>
              a = winner /\ transport = IF result = "returned" THEN "open" ELSE "closing"
        /\ result = "returned" => winner # 0 /\ sock[winner] = "adopted"

\* When no address connects the failures are reported in the order the
\* addresses were tried, whatever order they lost in, and "every attempt
\* records its failure".
FailuresInOrder ==
    at = "done" /\ wake # "cancelled" /\ errors # <<>> /\ winner = 0 =>
        /\ [i \in DOMAIN errors |-> errors[i].addr] = [i \in 1..Len(errors) |-> i]
        /\ \A i \in DOMAIN errors : errors[i].n > 0
        /\ kind # "unix" => Len(errors) = N

\* A race does not wait for an address that never answers: it ends, unless
\* every address that does answer has failed ("an address on a broken route
\* costs that delay rather than a full connect timeout").
SilenceIsBeaten ==
    (kind = "race" /\ at = "connect") ~>
        (at # "connect" \/ \A a \in Addrs \ Silent : att[a] = "failed")

ConnectFairness ==
    /\ WF_connectVars(AttemptSteps) /\ WF_connectVars(CallerSteps)
    /\ WF_connectVars(Resolved) /\ WF_connectVars(Made)
    /\ \A a \in Addrs : WF_connectVars(Answer(a))
=============================================================================
