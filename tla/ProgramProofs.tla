--------------------------- MODULE ProgramProofs ---------------------------
(***************************************************************************)
(* Proofs about whole programs over the Python layer (Program): what       *)
(* ClientProofs and ServiceProofs show of each call holds from the first   *)
(* call of a client, a parent or a server to its last.                     *)
(***************************************************************************)
EXTENDS Program, ClientProofs, ServiceProofs

ClientInv == ConnectInv /\ SendfileInv /\ ExecInv
ProgramInv == ClientInv /\ ReaperInv /\ PopenInv /\ ListenInv /\ EndpointInv

\* Every program starts with nothing taken.
LEMMA ProgramInitInv == Init => ProgramInv
  BY ConnectInitInv, SendfileInitInv, ExecInitInv, ReaperInitInv, PopenInitInv, ListenInitInv, EndpointInitInv
     DEF Init, ProgramInv, ClientInv

\* create_connection() returns or raises, and its locals are gone with nothing
\* left open in them.
LEMMA ForgetsInv == ASSUME NEW then \in {"connected", "leaving"}, Forgets(then) PROVE ConnectInv'
<1>1. Fresh'
  <2>1. [a \in Addrs |-> "no"] \in [Addrs -> {"no", "ok", "raised", "cancelled"}]
    OBVIOUS
  <2> QED BY <2>1 DEF Forgets, Fresh, Before, Addrs
<1> QED BY <1>1, NothingTried, PTL

\* A step of the client is a step of one of its calls, or goes from one to the
\* next.
LEMMA ClientStepInv == ClientInv /\ [ClientNext]_clientVars => ClientInv'
<1> SUFFICES ASSUME ClientInv, [ClientNext]_clientVars PROVE ClientInv'
  OBVIOUS
<1> USE DEF ClientInv
<1>1. UNCHANGED connectVars => ConnectInv'
  BY ConnectStepInv
<1>2. UNCHANGED st => SendfileInv'
  BY SendfileStepInv
<1>3. UNCHANGED execVars => ExecInv'
  BY ExecStepInv
<1>4. CASE ConnectNext /\ UNCHANGED <<st, execVars>>
  BY <1>2, <1>3, <1>4, ConnectStepInv
<1>5. CASE Connected
  BY <1>2, <1>3, <1>5, ForgetsInv DEF Connected
<1>6. CASE SendfileNext /\ UNCHANGED <<connectVars, execVars>>
  BY <1>1, <1>3, <1>6, SendfileStepInv
<1>7. CASE Leaves
  <2>1. SendfileInit'
    BY <1>7 DEF Leaves, SendfileInit, NoCall
  <2>2. SendfileInv'
    BY <2>1, SendfileInitInv, PTL
  <2> QED BY <1>3, <1>7, <2>2, ForgetsInv DEF Leaves
<1>8. CASE ExecNext /\ UNCHANGED <<connectVars, st>>
  BY <1>1, <1>2, <1>8, ExecStepInv
<1>9. CASE UNCHANGED clientVars
  BY <1>1, <1>2, <1>3, <1>9 DEF clientVars
<1> QED BY <1>4, <1>5, <1>6, <1>7, <1>8, <1>9 DEF ClientNext

\* A step of a program is a step of one part, and leaves the others as they are.
LEMMA ProgramStepInv == ProgramInv /\ [Next]_vars => ProgramInv'
<1> SUFFICES ASSUME ProgramInv, [Next]_vars PROVE ProgramInv'
  OBVIOUS
<1> USE DEF ProgramInv
<1>1. [ClientNext]_clientVars => ClientInv'
  BY ClientStepInv
<1>2. [ReaperNext]_reaperVars => ReaperInv'
  BY ReaperStepInv
<1>3. [PopenNext]_po => PopenInv'
  BY PopenStepInv
<1>4. [ListenNext]_listenVars => ListenInv'
  BY ListenStepInv
<1>5. [EndpointNext]_endpointVars => EndpointInv'
  BY EndpointStepInv
<1>6. /\ [ClientNext]_clientVars /\ [ReaperNext]_reaperVars /\ [PopenNext]_po
      /\ [ListenNext]_listenVars /\ [EndpointNext]_endpointVars
  BY DEF Next, vars, parentVars, serverVars
<1> QED BY <1>1, <1>2, <1>3, <1>4, <1>5, <1>6

\* What every reachable state of a program satisfies.
THEOREM ProgramInvariant == Spec => []ProgramInv
  BY ProgramInitInv, ProgramStepInv, PTL DEF Spec

\* Whatever fails or is cancelled, and at whichever await, a call gives back what
\* it took: the sockets of create_connection(), of a server and of a datagram
\* endpoint, a pipe with its poll, the descriptors and the child of a subprocess
\* call; and sendfile() the transport it borrowed.
THEOREM CallsGiveBack == Spec => []NothingLeaks
<1>1. ProgramInv => NothingLeaks
  BY ConnectInvImplies, SendfileInvImplies, PopenInvImplies, ListenInvImplies, EndpointInvImplies
     DEF ProgramInv, ClientInv, NothingLeaks
<1> QED BY <1>1, ProgramInvariant, PTL

\* When no address connects, create_connection() has an exception of every
\* address and reports them in the order of the addresses, however many there
\* are, however the attempts were staggered and in whatever order they failed.
THEOREM FailuresAreOrdered == Spec => []FailuresInOrder
<1>1. ProgramInv => FailuresInOrder
  BY ConnectInvImplies DEF ProgramInv, ClientInv
<1> QED BY <1>1, ProgramInvariant, PTL

\* Where sendfile() and sock_sendfile() end, also when they raise, the file is at
\* the byte after the last one sent, except for the one block of a read() that the
\* cancellation could not stop, for any length of the file.
THEOREM FileIsPositioned == Spec => []FilePositioned
<1>1. ProgramInv => FilePositioned
  BY SendfileInvImplies DEF ProgramInv, ClientInv
<1> QED BY <1>1, ProgramInvariant, PTL

\* When shutdown_default_executor() returns without a warning, every job of the
\* default executor is done and none follows, for any executors and jobs.
THEOREM ShutdownDrains == Spec => []DefaultDrained
<1>1. ProgramInv => DefaultDrained
  BY ExecInvImplies DEF ProgramInv, ClientInv
<1> QED BY <1>1, ProgramInvariant, PTL

\* send_signal(), terminate() and kill() signal the child that was spawned, and
\* never a pid that has been reaped.
THEOREM SignalsReachOwnChild == Spec => []SignalsOwnChild
<1>1. ProgramInv => SignalsOwnChild
  BY PopenInvImplies DEF ProgramInv
<1> QED BY <1>1, ProgramInvariant, PTL

\* The close of a server removes its own socket file, and never the one that
\* another server has bound at the same path since.
THEOREM UnlinksAreOwn == Spec => []UnlinksOwnPath
<1>1. ProgramInv => UnlinksOwnPath
  BY ListenInvImplies DEF ProgramInv
<1> QED BY <1>1, ProgramInvariant, PTL

\* The SSL object of a server that calls start_tls() gets every record that the
\* application had not read, once and in order, for any number of records; and a
\* call that fails leaves no callback of its own behind.
THEOREM HandshakeMissesNone == Spec => []HandshakeGetsAll
<1>1. ProgramInv => HandshakeGetsAll
  BY EndpointInvImplies DEF ProgramInv
<1> QED BY <1>1, ProgramInvariant, PTL
=============================================================================
