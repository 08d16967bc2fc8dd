--------------------------- MODULE DatagramProofs ---------------------------
(***************************************************************************)
(* Proofs about the datagram endpoint (Datagram), for any lengths, marks   *)
(* and number of requests.                                                 *)
(*                                                                         *)
(* close() looks only at write_buffer_size, so that it drains the queue    *)
(* rests on that number being the sum over the requests libuv holds.  What *)
(* a sum does when a request comes or goes is an induction on the length   *)
(* of the queue, made here from the well-foundedness of < on Nat.          *)
(***************************************************************************)
EXTENDS Datagram, WellFoundedInduction, TLAPS

-----------------------------------------------------------------------------
(* Induction *)

\* A set of numbers has a least one.
LEMMA LeastNumber == ASSUME NEW T, T \subseteq Nat, T # {} PROVE \E x \in T : \A y \in T : x <= y
<1> DEFINE R == OpToRel(<, Nat)
<1>1. IsWellFoundedOn(R, Nat)
  BY NatLessThanWellFounded
<1>2. \A x, y \in Nat : x < y => <<x, y>> \in R
  BY DEF OpToRel
<1> HIDE DEF R
<1>3. PICK x \in T : \A y \in T : ~(<<y, x>> \in R)
  BY <1>1, WFMin
<1>4. ASSUME NEW y \in T PROVE x <= y
  <2>1. x \in Nat /\ y \in Nat
    OBVIOUS
  <2>2. ~(y < x)
    BY <1>2, <1>3, <2>1
  <2> QED BY <2>1, <2>2
<1> QED BY <1>4

\* A set that has 0, and with a number below m the next one, has them all.
LEMMA UpTo ==
    ASSUME NEW m \in Nat, NEW S, 0 \in S, \A n \in 0..(m - 1) : n \in S => n + 1 \in S
    PROVE  0..m \subseteq S
<1> DEFINE T == {n \in 0..m : n \notin S}
<1> SUFFICES ASSUME T # {} PROVE FALSE
  OBVIOUS
<1>1. T \subseteq Nat
  OBVIOUS
<1> HIDE DEF T
<1>2. PICK x \in T : \A y \in T : x <= y
  BY <1>1, LeastNumber
<1>3. x \in 0..m /\ x # 0 /\ x \notin S
  BY DEF T
<1>4. x - 1 \in 0..(m - 1) /\ x - 1 \in 0..m /\ (x - 1) + 1 = x
  BY <1>3
<1>5. ~(x <= x - 1)
  BY <1>3
<1>6. x - 1 \notin T
  BY <1>2, <1>5
<1>7. x - 1 \in S
  BY <1>4, <1>6 DEF T
<1> QED BY <1>3, <1>4, <1>7

-----------------------------------------------------------------------------
(* Sums *)

Request == [size : Nat, sent : BOOLEAN]
Requests == Seq(Request)

\* A queue is made of requests.
LEMMA RequestAt ==
    ASSUME NEW q \in Requests, NEW i \in 1..Len(q)
    PROVE  q[i] \in Request /\ q[i].size \in Nat /\ q[i].sent \in BOOLEAN
<1>1. q[i] \in Request
  BY DEF Requests
<1> QED BY <1>1 DEF Request

\* g adds up the requests of q, from the oldest on.
Sums(g, q) ==
    /\ g \in [0..Len(q) -> Nat]
    /\ g[0] = 0
    /\ \A i \in 1..Len(q) : g[i] = g[i - 1] + q[i].size

\* Every queue has its sums.
LEMMA SumsExist == ASSUME NEW q \in Requests PROVE \E g : Sums(g, q)
<1> DEFINE P(g, n) == /\ g \in [0..n -> Nat] /\ g[0] = 0
                      /\ \A i \in 1..n : g[i] = g[i - 1] + q[i].size
           S == {n \in Nat : \E g : P(g, n)}
<1>1. Len(q) \in Nat
  BY DEF Requests
<1>2. 0 \in S
  <2>1. P([i \in 0..0 |-> 0], 0)
    OBVIOUS
  <2> QED BY <2>1
<1>3. ASSUME NEW n \in 0..(Len(q) - 1), n \in S PROVE n + 1 \in S
  <2>1. PICK g : P(g, n)
    BY <1>3
  <2>0. n \in Nat /\ n + 1 \in 1..Len(q)
    BY <1>1
  <2>2. n \in Nat /\ n + 1 \in 1..Len(q) /\ q[n + 1].size \in Nat
    BY <2>0, RequestAt
  <2> DEFINE h == [i \in 0..(n + 1) |-> IF i <= n THEN g[i] ELSE g[n] + q[n + 1].size]
  <2>a. /\ \A i \in 0..n : g[i] \in Nat
        /\ g[0] = 0 /\ \A i \in 1..n : g[i] = g[i - 1] + q[i].size
    BY <2>1
  <2>b. g[n] \in Nat /\ g[n] + q[n + 1].size \in Nat
    BY <2>2, <2>a
  <2>3. h \in [0..(n + 1) -> Nat]
    BY <2>2, <2>a, <2>b
  <2>4. h[0] = 0
    BY <2>2, <2>a
  <2>5. ASSUME NEW i \in 1..(n + 1) PROVE h[i] = h[i - 1] + q[i].size
    <3>1. CASE i <= n
      BY <2>1, <2>2, <3>1
    <3>2. CASE i = n + 1
      BY <2>1, <2>2, <3>2
    <3> QED BY <2>2, <3>1, <3>2
  <2>6. P(h, n + 1)
    BY <2>3, <2>4, <2>5
  <2> HIDE DEF P, h
  <2>7. \E f : P(f, n + 1)
    BY <2>6
  <2> QED BY <2>2, <2>7
<1> HIDE DEF S
<1>4. 0..Len(q) \subseteq S
  BY <1>1, <1>2, <1>3, UpTo
<1>5. Len(q) \in S
  BY <1>1, <1>4
<1> QED BY <1>5 DEF S, Sums

\* Total(q) is the last of them.
LEMMA TotalSums == ASSUME NEW q \in Requests, NEW g, Sums(g, q) PROVE Total(q) = g[Len(q)]
<1> DEFINE F(f) == [i \in 0..Len(q) |-> IF i = 0 THEN 0 ELSE f[i - 1] + q[i].size]
           sum == CHOOSE f : f = F(f)
<1>1. Len(q) \in Nat
  BY DEF Requests
<1>2. g = F(g)
  BY <1>1 DEF Sums
<1> HIDE DEF F
<1>3. sum = F(sum)
  BY <1>2, Zenon
<1> HIDE DEF sum
<1>5. Total(q) = sum[Len(q)]
  BY Zenon DEF Total, sum, F
<1> DEFINE S == {n \in Nat : g[n] = sum[n]}
<1>6. 0 \in S
  BY <1>1, <1>3 DEF F, Sums
<1>7. ASSUME NEW n \in 0..(Len(q) - 1), n \in S PROVE n + 1 \in S
  BY <1>1, <1>3, <1>7 DEF F, Sums
<1> HIDE DEF S
<1>8. 0..Len(q) \subseteq S
  BY <1>1, <1>6, <1>7, UpTo
<1> QED BY <1>1, <1>5, <1>8 DEF S

\* What Total() is: the end of some sums, which no others contradict.
LEMMA TotalIs == ASSUME NEW q \in Requests PROVE Total(q) \in Nat /\ \E g : Sums(g, q) /\ Total(q) = g[Len(q)]
<1>1. PICK g : Sums(g, q)
  BY SumsExist
<1>2. Total(q) = g[Len(q)]
  BY <1>1, TotalSums
<1>3. Len(q) \in 0..Len(q)
  BY DEF Requests
<1> QED BY <1>1, <1>2, <1>3 DEF Sums

\* Sums do not decrease.
LEMMA SumsGrow == ASSUME NEW q \in Requests, NEW g, Sums(g, q), NEW i \in 0..Len(q) PROVE g[i] <= g[Len(q)]
<1> DEFINE S == {n \in Nat : i <= n => g[i] <= g[n]}
<1>1. Len(q) \in Nat /\ i \in Nat
  BY DEF Requests
<1>2. 0 \in S
  BY <1>1 DEF Sums
<1>3. ASSUME NEW n \in 0..(Len(q) - 1), n \in S PROVE n + 1 \in S
  <2>1. n \in Nat /\ n + 1 \in 1..Len(q) /\ n \in 0..Len(q) /\ n + 1 \in 0..Len(q)
    BY <1>1
  <2>2. g[n] \in Nat /\ g[i] \in Nat /\ g[n + 1] = g[n] + q[n + 1].size
    BY <2>1 DEF Sums
  <2>3. q[n + 1].size \in Nat
    BY <2>1, RequestAt
  <2>4. CASE i = n + 1
    BY <2>1, <2>2, <2>3, <2>4
  <2>5. CASE i # n + 1
    BY <1>1, <1>3, <2>1, <2>2, <2>3, <2>5
  <2> QED BY <2>4, <2>5
<1> HIDE DEF S
<1>4. 0..Len(q) \subseteq S
  BY <1>1, <1>2, <1>3, UpTo
<1> QED BY <1>1, <1>4 DEF S

\* An empty queue holds nothing, and one that holds nothing has only empty
\* datagrams.
LEMMA TotalZero ==
    /\ Total(<<>>) = 0
    /\ \A q \in Requests : Total(q) = 0 => \A i \in 1..Len(q) : q[i].size = 0
<1>1. Total(<<>>) = 0
  <2>1. <<>> \in Requests /\ Len(<<>>) = 0
    BY DEF Requests
  <2>2. PICK g : Sums(g, <<>>) /\ Total(<<>>) = g[0]
    BY <2>1, TotalIs
  <2> QED BY <2>2 DEF Sums
<1>2. ASSUME NEW q \in Requests, Total(q) = 0, NEW i \in 1..Len(q) PROVE q[i].size = 0
  <2>1. PICK g : Sums(g, q) /\ g[Len(q)] = 0
    BY <1>2, TotalIs
  <2>2. i \in 0..Len(q) /\ i - 1 \in 0..Len(q)
    BY DEF Requests
  <2>3. g[i] <= 0 /\ g[i - 1] <= 0
    BY <2>1, <2>2, SumsGrow
  <2>4. g[i] \in Nat /\ g[i - 1] \in Nat /\ g[i] = g[i - 1] + q[i].size
    BY <2>1, <2>2 DEF Sums
  <2>5. q[i].size \in Nat
    BY RequestAt
  <2> QED BY <2>3, <2>4, <2>5
<1> QED BY <1>1, <1>2

\* A request that is queued adds its size.
LEMMA TotalAppend ==
    ASSUME NEW q \in Requests, NEW r \in Request
    PROVE  Append(q, r) \in Requests /\ Total(Append(q, r)) = Total(q) + r.size
<1> DEFINE p == Append(q, r)  n == Len(q)
<1>1. /\ p \in Requests /\ n \in Nat /\ Len(p) = n + 1 /\ r.size \in Nat
      /\ p[n + 1] = r /\ \A i \in 1..n : p[i] = q[i]
  BY DEF Requests, Request
<1>2. PICK g : Sums(g, q) /\ Total(q) = g[n]
  BY TotalIs
<1> DEFINE h == [i \in 0..(n + 1) |-> IF i <= n THEN g[i] ELSE g[n] + r.size]
<1> HIDE DEF p, n
<1>3. /\ \A i \in 0..n : g[i] \in Nat
      /\ g[0] = 0 /\ \A i \in 1..n : g[i] = g[i - 1] + q[i].size
  BY <1>2 DEF Sums, n
<1>4. g[n] \in Nat /\ g[n] + r.size \in Nat
  BY <1>1, <1>3
<1>5. h \in [0..(n + 1) -> Nat] /\ h[0] = 0
  BY <1>1, <1>3, <1>4
<1>6. ASSUME NEW i \in 1..(n + 1) PROVE h[i] = h[i - 1] + p[i].size
  <2>1. CASE i <= n
    BY <1>1, <1>3, <2>1
  <2>2. CASE i = n + 1
    BY <1>1, <1>3, <2>2
  <2> QED BY <1>1, <2>1, <2>2
<1>7. Sums(h, p)
  BY <1>1, <1>5, <1>6 DEF Sums
<1>8. h[n + 1] = g[n] + r.size
  BY <1>1
<1>9. Total(p) = h[n + 1]
  BY <1>1, <1>7, TotalSums
<1> QED BY <1>1, <1>2, <1>8, <1>9 DEF p, n

\* A request that is answered takes its size off.
LEMMA TotalTail ==
    ASSUME NEW q \in Requests, q # <<>>
    PROVE  /\ Tail(q) \in Requests /\ Head(q) = q[1] /\ q[1] \in Request /\ q[1].size <= Total(q)
           /\ Total(Tail(q)) = Total(q) - q[1].size
           /\ Len(Tail(q)) = Len(q) - 1 /\ \A i \in 1..Len(Tail(q)) : Tail(q)[i] = q[i + 1]
<1> DEFINE p == Tail(q)  n == Len(q)  s == q[1].size
<1>1. /\ p \in Requests /\ Head(q) = q[1] /\ n \in Nat /\ n > 0 /\ Len(p) = n - 1
      /\ \A i \in 1..(n - 1) : p[i] = q[i + 1]
  BY DEF Requests
<1>2. s \in Nat /\ q[1] \in Request
  BY <1>1, RequestAt
<1>3. PICK g : Sums(g, q) /\ Total(q) = g[n]
  BY TotalIs
<1> DEFINE h == [i \in 0..(n - 1) |-> g[i + 1] - s]
<1> HIDE DEF p, n, s
<1>4. /\ \A i \in 0..n : g[i] \in Nat
      /\ g[0] = 0 /\ \A i \in 1..n : g[i] = g[i - 1] + q[i].size
  BY <1>3 DEF Sums, n
<1>5. g[1] = s
  BY <1>1, <1>2, <1>4 DEF s
<1> DEFINE S == {i \in Nat : i + 1 <= n => s <= g[i + 1]}
<1>6. 0..(n - 1) \subseteq S
  <2>1. 0 \in S
    BY <1>1, <1>2, <1>5
  <2>2. ASSUME NEW i \in 0..((n - 1) - 1), i \in S PROVE i + 1 \in S
    <3>1. i \in Nat /\ i + 1 \in 1..n /\ i + 2 \in 1..n /\ (i + 1) + 1 = i + 2 /\ (i + 2) - 1 = i + 1
      BY <1>1
    <3>2. q[i + 2].size \in Nat
      BY <3>1, RequestAt DEF n
    <3>3. g[i + 1] \in Nat /\ g[i + 2] = g[i + 1] + q[i + 2].size
      BY <1>1, <1>4, <3>1
    <3> QED BY <1>1, <1>2, <2>2, <3>1, <3>2, <3>3
  <2> HIDE DEF S
  <2>3. n - 1 \in Nat
    BY <1>1
  <2> QED BY <2>1, <2>2, <2>3, UpTo
<1>7. ASSUME NEW i \in 0..(n - 1) PROVE h[i] = g[i + 1] - s /\ h[i] \in Nat
  <2>1. i + 1 \in 0..n /\ i \in S /\ i + 1 <= n
    BY <1>1, <1>6
  <2> QED BY <1>1, <1>2, <1>4, <2>1
<1>8. h \in [0..(n - 1) -> Nat] /\ h[0] = 0
  BY <1>1, <1>2, <1>5, <1>7
<1>9. ASSUME NEW i \in 1..(n - 1) PROVE h[i] = h[i - 1] + p[i].size
  <2>1. i \in 0..(n - 1) /\ i - 1 \in 0..(n - 1) /\ (i - 1) + 1 = i /\ i + 1 \in 1..n /\ (i + 1) - 1 = i /\ i \in 0..n
    BY <1>1
  <2>2. h[i] = g[i + 1] - s /\ h[i - 1] = g[i] - s
    BY <2>1, <1>7
  <2>3. g[i + 1] = g[i] + p[i].size /\ g[i] \in Nat
    BY <1>1, <1>4, <2>1
  <2>4. p[i].size \in Nat
    BY <1>1, RequestAt
  <2> QED BY <1>2, <2>2, <2>3, <2>4
<1> HIDE DEF h
<1>10. Sums(h, p)
  BY <1>1, <1>8, <1>9 DEF Sums
<1>11. Total(p) = h[n - 1]
  BY <1>1, <1>10, TotalSums
<1>12. h[n - 1] = g[n] - s /\ s <= g[n]
  <2>1. n - 1 \in 0..(n - 1) /\ (n - 1) + 1 = n
    BY <1>1
  <2>2. n - 1 \in S
    BY <1>6, <2>1
  <2> QED BY <1>1, <1>7, <2>1, <2>2
<1> QED BY <1>1, <1>2, <1>3, <1>11, <1>12 DEF p, n, s

\* The sum does not see what the kernel was asked.
LEMMA TotalSent ==
    ASSUME NEW q \in Requests, NEW i \in 1..Len(q)
    PROVE  /\ [q EXCEPT ![i].sent = TRUE] \in Requests
           /\ Total([q EXCEPT ![i].sent = TRUE]) = Total(q)
<1> DEFINE p == [q EXCEPT ![i].sent = TRUE]
<1>1. q[i] \in Request
  BY RequestAt
<1>2. [q[i] EXCEPT !.sent = TRUE] \in Request /\ [q[i] EXCEPT !.sent = TRUE].size = q[i].size
  BY <1>1 DEF Request
<1>3. p = [q EXCEPT ![i] = [q[i] EXCEPT !.sent = TRUE]]
  OBVIOUS
<1>4. p \in Requests /\ Len(p) = Len(q)
  BY <1>2, <1>3 DEF Requests
<1>5. \A j \in 1..Len(q) : p[j].size = q[j].size
  BY <1>2, <1>3 DEF Requests
<1> HIDE DEF p
<1>6. PICK g : Sums(g, q) /\ Total(q) = g[Len(q)]
  BY TotalIs
<1>7. Sums(g, p)
  BY <1>4, <1>5, <1>6 DEF Sums
<1> QED BY <1>4, <1>6, <1>7, TotalSums DEF p

-----------------------------------------------------------------------------
(* The invariant *)

Types ==
    /\ flags \subseteq {"READING", "CLOSING", "CONN_LOST", "PROTOCOL_PAUSED", "OPEN"}
    /\ size \in Nat /\ high \in Nat /\ low \in Nat
    /\ queue \in Requests
    /\ udp \in {"none", "open", "closing", "closed"} /\ frame \in {"none", "error", "resume"}
    /\ start \in {"none", "attached", "made", "started"} /\ forced \in BOOLEAN

\* A handle that is not open belongs to an endpoint that is closing, or to none.
Phases ==
    /\ start = "none" => flags = {} /\ queue = <<>> /\ size = 0 /\ udp # "open"
    /\ udp = "none" => start = "none"
    /\ start # "none" /\ udp # "open" => "CLOSING" \in flags
    /\ "CONN_LOST" \in flags => "CLOSING" \in flags

\* Only abort() writes requests off, and nothing is sent after it.
Counted == size = Total(queue) \/ (forced /\ size = 0 /\ "CLOSING" \in flags)

\* A protocol is paused over something, except while error_received() runs:
\* the resumption comes after it.
PausedOver == "PROTOCOL_PAUSED" \in flags /\ "CLOSING" \notin flags /\ frame # "error" => size > 0

IInv == Types /\ Phases /\ Counted /\ PausedOver /\ DrainsBeforeClose

\* Nothing is there at first.
LEMMA InitInv == Init => IInv
<1> SUFFICES ASSUME Init PROVE IInv
  OBVIOUS
<1>1. queue \in Requests /\ Len(queue) = 0
  BY DEF Init, Requests
<1>2. DefaultHigh \div 4 \in Nat
  BY BoundAssumption
<1>3. Types
  BY <1>1, <1>2, BoundAssumption DEF Init, Types
<1>4. Phases /\ Counted /\ PausedOver
  BY TotalZero DEF Init, Phases, Counted, PausedOver
<1>5. DrainsBeforeClose
  BY DEF Init, DrainsBeforeClose
<1> QED BY <1>3, <1>4, <1>5 DEF IInv

\* With nothing counted, what is left to send are empty datagrams.
LEMMA NothingCounted ==
    ASSUME queue \in Requests, size = Total(queue), size = 0, NEW i \in DOMAIN queue
    PROVE  ~(queue[i].size > 0)
<1>1. DOMAIN queue = 1..Len(queue)
  BY DEF Requests
<1>2. queue[i].size = 0
  BY <1>1, TotalZero
<1> QED BY <1>2

\* Steps that leave the queue and its count alone.
LEMMA SameQueue ==
    ASSUME IInv, UNCHANGED <<size, queue>>,
           Types', Phases', PausedOver', forced => forced', "CLOSING" \in flags => "CLOSING" \in flags',
           udp # "open" \/ udp' = "open" \/ forced' \/ size = 0
    PROVE  IInv'
<1>1. Counted'
  BY DEF IInv, Counted
<1>2. DrainsBeforeClose'
  <2> SUFFICES ASSUME udp' # "open", ~forced', NEW i \in DOMAIN queue, queue[i].size > 0 PROVE queue[i].sent
    BY DEF DrainsBeforeClose
  <2>1. CASE udp # "open"
    BY <2>1 DEF IInv, DrainsBeforeClose
  <2>2. CASE udp = "open"
    BY <2>2, NothingCounted DEF IInv, Counted, Types
  <2> QED BY <2>1, <2>2
<1> QED BY <1>1, <1>2 DEF IInv

\* The endpoint is made, and its callbacks run.
LEMMA MadeInv ==
    ASSUME IInv, makeDatagram \/ makeDatagramFails \/ onOpenFailed \/ Callbacks
    PROVE  IInv'
<1> USE DEF IInv, Types, Phases
<1>1. CASE makeDatagram
  BY <1>1, SameQueue DEF makeDatagram, marks, PausedOver
<1>2. CASE makeDatagramFails
  BY <1>2, SameQueue DEF makeDatagramFails, marks, PausedOver
<1>3. CASE onOpenFailed
  BY <1>3, SameQueue DEF onOpenFailed, marks, PausedOver
<1>4. CASE connection_made
  BY <1>4, SameQueue DEF connection_made, marks, PausedOver
<1>5. CASE startReceivingMethod
  <2>1. flags' = flags \/ flags' = flags \union {"READING"}
    BY <1>5 DEF startReceivingMethod, startReceiving
  <2>2. start' = "started" /\ start # "none" /\ UNCHANGED <<size, marks, udp, queue, frame, forced>>
    BY <1>5 DEF startReceivingMethod
  <2>3. Types' /\ Phases' /\ PausedOver' /\ ("CLOSING" \in flags => "CLOSING" \in flags')
    BY <2>1, <2>2 DEF marks, PausedOver
  <2> QED BY <2>2, <2>3, SameQueue
<1>6. CASE connection_lost
  BY <1>6, SameQueue DEF connection_lost, marks, PausedOver
<1> QED BY <1>1, <1>2, <1>3, <1>4, <1>5, <1>6 DEF Callbacks

\* What shutdownAndClose() does to flags that have CLOSING.
LEMMA ShutdownAndClose ==
    ASSUME IInv, NEW f \in SUBSET {"READING", "CLOSING", "CONN_LOST", "PROTOCOL_PAUSED", "OPEN"},
           "CLOSING" \in f, shutdownAndClose(f)
    PROVE  /\ flags' \subseteq {"READING", "CLOSING", "CONN_LOST", "PROTOCOL_PAUSED", "OPEN"}
           /\ "CLOSING" \in flags'
           /\ udp' = udp \/ (udp = "open" /\ udp' = "closing")
  BY DEF shutdownAndClose, closeExternalHandle

\* What closes the endpoint.
LEMMA ClosesInv ==
    ASSUME IInv, close \/ abort \/ closeFromLoop \/ onClosed \/ startReceivingMethodFails
    PROVE  IInv'
<1> DEFINE Flags == {"READING", "CLOSING", "CONN_LOST", "PROTOCOL_PAUSED", "OPEN"}
<1>0. Types /\ Phases /\ flags \union {"CLOSING"} \in SUBSET Flags
  BY DEF IInv, Types
<1>1. CASE close
  <2> DEFINE f == (flags \union {"CLOSING"}) \ {"READING"}
  <2>1. start # "none" /\ UNCHANGED <<size, marks, queue, frame, start, forced>>
    BY <1>1 DEF close
  <2>2. f \in SUBSET Flags /\ "CLOSING" \in f
    BY <1>0
  <2>3. /\ flags' \subseteq Flags /\ "CLOSING" \in flags'
        /\ udp' = udp \/ (udp = "open" /\ udp' = "closing" /\ size = 0)
    <3>1. CASE size = 0
      <4>1. shutdownAndClose(f)
        BY <1>1, <3>1 DEF close
      <4> HIDE DEF f
      <4> QED BY <2>2, <3>1, <4>1, ShutdownAndClose
    <3>2. CASE size # 0
      BY <1>1, <2>2, <3>2 DEF close
    <3> QED BY <3>1, <3>2
  <2>4. Types' /\ Phases' /\ PausedOver'
    BY <1>0, <2>1, <2>3 DEF Types, Phases, PausedOver, marks
  <2> QED BY <2>1, <2>3, <2>4, SameQueue
<1>2. CASE abort
  <2>1. start # "none" /\ size' = 0 /\ forced' /\ UNCHANGED <<marks, queue, frame, start>> /\ forced' \in BOOLEAN
    BY <1>2 DEF abort, Held
  <2>2. /\ flags' \subseteq Flags /\ "CLOSING" \in flags'
        /\ udp' = udp \/ (udp = "open" /\ udp' = "closing")
    BY <1>0, <1>2, ShutdownAndClose DEF abort
  <2>3. Types' /\ Phases' /\ PausedOver' /\ Counted'
    BY <1>0, <2>1, <2>2 DEF Types, Phases, PausedOver, Counted, marks
  <2> QED BY <2>1, <2>3 DEF IInv, DrainsBeforeClose
<1>3. CASE closeFromLoop
  <2>1. UNCHANGED <<size, marks, queue, frame, start>>
    BY <1>3 DEF closeFromLoop
  <2>2. CASE udp = "open"
    <3>1. /\ flags' = (flags \union {"CLOSING"}) \ {"OPEN", "READING"}
          /\ udp' = "closing" /\ forced' = TRUE
      BY <1>3, <2>2 DEF closeFromLoop, closeExternalHandle
    <3>2. Types' /\ Phases' /\ PausedOver' /\ "CLOSING" \in flags'
      BY <1>0, <2>1, <2>2, <3>1 DEF Types, Phases, PausedOver, marks
    <3> QED BY <2>1, <3>1, <3>2, SameQueue
  <2>3. CASE udp # "open"
    <3>1. UNCHANGED <<flags, udp, forced>>
      BY <1>3, <2>3 DEF closeFromLoop
    <3>2. Types' /\ Phases' /\ PausedOver'
      BY <1>0, <2>1, <3>1 DEF IInv, Types, Phases, PausedOver, marks
    <3> QED BY <2>1, <2>3, <3>1, <3>2, SameQueue
  <2> QED BY <2>2, <2>3
<1>4. CASE onClosed
  <2>1. /\ UNCHANGED <<size, marks, queue, frame, start, forced>>
        /\ flags' = flags \union {"CONN_LOST"} /\ udp = "closing" /\ udp' = "closed" /\ start # "none"
    BY <1>4 DEF onClosed
  <2>2. Types' /\ Phases' /\ PausedOver'
    BY <1>0, <2>1 DEF Types, Phases, PausedOver, marks
  <2> QED BY <2>1, <2>2, SameQueue
<1>5. CASE startReceivingMethodFails
  <2>1. /\ start # "none" /\ start' = "started" /\ forced' = TRUE
        /\ UNCHANGED <<size, marks, queue, frame>>
    BY <1>5 DEF startReceivingMethodFails
  <2>2. /\ flags' \subseteq Flags /\ "CLOSING" \in flags'
        /\ udp' = udp \/ (udp = "open" /\ udp' = "closing")
    BY <1>0, <1>5, ShutdownAndClose DEF startReceivingMethodFails
  <2>3. Types' /\ Phases' /\ PausedOver'
    BY <1>0, <2>1, <2>2 DEF Types, Phases, PausedOver, marks
  <2> QED BY <2>1, <2>2, <2>3, SameQueue
<1> QED BY <1>1, <1>2, <1>3, <1>4, <1>5

\* Reading is paused and resumed.
LEMMA ReadingInv == ASSUME IInv, pauseReading \/ resumeReading PROVE IInv'
<1>1. flags' \in {flags \ {"READING"}, flags \union {"READING"}, flags}
  BY DEF pauseReading, resumeReading, startReceiving
<1>2. start # "none" /\ UNCHANGED <<size, marks, udp, queue, frame, start, forced>>
  BY DEF pauseReading, resumeReading, Held
<1>3. Types' /\ Phases' /\ PausedOver' /\ ("CLOSING" \in flags => "CLOSING" \in flags')
  BY <1>1, <1>2 DEF IInv, Types, Phases, PausedOver, marks
<1> QED BY <1>2, <1>3, SameQueue

\* A datagram is queued.
LEMMA SendInv == ASSUME IInv, NEW n \in Lengths, sendto(n) PROVE IInv'
<1> DEFINE r == [size |-> n, sent |-> FALSE]
<1>1. /\ start \in {"made", "started"} /\ "CLOSING" \notin flags
      /\ queue' = Append(queue, r) /\ size' = size + n
      /\ UNCHANGED <<marks, udp, frame, start, forced>>
  BY DEF sendto, queueSend, Held
<1>2. flags' = IF size + n <= high THEN flags ELSE flags \union {"PROTOCOL_PAUSED"}
  BY DEF sendto, queueSend, maybePauseProtocol
<1>3. n \in Nat /\ r \in Request /\ r.size = n
  BY LengthAssumption DEF Request
<1>4. queue \in Requests /\ size = Total(queue) /\ size \in Nat /\ udp = "open" /\ high \in Nat
  BY <1>1 DEF IInv, Types, Phases, Counted
<1> HIDE DEF r
<1>5. queue' \in Requests /\ size' = Total(queue')
  BY <1>1, <1>3, <1>4, TotalAppend
<1>6. flags' = flags \/ (flags' = flags \union {"PROTOCOL_PAUSED"} /\ size + n > 0)
  BY <1>2, <1>3, <1>4
<1>7. size + n \in Nat /\ (size > 0 => size + n > 0)
  BY <1>3, <1>4
<1>8. Types' /\ Phases' /\ Counted' /\ PausedOver'
  BY <1>1, <1>5, <1>6, <1>7 DEF IInv, Types, Phases, Counted, PausedOver, marks
<1> QED BY <1>1, <1>4, <1>8 DEF IInv, DrainsBeforeClose

\* The limits change, and may pause the protocol.
LEMMA LimitsInv ==
    ASSUME IInv, NEW h \in Marks \union {None}, NEW l \in Marks \union {None}, setWriteBufferLimits(h, l)
    PROVE  IInv'
<1> DEFINE m == Limits(h, l)
<1>1. m.high \in Nat /\ m.low \in Nat
  <2> DEFINE hv == IF h # None THEN h ELSE IF l # None THEN l * 4 ELSE DefaultHigh
             lv == IF l # None THEN l ELSE hv \div 4
  <2>1. hv \in Nat
    BY MarkAssumption, BoundAssumption
  <2>2. m = [high |-> hv, low |-> lv]
    BY DEF Limits
  <2> HIDE DEF hv
  <2>3. lv \in Nat
    <3>1. hv \div 4 \in Nat
      BY <2>1
    <3> QED BY <3>1, MarkAssumption
  <2> HIDE DEF lv
  <2> QED BY <2>1, <2>2, <2>3
<1>2. /\ start \in {"made", "started"} /\ high' = m.high /\ low' = m.low
      /\ flags' = IF size <= m.high THEN flags ELSE flags \union {"PROTOCOL_PAUSED"}
      /\ UNCHANGED <<size, udp, queue, frame, start, forced>>
  BY DEF setWriteBufferLimits, maybePauseProtocol, Held
<1> HIDE DEF m
<1>3. size \in Nat
  BY DEF IInv, Types
<1>4. flags' = flags \/ (flags' = flags \union {"PROTOCOL_PAUSED"} /\ size > 0)
  BY <1>1, <1>2, <1>3
<1>5. Types' /\ Phases' /\ PausedOver' /\ ("CLOSING" \in flags => "CLOSING" \in flags')
  BY <1>1, <1>2, <1>4 DEF IInv, Types, Phases, PausedOver
<1> QED BY <1>2, <1>5, SameQueue

\* libuv hands a request to the kernel.
LEMMA UvSendInv == ASSUME IInv, UvSend PROVE IInv'
<1>1. PICK i \in DOMAIN queue : queue' = [queue EXCEPT ![i].sent = TRUE]
  BY DEF UvSend
<1>2. udp = "open" /\ UNCHANGED <<flags, size, marks, udp, frame, start, forced>>
  BY DEF UvSend
<1>3. queue \in Requests /\ DOMAIN queue = 1..Len(queue)
  BY DEF IInv, Types, Requests
<1>4. queue' \in Requests /\ Total(queue') = Total(queue)
  BY <1>1, <1>3, TotalSent
<1>5. Types' /\ Phases' /\ Counted' /\ PausedOver'
  BY <1>2, <1>4 DEF IInv, Types, Phases, Counted, PausedOver, marks
<1> QED BY <1>2, <1>5 DEF IInv, DrainsBeforeClose

\* maybeResumeProtocol() and the end of onSent(), for a queue and a count that
\* are as they should be.
LEMMA EndsInv ==
    ASSUME IInv, start # "none",
           queue' \in Requests, size' \in Nat, Counted',
           udp # "open" /\ ~forced => \A i \in DOMAIN queue' : queue'[i].size > 0 => queue'[i].sent,
           \/ maybeResumeProtocol(size')
           \/ closeIfDrained(size') /\ ("PROTOCOL_PAUSED" \in flags /\ "CLOSING" \notin flags => size' > 0),
           UNCHANGED <<marks, start, forced>>
    PROVE  IInv'
<1>1. Types /\ Phases
  BY DEF IInv
<1>2. CASE resumes(size') /\ maybeResumeProtocol(size')
  <2>1. flags' = flags \ {"PROTOCOL_PAUSED"} /\ frame' = "resume" /\ udp' = udp
    BY <1>2 DEF maybeResumeProtocol
  <2>2. Types' /\ Phases' /\ PausedOver'
    BY <1>1, <2>1 DEF Types, Phases, PausedOver, marks
  <2> QED BY <2>1, <2>2 DEF IInv, DrainsBeforeClose
<1>3. CASE closeIfDrained(size') /\ ("PROTOCOL_PAUSED" \in flags /\ "CLOSING" \notin flags => size' > 0)
  <2>1. CASE size' = 0 /\ "CLOSING" \in flags
    <3>1. frame' = "none" /\ shutdownAndClose(flags)
      BY <1>3, <2>1 DEF closeIfDrained
    <3>2. flags \in SUBSET {"READING", "CLOSING", "CONN_LOST", "PROTOCOL_PAUSED", "OPEN"}
      BY <1>1 DEF Types
    <3>3. /\ flags' \subseteq {"READING", "CLOSING", "CONN_LOST", "PROTOCOL_PAUSED", "OPEN"}
          /\ "CLOSING" \in flags' /\ (udp' = udp \/ (udp = "open" /\ udp' = "closing"))
      BY <2>1, <3>1, <3>2, ShutdownAndClose
    <3>4. Types' /\ Phases' /\ PausedOver'
      BY <1>1, <3>1, <3>3 DEF Types, Phases, PausedOver, marks
    <3>5. DrainsBeforeClose'
      <4> SUFFICES ASSUME udp' # "open", ~forced', NEW i \in DOMAIN queue', queue'[i].size > 0
                   PROVE  queue'[i].sent
        BY DEF DrainsBeforeClose
      <4>1. CASE udp # "open"
        BY <4>1
      <4>2. CASE udp = "open"
        <5>1. Total(queue') = 0
          BY <2>1 DEF Counted
        <5>2. DOMAIN queue' = 1..Len(queue')
          BY DEF Requests
        <5>3. queue'[i].size = 0
          BY <5>1, <5>2, TotalZero
        <5> QED BY <5>3
      <4> QED BY <4>1, <4>2
    <3> QED BY <3>4, <3>5 DEF IInv
  <2>2. CASE ~(size' = 0 /\ "CLOSING" \in flags)
    <3>1. frame' = "none" /\ UNCHANGED <<flags, udp>>
      BY <1>3, <2>2 DEF closeIfDrained
    <3>2. Types' /\ Phases' /\ PausedOver'
      BY <1>1, <1>3, <3>1 DEF Types, Phases, PausedOver, marks
    <3> QED BY <3>1, <3>2 DEF IInv, DrainsBeforeClose
  <2> QED BY <2>1, <2>2
<1>4. ASSUME ~resumes(size'), maybeResumeProtocol(size')
      PROVE  closeIfDrained(size') /\ ("PROTOCOL_PAUSED" \in flags /\ "CLOSING" \notin flags => size' > 0)
  <2>1. closeIfDrained(size')
    BY <1>4 DEF maybeResumeProtocol
  <2>2. ASSUME "PROTOCOL_PAUSED" \in flags, "CLOSING" \notin flags PROVE size' > 0
    <3>1. flags \intersect {"CLOSING", "CONN_LOST"} = {} /\ low \in Nat
      BY <1>1, <2>2 DEF Phases, Types
    <3>2. ~(size' <= low)
      BY <1>4, <2>2, <3>1 DEF resumes
    <3> QED BY <3>1, <3>2
  <2> QED BY <2>1, <2>2
<1> QED BY <1>2, <1>3, <1>4

\* A request is answered.
LEMMA OnSentInv == ASSUME IInv, onSent PROVE IInv'
<1> DEFINE n == queue[1].size
<1>1. queue # <<>> /\ queue' = Tail(queue) /\ size' = credit(Head(queue).size) /\ UNCHANGED <<marks, start, forced>>
  BY DEF onSent
<1>2. Types /\ Phases /\ queue \in Requests /\ size \in Nat
  BY DEF IInv, Types
<1>3. /\ queue' \in Requests /\ Head(queue) = queue[1] /\ n \in Nat /\ n <= Total(queue) /\ Total(queue) \in Nat
      /\ Total(queue') = Total(queue) - n
      /\ Len(queue') = Len(queue) - 1 /\ \A i \in 1..Len(queue') : queue'[i] = queue[i + 1]
  BY <1>1, <1>2, TotalTail, TotalIs DEF Request
<1>4. start # "none"
  BY <1>1, <1>2 DEF Phases
<1>5. size' \in Nat /\ (size = Total(queue) => size' = Total(queue')) /\ (size = 0 => size' = 0)
  <2>1. size' = size - (IF n < size THEN n ELSE size)
    BY <1>1, <1>3 DEF credit
  <2> HIDE DEF n
  <2> QED BY <1>2, <1>3, <2>1
<1>6. ASSUME udp # "open", ~forced, NEW i \in DOMAIN queue', queue'[i].size > 0 PROVE queue'[i].sent
  <2>1. i \in 1..Len(queue')
    BY <1>3 DEF Requests
  <2>2. i + 1 \in DOMAIN queue /\ queue'[i] = queue[i + 1]
    BY <1>2, <1>3, <2>1 DEF Requests
  <2> QED BY <1>6, <2>2 DEF IInv, DrainsBeforeClose
<1> HIDE DEF n
<1>7. CASE frame' = "error" /\ UNCHANGED <<flags, udp>>
  <2>1. Counted'
    BY <1>1, <1>5, <1>7 DEF IInv, Counted
  <2>2. Types' /\ Phases' /\ PausedOver'
    BY <1>1, <1>2, <1>3, <1>4, <1>5, <1>7 DEF Types, Phases, PausedOver, marks
  <2>3. DrainsBeforeClose'
    BY <1>1, <1>6, <1>7 DEF DrainsBeforeClose
  <2> QED BY <2>1, <2>2, <2>3 DEF IInv
<1>8. CASE maybeResumeProtocol(size')
  <2>1. "CLOSING" \in flags => "CLOSING" \in flags'
    BY <1>8 DEF maybeResumeProtocol, closeIfDrained, shutdownAndClose
  <2>2. Counted'
    BY <1>1, <1>5, <2>1 DEF IInv, Counted
  <2> QED BY <1>1, <1>3, <1>4, <1>5, <1>6, <1>8, <2>2, EndsInv
<1> QED BY <1>7, <1>8 DEF onSent

\* The hooks that onSent() calls return.
LEMMA ReturnsInv == ASSUME IInv, Returns PROVE IInv'
<1>1. UNCHANGED <<size, marks, queue, start, forced>>
  BY DEF Returns, errorReceivedReturns, resumeWritingReturns
<1>2. Types /\ Phases /\ Counted /\ frame # "none"
  BY DEF IInv, Returns, errorReceivedReturns, resumeWritingReturns
<1>3. CASE start = "none"
  <2>1. Total(queue) = 0 /\ flags = {} /\ size = 0 /\ queue = <<>>
    BY <1>2, <1>3, TotalZero DEF Phases
  <2>2. UNCHANGED <<flags, udp>> /\ frame' = "none"
    BY <1>1, <2>1 DEF Returns, errorReceivedReturns, resumeWritingReturns, maybeResumeProtocol, resumes, closeIfDrained
  <2>3. Types' /\ Phases' /\ PausedOver'
    BY <1>1, <1>2, <2>1, <2>2 DEF Types, Phases, PausedOver, marks
  <2> QED BY <1>1, <2>1, <2>2, <2>3, SameQueue
<1>4. CASE start # "none"
  <2>1. \/ maybeResumeProtocol(size')
        \/ closeIfDrained(size') /\ ("PROTOCOL_PAUSED" \in flags /\ "CLOSING" \notin flags => size' > 0)
    <3>1. CASE errorReceivedReturns
      BY <1>1, <3>1 DEF errorReceivedReturns
    <3>2. CASE resumeWritingReturns
      BY <1>1, <3>2 DEF resumeWritingReturns, IInv, PausedOver
    <3> QED BY <3>1, <3>2 DEF Returns
  <2>2. "CLOSING" \in flags => "CLOSING" \in flags'
    BY <2>1 DEF maybeResumeProtocol, closeIfDrained, shutdownAndClose
  <2>3. Counted' /\ queue' \in Requests /\ size' \in Nat
    BY <1>1, <1>2, <2>2 DEF Counted, Types
  <2>4. udp # "open" /\ ~forced => \A i \in DOMAIN queue' : queue'[i].size > 0 => queue'[i].sent
    BY <1>1 DEF IInv, DrainsBeforeClose
  <2> QED BY <1>1, <1>4, <2>1, <2>3, <2>4, EndsInv
<1> QED BY <1>3, <1>4

\* Every step keeps the invariant.
LEMMA StepInv == IInv /\ [Next]_vars => IInv'
<1> SUFFICES ASSUME IInv, [Next]_vars PROVE IInv'
  OBVIOUS
<1>1. CASE Program
  BY <1>1, ClosesInv, ReadingInv, SendInv, LimitsInv DEF Program
<1>2. CASE Libuv
  BY <1>2, UvSendInv, OnSentInv, ClosesInv, MadeInv DEF Libuv
<1>3. CASE UNCHANGED vars
  BY <1>3 DEF vars, marks, IInv, Types, Phases, Counted, PausedOver, DrainsBeforeClose
<1> QED BY <1>1, <1>2, <1>3, ReturnsInv, MadeInv, ClosesInv DEF Next

\* What every reachable state of an endpoint satisfies.
THEOREM Invariant == Spec => []IInv
  BY InitInv, StepInv, PTL DEF Spec

\* write_buffer_size is the sum over the requests libuv holds, unless abort()
\* wrote them off, for any datagrams, marks and hooks that send from inside
\* onSent(); so a protocol that pause_writing() stopped has a request whose
\* completion can resume it.
THEOREM PausesCanEnd == Spec => []PauseCanEnd
<1>1. IInv => PauseCanEnd
  <2> SUFFICES ASSUME IInv PROVE PauseCanEnd
    OBVIOUS
  <2>1. size = Total(queue) \/ (forced /\ size = 0)
    BY DEF IInv, Counted
  <2>2. ASSUME "PROTOCOL_PAUSED" \in flags, "CLOSING" \notin flags, frame = "none"
        PROVE  size > 0 /\ queue # <<>>
    <3>1. size > 0 /\ size = Total(queue)
      BY <2>2 DEF IInv, PausedOver, Counted
    <3> QED BY <3>1, TotalZero
  <2> QED BY <2>1, <2>2 DEF PauseCanEnd
<1> QED BY <1>1, Invariant, PTL

\* close() leaves the handle open until the kernel was asked to send every
\* datagram that has a length.
THEOREM ClosesDrained == Spec => []DrainsBeforeClose
<1>1. IInv => DrainsBeforeClose
  BY DEF IInv
<1> QED BY <1>1, Invariant, PTL
=============================================================================
