--------------------------- MODULE UdpOrderProofs ---------------------------
(***************************************************************************)
(* For every delay, outage, window and range of indices that satisfy       *)
(* OrderAssumption: the late-package filter keeps the order except around  *)
(* a start of the indices, loses nothing without a restart and at most a   *)
(* window with one.                                                        *)
(***************************************************************************)
EXTENDS UdpOrder, TLAPS

(* The sender's index follows from how many packages were sent since the   *)
(* indices started.                                                        *)
SenderInv ==
  /\ IF idxPac = 0 THEN sent - start <= Modulus - 1
                   ELSE idxPac = sent - start + 1
  /\ restarts = 0 /\ idxPac = 0 => sent = 0 \/ sent - start = Modulus - 1
  /\ sent <= newest + Outage

(* The index the n-th package has if the sender was never restarted.       *)
IndexOf(n) == IF start = 0 \/ n > start THEN n - start
                                        ELSE n - start + Modulus - 1

(* Packages under way are recent, and their indices are known for those    *)
(* sent since start and, without a restart, for those sent before.         *)
FlightInv ==
  \A p \in inFlight :
    /\ p.no + Delay >= sent
    /\ p.no > start => p.idx = p.no - start
    /\ restarts = 0 => p.idx = IndexOf(p.no)

(* Once a package sent more than Delay after start is processed, the last  *)
(* index is that of the highest package.                                   *)
OrderInv == start = 0 \/ high > start + Delay => lastIdx = high - start

(* Without a restart the last index belongs to a recent package.           *)
RecentInv ==
  restarts = 0 =>
    \E q \in Nat : q <= newest /\ newest <= q + Delay /\ lastIdx = IndexOf(q)

(* No more packages are dropped than came; and when those from before      *)
(* start are gone, no more than the window below lastIdx has taken in.     *)
CostInv ==
  /\ dropped = 0 \/ dropped <= newest - start
  /\ sent > start + Delay =>
       \/ dropped <= Delay
       \/ /\ dropped <= Delay + Window
          /\ \/ lastIdx <= newest - start
             \/ dropped <= Delay + Window + newest - start - lastIdx

IInv == TypeOK /\ SenderInv /\ FlightInv /\ OrderInv /\ RecentInv /\ CostInv

-----------------------------------------------------------------------------
(* What the assumption says of the numbers, in the form the steps use.     *)
LEMMA Bounds ==
  /\ Modulus \in Nat /\ Window \in Nat /\ Delay \in Nat /\ Outage \in Nat
  /\ Delay < Window /\ Window + Outage + Delay < Modulus
  /\ MaxSent \in Nat /\ MaxRestarts \in Nat
BY OrderAssumption

(* The index after the largest is 0.                                       *)
LEMMA Wrap ==
  ASSUME NEW n \in 1 .. Modulus - 1
  PROVE  (n + 1) % Modulus = IF n + 1 = Modulus THEN 0 ELSE n + 1
BY Bounds

(* Everything is empty in the beginning (udp_modem_worker.cpp:20-42,       *)
(* vlfchannel.cpp:75).                                                     *)
LEMMA InitInv == Init => IInv
<1> SUFFICES ASSUME Init PROVE IInv
  OBVIOUS
<1>1. TypeOK
  BY Bounds DEF Init, TypeOK
<1>2. SenderInv /\ FlightInv /\ OrderInv /\ CostInv
  BY Bounds DEF Init, SenderInv, FlightInv, OrderInv, CostInv
<1>3. RecentInv
  <2>1. lastIdx = IndexOf(0) /\ 0 <= newest /\ newest <= 0 + Delay
    BY Bounds DEF Init, IndexOf
  <2> QED
    BY <2>1 DEF RecentInv
<1> QED
  BY <1>1, <1>2, <1>3 DEF IInv

(* What is known of a package the filter sees.                             *)
LEMMA PackageFacts ==
  ASSUME IInv, NEW p \in inFlight
  PROVE  /\ p.idx \in 1 .. Modulus - 1 /\ p.no \in 1 .. sent
         /\ p.no + Delay >= sent
         /\ p.no > start => p.idx = p.no - start
BY DEF IInv, TypeOK, FlightInv

(* A package behind the highest one is late, except around a start of the  *)
(* indices: the state-level content of OrderExceptAfterStart.              *)
LEMMA BehindIsLate ==
  ASSUME IInv, NEW p \in inFlight, p.no <= high,
         start = 0 \/ sent > start + 2 * Delay
  PROVE  Late(p.idx)
<1> USE Bounds
<1>1. /\ p.no \in Nat /\ p.no >= 1 /\ p.no + Delay >= sent
      /\ p.no > start => p.idx = p.no - start
  BY PackageFacts DEF IInv, TypeOK
<1>2. /\ sent \in Nat /\ start \in Nat /\ high \in Nat /\ lastIdx \in Nat
      /\ high <= sent
  BY DEF IInv, TypeOK
<1>3. p.no > start
  BY <1>1, <1>2
<1>4. lastIdx = high - start
  BY <1>1, <1>2 DEF IInv, OrderInv
<1> QED
  BY <1>1, <1>2, <1>3, <1>4 DEF Late

(* Without a restart a package ahead of all others is not late: the        *)
(* state-level content of FreshIsProcessed.                                *)
LEMMA NewestIsFresh ==
  ASSUME IInv, NEW p \in inFlight, p.no > newest, restarts = 0
  PROVE  ~Late(p.idx)
<1> USE Bounds
<1>1. p.no \in Nat /\ p.no <= sent /\ p.idx = IndexOf(p.no)
  BY PackageFacts DEF IInv, TypeOK, FlightInv
<1>2. sent \in Nat /\ start \in Nat /\ newest \in Nat
  BY DEF IInv, TypeOK
<1>3. sent <= newest + Outage
  BY DEF IInv, SenderInv
<1>4. PICK q \in Nat : q <= newest /\ newest <= q + Delay /\ lastIdx = IndexOf(q)
  BY DEF IInv, RecentInv
<1>5. p.no - q <= Outage + Delay /\ q < p.no
  BY <1>1, <1>2, <1>3, <1>4
<1> QED
  BY <1>1, <1>2, <1>4, <1>5 DEF Late, IndexOf

-----------------------------------------------------------------------------
(* Sending keeps the invariant: the case in which the indices go on and    *)
(* the case in which they start (again).                                   *)
LEMMA SendTypes ==
  ASSUME IInv, Send
  PROVE  TypeOK'
<1> USE Bounds
<1>1. PackageIdx \in 1 .. Modulus - 1
  BY DEF PackageIdx, IInv, TypeOK
<1>2. idxPac' \in 0 .. Modulus - 1
  BY <1>1, Wrap DEF Send
<1>3. inFlight' \subseteq [idx : 1 .. Modulus - 1, no : 1 .. sent']
  BY <1>1 DEF Send, IInv, TypeOK
<1> QED
  BY <1>2, <1>3 DEF Send, IInv, TypeOK

LEMMA SendContinues ==
  ASSUME IInv, Send, idxPac # 0
  PROVE  IInv'
<1> USE Bounds
<1>1. TypeOK'
  BY SendTypes
<1>2. /\ sent \in Nat /\ start \in Nat /\ newest \in Nat /\ dropped \in Nat
      /\ lastIdx \in Nat /\ high \in Nat /\ high <= newest /\ newest <= sent
      /\ start <= sent /\ idxPac \in 1 .. Modulus - 1
  BY DEF IInv, TypeOK
<1>3. PackageIdx = idxPac /\ idxPac = sent - start + 1
  BY DEF PackageIdx, IInv, SenderInv
<1>4. /\ sent' = sent + 1 /\ start' = start /\ dropped' = dropped
      /\ lastIdx' = lastIdx /\ high' = high /\ newest' = newest
      /\ restarts' = restarts /\ sent < newest + Outage
      /\ idxPac' = IF idxPac + 1 = Modulus THEN 0 ELSE idxPac + 1
  BY <1>2, <1>3, Wrap DEF Send
<1>5. SenderInv'
  BY <1>2, <1>3, <1>4 DEF SenderInv
<1>6. FlightInv'
  <2> SUFFICES ASSUME NEW p \in inFlight'
               PROVE  /\ p.no + Delay >= sent'
                      /\ p.no > start' => p.idx = p.no - start'
                      /\ restarts' = 0 => p.idx = IndexOf(p.no)'
    BY DEF FlightInv
  <2>1. CASE p \in inFlight /\ p.no + Delay > sent
    <3>1. p.no \in Nat
      BY <2>1, PackageFacts, <1>2
    <3> QED
      BY <2>1, <3>1, <1>2, <1>4 DEF IInv, FlightInv, IndexOf
  <2>2. CASE p = [idx |-> PackageIdx, no |-> sent + 1]
    BY <2>2, <1>2, <1>3, <1>4 DEF IndexOf
  <2> QED
    BY <2>1, <2>2 DEF Send
<1>7. OrderInv' /\ RecentInv'
  BY <1>4 DEF IInv, OrderInv, RecentInv, IndexOf
<1>8. CostInv'
  BY <1>2, <1>4 DEF IInv, CostInv
<1> QED
  BY <1>1, <1>5, <1>6, <1>7, <1>8 DEF IInv

LEMMA SendStarts ==
  ASSUME IInv, Send, idxPac = 0
  PROVE  IInv'
<1> USE Bounds
<1>1. TypeOK'
  BY SendTypes
<1>2. /\ sent \in Nat /\ start \in Nat /\ newest \in Nat /\ dropped \in Nat
      /\ lastIdx \in Nat /\ high \in Nat /\ high <= newest /\ newest <= sent
      /\ start <= sent /\ restarts \in Nat
  BY DEF IInv, TypeOK
<1>3. /\ sent - start <= Modulus - 1
      /\ restarts = 0 => sent = 0 \/ sent - start = Modulus - 1
      /\ sent <= newest + Outage
  BY DEF IInv, SenderInv
<1>4. /\ sent' = sent + 1 /\ start' = sent /\ dropped' = 0
      /\ lastIdx' = lastIdx /\ high' = high /\ newest' = newest
      /\ restarts' = restarts /\ sent < newest + Outage
      /\ idxPac' = 2 /\ PackageIdx = 1
  <2>1. PackageIdx = 1 /\ 1 \in 1 .. Modulus - 1 /\ 1 + 1 # Modulus
    BY <1>2 DEF PackageIdx, Send
  <2> QED
    BY <2>1, Wrap DEF Send
<1>5. SenderInv'
  BY <1>2, <1>3, <1>4 DEF SenderInv
<1>6. FlightInv'
  <2> SUFFICES ASSUME NEW p \in inFlight'
               PROVE  /\ p.no + Delay >= sent'
                      /\ p.no > start' => p.idx = p.no - start'
                      /\ restarts' = 0 => p.idx = IndexOf(p.no)'
    BY DEF FlightInv
  <2>1. CASE p \in inFlight /\ p.no + Delay > sent
    <3>1. p.no \in Nat /\ 1 <= p.no /\ p.no <= sent
      BY <2>1, PackageFacts, <1>2
    <3>2. restarts = 0 => p.idx = IndexOf(p.no)
      BY <2>1 DEF IInv, FlightInv
    <3> QED
      BY <2>1, <3>1, <3>2, <1>2, <1>3, <1>4 DEF IndexOf
  <2>2. CASE p = [idx |-> PackageIdx, no |-> sent + 1]
    BY <2>2, <1>2, <1>4 DEF IndexOf
  <2> QED
    BY <2>1, <2>2 DEF Send
<1>7. OrderInv'
  BY <1>2, <1>4 DEF IInv, OrderInv
<1>8. RecentInv'
  <2> SUFFICES ASSUME restarts = 0
               PROVE  \E q \in Nat : /\ q <= newest' /\ newest' <= q + Delay
                                     /\ lastIdx' = IndexOf(q)'
    BY <1>4 DEF RecentInv
  <2>1. PICK q \in Nat : /\ q <= newest /\ newest <= q + Delay
                         /\ lastIdx = IndexOf(q)
    BY DEF IInv, RecentInv
  <2>2. IndexOf(q)' = IndexOf(q)
    BY <2>1, <1>2, <1>3, <1>4 DEF IndexOf
  <2> QED
    BY <2>1, <2>2, <1>4
<1>9. CostInv'
  BY <1>2, <1>4 DEF CostInv
<1> QED
  BY <1>1, <1>5, <1>6, <1>7, <1>8, <1>9 DEF IInv

-----------------------------------------------------------------------------
(* Receiving: the parts of the invariant one by one.                       *)
LEMMA ReceiveTypes ==
  ASSUME IInv, NEW p \in inFlight, Receive(p)
  PROVE  TypeOK'
<1> USE Bounds
<1>1. p.idx \in 1 .. Modulus - 1 /\ p.no \in 1 .. sent
  BY PackageFacts
<1>2. /\ lastIdx' \in 0 .. Modulus - 1 /\ newest' \in 0 .. sent
      /\ high' \in 0 .. newest'
  BY <1>1 DEF Receive, IInv, TypeOK
<1>3. inFlight' \subseteq inFlight /\ dropped' \in Nat
  BY DEF Receive, IInv, TypeOK
<1> QED
  BY <1>2, <1>3 DEF Receive, IInv, TypeOK

LEMMA ReceiveOrder ==
  ASSUME IInv, NEW p \in inFlight, Receive(p)
  PROVE  OrderInv'
<1> USE Bounds
<1>1. /\ p.no \in Nat /\ p.no >= 1 /\ p.no + Delay >= sent /\ p.no <= sent
      /\ p.no > start => p.idx = p.no - start
  BY PackageFacts DEF IInv, TypeOK
<1>2. /\ sent \in Nat /\ start \in Nat /\ high \in Nat /\ lastIdx \in Nat
      /\ high <= sent
  BY DEF IInv, TypeOK
<1>3. start' = start
  BY DEF Receive
<1>4. CASE Late(p.idx)
  <2>1. lastIdx' = lastIdx /\ high' = high
    BY <1>4 DEF Receive
  <2> QED
    BY <2>1, <1>3 DEF IInv, OrderInv
<1>5. CASE ~Late(p.idx)
  <2>1. lastIdx' = p.idx /\ high' = IF p.no > high THEN p.no ELSE high
    BY <1>5 DEF Receive
  <2>2. CASE p.no > high
    BY <2>1, <2>2, <1>1, <1>2, <1>3 DEF OrderInv
  <2>3. CASE p.no <= high
    <3> SUFFICES ASSUME start = 0 \/ high > start + Delay PROVE FALSE
      BY <2>1, <2>3, <1>1, <1>2, <1>3 DEF OrderInv
    <3>1. p.no > start /\ lastIdx = high - start
      BY <1>1, <1>2 DEF IInv, OrderInv
    <3> QED
      BY <3>1, <2>3, <1>1, <1>2, <1>5 DEF Late
  <2> QED
    BY <2>2, <2>3, <1>1, <1>2
<1> QED
  BY <1>4, <1>5

LEMMA ReceiveRecent ==
  ASSUME IInv, NEW p \in inFlight, Receive(p)
  PROVE  RecentInv'
<1> USE Bounds
<1> SUFFICES ASSUME restarts = 0
             PROVE  \E q \in Nat : /\ q <= newest' /\ newest' <= q + Delay
                                   /\ lastIdx' = IndexOf(q)'
  BY DEF Receive, RecentInv
<1>1. /\ p.no \in Nat /\ p.no + Delay >= sent /\ p.no <= sent
      /\ p.idx = IndexOf(p.no)
  BY PackageFacts DEF IInv, TypeOK, FlightInv
<1>2. sent \in Nat /\ newest \in Nat /\ newest <= sent
  BY DEF IInv, TypeOK
<1>3. /\ \A q : IndexOf(q)' = IndexOf(q)
      /\ newest' = IF p.no > newest THEN p.no ELSE newest
  BY DEF Receive, IndexOf
<1>4. CASE Late(p.idx)
  <2>1. lastIdx' = lastIdx /\ newest' = newest
    BY <1>3, <1>4, <1>1, <1>2, NewestIsFresh DEF Receive
  <2> QED
    BY <2>1, <1>3 DEF IInv, RecentInv
<1>5. CASE ~Late(p.idx)
  <2>1. lastIdx' = p.idx
    BY <1>5 DEF Receive
  <2>2. p.no <= newest' /\ newest' <= p.no + Delay
    BY <1>1, <1>2, <1>3
  <2> QED
    BY <2>1, <2>2, <1>1, <1>3
<1> QED
  BY <1>4, <1>5

LEMMA ReceiveCost ==
  ASSUME IInv, NEW p \in inFlight, Receive(p)
  PROVE  CostInv'
<1> USE Bounds
<1>1. /\ p.no \in Nat /\ p.no + Delay >= sent /\ p.no <= sent
      /\ p.no > start => p.idx = p.no - start
  BY PackageFacts DEF IInv, TypeOK
<1>2. /\ sent \in Nat /\ start \in Nat /\ newest \in Nat /\ dropped \in Nat
      /\ lastIdx \in Nat /\ newest <= sent
  BY DEF IInv, TypeOK
<1>3. /\ sent' = sent /\ start' = start
      /\ newest' = IF p.no > newest THEN p.no ELSE newest
  BY DEF Receive
<1>4. /\ dropped = 0 \/ dropped <= newest - start
      /\ sent > start + Delay =>
           \/ dropped <= Delay
           \/ /\ dropped <= Delay + Window
              /\ \/ lastIdx <= newest - start
                 \/ dropped <= Delay + Window + newest - start - lastIdx
  BY DEF IInv, CostInv
<1>5. CASE ~Late(p.idx)
  <2>1. lastIdx' = p.idx /\ dropped' = dropped
    BY <1>5 DEF Receive
  <2> QED
    BY <2>1, <1>1, <1>2, <1>3, <1>4 DEF CostInv
<1>6. CASE Late(p.idx) /\ ~(p.no > newest /\ p.no > start)
  <2>1. lastIdx' = lastIdx /\ dropped' = dropped
    BY <1>6 DEF Receive
  <2> QED
    BY <2>1, <1>1, <1>2, <1>3, <1>4, <1>6 DEF CostInv
<1>7. CASE Late(p.idx) /\ p.no > newest /\ p.no > start
  <2>1. lastIdx' = lastIdx /\ dropped' = dropped + 1 /\ newest' = p.no
    BY <1>7, <1>3 DEF Receive
  <2>2. p.no - start <= lastIdx /\ lastIdx - (p.no - start) < Window
    BY <1>1, <1>7 DEF Late
  <2>3. dropped' <= newest' - start
    BY <2>1, <1>1, <1>2, <1>4, <1>7
  <2>4. sent > start + Delay =>
          dropped' <= Delay + Window + newest' - start - lastIdx
    BY <2>1, <2>2, <1>1, <1>2, <1>4, <1>7
  <2> QED
    BY <2>1, <2>2, <2>3, <2>4, <1>1, <1>2, <1>3 DEF CostInv
<1> QED
  BY <1>5, <1>6, <1>7

LEMMA ReceiveInv ==
  ASSUME IInv, NEW p \in inFlight, Receive(p)
  PROVE  IInv'
<1> USE Bounds
<1>1. TypeOK' /\ OrderInv' /\ RecentInv' /\ CostInv'
  BY ReceiveTypes, ReceiveOrder, ReceiveRecent, ReceiveCost
<1>2. SenderInv'
  <2>1. newest <= newest' /\ newest' \in Nat /\ newest \in Nat
    BY PackageFacts DEF Receive, IInv, TypeOK
  <2> QED
    BY <2>1 DEF Receive, IInv, TypeOK, SenderInv
<1>3. FlightInv'
  BY DEF Receive, IInv, FlightInv, IndexOf
<1> QED
  BY <1>1, <1>2, <1>3 DEF IInv

(* A restart keeps everything but the claims about unrestarted senders; a  *)
(* lost package takes nothing with it.                                     *)
LEMMA RestartInv ==
  ASSUME IInv, Restart
  PROVE  IInv'
<1> USE Bounds
<1>1. restarts' # 0
  BY DEF Restart, IInv, TypeOK
<1>2. TypeOK'
  BY DEF Restart, IInv, TypeOK
<1>3. SenderInv'
  <2>1. sent - start <= Modulus - 1
    BY DEF IInv, TypeOK, SenderInv
  <2> QED
    BY <2>1, <1>1 DEF Restart, IInv, SenderInv
<1>4. FlightInv' /\ RecentInv' /\ OrderInv' /\ CostInv'
  BY <1>1 DEF Restart, IInv, FlightInv, RecentInv, OrderInv, CostInv
<1> QED
  BY <1>2, <1>3, <1>4 DEF IInv

LEMMA LoseInv ==
  ASSUME IInv, Lose
  PROVE  IInv'
<1>1. inFlight' \subseteq inFlight
  BY DEF Lose
<1> QED
  BY <1>1 DEF Lose, IInv, TypeOK, SenderInv, FlightInv, RecentInv, OrderInv,
              CostInv, IndexOf

LEMMA StepInv == IInv /\ [Next]_vars => IInv'
<1> SUFFICES ASSUME IInv, [Next]_vars PROVE IInv'
  OBVIOUS
<1>1. CASE Send
  BY <1>1, SendContinues, SendStarts
<1>2. CASE Restart
  BY <1>2, RestartInv
<1>3. CASE Lose
  BY <1>3, LoseInv
<1>4. ASSUME NEW p \in inFlight, Receive(p) PROVE IInv'
  BY <1>4, ReceiveInv
<1>5. CASE UNCHANGED vars
  BY <1>5 DEF vars, IInv, TypeOK, SenderInv, FlightInv, RecentInv, OrderInv,
              CostInv, IndexOf
<1> QED
  BY <1>1, <1>2, <1>3, <1>4, <1>5 DEF Next

-----------------------------------------------------------------------------
(* The inductive invariant holds throughout.                               *)
THEOREM OrderInvariant == Spec => []IInv
BY InitInv, StepInv, PTL DEF Spec

(* Indices, numbers and packages keep to their ranges; no package has      *)
(* index 0.                                                                *)
THEOREM OrderTypeCorrect == Spec => []TypeOK
<1>1. IInv => TypeOK
  BY DEF IInv
<1> QED
  BY <1>1, OrderInvariant, PTL

(* A restart of the sender costs at most a window of packages and as many  *)
(* as the network's delay holds (vlfchannel.cpp:199).                      *)
THEOREM RestartCost == Spec => []RestartCostsAWindow
<1>1. IInv => RestartCostsAWindow
  <2> SUFFICES ASSUME IInv PROVE dropped <= Window + Delay
    BY DEF RestartCostsAWindow
  <2>1. /\ sent \in Nat /\ start \in Nat /\ newest \in Nat /\ dropped \in Nat
        /\ newest <= sent /\ Window \in Nat /\ Delay \in Nat
    BY Bounds DEF IInv, TypeOK
  <2>2. /\ dropped = 0 \/ dropped <= newest - start
        /\ sent > start + Delay =>
             dropped <= Delay \/ dropped <= Delay + Window
    BY DEF IInv, CostInv
  <2> QED
    BY <2>1, <2>2
<1> QED
  BY <1>1, OrderInvariant, PTL

(* The filter processes packages in the order they were sent in, except    *)
(* around a start of the indices (vlfchannel.cpp:197-203).                 *)
THEOREM OrderKept == Spec => OrderExceptAfterStart
<1>1. IInv /\ [Next]_vars =>
        [\A p \in inFlight :
           Receive(p) /\ ~Late(p.idx) /\ p.no <= high
             => start > 0 /\ sent <= start + 2 * Delay]_vars
  <2> SUFFICES ASSUME IInv, NEW p \in inFlight, ~Late(p.idx), p.no <= high
               PROVE  start > 0 /\ sent <= start + 2 * Delay
    OBVIOUS
  <2>1. ~(start = 0 \/ sent > start + 2 * Delay)
    BY BehindIsLate
  <2> QED
    BY <2>1, Bounds DEF IInv, TypeOK
<1> QED
  BY <1>1, OrderInvariant, PTL DEF Spec, OrderExceptAfterStart

(* Without a restart of the sender no package that is ahead of all others  *)
(* is dropped, at the wrap of the indices neither (vlfchannel.cpp:199).    *)
THEOREM FreshProcessed == Spec => FreshIsProcessed
<1>1. IInv /\ [Next]_vars =>
        [\A p \in inFlight :
           Receive(p) /\ p.no > newest /\ restarts = 0 => ~Late(p.idx)]_vars
  BY NewestIsFresh
<1> QED
  BY <1>1, OrderInvariant, PTL DEF Spec, FreshIsProcessed
=============================================================================
