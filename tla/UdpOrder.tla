------------------------------ MODULE UdpOrder ------------------------------
(***************************************************************************)
(* The order of a channel's business packages: the sender numbers them, the*)
(* network delays, duplicates and loses them, and the channel drops those  *)
(* that come late (vlfchannel.cpp:196-203).  Indices are unsigned numbers  *)
(* below Modulus that start again, without 0, after the largest, and the   *)
(* filter compares them as numbers; a restart of the sender starts them    *)
(* again as well.  How long the filter is wrong about the order after such *)
(* a change, and which packages it loses, is what the properties say.      *)
(*                                                                         *)
(* Between the socket and the filter a package keeps its place (Dispatch). *)
(***************************************************************************)
EXTENDS Integers

CONSTANTS
  Modulus,     \* 2^32: idx_pac and last_udp_idx are uint32_t
  Window,      \* 1 << 10
  Delay,       \* the network: packages sent while one is under way, at most
  Outage,      \* the network: packages that go by before one arrives, at most
  MaxSent,     \* bound: packages of one behaviour
  MaxRestarts  \* bound: restarts of the sender

(* The network's delay is small against the window, and the window, the    *)
(* delay and an outage together against the range of the indices.          *)
ASSUME OrderAssumption ==
  /\ Modulus \in Nat /\ Window \in Nat /\ Delay \in Nat /\ Outage \in Nat
  /\ Delay < Window
  /\ Window + Outage + Delay < Modulus
  /\ MaxSent \in Nat /\ MaxRestarts \in Nat

VARIABLES
  idxPac,   \* hd_business.idx_pac of the sender
  sent,     \* packages sent; the n-th has number n
  inFlight, \* packages the network holds
  lastIdx,  \* last_udp_idx
  high,     \* history: the highest number processed
  newest,   \* history: the highest number that reached the filter
  start,    \* history: sent when the indices last started again
  restarts, \* restarts so far
  dropped   \* history: packages sent since start, newest and dropped

vars ==
  <<idxPac, sent, inFlight, lastIdx, high, newest, start, restarts, dropped>>

Init ==
  /\ idxPac = 0 /\ sent = 0 /\ inFlight = {} /\ lastIdx = 0
  /\ high = 0 /\ newest = 0 /\ start = 0 /\ restarts = 0 /\ dropped = 0

(* Index 0 is skipped.                                                     *)
PackageIdx == IF idxPac = 0 THEN 1 ELSE idxPac

(* One package of udp_tx_business; what the network has held too long is   *)
(* lost.                                                                   *)
Send ==
  /\ sent < MaxSent /\ sent < newest + Outage
  /\ sent' = sent + 1
  /\ idxPac' = (PackageIdx + 1) % Modulus
  /\ inFlight' = {p \in inFlight : p.no + Delay > sent}
                   \cup {[idx |-> PackageIdx, no |-> sent + 1]}
  /\ start' = IF idxPac = 0 THEN sent ELSE start
  /\ dropped' = IF idxPac = 0 THEN 0 ELSE dropped
  /\ UNCHANGED <<lastIdx, high, newest, restarts>>

(* The transmitter program is closed and started again.                    *)
Restart ==
  /\ restarts < MaxRestarts
  /\ restarts' = restarts + 1
  /\ idxPac' = 0
  /\ UNCHANGED <<sent, inFlight, lastIdx, high, newest, start, dropped>>

Lose ==
  /\ \E p \in inFlight : inFlight' = inFlight \ {p}
  /\ UNCHANGED <<idxPac, sent, lastIdx, high, newest, start, restarts, dropped>>

(* Mutant: every smaller index is late.                                    *)
LateForever(idx) == idx <= lastIdx

(* Mutant: the window is one index wider.                                  *)
LateWide(idx) == idx <= lastIdx /\ lastIdx - idx <= Window

(* Mutant: the last package again is not late.                             *)
LateIfSmaller(idx) == idx < lastIdx /\ lastIdx - idx < Window

(* cnt_udp_idx <= last_udp_idx && last_udp_idx - cnt_udp_idx < 1 << 10     *)
Late(idx) == idx <= lastIdx /\ lastIdx - idx < Window

(* A package reaches the filter; the network may have kept a copy.         *)
Receive(p) ==
  /\ inFlight' \in {inFlight, inFlight \ {p}}
  /\ newest' = IF p.no > newest THEN p.no ELSE newest
  /\ \/ /\ Late(p.idx)
        /\ dropped' = IF p.no > newest /\ p.no > start THEN dropped + 1
                       ELSE dropped
        /\ UNCHANGED <<lastIdx, high>>
     \/ /\ ~Late(p.idx)
        /\ lastIdx' = p.idx
        /\ high' = IF p.no > high THEN p.no ELSE high
        /\ UNCHANGED dropped
  /\ UNCHANGED <<idxPac, sent, start, restarts>>

Next == Send \/ Restart \/ Lose \/ \E p \in inFlight : Receive(p)

Spec == Init /\ [][Next]_vars

-----------------------------------------------------------------------------
TypeOK ==
  /\ idxPac \in 0 .. Modulus - 1 /\ lastIdx \in 0 .. Modulus - 1
  /\ sent \in Nat /\ high \in 0 .. newest /\ newest \in 0 .. sent
  /\ start \in 0 .. sent
  /\ inFlight \subseteq [idx : 1 .. Modulus - 1, no : 1 .. sent]
  /\ restarts \in Nat /\ dropped \in Nat

(* A package is processed after one that was sent later, or a second time, *)
(* only while packages sent around the last start of the indices may still *)
(* be under way, which is as long as the network's delay to either side    *)
(* (vlfchannel.cpp:197-203).                                               *)
OrderExceptAfterStart ==
  [][\A p \in inFlight :
       Receive(p) /\ ~Late(p.idx) /\ p.no <= high
         => start > 0 /\ sent <= start + 2 * Delay]_vars

(* As long as the sender is not restarted, no package is dropped that is   *)
(* newer than all that arrived before it, not even where the indices wrap  *)
(* (vlfchannel.cpp:199, udp_modem_worker.cpp:219-230).                     *)
FreshIsProcessed ==
  [][\A p \in inFlight :
       Receive(p) /\ p.no > newest /\ restarts = 0 => ~Late(p.idx)]_vars

(* After a restart the filter takes new packages for late ones until their *)
(* index is past the last one's: it loses a window of them, and no more    *)
(* than what stragglers from before the restart add (vlfchannel.cpp:199).  *)
RestartCostsAWindow == dropped <= Window + Delay
=============================================================================
