--------------------------- MODULE DispatchProofs ---------------------------
(***************************************************************************)
(* Dispatch, for every number of channels, queue capacity and traffic: the *)
(* typing of its state and the agreement of a channel's two queues.        *)
(*                                                                         *)
(* The inductive invariant says of one channel, with the sequences ev (its *)
(* posted events) and q (its packages), that the business events of ev     *)
(* announce, in order, exactly the packages of q (Linked), and that        *)
(* following the device events of ev from the channel's settings leads to  *)
(* the settings each package came under and, at the end, to the receiver's *)
(* (Chained) unless those are still to be posted.  The lemmas say what one *)
(* step of either side does to those facts; the theorems put them together.*)
(***************************************************************************)
EXTENDS Dispatch, TLAPS

(* The business events of ev announce, in order, packages lo + 1 .. hi of  *)
(* the channel, each of them.                                              *)
Linked(ev, lo, hi) ==
  /\ lo <= hi
  /\ \A i, j \in 1 .. Len(ev) :
       i < j /\ ev[i].kind = "business" /\ ev[j].kind = "business"
         => ev[i].no < ev[j].no
  /\ \A n \in lo + 1 .. hi :
       \E i \in 1 .. Len(ev) : ev[i].kind = "business" /\ ev[i].no = n
  /\ \A i \in 1 .. Len(ev) : ev[i].kind = "business" =>
       lo < ev[i].no /\ ev[i].no <= hi

LEMMA EventNo ==
  ASSUME NEW e \in Event
  PROVE  e.no \in Nat
  BY DEF Event

LEMMA AppendEvent ==
  ASSUME NEW ev \in Seq(Event), NEW e \in Event
  PROVE  /\ Append(ev, e) \in Seq(Event)
         /\ Len(Append(ev, e)) = Len(ev) + 1 /\ Len(ev) \in Nat
         /\ Append(ev, e)[Len(ev) + 1] = e
         /\ \A i \in 1 .. Len(ev) : Append(ev, e)[i] = ev[i] /\ ev[i] \in Event
  OBVIOUS

LEMMA TailEvent ==
  ASSUME NEW ev \in Seq(Event), ev # <<>>
  PROVE  /\ Tail(ev) \in Seq(Event) /\ Len(Tail(ev)) = Len(ev) - 1
         /\ Len(ev) \in Nat \ {0}
         /\ Head(ev) = ev[1] /\ Head(ev) \in Event
         /\ \A i \in 1 .. Len(ev) - 1 : Tail(ev)[i] = ev[i + 1]
         /\ \A i \in 1 .. Len(ev) : ev[i] \in Event
  OBVIOUS

LEMMA AnnounceLinked ==
  ASSUME NEW ev \in Seq(Event), NEW lo \in Nat, NEW hi \in Nat, NEW e \in Event,
         e.kind = "business", e.no = hi + 1, Linked(ev, lo, hi)
  PROVE  Linked(Append(ev, e), lo, hi + 1)
<1> DEFINE ev2 == Append(ev, e)
           l == Len(ev) + 1
<1>1. /\ Len(ev2) = l /\ Len(ev) \in Nat
      /\ ev2[l] = e /\ \A i \in 1 .. Len(ev) : ev2[i] = ev[i]
  BY AppendEvent
<1>2. \A i \in 1 .. Len(ev) : ev[i].no \in Nat
  BY AppendEvent, EventNo
<1>3. \A i \in 1 .. Len(ev2) : i = l \/ i \in 1 .. Len(ev)
  BY <1>1
<1> HIDE DEF ev2
<1>4. \A i, j \in 1 .. Len(ev2) :
        i < j /\ ev2[i].kind = "business" /\ ev2[j].kind = "business"
          => ev2[i].no < ev2[j].no
  BY <1>1, <1>2, <1>3 DEF Linked
<1>5. \A n \in lo + 1 .. hi + 1 :
        \E i \in 1 .. Len(ev2) : ev2[i].kind = "business" /\ ev2[i].no = n
  BY <1>1 DEF Linked
<1>6. \A i \in 1 .. Len(ev2) : ev2[i].kind = "business" =>
        lo < ev2[i].no /\ ev2[i].no <= hi + 1
  BY <1>1, <1>2, <1>3 DEF Linked
<1>7. Linked(ev2, lo, hi + 1)
  BY <1>4, <1>5, <1>6 DEF Linked
<1> QED
  BY <1>7 DEF ev2

LEMMA AppendLinked ==
  ASSUME NEW ev \in Seq(Event), NEW lo \in Nat, NEW hi \in Nat, NEW e \in Event,
         e.kind # "business", Linked(ev, lo, hi)
  PROVE  Linked(Append(ev, e), lo, hi)
<1> DEFINE ev2 == Append(ev, e)
<1>1. /\ Len(ev2) = Len(ev) + 1 /\ Len(ev) \in Nat
      /\ ev2[Len(ev) + 1] = e /\ \A i \in 1 .. Len(ev) : ev2[i] = ev[i]
  BY AppendEvent
<1>2. \A i \in 1 .. Len(ev2) :
        ev2[i].kind = "business" => i \in 1 .. Len(ev) /\ ev2[i] = ev[i]
  BY <1>1
<1>3. \A i \in 1 .. Len(ev) : i \in 1 .. Len(ev2) /\ ev2[i] = ev[i]
  BY <1>1
<1> HIDE DEF ev2
<1>4. Linked(ev2, lo, hi)
  BY <1>2, <1>3 DEF Linked
<1> QED
  BY <1>4 DEF ev2

LEMMA SkipLinked ==
  ASSUME NEW ev \in Seq(Event), NEW lo \in Nat, NEW hi \in Nat,
         ev # <<>>, Head(ev).kind # "business", Linked(ev, lo, hi)
  PROVE  Linked(Tail(ev), lo, hi)
<1> DEFINE t == Tail(ev)
<1>1. \A i \in 1 .. Len(t) :
        i \in Nat /\ i + 1 \in 1 .. Len(ev) /\ t[i] = ev[i + 1]
  BY TailEvent
<1>2. \A j \in 1 .. Len(ev) :
        ev[j].kind = "business" => j - 1 \in 1 .. Len(t) /\ t[j - 1] = ev[j]
  BY TailEvent
<1> HIDE DEF t
<1>3. \A i, j \in 1 .. Len(t) :
        i < j /\ t[i].kind = "business" /\ t[j].kind = "business"
          => t[i].no < t[j].no
  BY <1>1 DEF Linked
<1>4. ASSUME NEW n \in lo + 1 .. hi
      PROVE  \E i \in 1 .. Len(t) : t[i].kind = "business" /\ t[i].no = n
  <2>1. PICK j \in 1 .. Len(ev) : ev[j].kind = "business" /\ ev[j].no = n
    BY DEF Linked
  <2>2. j - 1 \in 1 .. Len(t) /\ t[j - 1] = ev[j]
    BY <1>2, <2>1
  <2> QED
    BY <2>1, <2>2
<1>5. ASSUME NEW i \in 1 .. Len(t), t[i].kind = "business"
      PROVE  lo < t[i].no /\ t[i].no <= hi
  <2>1. i + 1 \in 1 .. Len(ev) /\ t[i] = ev[i + 1]
    BY <1>1
  <2> QED
    BY <2>1, <1>5 DEF Linked
<1>6. Linked(t, lo, hi)
  BY <1>3, <1>4, <1>5 DEF Linked
<1> QED
  BY <1>6 DEF t

(* The first business event announces the oldest package.                  *)
LEMMA HeadAnnouncesFirst ==
  ASSUME NEW ev \in Seq(Event), NEW lo \in Nat, NEW hi \in Nat,
         ev # <<>>, Head(ev).kind = "business", Linked(ev, lo, hi)
  PROVE  lo < hi /\ Head(ev).no = lo + 1
<1>1. 1 \in 1 .. Len(ev) /\ ev[1] = Head(ev) /\ Len(ev) \in Nat
  BY TailEvent
<1>2. \A i \in 1 .. Len(ev) : ev[i].no \in Nat
  BY TailEvent, EventNo
<1>3. lo < ev[1].no /\ ev[1].no <= hi
  BY <1>1 DEF Linked
<1>4. lo < hi
  BY <1>1, <1>2, <1>3
<1>5. PICK i \in 1 .. Len(ev) : ev[i].kind = "business" /\ ev[i].no = lo + 1
  BY <1>4 DEF Linked
<1>6. CASE i = 1
  BY <1>1, <1>4, <1>5, <1>6
<1>7. CASE i # 1
  <2>1. ev[1].no < ev[i].no
    BY <1>1, <1>5, <1>7 DEF Linked
  <2> QED
    BY <2>1, <1>1, <1>2, <1>3, <1>5
<1> QED
  BY <1>6, <1>7

LEMMA TakeLinked ==
  ASSUME NEW ev \in Seq(Event), NEW lo \in Nat, NEW hi \in Nat,
         ev # <<>>, Head(ev).kind = "business", Linked(ev, lo, hi)
  PROVE  Linked(Tail(ev), lo + 1, hi)
<1> DEFINE t == Tail(ev)
<1>1. lo < hi /\ Head(ev).no = lo + 1
  BY HeadAnnouncesFirst
<1>2. \A i \in 1 .. Len(t) :
        i \in Nat /\ 1 < i + 1 /\ i + 1 \in 1 .. Len(ev) /\ t[i] = ev[i + 1]
  BY TailEvent
<1>3. \A j \in 1 .. Len(ev) : j # 1 => j - 1 \in 1 .. Len(t) /\ t[j - 1] = ev[j]
  BY TailEvent
<1>4. 1 \in 1 .. Len(ev) /\ ev[1].no = lo + 1 /\ ev[1].kind = "business"
  BY <1>1, TailEvent
<1>5. \A i \in 1 .. Len(ev) : ev[i].no \in Nat
  BY TailEvent, EventNo
<1> HIDE DEF t
<1>6. ASSUME NEW i \in 1 .. Len(t), NEW j \in 1 .. Len(t), i < j,
             t[i].kind = "business", t[j].kind = "business"
      PROVE  t[i].no < t[j].no
  <2>1. /\ i + 1 \in 1 .. Len(ev) /\ t[i] = ev[i + 1]
        /\ j + 1 \in 1 .. Len(ev) /\ t[j] = ev[j + 1]
        /\ i + 1 < j + 1
    BY <1>2, <1>6
  <2> QED
    BY <2>1, <1>6 DEF Linked
<1>7. ASSUME NEW n \in lo + 2 .. hi
      PROVE  \E i \in 1 .. Len(t) : t[i].kind = "business" /\ t[i].no = n
  <2>1. PICK i \in 1 .. Len(ev) : ev[i].kind = "business" /\ ev[i].no = n
    BY DEF Linked
  <2>2. i # 1
    BY <2>1, <1>4
  <2> QED
    BY <2>1, <2>2, <1>3
<1>8. ASSUME NEW i \in 1 .. Len(t), t[i].kind = "business"
      PROVE  lo + 1 < t[i].no /\ t[i].no <= hi
  <2>1. /\ i + 1 \in 1 .. Len(ev) /\ t[i] = ev[i + 1] /\ 1 < i + 1
        /\ ev[i + 1].kind = "business"
    BY <1>2, <1>8
  <2>2. ev[1].no < ev[i + 1].no /\ ev[i + 1].no <= hi
    BY <2>1, <1>4 DEF Linked
  <2> QED
    BY <2>1, <2>2, <1>4, <1>5
<1>9. Linked(t, lo + 1, hi)
  BY <1>1, <1>6, <1>7, <1>8 DEF Linked
<1> QED
  BY <1>9 DEF t

(* Following ev's device events from settings info leads to dev, and every *)
(* event in between was posted under the settings reached there.           *)
Chained(ev, info, dev) ==
  /\ Len(ev) = 0 => info = dev
  /\ Len(ev) > 0 => ev[Len(ev)].dev = dev
  /\ Len(ev) > 0 /\ ev[1].kind # "device" => info = ev[1].dev
  /\ \A i \in 1 .. Len(ev) - 1 :
       ev[i + 1].kind # "device" => ev[i].dev = ev[i + 1].dev

LEMMA AppendChained ==
  ASSUME NEW ev \in Seq(Event), NEW e \in Event, NEW info, NEW dev,
         Chained(ev, info, dev), e.kind # "device" => e.dev = dev
  PROVE  Chained(Append(ev, e), info, e.dev)
<1> DEFINE ev2 == Append(ev, e)
<1>1. /\ Len(ev2) = Len(ev) + 1 /\ Len(ev) \in Nat
      /\ ev2[Len(ev) + 1] = e /\ \A i \in 1 .. Len(ev) : ev2[i] = ev[i]
  BY AppendEvent
<1> HIDE DEF ev2
<1>2. ev2[1].kind # "device" => info = ev2[1].dev
  <2>1. CASE Len(ev) = 0
    BY <2>1, <1>1 DEF Chained
  <2>2. CASE Len(ev) > 0
    BY <2>2, <1>1 DEF Chained
  <2> QED
    BY <2>1, <2>2, <1>1
<1>3. ASSUME NEW i \in 1 .. Len(ev2) - 1, ev2[i + 1].kind # "device"
      PROVE  ev2[i].dev = ev2[i + 1].dev
  <2>1. CASE i = Len(ev)
    BY <2>1, <1>1, <1>3 DEF Chained
  <2>2. CASE i # Len(ev)
    <3>1. i \in 1 .. Len(ev) - 1 /\ i \in 1 .. Len(ev) /\ i + 1 \in 1 .. Len(ev)
      BY <2>2, <1>1
    <3>2. ev2[i] = ev[i] /\ ev2[i + 1] = ev[i + 1]
      BY <3>1, <1>1
    <3> QED
      BY <3>1, <3>2, <1>3 DEF Chained
  <2> QED
    BY <2>1, <2>2
<1>4. Chained(ev2, info, e.dev)
  BY <1>1, <1>2, <1>3 DEF Chained
<1> QED
  BY <1>4 DEF ev2

(* The handler of the first event: a device event sets the settings to its *)
(* argument, any other leaves them alone.                                  *)
LEMMA TailChained ==
  ASSUME NEW ev \in Seq(Event), NEW info, NEW dev, NEW info2,
         ev # <<>>, Chained(ev, info, dev),
         info2 = IF Head(ev).kind = "device" THEN Head(ev).dev ELSE info
  PROVE  Chained(Tail(ev), info2, dev)
<1> DEFINE t == Tail(ev)
<1>1. /\ Len(t) = Len(ev) - 1 /\ Len(ev) \in Nat \ {0} /\ Head(ev) = ev[1]
      /\ \A i \in 1 .. Len(ev) - 1 : t[i] = ev[i + 1]
  BY TailEvent
<1> HIDE DEF t
<1>2. info2 = ev[1].dev
  <2>1. CASE Head(ev).kind = "device"
    BY <2>1, <1>1
  <2>2. CASE Head(ev).kind # "device"
    BY <2>2, <1>1 DEF Chained
  <2> QED
    BY <2>1, <2>2
<1>3. Len(t) = 0 => info2 = dev
  <2> HAVE Len(t) = 0
  <2>1. Len(ev) = 1
    BY <1>1
  <2>2. ev[Len(ev)].dev = dev
    BY <2>1 DEF Chained
  <2> QED
    BY <2>1, <2>2, <1>2
<1>4. Len(t) > 0 => t[Len(t)].dev = dev
  <2> HAVE Len(t) > 0
  <2>1. Len(t) \in 1 .. Len(ev) - 1 /\ Len(t) + 1 = Len(ev)
    BY <1>1
  <2>2. t[Len(t)] = ev[Len(t) + 1]
    BY <2>1, <1>1
  <2> QED
    BY <2>1, <2>2, <1>1 DEF Chained
<1>5. Len(t) > 0 /\ t[1].kind # "device" => info2 = t[1].dev
  <2> HAVE Len(t) > 0 /\ t[1].kind # "device"
  <2>1. 1 \in 1 .. Len(ev) - 1
    BY <1>1
  <2>2. t[1] = ev[1 + 1]
    BY <2>1, <1>1
  <2>3. ev[1].dev = ev[1 + 1].dev
    BY <2>1, <2>2 DEF Chained
  <2> QED
    BY <2>2, <2>3, <1>2
<1>6. ASSUME NEW i \in 1 .. Len(t) - 1, t[i + 1].kind # "device"
      PROVE  t[i].dev = t[i + 1].dev
  <2>1. i \in 1 .. Len(ev) - 1 /\ i + 1 \in 1 .. Len(ev) - 1
    BY <1>1
  <2>2. t[i] = ev[i + 1] /\ t[i + 1] = ev[(i + 1) + 1]
    BY <2>1, <1>1
  <2> QED
    BY <2>1, <2>2, <1>6 DEF Chained
<1>7. Chained(t, info2, dev)
  BY <1>3, <1>4, <1>5, <1>6 DEF Chained
<1> QED
  BY <1>7 DEF t

(* Every announced package came under the settings of its announcement; lo *)
(* packages were taken before q's first.                                   *)
Stamped(ev, q, lo) ==
  \A i \in 1 .. Len(ev) : ev[i].kind = "business" =>
    \A n \in 1 .. Len(q) : ev[i].no = lo + n => q[n].dev = ev[i].dev

LEMMA EnqueueStamped ==
  ASSUME NEW ev \in Seq(Event), NEW q \in Seq(Queued), NEW lo \in Nat,
         NEW p \in Queued, Stamped(ev, q, lo), Linked(ev, lo, lo + Len(q))
  PROVE  Stamped(ev, Append(q, p), lo)
<1>1. /\ Len(Append(q, p)) = Len(q) + 1 /\ Len(q) \in Nat
      /\ \A n \in 1 .. Len(q) : Append(q, p)[n] = q[n]
  OBVIOUS
<1> SUFFICES ASSUME NEW i \in 1 .. Len(ev), ev[i].kind = "business",
                    NEW n \in 1 .. Len(Append(q, p)), ev[i].no = lo + n
             PROVE  Append(q, p)[n].dev = ev[i].dev
  BY DEF Stamped
<1>2. n <= Len(q)
  BY <1>1 DEF Linked
<1>3. n \in 1 .. Len(q) /\ Append(q, p)[n] = q[n]
  BY <1>1, <1>2
<1> QED
  BY <1>3 DEF Stamped

LEMMA AppendStamped ==
  ASSUME NEW ev \in Seq(Event), NEW q \in Seq(Queued), NEW lo \in Nat,
         NEW e \in Event, Stamped(ev, q, lo),
         e.kind = "business" =>
           /\ Len(q) > 0 /\ e.no = lo + Len(q) /\ q[Len(q)].dev = e.dev
  PROVE  Stamped(Append(ev, e), q, lo)
<1> DEFINE ev2 == Append(ev, e)
<1>1. /\ Len(ev2) = Len(ev) + 1 /\ Len(ev) \in Nat
      /\ ev2[Len(ev) + 1] = e /\ \A i \in 1 .. Len(ev) : ev2[i] = ev[i]
  BY AppendEvent
<1> HIDE DEF ev2
<1>2. ASSUME NEW i \in 1 .. Len(ev2), ev2[i].kind = "business",
             NEW n \in 1 .. Len(q), ev2[i].no = lo + n
      PROVE  q[n].dev = ev2[i].dev
  <2>1. CASE i = Len(ev) + 1
    <3>1. n = Len(q)
      BY <2>1, <1>1, <1>2
    <3> QED
      BY <3>1, <2>1, <1>1, <1>2
  <2>2. CASE i # Len(ev) + 1
    <3>1. i \in 1 .. Len(ev) /\ ev2[i] = ev[i]
      BY <2>2, <1>1
    <3> QED
      BY <3>1, <1>2 DEF Stamped
  <2> QED
    BY <2>1, <2>2
<1>3. Stamped(ev2, q, lo)
  BY <1>2 DEF Stamped
<1> QED
  BY <1>3 DEF ev2

LEMMA SkipStamped ==
  ASSUME NEW ev \in Seq(Event), NEW q \in Seq(Queued), NEW lo \in Nat,
         ev # <<>>, Stamped(ev, q, lo)
  PROVE  Stamped(Tail(ev), q, lo)
<1>1. \A i \in 1 .. Len(Tail(ev)) :
        i + 1 \in 1 .. Len(ev) /\ Tail(ev)[i] = ev[i + 1]
  BY TailEvent
<1> QED
  BY <1>1 DEF Stamped

LEMMA TakeStamped ==
  ASSUME NEW ev \in Seq(Event), NEW q \in Seq(Queued), NEW lo \in Nat,
         q # <<>>, Stamped(ev, q, lo)
  PROVE  Stamped(ev, Tail(q), lo + 1)
<1>1. \A n \in 1 .. Len(Tail(q)) :
        n + 1 \in 1 .. Len(q) /\ Tail(q)[n] = q[n + 1] /\ (lo + 1) + n = lo + (n + 1)
  OBVIOUS
<1> QED
  BY <1>1, ZenonT(60) DEF Stamped

(* The configuration was applied or comes before any business event.       *)
ConfigAhead(ev, conf) ==
  conf \/ \E j \in 1 .. Len(ev) :
            /\ ev[j].kind = "config"
            /\ \A i \in 1 .. j : ev[i].kind # "business"

LEMMA AppendConfigAhead ==
  ASSUME NEW ev \in Seq(Event), NEW e \in Event, NEW conf \in BOOLEAN,
         ConfigAhead(ev, conf)
  PROVE  ConfigAhead(Append(ev, e), conf)
<1>1. /\ Len(Append(ev, e)) = Len(ev) + 1 /\ Len(ev) \in Nat
      /\ \A i \in 1 .. Len(ev) : Append(ev, e)[i] = ev[i]
  BY AppendEvent
<1>2. CASE conf
  BY <1>2 DEF ConfigAhead
<1>3. CASE ~conf
  <2>1. PICK j \in 1 .. Len(ev) :
          ev[j].kind = "config" /\ \A i \in 1 .. j : ev[i].kind # "business"
    BY <1>3 DEF ConfigAhead
  <2>2. \A i \in 1 .. j : Append(ev, e)[i] = ev[i]
    BY <1>1
  <2>3. j \in 1 .. Len(Append(ev, e)) /\ j \in 1 .. j
    BY <1>1
  <2> QED
    BY <2>1, <2>2, <2>3 DEF ConfigAhead
<1> QED
  BY <1>2, <1>3

LEMMA TailConfigAhead ==
  ASSUME NEW ev \in Seq(Event), NEW conf \in BOOLEAN, NEW conf2 \in BOOLEAN,
         ev # <<>>, ConfigAhead(ev, conf), conf => conf2,
         Head(ev).kind = "config" => conf2
  PROVE  ConfigAhead(Tail(ev), conf2)
<1>1. CASE conf2
  BY <1>1 DEF ConfigAhead
<1>2. CASE ~conf2
  <2>1. PICK j \in 1 .. Len(ev) :
          ev[j].kind = "config" /\ \A i \in 1 .. j : ev[i].kind # "business"
    BY <1>2 DEF ConfigAhead
  <2>2. j # 1
    BY <1>2, <2>1, TailEvent
  <2>3. /\ j - 1 \in 1 .. Len(Tail(ev)) /\ Tail(ev)[j - 1] = ev[j]
        /\ \A i \in 1 .. j - 1 : i + 1 \in 1 .. j /\ Tail(ev)[i] = ev[i + 1]
    BY <2>2, TailEvent
  <2> QED
    BY <2>1, <2>3 DEF ConfigAhead
<1> QED
  BY <1>1, <1>2

LEMMA HeadConfigured ==
  ASSUME NEW ev \in Seq(Event), NEW conf \in BOOLEAN,
         ev # <<>>, ConfigAhead(ev, conf), Head(ev).kind = "business"
  PROVE  conf
  BY TailEvent DEF ConfigAhead
-----------------------------------------------------------------------------
(* The typing of the state.                                                *)

LEMMA DatagramFacts ==
  ASSUME NEW d \in Datagram
  PROVE  /\ d.kind = "status" => d.dev \in Devices
         /\ d.kind = "business" => d.ch \in Channels /\ d.pkg \in Package
  BY DEF Datagram

LEMMA TypeInit == Init => TypeOK
<1> SUFFICES ASSUME Init PROVE TypeOK
  OBVIOUS
<1>1. /\ socket \in Seq(Datagram)
      /\ events \in [Channels -> Seq(Event)]
      /\ queue \in [Channels -> Seq(Queued)]
  BY DEF Init
<1>2. k \in 0 .. NumChannels /\ target \in Channels
  BY DispatchAssumption DEF Init, Channels
<1>3. /\ device \in Devices
      /\ d_info \in [Channels -> Devices]
      /\ params \in [Channels -> Params]
  BY DispatchAssumption DEF Init
<1> QED
  BY <1>1, <1>2, <1>3 DEF Init, TypeOK

LEMMA TypeMain ==
  ASSUME TypeOK, MainStep \/ ExitReceiver
  PROVE  TypeOK'
<1> USE DispatchAssumption DEF TypeOK, Channels, recvVars, channelVars
<1>1. CASE SetVlfConfig
  <2>1. ASSUME NEW c \in Channels
        PROVE  Append(Append(events[c], [kind |-> "device", dev |-> Startup, no |-> 0]),
                      [kind |-> "config", dev |-> Startup, no |-> 0]) \in Seq(Event)
    <3>1. /\ [kind |-> "device", dev |-> Startup, no |-> 0] \in Event
          /\ [kind |-> "config", dev |-> Startup, no |-> 0] \in Event
      BY DEF Event
    <3> QED
      BY <3>1
  <2>2. events' \in [Channels -> Seq(Event)]
    BY <2>1, <1>1, SMTT(30) DEF SetVlfConfig
  <2> QED
    BY <2>2, <1>1, SMTT(30) DEF SetVlfConfig
<1>2. CASE StartChannel
  BY <1>2, SMTT(30) DEF StartChannel
<1>3. CASE StartReceiver
  BY <1>3 DEF StartReceiver
<1>4. CASE ExitReceiver
  BY <1>4 DEF ExitReceiver
<1>5. CASE JoinReceiver
  BY <1>5 DEF JoinReceiver
<1>6. CASE ExitChannel
  <2>1. /\ k \in Channels /\ main' = "waitCh"
        /\ chThread' \in [Channels -> {"created", "running", "quit", "finished"}]
    BY <1>6 DEF ExitChannel
  <2> QED
    BY <2>1, <1>6 DEF ExitChannel
<1>7. CASE JoinChannel
  <2>1. k' \in 0 .. NumChannels /\ main' = "exitCh"
    BY <1>7 DEF JoinChannel
  <2> QED
    BY <2>1, <1>7 DEF JoinChannel
<1>8. CASE Close
  BY <1>8 DEF Close
<1> QED
  BY <1>1, <1>2, <1>3, <1>4, <1>5, <1>6, <1>7, <1>8 DEF MainStep

LEMMA TypeReceiver ==
  ASSUME TypeOK, ReceiverStep
  PROVE  TypeOK'
<1> USE DispatchAssumption DEF TypeOK, mainVars, channelVars
<1>1. CASE StartReceiving
  BY <1>1 DEF StartReceiving
<1>2. CASE ReadyRead
  BY <1>2 DEF ReadyRead
<1>3. CASE ReceiveStatus
  <2>1. Head(socket) \in Datagram /\ Tail(socket) \in Seq(Datagram)
    BY <1>3 DEF ReceiveStatus
  <2>2. device' \in Devices
    BY <2>1, <1>3, DatagramFacts DEF ReceiveStatus
  <2>3. target' \in Channels
    BY <1>3 DEF ReceiveStatus, Channels
  <2> QED
    BY <2>1, <2>2, <2>3, <1>3 DEF ReceiveStatus
<1>9. CASE NotifyChannel
  <2>1. [kind |-> "device", dev |-> device, no |-> 0] \in Event
    BY DEF Event
  <2>2. events' \in [Channels -> Seq(Event)]
    BY <2>1, <1>9 DEF NotifyChannel
  <2>3. /\ target' \in Channels
        /\ recvPc' \in {"created", "loop", "drain", "notify", "emit", "finished"}
    <3>1. CASE target + 1 < NumChannels /\ target' = target + 1 /\ UNCHANGED recvPc
      BY <3>1 DEF Channels
    <3>2. CASE recvPc' = "drain" /\ UNCHANGED target
      BY <3>2
    <3> QED
      BY <3>1, <3>2, <1>9 DEF NotifyChannel
  <2> QED
    BY <2>2, <2>3, <1>9 DEF NotifyChannel
<1>4. CASE ReceiveBusiness
  <2>1. Head(socket) \in Datagram /\ Tail(socket) \in Seq(Datagram)
    BY <1>4 DEF ReceiveBusiness
  <2>2. Head(socket).ch \in Channels /\ Head(socket).pkg \in Package
    BY <2>1, <1>4, DatagramFacts DEF ReceiveBusiness
  <2>3. [pkg |-> Head(socket).pkg, dev |-> device] \in Queued
    BY <2>2 DEF Queued
  <2>4. /\ target' \in Channels
        /\ recvPc' \in {"created", "loop", "drain", "notify", "emit", "finished"}
    BY <2>2, <1>4 DEF ReceiveBusiness
  <2>5. queue' \in [Channels -> Seq(Queued)]
    <3>1. CASE UNCHANGED queue
      BY <3>1
    <3>2. CASE queue' = [queue EXCEPT ![Head(socket).ch] = Append(@,
                           [pkg |-> Head(socket).pkg, dev |-> device])]
      <4>1. Append(queue[Head(socket).ch],
                   [pkg |-> Head(socket).pkg, dev |-> device]) \in Seq(Queued)
        BY <2>2, <2>3
      <4> QED
        BY <4>1, <3>2
    <3> QED
      BY <3>1, <3>2, <1>4 DEF ReceiveBusiness
  <2> QED
    BY <2>1, <2>4, <2>5, <1>4 DEF ReceiveBusiness
<1>5. CASE ReceiveOther
  BY <1>5 DEF ReceiveOther
<1>6. CASE EmitBusiness
  <2>1. [kind |-> "business", dev |-> device,
         no |-> taken[target] + Len(queue[target])] \in Event
    BY DEF Event
  <2>2. events' \in [Channels -> Seq(Event)]
    BY <2>1, <1>6 DEF EmitBusiness
  <2> QED
    BY <2>2, <1>6 DEF EmitBusiness
<1>7. CASE ReadDone
  BY <1>7 DEF ReadDone
<1>8. CASE FinishReceiver
  <2>1. socket' \in Seq(Datagram)
    BY <1>8 DEF FinishReceiver
  <2> QED
    BY <2>1, <1>8 DEF FinishReceiver
<1> QED
  BY <1>1, <1>2, <1>3, <1>4, <1>5, <1>6, <1>7, <1>8, <1>9 DEF ReceiverStep

LEMMA TypeChannel ==
  ASSUME TypeOK, NEW c \in Channels, ChannelStep(c)
  PROVE  TypeOK'
<1> USE DispatchAssumption DEF TypeOK, mainVars, recvVars, channelVars
<1>1. CASE HandleDevice(c)
  <2>1. Head(events[c]) \in Event /\ Tail(events[c]) \in Seq(Event)
    BY <1>1 DEF HandleDevice, Handles
  <2>2. Head(events[c]).dev \in Devices
    BY <2>1 DEF Event
  <2> QED
    BY <2>1, <2>2, <1>1 DEF HandleDevice
<1>2. CASE HandleConfig(c)
  <2>1. Tail(events[c]) \in Seq(Event)
    BY <1>2 DEF HandleConfig, Handles
  <2> QED
    BY <2>1, <1>2 DEF HandleConfig
<1>3. CASE HandleBusiness(c)
  <2>1. events' \in [Channels -> Seq(Event)]
    BY <1>3 DEF HandleBusiness, Handles
  <2>2. CASE queue[c] = <<>>
    BY <2>1, <2>2, <1>3 DEF HandleBusiness
  <2>3. CASE queue[c] # <<>>
    <3>1. Head(queue[c]) \in Queued /\ Tail(queue[c]) \in Seq(Queued)
      BY <2>3
    <3>2. Head(queue[c]).pkg.idx \in Nat
      BY <3>1 DEF Queued, Package
    <3>3. last' \in [Channels -> Nat]
      BY <3>2, <2>3, <1>3 DEF HandleBusiness
    <3>4. queue' \in [Channels -> Seq(Queued)]
      BY <2>3, <3>1, <1>3 DEF HandleBusiness
    <3>5. taken' \in [Channels -> Nat]
      <4>1. taken' = [taken EXCEPT ![c] = taken[c] + 1] /\ taken[c] + 1 \in Nat
        BY <2>3, <1>3 DEF HandleBusiness
      <4> QED
        BY <4>1
    <3> QED
      BY <2>1, <3>3, <3>4, <3>5, <1>3 DEF HandleBusiness
  <2> QED
    BY <2>2, <2>3
<1>4. CASE FinishChannel(c)
  BY <1>4 DEF FinishChannel
<1> QED
  BY <1>1, <1>2, <1>3, <1>4 DEF ChannelStep

LEMMA TypeArrive ==
  ASSUME TypeOK, NEW d \in Traffic, Arrive(d)
  PROVE  TypeOK'
<1>1. d \in Datagram
  BY TrafficAssumption
<1>2. Append(socket, d) \in Seq(Datagram)
  BY <1>1 DEF TypeOK
<1>3. socket' \in Seq(Datagram)
  BY <1>2 DEF Arrive, TypeOK
<1> QED
  BY <1>3 DEF Arrive, TypeOK, mainVars, channelVars

LEMMA TypeStep == TypeOK /\ [Next]_vars => TypeOK'
<1> SUFFICES ASSUME TypeOK, [Next]_vars
             PROVE  TypeOK'
  OBVIOUS
<1>1. CASE UNCHANGED vars
  BY <1>1 DEF TypeOK, vars, mainVars, recvVars, channelVars
<1> QED
  BY <1>1, TypeMain, TypeReceiver, TypeChannel, TypeArrive DEF Next

(* Every variable of Dispatch keeps to its set.                            *)
THEOREM TypeCorrect == Spec => []TypeOK
  BY TypeInit, TypeStep, PTL DEF Spec
-----------------------------------------------------------------------------
(* The inductive invariant.                                                *)

(* The last package whose event is posted.                                 *)
Announced(c) == IF Announcing(c) THEN taken[c] + Len(queue[c]) - 1
                                 ELSE taken[c] + Len(queue[c])

(* The channel's events lead to the receiver's settings, or to older ones. *)
Leads(c) == \E dev : /\ Chained(events[c], d_info[c], dev)
                     /\ ToNotify(c) \/ dev = device

ChannelInv(c) ==
  /\ Linked(events[c], taken[c], Announced(c))
  /\ Leads(c)
  /\ Stamped(events[c], queue[c], taken[c])
  /\ Announcing(c) => queue[c][Len(queue[c])].dev = device
  /\ main # "config" => ConfigAhead(events[c], configured[c])

(* The order in which the threads are started and stopped.                 *)
PhaseInv ==
  /\ main = "config" => \A c \in Channels : events[c] = <<>>
  /\ main \in {"config", "startCh"} => recvPc = "created"
  /\ main \in {"config", "startCh", "run", "waitRecv"} =>
       \A c \in Channels : chThread[c] \in {"created", "running"}
  /\ main \in {"exitCh", "waitCh", "closed"} => recvPc = "finished"
  /\ main = "exitCh" =>
       \A c \in Channels : c >= k => chThread[c] \in {"created", "running"}
  /\ main = "waitCh" =>
       \A c \in Channels : c > k => chThread[c] \in {"created", "running"}

QueueInv ==
  \A c \in Channels :
    IF chThread[c] = "finished" THEN events[c] = <<>> /\ queue[c] = <<>>
                                ELSE ChannelInv(c)

IInv == TypeOK /\ PhaseInv /\ QueueInv

LEMMA IInvInit == Init => IInv
<1> SUFFICES ASSUME Init PROVE IInv
  OBVIOUS
<1>1. TypeOK
  BY TypeInit
<1>2. PhaseInv
  BY DEF Init, PhaseInv
<1>3. ASSUME NEW c \in Channels
      PROVE  ChannelInv(c) /\ chThread[c] # "finished"
  <2>1. /\ events[c] = <<>> /\ queue[c] = <<>> /\ taken[c] = 0
        /\ d_info[c] = Unset /\ device = Unset /\ main = "config"
        /\ ~Announcing(c) /\ chThread[c] = "created"
    BY <1>3 DEF Init, Announcing
  <2>2. Announced(c) = 0
    BY <2>1 DEF Announced
  <2>3. Linked(<<>>, 0, 0)
    BY DEF Linked
  <2>4. Chained(<<>>, Unset, Unset)
    BY DEF Chained
  <2>5. Stamped(<<>>, <<>>, 0)
    BY DEF Stamped
  <2> QED
    BY <2>1, <2>2, <2>3, <2>4, <2>5 DEF ChannelInv, Leads
<1> QED
  BY <1>1, <1>2, <1>3 DEF IInv, QueueInv

(* No step but a stop of the receiver itself follows it.                   *)
LEMMA PhaseStep == TypeOK /\ PhaseInv /\ [Next]_vars => PhaseInv'
<1> SUFFICES ASSUME TypeOK, PhaseInv, [Next]_vars PROVE PhaseInv'
  OBVIOUS
<1> USE DEF mainVars, recvVars, channelVars
<1>1. CASE MainStep \/ ExitReceiver
  <2>1. CASE SetVlfConfig
    BY <2>1 DEF SetVlfConfig, PhaseInv
  <2>2. CASE StartChannel
    BY <2>2 DEF StartChannel, PhaseInv, TypeOK
  <2>3. CASE StartReceiver
    BY <2>3 DEF StartReceiver, PhaseInv
  <2>4. CASE ExitReceiver
    BY <2>4 DEF ExitReceiver, PhaseInv
  <2>5. CASE JoinReceiver
    BY <2>5 DEF JoinReceiver, ReceiverStopped, PhaseInv
  <2>6. CASE ExitChannel
    <3>1. \A c \in Channels : c > k => chThread'[c] = chThread[c] /\ c >= k
      BY <2>6 DEF ExitChannel, TypeOK, Channels
    <3> QED
      BY <2>6, <3>1 DEF ExitChannel, PhaseInv
  <2>7. CASE JoinChannel
    <3>1. \A c \in Channels : c >= k + 1 => c > k
      BY DEF TypeOK, Channels
    <3> QED
      BY <2>7, <3>1 DEF JoinChannel, PhaseInv
  <2>8. CASE Close
    BY <2>8 DEF Close, PhaseInv
  <2> QED
    BY <1>1, <2>1, <2>2, <2>3, <2>4, <2>5, <2>6, <2>7, <2>8 DEF MainStep
<1>2. CASE ReceiverStep
  <2>1. recvPc \in {"loop", "drain", "notify", "emit"}
    BY <1>2 DEF ReceiverStep, StartReceiving, ReadyRead, ReceiveStatus,
         NotifyChannel, ReceiveBusiness, ReceiveOther, EmitBusiness, ReadDone, FinishReceiver
  <2>2. main' = main /\ chThread' = chThread
    BY <1>2 DEF ReceiverStep, StartReceiving, ReadyRead, ReceiveStatus,
         NotifyChannel, ReceiveBusiness, ReceiveOther, EmitBusiness, ReadDone, FinishReceiver
  <2> QED
    BY <2>1, <2>2 DEF PhaseInv, TypeOK
<1>3. ASSUME NEW c \in Channels, ChannelStep(c) PROVE PhaseInv'
  <2>1. main' = main /\ recvPc' = recvPc
    BY <1>3 DEF ChannelStep, HandleDevice, HandleConfig, HandleBusiness,
         FinishChannel
  <2>2. main \in {"config", "startCh", "run", "waitRecv"} => chThread' = chThread
    BY <1>3 DEF ChannelStep, HandleDevice, HandleConfig, HandleBusiness,
         FinishChannel, PhaseInv
  <2>3. main # "config"
    BY <1>3 DEF ChannelStep, HandleDevice, HandleConfig, HandleBusiness,
         FinishChannel, Handles, PhaseInv
  <2>4. \A b \in Channels :
          chThread[b] \in {"created", "running"} => chThread'[b] = chThread[b]
    BY <1>3 DEF ChannelStep, HandleDevice, HandleConfig, HandleBusiness,
         FinishChannel, TypeOK
  <2>5. k' = k
    BY <1>3 DEF ChannelStep, HandleDevice, HandleConfig, HandleBusiness,
         FinishChannel
  <2> QED
    BY <2>1, <2>2, <2>3, <2>4, <2>5 DEF PhaseInv
<1>4. ASSUME NEW d \in Traffic, Arrive(d) PROVE PhaseInv'
  BY <1>4 DEF Arrive, PhaseInv
<1>5. CASE UNCHANGED vars
  BY <1>5 DEF vars, PhaseInv
<1> QED
  BY <1>1, <1>2, <1>3, <1>4, <1>5 DEF Next

(* A step that leaves all of channel c's side and the receiver's           *)
(* announcement alone keeps its invariant.                                 *)
LEMMA ChannelUntouched ==
  ASSUME NEW c \in Channels, ChannelInv(c),
         events'[c] = events[c], queue'[c] = queue[c], taken'[c] = taken[c],
         d_info'[c] = d_info[c], configured'[c] = configured[c],
         device' = device, main # "config" \/ main' = "config",
         Announcing(c)' <=> Announcing(c), ToNotify(c) => ToNotify(c)'
  PROVE  ChannelInv(c)'
<1>1. Announced(c)' = Announced(c)
  BY DEF Announced
<1> QED
  BY <1>1 DEF ChannelInv, Leads

LEMMA QueueMain ==
  ASSUME IInv, MainStep \/ ExitReceiver
  PROVE  QueueInv'
<1> USE DEF mainVars, recvVars, channelVars
<1>1. CASE SetVlfConfig
  <2>1. /\ main = "config" /\ main' = "startCh" /\ device' = Startup
        /\ recvPc' = recvPc /\ target' = target /\ recvPc = "created"
        /\ chThread' = chThread /\ queue' = queue /\ taken' = taken
        /\ d_info' = d_info /\ configured' = configured
    BY <1>1 DEF SetVlfConfig, IInv, PhaseInv
  <2> DEFINE d == [kind |-> "device", dev |-> Startup, no |-> 0]
             g == [kind |-> "config", dev |-> Startup, no |-> 0]
  <2>2. d \in Event /\ g \in Event
    BY DispatchAssumption DEF Event
  <2>3. ASSUME NEW c \in Channels PROVE ChannelInv(c)' /\ chThread'[c] # "finished"
    <3>1. /\ events[c] = <<>> /\ events[c] \in Seq(Event) /\ queue[c] \in Seq(Queued)
          /\ taken[c] \in Nat /\ configured[c] \in BOOLEAN
          /\ chThread[c] \in {"created", "running"}
      BY <2>1, <2>3 DEF IInv, PhaseInv, TypeOK
    <3>2. events'[c] = Append(Append(events[c], d), g)
      BY <1>1 DEF SetVlfConfig
    <3>3. ChannelInv(c) /\ ~Announcing(c) /\ ~Announcing(c)'
      BY <3>1, <2>1 DEF IInv, QueueInv, Announcing
    <3> DEFINE hi == taken[c] + Len(queue[c])
    <3>4. hi \in Nat /\ Announced(c) = hi /\ Announced(c)' = hi
      BY <3>1, <3>3, <2>1 DEF Announced
    <3> HIDE DEF hi
    <3>5. Append(events[c], d) \in Seq(Event)
      BY <3>1, <2>2
    <3>6. Linked(Append(Append(events[c], d), g), taken[c], hi)
      <4>1. Linked(Append(events[c], d), taken[c], hi)
        BY <3>1, <3>3, <3>4, <2>2, AppendLinked DEF ChannelInv
      <4> QED
        BY <4>1, <3>1, <3>4, <3>5, <2>2, AppendLinked
    <3>7. Chained(Append(Append(events[c], d), g), d_info[c], Startup)
      <4> PICK dev : Chained(events[c], d_info[c], dev)
        BY <3>3 DEF ChannelInv, Leads
      <4>1. Chained(Append(events[c], d), d_info[c], d.dev)
        BY <3>1, <2>2, AppendChained
      <4>2. Chained(Append(Append(events[c], d), g), d_info[c], g.dev)
        BY <4>1, <3>5, <2>2, AppendChained
      <4> QED
        BY <4>2
    <3>8. Stamped(Append(Append(events[c], d), g), queue[c], taken[c])
      <4>1. Stamped(Append(events[c], d), queue[c], taken[c])
        BY <3>1, <3>3, <2>2, AppendStamped DEF ChannelInv
      <4> QED
        BY <4>1, <3>1, <3>5, <2>2, AppendStamped
    <3>9. ConfigAhead(Append(Append(events[c], d), g), configured[c])
      <4> DEFINE a == Append(events[c], d)
                 b == Append(a, g)
      <4>1. /\ Len(a) = 1 /\ a[1] = d
            /\ Len(b) = 2 /\ b[2] = g /\ b[1] = d
        BY <3>1, <3>5, <2>2, AppendEvent
      <4> QED
        BY <4>1 DEF ConfigAhead
    <3> QED
      BY <3>1, <3>2, <3>3, <3>4, <3>6, <3>7, <3>8, <3>9, <2>1
      DEF ChannelInv, Leads
  <2> QED
    BY <2>3 DEF QueueInv
<1>2. CASE ~SetVlfConfig
  <2>1. /\ main # "config"
        /\ UNCHANGED <<events, queue, taken, d_info, configured, device, target>>
        /\ recvPc' = "emit" <=> recvPc = "emit"
        /\ recvPc = "notify" => recvPc' = "notify"
    <3>1. CASE StartReceiver
      BY <3>1 DEF StartReceiver, IInv, PhaseInv
    <3>2. CASE ~StartReceiver
      BY <1>2, <3>2 DEF MainStep, StartChannel, ExitReceiver, JoinReceiver,
           ExitChannel, JoinChannel, Close
    <3> QED
      BY <3>1, <3>2
  <2>2. \A c \in Channels : (chThread'[c] = "finished") <=> (chThread[c] = "finished")
    <3>1. CASE StartChannel
      BY <3>1 DEF StartChannel, IInv, TypeOK, PhaseInv, Channels
    <3>2. CASE ExitChannel
      BY <3>2 DEF ExitChannel, IInv, TypeOK, PhaseInv, Channels
    <3>3. CASE ~StartChannel /\ ~ExitChannel
      BY <3>3, <1>2 DEF MainStep, StartReceiver, ExitReceiver, JoinReceiver,
           JoinChannel, Close
    <3> QED
      BY <3>1, <3>2, <3>3
  <2>3. ASSUME NEW c \in Channels, chThread'[c] # "finished"
        PROVE  ChannelInv(c)'
    BY <2>1, <2>2, <2>3, ChannelUntouched
    DEF IInv, QueueInv, Announcing, ToNotify
  <2> QED
    BY <2>1, <2>2, <2>3 DEF IInv, QueueInv
<1> QED
  BY <1>1, <1>2

LEMMA QueueReceiver ==
  ASSUME IInv, ReceiverStep
  PROVE  QueueInv'
<1> USE DEF mainVars, recvVars, channelVars
<1>1. /\ chThread' = chThread /\ main' = main
      /\ UNCHANGED <<taken, d_info, configured>>
      /\ recvPc \in {"loop", "drain", "notify", "emit"} /\ main # "config"
  BY DEF ReceiverStep, StartReceiving, ReadyRead, ReceiveStatus,
     NotifyChannel, ReceiveBusiness, ReceiveOther, EmitBusiness, ReadDone,
     FinishReceiver,
     IInv, PhaseInv
<1>2. \A c \in Channels :
        chThread[c] # "finished" /\ chThread'[c] # "finished" /\ ChannelInv(c)
  BY <1>1 DEF IInv, PhaseInv, QueueInv, TypeOK
<1> SUFFICES ASSUME NEW c \in Channels PROVE ChannelInv(c)'
  BY <1>2 DEF QueueInv
<1>3. /\ events[c] \in Seq(Event) /\ queue[c] \in Seq(Queued)
      /\ taken[c] \in Nat /\ configured[c] \in BOOLEAN /\ device \in Devices
      /\ target \in Channels /\ Len(queue[c]) \in Nat
  BY DEF IInv, TypeOK
<1>4. CASE ReceiveStatus
  <2>1. events' = events /\ queue' = queue
    BY <1>4 DEF ReceiveStatus
  <2>2. ~Announcing(c) /\ ~Announcing(c)' /\ ToNotify(c)'
    BY <1>4 DEF ReceiveStatus, Announcing, ToNotify, Channels
  <2>3. Announced(c)' = Announced(c)
    BY <2>1, <2>2, <1>1 DEF Announced
  <2> QED
    BY <1>1, <1>2, <2>1, <2>2, <2>3 DEF ChannelInv, Leads
<1>8. CASE NotifyChannel
  <2>1. recvPc = "notify" /\ recvPc' # "emit" /\ device' = device /\ queue' = queue
    BY <1>8 DEF NotifyChannel
  <2>2. ~Announcing(c) /\ ~Announcing(c)'
    BY <2>1 DEF Announcing
  <2>3. CASE c # target
    <3>1. events'[c] = events[c]
      BY <1>8, <2>3 DEF NotifyChannel, IInv, TypeOK
    <3>2. ToNotify(c) => ToNotify(c)'
      BY <1>8, <2>3, <1>3, DispatchAssumption DEF NotifyChannel, ToNotify, Channels
    <3> QED
      BY <3>1, <3>2, <2>1, <2>2, <1>1, <1>2, ChannelUntouched
  <2>4. CASE c = target
    <3> DEFINE e == [kind |-> "device", dev |-> device, no |-> 0]
    <3>1. e \in Event /\ e.kind = "device" /\ e.dev = device
      BY <1>3 DEF Event
    <3>2. events'[c] = Append(events[c], e)
      BY <1>8, <2>4 DEF NotifyChannel, IInv, TypeOK
    <3>3. Announced(c) = taken[c] + Len(queue[c]) /\ Announced(c)' = Announced(c)
      BY <2>1, <2>2, <1>1 DEF Announced
    <3> HIDE DEF e
    <3>4. Linked(Append(events[c], e), taken[c], Announced(c))
      BY <1>2, <1>3, <3>1, <3>3, AppendLinked DEF ChannelInv
    <3>5. Chained(Append(events[c], e), d_info[c], device)
      <4>1. PICK dev : Chained(events[c], d_info[c], dev)
        BY <1>2 DEF ChannelInv, Leads
      <4> QED
        BY <4>1, <1>3, <3>1, AppendChained
    <3>6. Stamped(Append(events[c], e), queue[c], taken[c])
      BY <1>2, <1>3, <3>1, AppendStamped DEF ChannelInv
    <3>7. ConfigAhead(Append(events[c], e), configured[c])
      BY <1>1, <1>2, <1>3, <3>1, AppendConfigAhead DEF ChannelInv
    <3> QED
      BY <1>1, <2>1, <2>2, <3>2, <3>3, <3>4, <3>5, <3>6, <3>7
      DEF ChannelInv, Leads
  <2> QED
    BY <2>3, <2>4
<1>5. CASE ReceiveBusiness
  <2>1. /\ recvPc = "drain" /\ device' = device /\ events' = events
        /\ ~ToNotify(c) /\ ~ToNotify(c)'
    BY <1>5 DEF ReceiveBusiness, ToNotify
  <2>2. CASE UNCHANGED <<queue, recvPc, target>>
    BY <2>1, <2>2, <1>1, <1>2, ChannelUntouched DEF Announcing
  <2>3. CASE queue' = [queue EXCEPT ![Head(socket).ch] = Append(@,
                         [pkg |-> Head(socket).pkg, dev |-> device])]
             /\ recvPc' = "emit" /\ target' = Head(socket).ch
    <3>1. CASE c # Head(socket).ch
      <4>1. queue'[c] = queue[c] /\ ~Announcing(c) /\ ~Announcing(c)'
        BY <2>1, <2>3, <3>1 DEF Announcing, IInv, TypeOK
      <4> QED
        BY <4>1, <2>1, <1>1, <1>2, ChannelUntouched
    <3>2. CASE c = Head(socket).ch
      <4> DEFINE p == [pkg |-> Head(socket).pkg, dev |-> device]
      <4>1. p \in Queued
        <5>1. Head(socket) \in Datagram
          BY <1>5 DEF ReceiveBusiness, IInv, TypeOK
        <5>2. Head(socket).pkg \in Package
          BY <5>1, <1>5, DatagramFacts DEF ReceiveBusiness
        <5> QED
          BY <5>2, <1>3 DEF Queued
      <4>2. p.dev = device /\ queue'[c] = Append(queue[c], p)
        BY <2>3, <3>2 DEF IInv, TypeOK
      <4>3. ~Announcing(c) /\ Announcing(c)'
        BY <2>1, <2>3, <3>2 DEF Announcing
      <4> HIDE DEF p
      <4>4. /\ Len(Append(queue[c], p)) = Len(queue[c]) + 1
            /\ Append(queue[c], p)[Len(queue[c]) + 1] = p
        BY <1>3, <4>1
      <4>5. /\ Announced(c) = taken[c] + Len(queue[c])
            /\ Announced(c)' = taken[c] + Len(queue[c])
        BY <4>2, <4>3, <4>4, <1>1, <1>3 DEF Announced
      <4>6. Stamped(events[c], Append(queue[c], p), taken[c])
        BY <1>2, <1>3, <4>1, <4>5, EnqueueStamped DEF ChannelInv
      <4>7. queue'[c][Len(queue'[c])].dev = device
        BY <4>2, <4>4
      <4> QED
        BY <1>1, <1>2, <2>1, <4>2, <4>5, <4>6, <4>7 DEF ChannelInv, Leads
    <3> QED
      BY <3>1, <3>2
  <2> QED
    BY <2>2, <2>3, <1>5 DEF ReceiveBusiness
<1>6. CASE EmitBusiness
  <2>1. /\ recvPc' = "drain" /\ device' = device /\ queue' = queue
        /\ ~ToNotify(c) /\ ~ToNotify(c)'
    BY <1>6 DEF EmitBusiness, ToNotify
  <2>2. CASE c # target
    <3>1. events'[c] = events[c] /\ ~Announcing(c) /\ ~Announcing(c)'
      BY <1>6, <2>1, <2>2 DEF EmitBusiness, Announcing, IInv, TypeOK
    <3> QED
      BY <3>1, <2>1, <1>1, <1>2, ChannelUntouched
  <2>3. CASE c = target
    <3> DEFINE e == [kind |-> "business", dev |-> device,
                     no |-> taken[c] + Len(queue[c])]
    <3>1. /\ e \in Event /\ e.kind = "business" /\ e.dev = device
          /\ e.no = taken[c] + Len(queue[c])
      BY <1>3 DEF Event
    <3>2. events'[c] = Append(events[c], e)
      BY <1>6, <2>3 DEF EmitBusiness, IInv, TypeOK
    <3>3. Announcing(c) /\ ~Announcing(c)'
      BY <1>6, <2>1, <2>3 DEF EmitBusiness, Announcing
    <3> HIDE DEF e
    <3>4. /\ Announced(c) = taken[c] + Len(queue[c]) - 1
          /\ Announced(c)' = taken[c] + Len(queue[c])
      BY <3>3, <2>1, <1>1 DEF Announced
    <3>5. taken[c] <= Announced(c)
      BY <1>2 DEF ChannelInv, Linked
    <3>6. Announced(c) \in Nat /\ e.no = Announced(c) + 1 /\ Len(queue[c]) > 0
      BY <3>1, <3>4, <3>5, <1>3
    <3>7. Linked(Append(events[c], e), taken[c], Announced(c) + 1)
      BY <1>2, <1>3, <3>1, <3>6, AnnounceLinked DEF ChannelInv
    <3>8. Chained(Append(events[c], e), d_info[c], device)
      <4>1. Chained(events[c], d_info[c], device)
        BY <1>2, <2>1 DEF ChannelInv, Leads
      <4> QED
        BY <4>1, <1>3, <3>1, AppendChained
    <3>9. Stamped(Append(events[c], e), queue[c], taken[c])
      BY <1>2, <1>3, <3>1, <3>3, <3>6, AppendStamped DEF ChannelInv
    <3>10. ConfigAhead(Append(events[c], e), configured[c])
      BY <1>1, <1>2, <1>3, <3>1, AppendConfigAhead DEF ChannelInv
    <3>11. Announced(c)' = Announced(c) + 1
      BY <3>4, <1>3
    <3> QED
      BY <1>1, <2>1, <3>2, <3>3, <3>7, <3>8, <3>9, <3>10, <3>11 DEF ChannelInv, Leads
  <2> QED
    BY <2>2, <2>3
<1>7. CASE StartReceiving \/ ReadyRead \/ ReceiveOther \/ ReadDone \/ FinishReceiver
  <2>1. /\ UNCHANGED <<events, queue, device, target>>
        /\ recvPc \notin {"notify", "emit"} /\ recvPc' # "emit"
    BY <1>7 DEF StartReceiving, ReadyRead, ReceiveOther, ReadDone, FinishReceiver
  <2> QED
    BY <2>1, <1>1, <1>2, ChannelUntouched DEF Announcing, ToNotify
<1> QED
  BY <1>4, <1>5, <1>6, <1>7, <1>8 DEF ReceiverStep

LEMMA QueueChannel ==
  ASSUME IInv, NEW b \in Channels, ChannelStep(b)
  PROVE  QueueInv'
<1> USE DEF mainVars, recvVars, channelVars
<1>1. /\ UNCHANGED <<main, recvPc, target, device>>
      /\ chThread[b] # "finished"
  BY DEF ChannelStep, HandleDevice, HandleConfig, HandleBusiness,
     FinishChannel, Handles, Runs
<1>2. ASSUME NEW c \in Channels, c # b
      PROVE  IF chThread'[c] = "finished" THEN events'[c] = <<>> /\ queue'[c] = <<>>
                                          ELSE ChannelInv(c)'
  <2>1. /\ chThread'[c] = chThread[c] /\ events'[c] = events[c]
        /\ queue'[c] = queue[c] /\ taken'[c] = taken[c]
        /\ d_info'[c] = d_info[c] /\ configured'[c] = configured[c]
    BY <1>2 DEF ChannelStep, HandleDevice, HandleConfig, HandleBusiness,
       FinishChannel, IInv, TypeOK
  <2>2. (Announcing(c)' <=> Announcing(c)) /\ (ToNotify(c) => ToNotify(c)')
    BY <1>1 DEF Announcing, ToNotify
  <2>3. CASE chThread[c] = "finished"
    BY <2>1, <2>3, <1>2 DEF IInv, QueueInv
  <2>4. CASE chThread[c] # "finished"
    BY <2>1, <2>2, <2>4, <1>1, ChannelUntouched DEF IInv, QueueInv
  <2> QED
    BY <2>3, <2>4
<1>3. CASE FinishChannel(b)
  <2>1. events'[b] = <<>> /\ queue'[b] = <<>> /\ chThread'[b] = "finished"
    BY <1>3 DEF FinishChannel, IInv, TypeOK
  <2> QED
    BY <2>1, <1>2 DEF QueueInv
<1>4. CASE HandleDevice(b) \/ HandleConfig(b) \/ HandleBusiness(b)
  <2> DEFINE ev == events[b]
             info2 == IF Head(ev).kind = "device" THEN Head(ev).dev ELSE d_info[b]
  <2>1. /\ ev # <<>> /\ ev \in Seq(Event) /\ queue[b] \in Seq(Queued)
        /\ taken[b] \in Nat /\ configured[b] \in BOOLEAN /\ Len(queue[b]) \in Nat
        /\ configured'[b] \in BOOLEAN
        /\ events'[b] = Tail(ev) /\ chThread' = chThread /\ main # "config"
    <3>1. Handles(b, "device") \/ Handles(b, "config") \/ Handles(b, "business")
      BY <1>4 DEF HandleDevice, HandleConfig, HandleBusiness
    <3>2. ev # <<>> /\ main # "config"
      BY <3>1 DEF Handles, Runs, IInv, PhaseInv
    <3>3. /\ ev \in Seq(Event) /\ queue[b] \in Seq(Queued)
          /\ taken[b] \in Nat /\ configured[b] \in BOOLEAN /\ Len(queue[b]) \in Nat
      BY DEF IInv, TypeOK
    <3>4. events'[b] = Tail(ev) /\ chThread' = chThread
      BY <1>4 DEF HandleDevice, HandleConfig, HandleBusiness, IInv, TypeOK
    <3>5. configured' = configured \/ configured' = [configured EXCEPT ![b] = TRUE]
      BY <1>4 DEF HandleDevice, HandleConfig, HandleBusiness
    <3>6. configured'[b] \in BOOLEAN
      BY <3>3, <3>5 DEF IInv, TypeOK
    <3> QED
      BY <3>2, <3>3, <3>4, <3>6
  <2>2. ChannelInv(b)
    BY <1>1 DEF IInv, QueueInv
  <2>3. Leads(b)'
    <3> PICK dev : Chained(ev, d_info[b], dev) /\ (ToNotify(b) \/ dev = device)
      BY <2>2 DEF ChannelInv, Leads
    <3>1. d_info'[b] = info2
      BY <1>4 DEF HandleDevice, HandleConfig, HandleBusiness, Handles, IInv, TypeOK
    <3>2. ToNotify(b) => ToNotify(b)'
      BY <1>1 DEF ToNotify
    <3>3. Chained(Tail(ev), info2, dev)
      BY <2>1, TailChained
    <3> QED
      BY <1>1, <2>1, <3>1, <3>2, <3>3 DEF Leads
  <2>4. ConfigAhead(Tail(ev), configured'[b])
    <3>1. /\ configured[b] => configured'[b]
          /\ Head(ev).kind = "config" => configured'[b]
      BY <1>4 DEF HandleDevice, HandleConfig, HandleBusiness, Handles, IInv, TypeOK
    <3>2. ConfigAhead(ev, configured[b])
      BY <2>1, <2>2 DEF ChannelInv
    <3> QED
      BY <2>1, <3>1, <3>2, TailConfigAhead
  <2>5. Announced(b) \in Nat /\ (Announcing(b)' <=> Announcing(b))
    <3>1. taken[b] <= Announced(b)
      BY <2>2 DEF ChannelInv, Linked
    <3> QED
      BY <3>1, <2>1, <1>1 DEF Announced, Announcing
  <2>6. CASE Head(ev).kind # "business"
    <3>1. queue'[b] = queue[b] /\ taken'[b] = taken[b]
      BY <1>4, <2>6 DEF HandleDevice, HandleConfig, HandleBusiness, Handles
    <3>2. Announced(b)' = Announced(b)
      BY <3>1, <2>5 DEF Announced
    <3>3. Linked(Tail(ev), taken[b], Announced(b))
      BY <2>1, <2>2, <2>5, <2>6, SkipLinked DEF ChannelInv
    <3>4. Stamped(Tail(ev), queue[b], taken[b])
      BY <2>1, <2>2, SkipStamped DEF ChannelInv
    <3>5. Announcing(b)' => queue[b][Len(queue[b])].dev = device
      BY <2>2, <2>5 DEF ChannelInv
    <3>6. ChannelInv(b)'
      BY <1>1, <2>1, <2>3, <2>4, <3>1, <3>2, <3>3, <3>4, <3>5 DEF ChannelInv
    <3> QED
      BY <3>6, <2>1, <1>1, <1>2 DEF QueueInv
  <2>7. CASE Head(ev).kind = "business"
    <3>1. taken[b] < Announced(b)
      BY <2>1, <2>2, <2>5, <2>7, HeadAnnouncesFirst DEF ChannelInv
    <3>2. Len(queue[b]) > 0 /\ (Announcing(b) => Len(queue[b]) > 1)
      BY <3>1, <2>1 DEF Announced
    <3>3. queue[b] # <<>>
      BY <3>2
    <3>4. HandleBusiness(b)
      BY <1>4, <2>7 DEF HandleDevice, HandleConfig, Handles
    <3>5. queue'[b] = Tail(queue[b]) /\ taken'[b] = taken[b] + 1
      BY <3>3, <3>4 DEF HandleBusiness, IInv, TypeOK
    <3>6. /\ Len(Tail(queue[b])) = Len(queue[b]) - 1
          /\ \A i \in 1 .. Len(queue[b]) - 1 : Tail(queue[b])[i] = queue[b][i + 1]
      BY <2>1, <3>3
    <3>7. Announced(b)' = Announced(b)
      <4>1. taken'[b] + Len(queue'[b]) = taken[b] + Len(queue[b])
        <5> DEFINE t == taken[b]
                   n == Len(queue[b])
                   u == taken'[b]
                   m == Len(queue'[b])
        <5>1. t \in Nat /\ n \in Nat /\ u = t + 1 /\ m = n - 1
          BY <3>5, <3>6, <2>1
        <5> HIDE DEF t, n, u, m
        <5>2. u + m = t + n
          BY <5>1
        <5> QED
          BY <5>2 DEF t, n, u, m
      <4>2. CASE Announcing(b)
        <5>1. Announced(b)' = taken'[b] + (Len(queue'[b]) - 1)
          BY <4>2, <2>5 DEF Announced
        <5>2. Announced(b) = taken[b] + (Len(queue[b]) - 1)
          BY <4>2 DEF Announced
        <5>3. Len(queue'[b]) = Len(queue[b]) - 1
          BY <3>5, <3>6
        <5> DEFINE t == taken[b]
                   l == Len(queue[b])
        <5>4. t \in Nat /\ l \in Nat
          BY <2>1
        <5>5. Announced(b)' = (t + 1) + ((l - 1) - 1) /\ Announced(b) = t + (l - 1)
          BY <5>1, <5>2, <5>3, <3>5
        <5> HIDE DEF t, l
        <5> QED
          BY <5>4, <5>5
      <4>3. CASE ~Announcing(b)
        BY <4>1, <4>3, <2>5 DEF Announced
      <4> QED
        BY <4>2, <4>3
    <3>8. Linked(Tail(ev), taken[b] + 1, Announced(b))
      BY <2>1, <2>2, <2>5, <2>7, TakeLinked DEF ChannelInv
    <3>9. Stamped(Tail(ev), Tail(queue[b]), taken[b] + 1)
      <4>1. Stamped(Tail(ev), queue[b], taken[b])
        BY <2>1, <2>2, SkipStamped DEF ChannelInv
      <4> QED
        BY <4>1, <2>1, <3>3, TailEvent, TakeStamped
    <3>10. Announcing(b)' => queue'[b][Len(queue'[b])].dev = device
      <4> HAVE Announcing(b)'
      <4>1. Len(queue[b]) - 1 \in 1 .. Len(queue[b]) - 1
        BY <2>1, <2>5, <3>2
      <4>2. Tail(queue[b])[Len(queue[b]) - 1] = queue[b][(Len(queue[b]) - 1) + 1]
        BY <4>1, <3>6
      <4>3. queue[b][Len(queue[b])].dev = device
        BY <2>2, <2>5 DEF ChannelInv
      <4>4. (Len(queue[b]) - 1) + 1 = Len(queue[b])
        BY <2>1
      <4>5. queue'[b][Len(queue'[b])] = queue[b][Len(queue[b])]
        BY <4>2, <4>4, <3>5, <3>6
      <4> QED
        BY <4>3, <4>5
    <3>11. ChannelInv(b)'
      BY <1>1, <2>1, <2>3, <2>4, <3>5, <3>7, <3>8, <3>9, <3>10 DEF ChannelInv
    <3> QED
      BY <3>11, <2>1, <1>1, <1>2 DEF QueueInv
  <2> QED
    BY <2>6, <2>7
<1> QED
  BY <1>3, <1>4 DEF ChannelStep

LEMMA QueueStep == IInv /\ [Next]_vars => QueueInv'
<1> SUFFICES ASSUME IInv, [Next]_vars PROVE QueueInv'
  OBVIOUS
<1>1. ASSUME UNCHANGED <<events, queue, taken, d_info, configured, device,
                         main, recvPc, target, chThread>>
      PROVE  QueueInv'
  <2>1. \A c \in Channels : /\ Announcing(c)' <=> Announcing(c)
                            /\ ToNotify(c) => ToNotify(c)'
    BY <1>1 DEF Announcing, ToNotify
  <2>2. ASSUME NEW c \in Channels, ChannelInv(c) PROVE ChannelInv(c)'
    BY <1>1, <2>1, <2>2, ChannelUntouched
  <2> QED
    BY <1>1, <2>2 DEF IInv, QueueInv
<1>2. ASSUME NEW d \in Traffic, Arrive(d) PROVE QueueInv'
  BY <1>1, <1>2 DEF Arrive, mainVars, channelVars
<1>3. CASE UNCHANGED vars
  BY <1>1, <1>3 DEF vars, mainVars, recvVars, channelVars
<1> QED
  BY <1>2, <1>3, QueueMain, QueueReceiver, QueueChannel DEF Next

THEOREM InductiveInvariant == Spec => []IInv
<1>1. IInv /\ [Next]_vars => IInv'
  BY TypeStep, PhaseStep, QueueStep DEF IInv
<1> QED
  BY <1>1, IInvInit, PTL DEF Spec

-----------------------------------------------------------------------------
(* What it gives.                                                          *)

(* Queued packages and posted business events match one to one.            *)
LEMMA WakeupsMatch == IInv => NoLostWakeup /\ NoIdleWakeup
<1> SUFFICES ASSUME IInv, NEW c \in Channels
             PROVE  /\ \A n \in 1 .. Len(queue[c]) :
                         \/ \E i \in Business(c) : events[c][i].no = taken[c] + n
                         \/ Announcing(c) /\ n = Len(queue[c])
                    /\ \A i \in Business(c) :
                         events[c][i].no \in taken[c] + 1 .. taken[c] + Len(queue[c])
  BY DEF NoLostWakeup, NoIdleWakeup
<1>1. /\ events[c] \in Seq(Event) /\ queue[c] \in Seq(Queued)
      /\ taken[c] \in Nat /\ Len(queue[c]) \in Nat
      /\ Business(c) = {i \in 1 .. Len(events[c]) : events[c][i].kind = "business"}
  BY DEF IInv, TypeOK, Business
<1>2. CASE chThread[c] = "finished"
  BY <1>1, <1>2 DEF IInv, QueueInv
<1>3. CASE chThread[c] # "finished"
  <2>1. Linked(events[c], taken[c], Announced(c))
    BY <1>3 DEF IInv, QueueInv, ChannelInv
  <2>2. Announced(c) \in Nat /\ Announced(c) <= taken[c] + Len(queue[c])
    <3>1. taken[c] <= Announced(c)
      BY <2>1 DEF Linked
    <3> QED
      BY <3>1, <1>1 DEF Announced
  <2>3. ASSUME NEW n \in 1 .. Len(queue[c])
        PROVE  \/ \E i \in Business(c) : events[c][i].no = taken[c] + n
               \/ Announcing(c) /\ n = Len(queue[c])
    <3>1. CASE taken[c] + n <= Announced(c)
      <4>1. taken[c] + n \in taken[c] + 1 .. Announced(c)
        BY <3>1, <2>2, <1>1
      <4>2. PICK i \in 1 .. Len(events[c]) :
              events[c][i].kind = "business" /\ events[c][i].no = taken[c] + n
        BY <4>1, <2>1 DEF Linked
      <4> QED
        BY <4>2, <1>1
    <3>2. CASE ~(taken[c] + n <= Announced(c))
      BY <3>2, <1>1 DEF Announced
    <3> QED
      BY <3>1, <3>2
  <2>4. ASSUME NEW i \in Business(c)
        PROVE  events[c][i].no \in taken[c] + 1 .. taken[c] + Len(queue[c])
    <3>1. events[c][i].no \in Nat /\ i \in 1 .. Len(events[c])
      BY <1>1, EventNo
    <3>2. taken[c] < events[c][i].no /\ events[c][i].no <= Announced(c)
      BY <3>1, <1>1, <2>1 DEF Linked
    <3> QED
      BY <3>1, <3>2, <2>2, <1>1
  <2> QED
    BY <2>3, <2>4
<1> QED
  BY <1>2, <1>3

(* A package in a channel's queue has its business event, or is about to   *)
(* get it.                                                                 *)
THEOREM WakeupsMatchPackages == Spec => []NoLostWakeup
BY WakeupsMatch, InductiveInvariant, PTL

(* And every business event finds its package.                             *)
THEOREM PackagesMatchWakeups == Spec => []NoIdleWakeup
BY WakeupsMatch, InductiveInvariant, PTL

(* A package is processed under the settings it came under, although the   *)
(* two reach the channel through different queues, and never before the    *)
(* channel's configuration.                                                *)
THEOREM SettingsFollowPackages == Spec => []PackageMeetsItsSettings
<1>1. ASSUME IInv, NEW c \in Channels, Handles(c, "business")
      PROVE  configured[c]
  <2>1. /\ events[c] \in Seq(Event) /\ configured[c] \in BOOLEAN
        /\ events[c] # <<>> /\ Head(events[c]).kind = "business"
        /\ chThread[c] # "finished" /\ main # "config"
    BY <1>1 DEF IInv, TypeOK, PhaseInv, Handles, Runs
  <2>2. ConfigAhead(events[c], configured[c])
    BY <1>1, <2>1 DEF IInv, QueueInv, ChannelInv
  <2> QED
    BY <2>1, <2>2, HeadConfigured
<1>2. ASSUME IInv, NEW c \in Channels, Handles(c, "business"), queue[c] # <<>>
      PROVE  d_info[c] = Head(queue[c]).dev
  <2>1. /\ events[c] \in Seq(Event) /\ queue[c] \in Seq(Queued) /\ taken[c] \in Nat
        /\ events[c] # <<>> /\ Head(events[c]).kind = "business"
        /\ chThread[c] # "finished" /\ Len(queue[c]) \in Nat \ {0}
    BY <1>2 DEF IInv, TypeOK, Handles, Runs
  <2>2. ChannelInv(c)
    BY <1>2, <2>1 DEF IInv, QueueInv
  <2>3. 1 \in 1 .. Len(events[c]) /\ Len(events[c]) > 0 /\ Head(events[c]) = events[c][1]
    BY <2>1, TailEvent
  <2>4. Announced(c) \in Nat
    <3>1. taken[c] <= Announced(c)
      BY <2>2 DEF ChannelInv, Linked
    <3> QED
      BY <3>1, <2>1 DEF Announced
  <2>5. events[c][1].no = taken[c] + 1
    BY <2>1, <2>2, <2>3, <2>4, HeadAnnouncesFirst DEF ChannelInv
  <2>6. queue[c][1].dev = events[c][1].dev
    BY <2>1, <2>2, <2>3, <2>5 DEF ChannelInv, Stamped
  <2>7. d_info[c] = events[c][1].dev
    <3>1. PICK dev : Chained(events[c], d_info[c], dev)
      BY <2>2 DEF ChannelInv, Leads
    <3> QED
      BY <2>1, <2>3, <3>1 DEF Chained
  <2> QED
    BY <2>1, <2>6, <2>7
<1>3. IInv => PackageMeetsItsSettings
  BY <1>1, <1>2 DEF PackageMeetsItsSettings
<1> QED
  BY <1>3, InductiveInvariant, PTL

(* A channel whose events are handled holds the receiver's settings, once  *)
(* they are posted to it.                                                  *)
THEOREM SettingsReachEveryChannel == Spec => []SettingsAgree
<1>1. IInv => SettingsAgree
  BY DEF IInv, QueueInv, ChannelInv, Leads, Chained, SettingsAgree, Runs
<1> QED
  BY <1>1, InductiveInvariant, PTL

(* The receiver never runs with a channel destroyed.                       *)
THEOREM ReceiverStopsFirst == Spec => []NoUseAfterDestroy
<1>1. IInv => NoUseAfterDestroy
  BY DEF IInv, TypeOK, PhaseInv, NoUseAfterDestroy
<1> QED
  BY <1>1, InductiveInvariant, PTL

=============================================================================
