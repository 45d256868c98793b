--------------------------- MODULE ChannelProofs ---------------------------
(***************************************************************************)
(* Theorems about what a channel does with the samples of a package and    *)
(* with its time: the way through the two channelizer stages, the file     *)
(* clock and the writer.                                                   *)
(***************************************************************************)
EXTENDS Channelizer, RecordClock, BufferedWriter, SequenceTheorems, TLAPS

-----------------------------------------------------------------------------
(* The sample path.  No sample is lost, for any number of packages and any *)
(* sizes that go together.  Three numbers say what the 5 + 334 buffers of  *)
(* the two inner stages hold: u samples wait for every second-stage        *)
(* channelizer, s for every sub-channel, and w windows have been measured. *)
(* While the second stage deals its outputs, a number d of its channelizers*)
(* has been drained, once.                                                 *)

(* Where the outputs of a second-stage channelizer begin.                  *)
Offset(b) ==
  CASE b = 0 -> 0 [] b = 1 -> 54 [] b = 2 -> 134 [] b = 3 -> 214
    [] b = 4 -> 294 [] OTHER -> NumSub

LEMMA Offsets ==
  /\ Offset(0) = 0 /\ Offset(1) = 54 /\ Offset(2) = 134 /\ Offset(3) = 214
  /\ Offset(4) = 294 /\ Offset(5) = 334
BY DEF Offset, NumSub

LEMMA BinsAre ==
  ASSUME NEW lo \in Int, NEW hi \in Int, lo <= hi
  PROVE  /\ Bins(lo, hi) \in Seq(Int) /\ Len(Bins(lo, hi)) = hi - lo + 1
         /\ \A n \in 1 .. hi - lo + 1 : Bins(lo, hi)[n] = lo + n - 1
BY DEF Bins

(* The sequence of l1 numbers from lo1 on and l2 from lo2 on.              *)
TwoRuns(s, lo1, l1, lo2, l2) ==
  /\ Len(s) = l1 + l2
  /\ \A n \in 1 .. l1 + l2 :
       s[n] = IF n <= l1 THEN lo1 + n - 1 ELSE lo2 + n - l1 - 1

LEMMA Joined ==
  ASSUME NEW lo1 \in Int, NEW hi1 \in Int, lo1 <= hi1,
         NEW lo2 \in Int, NEW hi2 \in Int, lo2 <= hi2
  PROVE  TwoRuns(Bins(lo1, hi1) \o Bins(lo2, hi2),
                 lo1, hi1 - lo1 + 1, lo2, hi2 - lo2 + 1)
<1> DEFINE a == Bins(lo1, hi1)
           b == Bins(lo2, hi2)
           l1 == hi1 - lo1 + 1
           l2 == hi2 - lo2 + 1
<1>1. a \in Seq(Int) /\ Len(a) = l1 /\ \A n \in 1 .. l1 : a[n] = lo1 + n - 1
  BY BinsAre
<1>2. b \in Seq(Int) /\ Len(b) = l2 /\ \A n \in 1 .. l2 : b[n] = lo2 + n - 1
  BY BinsAre
<1>3. l1 \in Nat /\ l2 \in Nat
  OBVIOUS
<1> HIDE DEF a, b
<1>4. /\ Len(a \o b) = Len(a) + Len(b)
      /\ \A n \in 1 .. Len(a) + Len(b) :
           (a \o b)[n] = IF n <= Len(a) THEN a[n] ELSE b[n - Len(a)]
  <2> HIDE DEF l1, l2
  <2> QED
    BY <1>1, <1>2, ConcatProperties, Zenon
<1>5. ASSUME NEW n \in 1 .. l1 + l2
      PROVE  (a \o b)[n] = IF n <= l1 THEN lo1 + n - 1 ELSE lo2 + n - l1 - 1
  <2>1. (a \o b)[n] = IF n <= Len(a) THEN a[n] ELSE b[n - Len(a)]
    BY <1>1, <1>2, <1>4
  <2>2. CASE n <= l1
    BY <1>1, <2>1, <2>2
  <2>3. CASE ~(n <= l1)
    <3>1. n - l1 \in 1 .. l2
      BY <1>3, <2>3
    <3> QED
      BY <1>1, <1>2, <2>1, <2>3, <3>1
  <2> QED
    BY <2>2, <2>3
<1> QED
  BY <1>1, <1>2, <1>4, <1>5 DEF a, b, TwoRuns

(* The outputs of channelizer b, dealt from its offset on, go to the sub-  *)
(* channels whose frequency they have.                                     *)
LEMMA OutputsMeetFrequencies ==
  ASSUME NEW b \in Chlzb
  PROVE  /\ Len(OutBins(b)) = Offset(b + 1) - Offset(b)
         /\ \A k \in 1 .. Len(OutBins(b)) :
              Unit(b, OutBins(b)[k]) = 67 + Offset(b) + k - 1
<1>1. /\ \A n \in 0 .. 40 : Unit(b, n) = 80 * (1 + b) + n
      /\ \A n \in 121 .. 159 : Unit(b, n) = 80 * (1 + b) + n - 160
  BY SizesAssumption, ChannelizerAssumption DEF Unit, Chlzb, NumChlzb
<1>2. CASE b = 0
  <2>1. OutBins(b) = Bins(147, 159) \o Bins(0, 40)
    BY <1>2 DEF OutBins, NumChlzb
  <2>2. TwoRuns(OutBins(b), 147, 13, 0, 41)
    <3>1. TwoRuns(Bins(147, 159) \o Bins(0, 40),
                  147, 159 - 147 + 1, 0, 40 - 0 + 1)
      BY Joined
    <3> QED
      BY <2>1, <3>1
  <2>3. b = 0 /\ Offset(b) = 0 /\ Offset(b + 1) = 54
    BY <1>2, Offsets
  <2> QED
    BY <1>1, <2>2, <2>3 DEF TwoRuns
<1>3. CASE b \in 1 .. 3
  <2>1. OutBins(b) = Bins(121, 159) \o Bins(0, 40)
    BY <1>3 DEF OutBins, NumChlzb
  <2>2. TwoRuns(OutBins(b), 121, 39, 0, 41)
    <3>1. TwoRuns(Bins(121, 159) \o Bins(0, 40),
                  121, 159 - 121 + 1, 0, 40 - 0 + 1)
      BY Joined
    <3> QED
      BY <2>1, <3>1
  <2>3. Offset(b) = 80 * b - 26 /\ Offset(b + 1) = 80 * b + 54
    BY <1>3, Offsets
  <2> QED
    BY <1>1, <1>3, <2>2, <2>3 DEF TwoRuns
<1>4. CASE b = 4
  <2>1. OutBins(b) = Bins(121, 159) \o Bins(0, 0)
    BY <1>4 DEF OutBins, NumChlzb
  <2>2. TwoRuns(OutBins(b), 121, 39, 0, 1)
    <3>1. TwoRuns(Bins(121, 159) \o Bins(0, 0),
                  121, 159 - 121 + 1, 0, 0 - 0 + 1)
      BY Joined
    <3> QED
      BY <2>1, <3>1
  <2>3. b = 4 /\ Offset(b) = 294 /\ Offset(b + 1) = 334
    BY <1>4, Offsets
  <2> QED
    BY <1>1, <2>2, <2>3 DEF TwoRuns
<1> QED
  BY <1>2, <1>3, <1>4 DEF Chlzb, NumChlzb

-----------------------------------------------------------------------------
(* The samples of the two inner stages, counted in samples received.       *)
Total(u, s, w) == DecA * (u + DecB * (s + FftSub * w))

Received == packages * PackSamples

EachB(u) == [b \in Chlzb |-> u]
EachSub(s) == [i \in Sub |-> s]

(* The first d channelizers have been drained into their sub-channels.     *)
Drained(d, u) == [b \in Chlzb |-> IF b < d THEN u - DecB ELSE u]
Dealt(d, s) == [i \in Sub |-> IF i < Offset(d) THEN s + 1 ELSE s]

(* Of the second stage, which drains all of its channelizers or none.      *)
Dealing(u, s, d) ==
  /\ d \in 0 .. 5 /\ u < 2 * DecB
  /\ inB = Drained(d, u) /\ inSub = Dealt(d, s) /\ idxSub = Offset(d)
  /\ u >= DecB => d \in {j, j + 1}
  /\ u < DecB => d = 0

Still(u, s) == inB = EachB(u) /\ inSub = EachSub(s)

Flow(u, s, w) ==
  /\ windows = EachSub(w)
  /\ Received = inA + Total(u, s, w)
  /\ stage = "package" => inA < DecA /\ u < DecB /\ s < FftSub /\ Still(u, s)
  /\ stage \in {"plot", "first"} =>
       /\ s < FftSub /\ Still(u, s)
       /\ inA + DecA * u < PackSamples + DecA * DecB
       /\ inA < PackSamples + DecA
  /\ stage = "second" =>
       inA < DecA /\ s < FftSub /\ \E d \in Nat : Dealing(u, s, d)
  /\ stage = "energy" =>
       inA < DecA /\ u < DecB /\ s <= FftSub /\ Still(u, s)

(* The wideband plotter's buffer fills package by package.                 *)
PlotFlow ==
  /\ \E m \in Nat : inIf = m * PackSamples
  /\ inIf <= CapIf /\ (stage # "plot" => inIf < CapIf)
  /\ Received = inIf + IfRead * frames

Typed ==
  /\ stage \in {"package", "plot", "first", "second", "energy"}
  /\ inA \in Nat /\ j \in 0 .. 5 /\ packages \in Nat /\ frames \in Nat
  /\ \E d \in 0 .. 5 : idxSub = Offset(d)

FlowInv == Typed /\ PlotFlow /\ \E u, s, w \in Nat : Flow(u, s, w)

-----------------------------------------------------------------------------
LEMMA Sizes ==
  /\ PackSamples \in Nat \ {0} /\ DecA \in Nat \ {0} /\ CapA \in Nat \ {0}
  /\ DecB = 80 /\ CapB \in Nat \ {0} /\ FftSub \in Nat \ {0}
  /\ CapSub \in Nat \ {0} /\ CapIf \in Nat \ {0} /\ IfRead \in Nat \ {0}
  /\ IfRead <= CapIf /\ PackSamples <= DecA * DecB
  /\ DecA + PackSamples <= CapA + 1 /\ 2 * DecB <= CapB /\ FftSub <= CapSub
BY SizesAssumption, ChannelizerAssumption

LEMMA Totals ==
  ASSUME NEW u \in Nat, NEW s \in Nat, NEW w \in Nat
  PROVE  /\ Total(u, s, w) \in Nat
         /\ Total(u + 1, s, w) = Total(u, s, w) + DecA
         /\ u >= DecB => Total(u - DecB, s + 1, w) = Total(u, s, w)
         /\ s = FftSub => Total(u, 0, w + 1) = Total(u, s, w)
<1> DEFINE f == FftSub * w
           g == s + f
           h == u + DecB * g
<1>1. DecA \in Nat /\ DecB = 80 /\ FftSub \in Nat
  BY Sizes
<1>2. f \in Nat
  BY <1>1
<1>3. g \in Nat
  <2> HIDE DEF f
  <2> QED
    BY <1>2
<1>4. h \in Nat
  <2> HIDE DEF g
  <2> QED
    BY <1>1, <1>3
<1>5. Total(u, s, w) = DecA * h
  BY DEF Total
<1>6. Total(u + 1, s, w) = DecA * (h + 1)
  <2>1. u + 1 + DecB * g = h + 1
    <3> HIDE DEF g
    <3> QED
      BY <1>1, <1>3
  <2> QED
    BY <2>1 DEF Total
<1>7. u >= DecB => Total(u - DecB, s + 1, w) = DecA * h
  <2>1. s + 1 + f = g + 1
    <3> HIDE DEF f
    <3> QED
      BY <1>2
  <2>2. u - DecB + DecB * (g + 1) = h
    <3> HIDE DEF g
    <3> QED
      BY <1>1, <1>3
  <2> QED
    BY <2>1, <2>2 DEF Total
<1>8. s = FftSub => Total(u, 0, w + 1) = DecA * h
  <2>1. s = FftSub => 0 + FftSub * (w + 1) = g
    BY <1>1
  <2> QED
    BY <2>1 DEF Total
<1> HIDE DEF h
<1>9. DecA * (h + 1) = DecA * h + DecA /\ DecA * h \in Nat
  BY <1>1, <1>4
<1> QED
  BY <1>5, <1>6, <1>7, <1>8, <1>9

LEMMA InitFlow == Init => FlowInv
<1> SUFFICES ASSUME Init PROVE FlowInv
  OBVIOUS
<1>1. Typed
  BY Offsets DEF Init, Typed
<1>2. PlotFlow
  <2>1. inIf = 0 * PackSamples /\ Received = inIf + IfRead * frames
    BY Sizes DEF Init, Received
  <2> QED
    BY <2>1, Sizes DEF Init, PlotFlow
<1>3. Flow(0, 0, 0)
  <2>1. Received = inA + Total(0, 0, 0)
    BY Sizes DEF Init, Received, Total
  <2> QED
    BY <2>1, Sizes DEF Init, Flow, Still, EachB, EachSub
<1> QED
  BY <1>1, <1>2, <1>3 DEF FlowInv

(* A package fits into both buffers.                                       *)
LEMMA UnpackFlows == FlowInv /\ Unpack => FlowInv'
<1> SUFFICES ASSUME FlowInv, Unpack PROVE FlowInv'
  OBVIOUS
<1>1. PICK u \in Nat, s \in Nat, w \in Nat : Flow(u, s, w)
  BY DEF FlowInv
<1>2. PICK m \in Nat : inIf = m * PackSamples
  BY DEF FlowInv, PlotFlow
<1>3. /\ Typed /\ stage = "package" /\ stage' = "plot"
      /\ packages' = packages + 1
      /\ inA' = Pushed(inA, PackSamples, CapA)
      /\ inIf' = Pushed(inIf, PackSamples, CapIf)
      /\ UNCHANGED <<inB, inSub, j, idxSub, frames, windows, unit>>
  BY DEF Unpack, FlowInv
<1>4. Received' = Received + PackSamples /\ Received \in Nat
  <2>1. packages \in Nat
    BY <1>3 DEF Typed
  <2>2. (packages + 1) * PackSamples = packages * PackSamples + PackSamples
        /\ packages * PackSamples \in Nat
    BY <2>1, Sizes
  <2> QED
    BY <1>3, <2>2 DEF Received
<1>5. inIf' = inIf + PackSamples /\ inIf' = (m + 1) * PackSamples
      /\ inIf' <= CapIf
  <2>1. inIf < CapIf /\ CapIf % PackSamples = 0
    BY <1>3, SizesAssumption DEF FlowInv, PlotFlow
  <2> DEFINE k == CapIf \div PackSamples
  <2>2. k \in Int /\ CapIf = k * PackSamples
    BY <2>1, Sizes
  <2> HIDE DEF k
  <2>3. m < k
    <3> SUFFICES ASSUME k <= m PROVE FALSE
      BY <2>2
    <3>1. k * PackSamples <= m * PackSamples
      BY <2>2, Sizes
    <3> QED
      BY <1>2, <2>1, <2>2, <3>1, Sizes
  <2>4. (m + 1) * PackSamples <= k * PackSamples
    BY <2>2, <2>3, Sizes
  <2>5. (m + 1) * PackSamples = m * PackSamples + PackSamples
    BY Sizes
  <2>6. inIf + PackSamples <= CapIf
    BY <1>2, <2>2, <2>4, <2>5
  <2> QED
    BY <1>2, <1>3, <2>5, <2>6 DEF Pushed
<1>6. PlotFlow'
  <2>1. Received = inIf + IfRead * frames /\ inIf \in Nat /\ frames' = frames
        /\ IfRead * frames \in Nat
    BY <1>2, <1>3, Sizes DEF FlowInv, PlotFlow, Typed
  <2>2. Received' = inIf' + IfRead * frames'
    BY <1>4, <1>5, <2>1, Sizes
  <2> QED
    BY <1>3, <1>5, <2>2 DEF PlotFlow
<1>7. inA < DecA /\ u < DecB /\ s < FftSub /\ Still(u, s)
      /\ inA \in Nat /\ Received = inA + Total(u, s, w)
  BY <1>1, <1>3 DEF Flow, Typed
<1>8. inA' = inA + PackSamples /\ inA' \in Nat
  BY <1>3, <1>7, Sizes DEF Pushed
<1>9. inA' + DecA * u < PackSamples + DecA * DecB
  <2>1. u + 1 <= DecB /\ DecA * (u + 1) <= DecA * DecB
    BY <1>7, Sizes
  <2>2. DecA * (u + 1) = DecA * u + DecA /\ DecA * u \in Nat
    BY Sizes
  <2> QED
    BY <1>7, <1>8, <2>1, <2>2, Sizes
<1>10. Flow(u, s, w)'
  <2>1. Received' = inA' + Total(u, s, w)
    <3>1. Total(u, s, w) \in Nat
      BY Totals
    <3> QED
      BY <1>4, <1>7, <1>8, <3>1, Sizes
  <2> QED
    BY <1>1, <1>3, <1>7, <1>8, <1>9, <2>1, Sizes DEF Flow, Still
<1>11. Typed'
  BY <1>3, <1>8 DEF Typed
<1> QED
  BY <1>6, <1>10, <1>11 DEF FlowInv

LEMMA PlotIfFlows == FlowInv /\ PlotIf => FlowInv'
<1> SUFFICES ASSUME FlowInv, PlotIf PROVE FlowInv'
  OBVIOUS
<1>1. PICK u \in Nat, s \in Nat, w \in Nat : Flow(u, s, w)
  BY DEF FlowInv
<1>2. PICK m \in Nat : inIf = m * PackSamples
  BY DEF FlowInv, PlotFlow
<1>3. /\ Typed /\ stage = "plot" /\ stage' = "first"
      /\ IF inIf >= CapIf
           THEN inIf' = inIf - IfRead /\ frames' = frames + 1
           ELSE inIf' = inIf /\ frames' = frames
      /\ UNCHANGED <<inA, inB, inSub, j, idxSub, packages, windows, unit>>
  BY DEF PlotIf, FlowInv
<1>4. Received' = Received
  BY <1>3 DEF Received
<1>5. inIf <= CapIf /\ inIf \in Nat /\ frames \in Nat
      /\ Received = inIf + IfRead * frames
  BY <1>2, <1>3, Sizes DEF FlowInv, PlotFlow, Typed
<1>6. PlotFlow' /\ frames' \in Nat
  <2>1. CASE inIf >= CapIf
    <3>1. inIf' = inIf - IfRead /\ frames' = frames + 1
      BY <1>3, <2>1
    <3> DEFINE r == IfRead \div PackSamples
    <3>2. r \in Int /\ IfRead = r * PackSamples
      BY Sizes, SizesAssumption
    <3> HIDE DEF r
    <3>3. inIf' = (m - r) * PackSamples
      <4>1. (m - r) * PackSamples = m * PackSamples - r * PackSamples
        BY <3>2, Sizes
      <4> QED
        BY <1>2, <3>1, <3>2, <4>1
    <3>4. m - r \in Nat
      <4> SUFFICES ASSUME m < r PROVE FALSE
        BY <3>2
      <4>1. m + 1 <= r /\ (m + 1) * PackSamples <= r * PackSamples
        BY <3>2, Sizes
      <4>2. (m + 1) * PackSamples = m * PackSamples + PackSamples
        BY Sizes
      <4> QED
        BY <1>2, <1>5, <2>1, <3>2, <4>1, <4>2, Sizes
    <3>5. IfRead * (frames + 1) = IfRead * frames + IfRead
          /\ IfRead * frames \in Nat
      BY <1>5, Sizes
    <3>6. Received = inIf' + IfRead * frames'
      BY <1>5, <3>1, <3>5, Sizes
    <3>7. inIf' < CapIf
      BY <1>5, <3>1, Sizes
    <3>8. \E k \in Nat : inIf' = k * PackSamples
      <4> DEFINE k == m - r
      <4>1. k \in Nat /\ inIf' = k * PackSamples
        BY <3>3, <3>4
      <4> HIDE DEF k
      <4> QED
        BY <4>1
    <3>9. inIf' <= CapIf /\ Received' = inIf' + IfRead * frames'
      BY <1>4, <3>6, <3>7, <3>8, Sizes
    <3> QED
      BY <1>5, <3>1, <3>7, <3>8, <3>9 DEF PlotFlow
  <2>2. CASE ~(inIf >= CapIf)
    BY <1>2, <1>3, <1>4, <1>5, <2>2, Sizes DEF PlotFlow
  <2> QED
    BY <2>1, <2>2
<1>7. Flow(u, s, w)'
  BY <1>1, <1>3, <1>4 DEF Flow, Still
<1>8. Typed'
  BY <1>3, <1>6 DEF Typed
<1> QED
  BY <1>6, <1>7, <1>8 DEF FlowInv

(* The plotter is not disturbed by what the stages do.                     *)
LEMMA PlotUndisturbed ==
  ASSUME PlotFlow, stage # "plot", UNCHANGED <<inIf, packages, frames>>
  PROVE  PlotFlow'
BY DEF PlotFlow, Received

(* One more sample waits for each second-stage channelizer, and fits.      *)
LEMMA AnalyseFirstFlows == FlowInv /\ AnalyseFirst => FlowInv'
<1> SUFFICES ASSUME FlowInv, AnalyseFirst PROVE FlowInv'
  OBVIOUS
<1>1. PICK u \in Nat, s \in Nat, w \in Nat : Flow(u, s, w)
  BY DEF FlowInv
<1>2. /\ Typed /\ stage = "first" /\ inA >= DecA
      /\ inB' = [b \in Chlzb |-> Pushed(inB[b], 1, CapB)]
      /\ inA' = inA - DecA
      /\ UNCHANGED <<stage, inIf, inSub, j, idxSub, packages, frames, windows>>
  BY DEF AnalyseFirst, FlowInv
<1>3. /\ inA \in Nat /\ Received = inA + Total(u, s, w) /\ Still(u, s)
      /\ inA + DecA * u < PackSamples + DecA * DecB
      /\ inA < PackSamples + DecA /\ s < FftSub /\ windows = EachSub(w)
  BY <1>1, <1>2 DEF Flow, Typed
<1>4. inA' \in Nat
  BY <1>2, <1>3, Sizes
<1>5. u + 1 <= CapB
  <2> SUFFICES ASSUME 2 * DecB <= u PROVE FALSE
    BY Sizes
  <2>1. DecA * (2 * DecB) <= DecA * u
    BY Sizes
  <2>2. DecA * (2 * DecB) = DecA * DecB + DecA * DecB /\ DecA * DecB \in Nat
        /\ DecA * u \in Nat
    BY Sizes
  <2> QED
    BY <1>2, <1>3, <2>1, <2>2, Sizes
<1>6. inB' = EachB(u + 1)
  BY <1>2, <1>3, <1>5 DEF Still, EachB, Pushed
<1>7. /\ Total(u + 1, s, w) = Total(u, s, w) + DecA
      /\ Total(u, s, w) \in Nat
  BY Totals
<1>8. DecA * (u + 1) = DecA * u + DecA /\ DecA * u \in Nat
  BY Sizes
<1>9. /\ Received' = inA' + Total(u + 1, s, w)
      /\ inA' + DecA * (u + 1) < PackSamples + DecA * DecB
      /\ inA' < PackSamples + DecA
  <2>1. Received' = Received
    BY <1>2 DEF Received
  <2> QED
    BY <1>2, <1>3, <1>7, <1>8, <2>1, Sizes
<1>10. Flow(u + 1, s, w)'
  BY <1>2, <1>3, <1>6, <1>9 DEF Flow, Still
<1>11. PlotFlow'
  BY <1>2, PlotUndisturbed DEF FlowInv
<1>12. Typed'
  BY <1>2, <1>4 DEF Typed
<1>13. u + 1 \in Nat
  OBVIOUS
<1> QED
  BY <1>10, <1>11, <1>12, <1>13 DEF FlowInv

LEMMA LeaveFirstFlows == FlowInv /\ LeaveFirst => FlowInv'
<1> SUFFICES ASSUME FlowInv, LeaveFirst PROVE FlowInv'
  OBVIOUS
<1>1. PICK u \in Nat, s \in Nat, w \in Nat : Flow(u, s, w)
  BY DEF FlowInv
<1>2. /\ Typed /\ stage = "first" /\ inA < DecA /\ stage' = "second"
      /\ j' = 0 /\ idxSub' = 0
      /\ UNCHANGED <<inA, inB, inIf, inSub, packages, frames, windows>>
  BY DEF LeaveFirst, FlowInv
<1>3. /\ inA \in Nat /\ Received = inA + Total(u, s, w) /\ Still(u, s)
      /\ inA + DecA * u < PackSamples + DecA * DecB
      /\ s < FftSub /\ windows = EachSub(w)
  BY <1>1, <1>2 DEF Flow, Typed
<1>4. u < 2 * DecB
  <2> SUFFICES ASSUME 2 * DecB <= u PROVE FALSE
    BY Sizes
  <2>1. DecA * (2 * DecB) <= DecA * u
    BY Sizes
  <2>2. DecA * (2 * DecB) = DecA * DecB + DecA * DecB /\ DecA * DecB \in Nat
        /\ DecA * u \in Nat
    BY Sizes
  <2> QED
    BY <1>3, <2>1, <2>2, Sizes
<1>5. Dealing(u, s, 0)'
  <2>1. inB' = Drained(0, u)
    BY <1>2, <1>3 DEF Still, EachB, Drained, Chlzb
  <2>2. inSub' = Dealt(0, s)
    BY <1>2, <1>3, Offsets DEF Still, EachSub, Dealt, Sub
  <2> QED
    BY <1>2, <1>4, <2>1, <2>2, Offsets DEF Dealing
<1>6. Received' = Received
  BY <1>2 DEF Received
<1>7. Flow(u, s, w)'
  BY <1>2, <1>3, <1>5, <1>6 DEF Flow
<1>8. PlotFlow' /\ Typed'
  BY <1>2, PlotUndisturbed, Offsets DEF FlowInv, Typed
<1> QED
  BY <1>7, <1>8 DEF FlowInv

(* A turn of the loop drains the next channelizer, for the first time, and *)
(* deals its outputs to the sub-channels behind those that have theirs.    *)
LEMMA AnalyseSecondDeals ==
  ASSUME AnalyseSecond, Typed, NEW u \in Nat, NEW s \in Nat, s < FftSub,
         NEW d \in Nat, Dealing(u, s, d), NEW e \in Nat, e = j + 1
  PROVE  /\ d = j /\ j \in Chlzb /\ Dealing(u, s, e)'
         /\ idxSub' = Offset(j + 1)
         /\ \A i \in Sub :
              unit'[i] = IF i \in Offset(j) .. Offset(j + 1) - 1
                           THEN 67 + i ELSE unit[i]
<1>1. /\ j \in Chlzb /\ j \in 0 .. 4 /\ inB[j] >= DecB /\ stage = "second"
      /\ UNCHANGED <<stage, inA, inIf, j, packages, frames, windows>>
  BY DEF AnalyseSecond, Typed, Chlzb, NumChlzb
<1>2. /\ d \in 0 .. 5 /\ u < 2 * DecB /\ idxSub = Offset(d)
      /\ inB = Drained(d, u) /\ inSub = Dealt(d, s)
      /\ (u >= DecB => d \in {j, j + 1}) /\ (u < DecB => d = 0)
  BY DEF Dealing
<1>3. inB[j] = IF j < d THEN u - DecB ELSE u
  BY <1>1, <1>2 DEF Drained
<1>4. u >= DecB /\ d = j
  BY <1>1, <1>2, <1>3, Sizes
<1> DEFINE bins == OutBins(j)
           got == idxSub .. idxSub + Len(bins) - 1
<1>5. /\ Len(bins) = Offset(j + 1) - Offset(j)
      /\ \A k \in 1 .. Len(bins) : Unit(j, bins[k]) = 67 + Offset(j) + k - 1
  BY <1>1, OutputsMeetFrequencies
<1>6. /\ Offset(j) \in Nat /\ Offset(j + 1) \in Nat
      /\ Offset(j) < Offset(j + 1) /\ Offset(j + 1) <= NumSub
  BY <1>1, Offsets DEF NumSub
<1>7. /\ inSub' = [i \in Sub |-> IF i \in got THEN Pushed(inSub[i], 1, CapSub)
                                           ELSE inSub[i]]
      /\ unit' = [i \in Sub |-> IF i \in got THEN Unit(j, bins[i - idxSub + 1])
                                          ELSE unit[i]]
      /\ idxSub' = idxSub + Len(bins)
      /\ inB' = [inB EXCEPT ![j] = @ - DecB]
  BY DEF AnalyseSecond
<1> HIDE DEF bins
<1>8. idxSub' = Offset(j + 1) /\ got = Offset(j) .. Offset(j + 1) - 1
  BY <1>2, <1>4, <1>5, <1>6, <1>7
<1>9. ASSUME NEW i \in Sub
      PROVE  unit'[i] = IF i \in Offset(j) .. Offset(j + 1) - 1
                          THEN 67 + i ELSE unit[i]
  <2>1. CASE i \in Offset(j) .. Offset(j + 1) - 1
    <3>1. unit'[i] = Unit(j, bins[i - Offset(j) + 1])
      BY <1>2, <1>4, <1>7, <1>8, <2>1
    <3>2. i - Offset(j) + 1 \in 1 .. Len(bins)
      BY <1>5, <1>6, <2>1
    <3>3. Unit(j, bins[i - Offset(j) + 1]) = 67 + Offset(j) + (i - Offset(j) + 1) - 1
      BY <1>5, <3>2
    <3> QED
      BY <1>6, <2>1, <3>1, <3>3
  <2>2. CASE i \notin Offset(j) .. Offset(j + 1) - 1
    BY <1>7, <1>8, <2>2
  <2> QED
    BY <2>1, <2>2
<1>10. inSub' = Dealt(j + 1, s)
  <2>1. ASSUME NEW i \in Sub
        PROVE  inSub'[i] = IF i < Offset(j + 1) THEN s + 1 ELSE s
    <3>1. inSub[i] = IF i < Offset(j) THEN s + 1 ELSE s
      BY <1>2, <1>4 DEF Dealt
    <3>2. i \in Int /\ Pushed(s, 1, CapSub) = s + 1
      BY Sizes DEF Sub, NumSub, Pushed
    <3>3. inSub'[i] = IF i \in Offset(j) .. Offset(j + 1) - 1
                        THEN Pushed(inSub[i], 1, CapSub) ELSE inSub[i]
      BY <1>7, <1>8
    <3>4. CASE i < Offset(j)
      BY <1>6, <3>1, <3>2, <3>3, <3>4
    <3>5. CASE i \in Offset(j) .. Offset(j + 1) - 1
      BY <1>6, <3>1, <3>2, <3>3, <3>5
    <3>6. CASE Offset(j + 1) <= i
      BY <1>6, <3>1, <3>2, <3>3, <3>6
    <3> QED
      BY <1>6, <3>2, <3>4, <3>5, <3>6
  <2> QED
    BY <1>7, <2>1 DEF Dealt
<1>11. inB' = Drained(j + 1, u)
  <2>1. ASSUME NEW b \in Chlzb
        PROVE  inB'[b] = IF b < j + 1 THEN u - DecB ELSE u
    <3>1. inB[b] = IF b < j THEN u - DecB ELSE u
      BY <1>2, <1>4 DEF Drained
    <3>2. b \in Int /\ inB'[b] = IF b = j THEN inB[b] - DecB ELSE inB[b]
      BY <1>1, <1>2, <1>7 DEF Drained, Chlzb
    <3> QED
      BY <1>1, <3>1, <3>2
  <2>2. inB' = [b \in Chlzb |-> inB'[b]]
    BY <1>2, <1>7 DEF Drained
  <2> QED
    BY <2>1, <2>2 DEF Drained
<1>12. Dealing(u, s, e)'
  <2>1. inB' = Drained(e, u) /\ inSub' = Dealt(e, s) /\ idxSub' = Offset(e)
    BY <1>8, <1>10, <1>11
  <2>2. e \in 0 .. 5 /\ e = j' + 1 /\ u < 2 * DecB /\ u >= DecB
    BY <1>1, <1>2, <1>4
  <2> QED
    BY <2>1, <2>2, Sizes DEF Dealing
<1> QED
  BY <1>1, <1>4, <1>8, <1>9, <1>12

LEMMA AnalyseSecondFlows == FlowInv /\ AnalyseSecond => FlowInv'
<1> SUFFICES ASSUME FlowInv, AnalyseSecond PROVE FlowInv'
  OBVIOUS
<1>1. PICK u \in Nat, s \in Nat, w \in Nat : Flow(u, s, w)
  BY DEF FlowInv
<1>2. /\ Typed /\ stage = "second"
      /\ UNCHANGED <<stage, inA, inIf, j, packages, frames, windows>>
  BY DEF AnalyseSecond, FlowInv
<1>3. PICK d \in Nat : Dealing(u, s, d)
  BY <1>1, <1>2 DEF Flow
<1>4. /\ s < FftSub /\ inA < DecA /\ Received = inA + Total(u, s, w)
      /\ windows = EachSub(w)
  BY <1>1, <1>2 DEF Flow
<1>5. PICK e \in Nat : e = j + 1
  BY <1>2 DEF Typed
<1>6. Dealing(u, s, e)' /\ idxSub' = Offset(e) /\ e \in 0 .. 5
  BY <1>2, <1>3, <1>4, <1>5, AnalyseSecondDeals DEF Chlzb, NumChlzb
<1>7. Received' = Received
  BY <1>2 DEF Received
<1>9. Flow(u, s, w)'
  BY <1>2, <1>4, <1>6, <1>7 DEF Flow
<1>10. PlotFlow' /\ Typed'
  BY <1>2, <1>6, PlotUndisturbed DEF FlowInv, Typed
<1> QED
  BY <1>9, <1>10 DEF FlowInv

LEMMA NextChannelizerFlows == FlowInv /\ NextChannelizer => FlowInv'
<1> SUFFICES ASSUME FlowInv, NextChannelizer PROVE FlowInv'
  OBVIOUS
<1>1. PICK u \in Nat, s \in Nat, w \in Nat : Flow(u, s, w)
  BY DEF FlowInv
<1>2. /\ Typed /\ stage = "second" /\ j \in 0 .. 4 /\ inB[j] < DecB
      /\ j' = j + 1
      /\ UNCHANGED <<stage, inA, inB, inIf, inSub, idxSub, packages, frames,
                     windows>>
  BY DEF NextChannelizer, FlowInv, Typed, NumChlzb
<1>3. PICK d \in Nat : Dealing(u, s, d)
  BY <1>1, <1>2 DEF Flow
<1>4. /\ s < FftSub /\ inA < DecA /\ Received = inA + Total(u, s, w)
      /\ windows = EachSub(w)
  BY <1>1, <1>2 DEF Flow
<1>5. inB[j] = IF j < d THEN u - DecB ELSE u
  BY <1>2, <1>3 DEF Dealing, Drained, Chlzb, NumChlzb
<1>6. u >= DecB => d = j + 1
  BY <1>2, <1>3, <1>5, Sizes DEF Dealing
<1>7. Dealing(u, s, d)'
  BY <1>2, <1>3, <1>6 DEF Dealing
<1>8. Received' = Received
  BY <1>2 DEF Received
<1>9. Flow(u, s, w)'
  BY <1>2, <1>4, <1>7, <1>8 DEF Flow
<1>10. PlotFlow' /\ Typed'
  BY <1>2, PlotUndisturbed DEF FlowInv, Typed
<1> QED
  BY <1>9, <1>10 DEF FlowInv

(* When all have been drained every sub-channel has got its sample.        *)
LEMMA LeaveSecondFlows == FlowInv /\ LeaveSecond => FlowInv'
<1> SUFFICES ASSUME FlowInv, LeaveSecond PROVE FlowInv'
  OBVIOUS
<1>1. PICK u \in Nat, s \in Nat, w \in Nat : Flow(u, s, w)
  BY DEF FlowInv
<1>2. /\ Typed /\ stage = "second" /\ j = 5 /\ stage' = "energy"
      /\ UNCHANGED <<inA, inB, inIf, inSub, j, idxSub, packages, frames,
                     windows>>
  BY DEF LeaveSecond, FlowInv, NumChlzb
<1>3. PICK d \in Nat : Dealing(u, s, d)
  BY <1>1, <1>2 DEF Flow
<1>4. /\ s < FftSub /\ inA < DecA /\ Received = inA + Total(u, s, w)
      /\ windows = EachSub(w) /\ Received' = Received
  BY <1>1, <1>2 DEF Flow, Received
<1>5. PlotFlow' /\ Typed'
  BY <1>2, PlotUndisturbed DEF FlowInv, Typed
<1>6. CASE u < DecB
  <2>1. d = 0
    BY <1>3, <1>6 DEF Dealing
  <2>2. inB' = EachB(u) /\ inSub' = EachSub(s)
    BY <1>2, <1>3, <2>1, Offsets
    DEF Dealing, Drained, Dealt, EachB, EachSub, Chlzb, Sub
  <2>3. Flow(u, s, w)'
    BY <1>2, <1>4, <1>6, <2>2, Sizes DEF Flow, Still
  <2> QED
    BY <1>5, <2>3 DEF FlowInv
<1>7. CASE u >= DecB
  <2>1. d = 5 /\ u < 2 * DecB
    BY <1>2, <1>3, <1>7 DEF Dealing
  <2>2. inB' = EachB(u - DecB)
    BY <1>2, <1>3, <2>1 DEF Dealing, Drained, EachB, Chlzb, NumChlzb
  <2>3. inSub' = EachSub(s + 1)
    BY <1>2, <1>3, <2>1, Offsets DEF Dealing, Dealt, EachSub, Sub, NumSub
  <2>4. u - DecB \in Nat /\ s + 1 \in Nat /\ u - DecB < DecB /\ s + 1 <= FftSub
    BY <1>4, <1>7, <2>1, Sizes
  <2>5. Received' = inA' + Total(u - DecB, s + 1, w)
    BY <1>2, <1>4, <1>7, Totals
  <2>6. Flow(u - DecB, s + 1, w)'
    BY <1>2, <1>4, <2>2, <2>3, <2>4, <2>5 DEF Flow, Still
  <2> QED
    BY <1>5, <2>4, <2>6 DEF FlowInv
<1> QED
  BY <1>6, <1>7, Sizes

(* A window is measured of all sub-channels or of none.                    *)
LEMMA MeasureFlows == FlowInv /\ Measure => FlowInv'
<1> SUFFICES ASSUME FlowInv, Measure PROVE FlowInv'
  OBVIOUS
<1>1. PICK u \in Nat, s \in Nat, w \in Nat : Flow(u, s, w)
  BY DEF FlowInv
<1>2. /\ Typed /\ stage = "energy" /\ stage' = "package"
      /\ inSub' = Add(inSub, Full, -FftSub) /\ windows' = Add(windows, Full, 1)
      /\ UNCHANGED <<inA, inB, inIf, j, idxSub, packages, frames>>
  BY DEF Measure, FlowInv
<1>3. /\ s <= FftSub /\ u < DecB /\ inA < DecA /\ Still(u, s)
      /\ Received = inA + Total(u, s, w)
      /\ windows = EachSub(w) /\ Received' = Received
  BY <1>1, <1>2 DEF Flow, Received
<1>4. PlotFlow' /\ Typed'
  BY <1>2, PlotUndisturbed DEF FlowInv, Typed
<1>5. CASE s < FftSub
  <2>1. Full = {}
    <3>1. \A h \in Sub : inSub[h] < FftSub
      BY <1>3, <1>5 DEF Still, EachSub
    <3>2. \A i \in Sub : ~(i < i)
      BY DEF Sub, NumSub
    <3> QED
      BY <3>1, <3>2 DEF Full
  <2>2. inSub' = EachSub(s) /\ windows' = EachSub(w)
    BY <1>2, <1>3, <2>1 DEF Add, Still, EachSub
  <2>3. Flow(u, s, w)'
    BY <1>2, <1>3, <1>5, <2>2 DEF Flow, Still
  <2> QED
    BY <1>4, <2>3 DEF FlowInv
<1>6. CASE s = FftSub
  <2>1. Full = Sub
    <3>1. \A h \in Sub : ~(inSub[h] < FftSub)
      BY <1>3, <1>6, Sizes DEF Still, EachSub
    <3> QED
      BY <3>1 DEF Full
  <2>2. inSub' = EachSub(0) /\ windows' = EachSub(w + 1)
    BY <1>2, <1>3, <1>6, <2>1 DEF Add, Still, EachSub
  <2>3. Received' = inA' + Total(u, 0, w + 1)
    BY <1>2, <1>3, <1>6, Totals
  <2>4. Flow(u, 0, w + 1)'
    BY <1>2, <1>3, <2>2, <2>3, Sizes DEF Flow, Still
  <2>5. 0 \in Nat /\ w + 1 \in Nat
    OBVIOUS
  <2> QED
    BY <1>4, <2>4, <2>5 DEF FlowInv
<1> QED
  BY <1>3, <1>5, <1>6, Sizes

(* The inductive invariant of the signal path.                             *)
THEOREM FlowInvariant == Spec => []FlowInv
<1>1. FlowInv /\ [Next]_vars => FlowInv'
  <2> SUFFICES ASSUME FlowInv, [Next]_vars PROVE FlowInv'
    OBVIOUS
  <2>1. CASE UNCHANGED vars
    BY <2>1 DEF vars, FlowInv, Typed, PlotFlow, Received, Flow, Still, Dealing
  <2> QED
    BY <2>1, UnpackFlows, PlotIfFlows, AnalyseFirstFlows, LeaveFirstFlows,
       AnalyseSecondFlows, NextChannelizerFlows, LeaveSecondFlows, MeasureFlows
    DEF Next
<1> QED
  BY <1>1, InitFlow, PTL DEF Spec

(* Every sub-channel has been given exactly one output for every DecA*DecB *)
(* samples received, the wideband plotter every sample.                    *)
THEOREM EverySampleArrives == Spec => []NoSampleLost
<1>1. FlowInv => NoSampleLost
  <2> SUFFICES ASSUME FlowInv, stage = "package"
               PROVE  /\ packages * PackSamples = inIf + IfRead * frames
                      /\ \A b \in Chlzb, i \in Sub :
                           packages * PackSamples =
                             inA + DecA * (inB[b] + DecB *
                                             (inSub[i] + FftSub * windows[i]))
    BY DEF NoSampleLost
  <2>1. PICK u \in Nat, s \in Nat, w \in Nat : Flow(u, s, w)
    BY DEF FlowInv
  <2>2. /\ inB = EachB(u) /\ inSub = EachSub(s) /\ windows = EachSub(w)
        /\ Received = inA + Total(u, s, w)
    BY <2>1 DEF Flow, Still
  <2>3. ASSUME NEW b \in Chlzb, NEW i \in Sub
        PROVE  inB[b] = u /\ inSub[i] = s /\ windows[i] = w
    BY <2>2 DEF EachB, EachSub
  <2> QED
    BY <2>2, <2>3 DEF Received, Total, FlowInv, PlotFlow
<1> QED
  BY <1>1, FlowInvariant, PTL

(* The sub-channels fill in step, and the index that deals them their      *)
(* samples stays within them.                                              *)
THEOREM SubchannelsInStep == Spec => []InStep
<1>1. FlowInv => InStep
  <2> SUFFICES ASSUME FlowInv
               PROVE  /\ idxSub <= NumSub
                      /\ stage = "energy" => \A i \in Sub : inSub[i] = inSub[0]
    BY DEF InStep
  <2>1. idxSub <= NumSub
    BY Offsets DEF FlowInv, Typed, NumSub
  <2>2. ASSUME stage = "energy" PROVE \A i \in Sub : inSub[i] = inSub[0]
    <3>1. PICK s \in Nat : inSub = EachSub(s)
      BY <2>2 DEF FlowInv, Flow, Still
    <3> QED
      BY <3>1 DEF EachSub, Sub, NumSub
  <2> QED
    BY <2>1, <2>2
<1> QED
  BY <1>1, FlowInvariant, PTL

(* Every sub-channel only ever gets outputs of the frequency displayed.    *)
THEOREM FrequenciesAreDisplayed == Spec => []FrequencyOfSubchannel
<1>1. Init => FrequencyOfSubchannel
  BY DEF Init, FrequencyOfSubchannel
<1>2. FlowInv /\ FrequencyOfSubchannel /\ [Next]_vars => FrequencyOfSubchannel'
  <2> SUFFICES ASSUME FlowInv, FrequencyOfSubchannel, [Next]_vars
               PROVE  FrequencyOfSubchannel'
    OBVIOUS
  <2>1. CASE AnalyseSecond
    <3>1. Typed /\ stage = "second"
      BY <2>1 DEF AnalyseSecond, FlowInv
    <3>2. PICK u \in Nat, s \in Nat, w \in Nat : Flow(u, s, w)
      BY DEF FlowInv
    <3>3. PICK d \in Nat : Dealing(u, s, d) /\ s < FftSub
      BY <3>1, <3>2 DEF Flow
    <3>4. PICK e \in Nat : e = j + 1
      BY <3>1 DEF Typed
    <3>5. \A i \in Sub :
            unit'[i] = IF i \in Offset(j) .. Offset(j + 1) - 1
                         THEN 67 + i ELSE unit[i]
      BY <2>1, <3>1, <3>3, <3>4, AnalyseSecondDeals
    <3> QED
      BY <3>5 DEF FrequencyOfSubchannel
  <2>2. CASE UNCHANGED unit
    BY <2>2 DEF FrequencyOfSubchannel
  <2> QED
    BY <2>1, <2>2 DEF Next, vars, Unpack, PlotIf, AnalyseFirst, LeaveFirst,
                      NextChannelizer, LeaveSecond, Measure
<1> QED
  BY <1>1, <1>2, FlowInvariant, PTL DEF Spec

-----------------------------------------------------------------------------
(* The file clock.  Files are named in whole steps since the first day, so *)
(* that a day begins with one.                                             *)
LEMMA Steps ==
  /\ Step \in Nat \ {0} /\ Minute \in Nat \ {0} /\ Day \in Nat \ {0}
  /\ Never \notin Int /\ Days \subseteq Nat
  /\ \E m \in Nat : Minute = m * Step
  /\ \E d \in Nat \ {0} : Day = d * Step
  /\ \E d \in Nat : Day = d * Minute
<1>1. /\ Step \in Nat \ {0} /\ Minute \in Nat \ {0} /\ Day \in Nat \ {0}
      /\ Minute % Step = 0 /\ Day % Minute = 0
      /\ Never \notin Int /\ Days \subseteq Nat
  BY ClockAssumption
<1>2. ASSUME NEW a \in Nat \ {0}, NEW b \in Nat \ {0}, a % b = 0
      PROVE  \E k \in Nat \ {0} : a = k * b
  <2> DEFINE k == a \div b
  <2>1. k \in Nat /\ a = k * b
    BY <1>2
  <2> HIDE DEF k
  <2>2. k # 0
    BY <1>2, <2>1
  <2> QED
    BY <2>1, <2>2
<1>3. PICK m \in Nat \ {0} : Minute = m * Step
  BY <1>1, <1>2
<1>4. PICK d \in Nat \ {0} : Day = d * Minute
  BY <1>1, <1>2
<1>5. Day = (d * m) * Step /\ d * m \in Nat \ {0}
  <2>1. d * (m * Step) = (d * m) * Step
    BY <1>1
  <2>2. d * m \in Nat /\ d * m # 0
    OBVIOUS
  <2> QED
    BY <1>3, <1>4, <2>1, <2>2
<1> DEFINE n == d * m
<1>6. n \in Nat \ {0} /\ Day = n * Step
  BY <1>5
<1> HIDE DEF n
<1> QED
  BY <1>1, <1>3, <1>4, <1>6

(* A whole number of steps.                                                *)
Aligned(p) == \E k \in Nat : p = k * Step

LEMMA AlignedSums ==
  /\ \A p : Aligned(p) => p \in Nat
  /\ \A p, q : Aligned(p) /\ Aligned(q) => Aligned(p + q)
  /\ \A k \in Nat : Aligned(k * Step) /\ Aligned(k * Minute) /\ Aligned(k * Day)
<1>1. \A k \in Nat : k * Step \in Nat
  BY Steps
<1>2. ASSUME NEW p, NEW q, Aligned(p), Aligned(q) PROVE Aligned(p + q)
  <2>1. PICK a \in Nat : p = a * Step
    BY <1>2 DEF Aligned
  <2>2. PICK b \in Nat : q = b * Step
    BY <1>2 DEF Aligned
  <2>3. p + q = (a + b) * Step /\ a + b \in Nat
    BY <2>1, <2>2, Steps
  <2> QED
    BY <2>3 DEF Aligned
<1>3. ASSUME NEW k \in Nat PROVE Aligned(k * Minute) /\ Aligned(k * Day)
  <2>1. ASSUME NEW n \in Nat PROVE k * (n * Step) = (k * n) * Step /\ k * n \in Nat
    BY Steps
  <2>2. ASSUME NEW n \in Nat PROVE Aligned(k * (n * Step))
    <3> DEFINE x == k * n
    <3>1. k * (n * Step) = x * Step /\ x \in Nat
      BY <2>1
    <3> HIDE DEF x
    <3> QED
      BY <3>1 DEF Aligned
  <2> QED
    BY <2>2, Steps
<1> QED
  BY <1>1, <1>2, <1>3 DEF Aligned

(* Two whole numbers of steps are equal or a step apart.                   *)
LEMMA AlignedApart ==
  ASSUME NEW p, NEW q, Aligned(p), Aligned(q), p < q
  PROVE  p + Step <= q
<1>1. PICK a \in Nat : p = a * Step
  BY DEF Aligned
<1>2. PICK b \in Nat : q = b * Step
  BY DEF Aligned
<1>3. a < b
  <2> SUFFICES ASSUME b <= a PROVE FALSE
    OBVIOUS
  <2>1. b * Step <= a * Step
    BY Steps
  <2> QED
    BY <1>1, <1>2, <2>1, Steps
<1>4. (a + 1) * Step <= b * Step /\ (a + 1) * Step = a * Step + Step
  BY <1>3, Steps
<1> QED
  BY <1>1, <1>2, <1>4

(* A quotient by the step, and what it leaves.                             *)
LEMMA StepsIn ==
  ASSUME NEW a \in Nat
  PROVE  /\ a \div Step \in Nat
         /\ Step * (a \div Step) <= a /\ a < Step * (a \div Step) + Step
<1>1. Step \in Nat \ {0}
  BY Steps
<1> QED
  BY <1>1

LEMMA RoundedSeconds ==
  ASSUME NEW p \in Nat
  PROVE  Aligned(RoundSeconds(p))
<1> DEFINE minutes == p \div Minute
           second == p % Minute
           r == (2 * second + Step) \div (2 * Step)
<1>1. /\ minutes \in Nat /\ second \in Nat
      /\ p - second = minutes * Minute
  BY Steps
<1>2. r \in Nat
  <2>1. second \in Nat
    BY <1>1
  <2> HIDE DEF second
  <2>2. 2 * second + Step \in Nat /\ 2 * Step \in Nat \ {0}
    BY <2>1, Steps
  <2> DEFINE a == 2 * second + Step
             b == 2 * Step
  <2>3. a \in Nat /\ b \in Nat \ {0}
    BY <2>2
  <2> HIDE DEF a, b
  <2>4. a \div b \in Nat
    BY <2>3
  <2> QED
    BY <2>4 DEF a, b
<1>3. RoundSeconds(p) = p - second + IF Step * r = Minute THEN 0 ELSE Step * r
  BY DEF RoundSeconds
<1> HIDE DEF minutes, second, r
<1>4. Aligned(p - second)
  BY <1>1, AlignedSums
<1>5. Aligned(Step * r)
  <2>1. Step * r = r * Step
    BY <1>2, Steps
  <2> QED
    BY <1>2, <2>1 DEF Aligned
<1>6. Aligned(p - second + Step * r) /\ p - second + 0 = p - second
  BY <1>1, <1>4, <1>5, AlignedSums
<1> QED
  BY <1>3, <1>4, <1>6

(* The steps that have passed bring the file's time to the last step       *)
(* before the package's time, or, from the future, back to the first one   *)
(* after it.                                                               *)
LEMMA BroughtNear ==
  ASSUME NEW from, NEW now \in Nat, Aligned(from)
  PROVE  /\ Aligned(NewLast(from, now))
         /\ NewLast(from, now) - now \in 1 - Step .. Step - 1
         /\ from <= now => from <= NewLast(from, now)
<1>1. from \in Nat /\ Step \in Nat \ {0} /\ Never \notin Int
  BY AlignedSums, Steps
<1>2. from # Never /\ now # Never
  BY <1>1
<1> DEFINE e == (now - from) \div Step
           f == (from - now) \div Step
           q == Quotient(now - from, Step)
<1>3. /\ NewLast(from, now) = from + Step * q /\ q \in Int
      /\ from + Step * q \in Nat
      /\ (from + Step * q) - now \in 1 - Step .. Step - 1
      /\ from <= now => from <= from + Step * q
  <2>1. CASE from <= now
    <3>1. now - from \in Nat
      BY <1>1, <2>1
    <3>2. e \in Nat /\ Step * e <= now - from /\ now - from < Step * e + Step
      BY <3>1, StepsIn
    <3>3. q = e
      BY <1>1, <2>1 DEF Quotient
    <3>4. NewLast(from, now) = from + Step * e
      <4>1. Passed(from, now) = e
        BY <1>2, <3>3 DEF Passed
      <4>2. e = 0 => from + Step * e = from
        <5> HIDE DEF e
        <5> QED
          BY <1>1
      <4> QED
        BY <4>1, <4>2 DEF NewLast
    <3> HIDE DEF e
    <3>5. Step * e \in Nat
      BY <1>1, <3>2
    <3> DEFINE x == Step * e
    <3>6. x \in Nat /\ x <= now - from /\ now - from < x + Step
      BY <3>2, <3>5
    <3>7. from + x \in Nat /\ (from + x) - now \in 1 - Step .. Step - 1
          /\ from <= from + x
      <4> HIDE DEF x
      <4> QED
        BY <1>1, <3>6
    <3> QED
      BY <3>2, <3>3, <3>4, <3>7
  <2>2. CASE ~(from <= now)
    <3>1. from - now \in Nat /\ -(now - from) = from - now /\ now - from < 0
      BY <1>1, <2>2
    <3>2. f \in Nat /\ Step * f <= from - now /\ from - now < Step * f + Step
      BY <3>1, StepsIn
    <3>3. q = -f
      BY <3>1 DEF Quotient
    <3>4. NewLast(from, now) = from + Step * (-f)
      <4>1. Passed(from, now) = -f
        BY <1>2, <3>3 DEF Passed
      <4>2. -f = 0 => from + Step * (-f) = from
        <5> HIDE DEF f
        <5> QED
          BY <1>1, <3>2
      <4> QED
        BY <4>1, <4>2 DEF NewLast
    <3> HIDE DEF f
    <3>5. Step * f \in Nat /\ Step * (-f) = -(Step * f) /\ -f \in Int
      BY <1>1, <3>2
    <3> DEFINE x == Step * f
    <3>6. x \in Nat /\ x <= from - now /\ from - now < x + Step
      BY <3>2, <3>5
    <3>7. from + (-x) \in Nat /\ (from + (-x)) - now \in 1 - Step .. Step - 1
      <4> HIDE DEF x
      <4> QED
        BY <1>1, <3>6
    <3> QED
      BY <2>2, <3>3, <3>4, <3>5, <3>7
  <2> QED
    BY <2>1, <2>2
<1> HIDE DEF q
<1>4. Aligned(from + Step * q)
  <2>1. PICK k \in Nat : from = k * Step
    BY DEF Aligned
  <2>2. k * Step + Step * q = (k + q) * Step /\ k + q \in Int
    <3>1. q \in Int /\ k \in Int /\ Step \in Int
      BY <1>1, <1>3
    <3>2. ASSUME NEW a \in Int, NEW b \in Int, NEW c \in Int
          PROVE  a * c + c * b = (a + b) * c
      OBVIOUS
    <3> QED
      BY <3>1, <3>2
  <2>3. k + q >= 0
    <3> SUFFICES ASSUME k + q <= -1 PROVE FALSE
      BY <2>2
    <3> DEFINE s == k + q
    <3>1. s \in Int /\ s <= -1 /\ s * Step \in Nat
      <4>1. (k + q) * Step = from + Step * q
        BY <2>1, <2>2
      <4> QED
        BY <1>3, <2>2, <4>1
    <3> HIDE DEF s
    <3>2. s * Step <= (-1) * Step
      BY <1>1, <3>1
    <3> QED
      BY <1>1, <3>1, <3>2
  <2> DEFINE s == k + q
  <2>4. s \in Nat
    BY <2>2, <2>3
  <2>5. from + Step * q = s * Step
    BY <2>1, <2>2
  <2> HIDE DEF s
  <2> QED
    BY <2>4, <2>5 DEF Aligned
<1> DEFINE x == from + Step * q
<1>5. Aligned(x)
  BY <1>4
<1>6. NewLast(from, now) = x
  BY <1>3
<1>7. x - now \in 1 - Step .. Step - 1 /\ (from <= now => from <= x)
  BY <1>3
<1> HIDE DEF x
<1> QED
  BY <1>5, <1>6, <1>7

LEMMA PointsAreSeconds ==
  ASSUME NEW d \in Nat, NEW t \in Times
  PROVE  Point(d, t) \in Nat /\ Point(d, t) = d * Day + t
<1>1. d * Day \in Nat /\ t \in Nat /\ d # Never
  BY Steps DEF Times
<1> QED
  BY <1>1 DEF Point

(* The file's time is a whole number of steps, and less than a step from   *)
(* the time of the last package.                                           *)
ClockInv ==
  /\ ClockTypeOK
  /\ last # Never => Aligned(last)
  /\ at # Never => last # Never /\ last - at \in 1 - Step .. Step - 1

(* What a package with a date does: it finds an aligned time of the file,  *)
(* the last one's or its own rounded, and brings it near.                  *)
LEMMA DatedPackage ==
  ASSUME ClockInv, NEW t \in Times, Package(t), date # Never
  PROVE  /\ Point(date, t) \in Nat
         /\ Aligned(Start(Point(date, t)))
         /\ last # Never => Start(Point(date, t)) = last
         /\ at' = Point(date, t)
         /\ last' = NewLast(Start(Point(date, t)), Point(date, t))
         /\ Aligned(last')
         /\ last' - Point(date, t) \in 1 - Step .. Step - 1
         /\ date' = NewDate(Start(Point(date, t)), last')
<1> DEFINE now == Point(date, t)
<1>1. now \in Nat /\ now # Never
  BY PointsAreSeconds, Steps DEF ClockInv, ClockTypeOK
<1>2. /\ at' = now /\ last' = NewLast(Start(now), now)
      /\ date' = NewDate(Start(now), last')
  BY DEF Package
<1> HIDE DEF now
<1>3. Aligned(Start(now)) /\ (last # Never => Start(now) = last)
  BY <1>1, RoundedSeconds DEF Start, ClockInv
<1> DEFINE from == Start(now)
<1>4. Aligned(from)
  BY <1>3
<1> HIDE DEF from
<1>5. /\ Aligned(NewLast(from, now))
      /\ NewLast(from, now) - now \in 1 - Step .. Step - 1
  BY <1>1, <1>4, BroughtNear
<1>6. /\ Aligned(NewLast(Start(now), now))
      /\ NewLast(Start(now), now) - now \in 1 - Step .. Step - 1
  BY <1>5 DEF from
<1> DEFINE new == NewLast(Start(now), now)
<1>7. last' = new /\ Aligned(new) /\ new - now \in 1 - Step .. Step - 1
  BY <1>2, <1>6
<1> HIDE DEF new
<1>8. Aligned(last') /\ last' - now \in 1 - Step .. Step - 1
  BY <1>7
<1> QED
  BY <1>1, <1>2, <1>3, <1>8 DEF now

(* A package without a date leaves the file's time and the date alone.     *)
LEMMA UndatedPackage ==
  ASSUME ClockInv, NEW t \in Times, Package(t), date = Never
  PROVE  last' = last /\ date' = date /\ at' = Never
<1>1. Point(date, t) = Never
  BY DEF Point
<1>2. Start(Never) = last
  BY DEF Start
<1>3. NewLast(last, Never) = last
  BY DEF NewLast, Passed
<1>4. NewDate(last, last) = date
  BY DEF NewDate
<1> QED
  BY <1>1, <1>2, <1>3, <1>4 DEF Package

LEMMA ClockInduction ==
  ASSUME ClockInv, [ClockNext]_clockVars
  PROVE  ClockInv'
<1>1. CASE UNCHANGED clockVars
  BY <1>1 DEF clockVars, ClockInv, ClockTypeOK
<1>2. ASSUME NEW d \in Days \cup {Never}, SetDate(d) PROVE ClockInv'
  BY <1>2, Steps DEF SetDate, ClockInv, ClockTypeOK
<1>3. ASSUME NEW t \in Times, Package(t) PROVE ClockInv'
  <2>1. time' \in Times /\ dir' \in Nat \cup {Never}
    BY <1>3 DEF Package, ClockInv, ClockTypeOK
  <2>2. CASE date = Never
    <3>1. last' = last /\ date' = date /\ at' = Never
      BY <1>3, <2>2, UndatedPackage
    <3> QED
      BY <2>1, <3>1 DEF ClockInv, ClockTypeOK
  <2>3. CASE date # Never
    <3> DEFINE now == Point(date, t)
               from == Start(now)
    <3>1. /\ now \in Nat /\ Aligned(from) /\ at' = now /\ Aligned(last')
          /\ last' - now \in 1 - Step .. Step - 1
          /\ date' = NewDate(from, last')
      BY <1>3, <2>3, DatedPackage
    <3> HIDE DEF now, from
    <3>2. last' \in Nat /\ last' # Never
      BY <3>1, AlignedSums, Steps
    <3>3. date' \in Nat \cup {Never}
      <4>1. DayOf(last') \in Nat
        <5>1. \A p \in Nat : p \div Day \in Nat
          BY Steps
        <5> QED
          BY <3>2, <5>1 DEF DayOf
      <4>2. NewDate(from, last') = DayOf(last') \/ NewDate(from, last') = date
        BY DEF NewDate
      <4>3. date \in Nat \cup {Never}
        BY DEF ClockInv, ClockTypeOK
      <4> QED
        BY <3>1, <4>1, <4>2, <4>3
    <3> QED
      BY <2>1, <3>1, <3>2, <3>3 DEF ClockInv, ClockTypeOK
  <2> QED
    BY <2>2, <2>3
<1> QED
  BY <1>1, <1>2, <1>3 DEF ClockNext

(* The file's name lies on the grid and near the last package.             *)
THEOREM ClockInvariant == ClockSpec => []ClockInv
<1>1. ClockInit => ClockInv
  BY Steps DEF ClockInit, ClockInv, ClockTypeOK, Times
<1> QED
  BY <1>1, ClockInduction, PTL DEF ClockSpec

(* NameIsNear: every package is recorded under a name less than a step     *)
(* from its own time, whatever dates and times came before.                *)
THEOREM NamesAreNear == ClockSpec => NameIsNear
<1> DEFINE Near == \A t \in Times : Package(t) /\ date # Never
                     => last' - Point(date, t) \in 1 - Step .. Step - 1
<1>1. ClockInv /\ [ClockNext]_clockVars => [Near]_clockVars
  BY DatedPackage
<1> QED
  BY <1>1, ClockInvariant, PTL DEF ClockSpec, NameIsNear

(* DirectoryOfTheDay: the directory chosen before the file is the one of   *)
(* the day in the file's name, but for the first file of the next day.     *)
THEOREM DirectoriesFollowTheDay == ClockSpec => DirectoryOfTheDay
<1> DEFINE OfTheDay == \A t \in Times : Package(t) /\ date # Never
                         => DayOf(last') = dir' \/ last' = Day * (dir' + 1)
<1>1. ASSUME ClockInv, NEW t \in Times, Package(t), date # Never
      PROVE  DayOf(last') = dir' \/ last' = Day * (dir' + 1)
  <2> DEFINE now == Point(date, t)
  <2>1. Aligned(last') /\ last' - now \in 1 - Step .. Step - 1
    BY <1>1, DatedPackage
  <2>2. dir' = date /\ date \in Nat /\ t \in Nat /\ t <= Day - 1
    BY <1>1, Steps DEF Package, ClockInv, ClockTypeOK, Times
  <2>3. now = date * Day + t
    BY <1>1, <2>2, PointsAreSeconds
  <2> HIDE DEF now
  <2> DEFINE begin == date * Day
             end == Day * (date + 1)
  <2>4. begin \in Nat /\ end = begin + Day
    BY <2>2, Steps
  <2>5. Aligned(begin) /\ Aligned(end)
    <3>1. date + 1 \in Nat /\ (date + 1) * Day = end
      BY <2>2, Steps
    <3> QED
      BY <2>2, <3>1, AlignedSums
  <2>6. now = begin + t /\ now \in Nat
    BY <2>2, <2>3, <2>4
  <2> HIDE DEF begin, end
  <2>7. PICK new : new = last'
    OBVIOUS
  <2>8. new \in Nat /\ Step \in Nat \ {0} /\ Day \in Nat \ {0}
    BY <2>7, <2>1, AlignedSums, Steps
  <2>9. new - now \in 1 - Step .. Step - 1
    BY <2>7, <2>1
  <2>10. begin <= new
    <3> SUFFICES ASSUME new < begin PROVE FALSE
      BY <2>4, <2>8
    <3>1. new + Step <= begin
      BY <2>7, <2>1, <2>5, AlignedApart
    <3> QED
      BY <2>2, <2>4, <2>6, <2>8, <2>9, <3>1
  <2>11. new <= end
    <3> SUFFICES ASSUME end < new PROVE FALSE
      BY <2>4, <2>8
    <3>1. end + Step <= new
      BY <2>7, <2>1, <2>5, AlignedApart
    <3> QED
      BY <2>2, <2>4, <2>6, <2>8, <2>9, <3>1
  <2>12. CASE new = end
    BY <2>7, <2>2, <2>12 DEF end
  <2>13. CASE new < end
    <3> DEFINE x == new - begin
    <3>1. x \in Nat /\ x < Day /\ new = begin + x
      BY <2>4, <2>8, <2>10, <2>13
    <3>2. new # Never
      BY <2>8, Steps
    <3> HIDE DEF x
    <3>3. new \div Day = date
      <4>1. new = date * Day + x
        BY <3>1 DEF begin
      <4>2. ASSUME NEW d \in Nat, NEW n \in Nat \ {0},
                   NEW y \in Nat, y < n
            PROVE  (d * n + y) \div n = d
        BY <4>2
      <4>3. (date * Day + x) \div Day = date
        BY <2>2, <2>8, <3>1, <4>2
      <4> QED
        BY <4>1, <4>3
    <3> QED
      BY <2>7, <2>2, <3>2, <3>3 DEF DayOf
  <2> QED
    BY <2>4, <2>8, <2>11, <2>12, <2>13
<1>2. ClockInv /\ [ClockNext]_clockVars => [OfTheDay]_clockVars
  BY <1>1
<1> QED
  BY <1>2, ClockInvariant, PTL DEF ClockSpec, DirectoryOfTheDay

(* FilesAdvance: as long as time goes on no package goes to a file that    *)
(* was left before.                                                        *)
THEOREM NoFileIsReturnedTo == ClockSpec => FilesAdvance
<1> DEFINE Advance == \A t \in Times :
                        Package(t) /\ at # Never /\ date # Never
                          /\ at <= Point(date, t)
                        => last <= last'
<1>1. ASSUME ClockInv, NEW t \in Times, Package(t),
             at # Never, date # Never, at <= Point(date, t)
      PROVE  last <= last'
  <2> DEFINE now == Point(date, t)
  <2>1. /\ now \in Nat /\ last # Never /\ Aligned(last)
        /\ last' = NewLast(last, now)
        /\ Aligned(last') /\ last' - now \in 1 - Step .. Step - 1
    BY <1>1, DatedPackage DEF ClockInv
  <2>2. last - at \in 1 - Step .. Step - 1 /\ at <= now /\ at \in Nat
    BY <1>1 DEF ClockInv, ClockTypeOK
  <2> HIDE DEF now
  <2>3. last \in Nat /\ last' \in Nat /\ Step \in Nat \ {0}
    BY <2>1, AlignedSums, Steps
  <2>4. CASE last <= now
    <3>1. last <= NewLast(last, now)
      BY <2>1, <2>4, BroughtNear
    <3> QED
      BY <2>1, <3>1
  <2>5. CASE now < last
    <3>1. NewLast(last, now) = last
      <4>1. -(now - last) \in Nat /\ now - last < 0 /\ last - now < Step
            /\ -(now - last) < Step
        BY <2>1, <2>2, <2>3, <2>5
      <4> DEFINE a == -(now - last)
      <4>2. a \div Step = 0
        <5>1. a \in Nat /\ a < Step
          BY <4>1
        <5> HIDE DEF a
        <5> QED
          BY <2>3, <5>1
      <4>3. Quotient(now - last, Step) = 0
        BY <4>1, <4>2 DEF Quotient
      <4> QED
        BY <4>3 DEF NewLast, Passed
    <3> QED
      BY <2>1, <2>3, <3>1
  <2> QED
    BY <2>1, <2>3, <2>4, <2>5
<1>2. ClockInv /\ [ClockNext]_clockVars => [Advance]_clockVars
  BY <1>1
<1> QED
  BY <1>2, ClockInvariant, PTL DEF ClockSpec, FilesAdvance

-----------------------------------------------------------------------------
(* The writer.  A list of bytes is what it should be when it holds the     *)
(* right ones in order of their numbers.                                   *)
IsList(s, S) == s \in Seq(Nat) /\ Lists(s, S)

(* New bytes have greater numbers than all before.                         *)
LEMMA ListExtended ==
  ASSUME NEW s, NEW S, IsList(s, S), NEW n \in Nat, S \subseteq 1 .. n,
         NEW k \in Nat, NEW t \in Seq(Nat), Len(t) = k,
         \A m \in 1 .. k : t[m] = n + m
  PROVE  IsList(s \o t, S \cup n + 1 .. n + k)
<1>1. s \in Seq(Nat) /\ Len(s) \in Nat
      /\ \A i, h \in 1 .. Len(s) : i < h => s[i] < s[h]
  BY LenProperties DEF IsList, Lists
<1>2. S = {s[i] : i \in 1 .. Len(s)}
  BY DEF IsList, Lists
<1> DEFINE l == Len(s)
           u == s \o t
<1>3. /\ u \in Seq(Nat) /\ Len(u) = l + k /\ l \in Nat
      /\ \A i \in 1 .. l + k : u[i] = IF i <= l THEN s[i] ELSE t[i - l]
  BY <1>1, ConcatProperties
<1>4. \A i \in 1 .. l : s[i] \in 1 .. n
  BY <1>2
<1> HIDE DEF u, l
<1>5. ASSUME NEW i \in 1 .. l PROVE u[i] = s[i]
  BY <1>3
<1>6. ASSUME NEW i \in l + 1 .. l + k PROVE u[i] = n + (i - l)
  <2>1. i \in 1 .. l + k /\ ~(i <= l) /\ i - l \in 1 .. k
    BY <1>3
  <2> QED
    BY <1>3, <2>1
<1>7. ASSUME NEW i \in 1 .. l + k, NEW h \in 1 .. l + k, i < h
      PROVE  u[i] < u[h]
  <2>1. CASE h <= l
    <3>1. i \in 1 .. l /\ h \in 1 .. l
      BY <1>3, <1>7, <2>1
    <3> QED
      BY <1>1, <1>5, <1>7, <3>1 DEF l
  <2>2. CASE i <= l /\ l < h
    <3>1. i \in 1 .. l /\ h \in l + 1 .. l + k
      BY <1>3, <2>2
    <3>2. u[i] \in 1 .. n /\ u[h] = n + (h - l)
      BY <1>4, <1>5, <1>6, <3>1
    <3> QED
      BY <1>3, <3>1, <3>2
  <2>3. CASE l < i
    <3>1. i \in l + 1 .. l + k /\ h \in l + 1 .. l + k
      BY <1>3, <1>7, <2>3
    <3>2. u[i] = n + (i - l) /\ u[h] = n + (h - l)
      BY <1>6, <3>1
    <3> QED
      BY <1>3, <1>7, <3>1, <3>2
  <2> QED
    BY <1>3, <2>1, <2>2, <2>3
<1>8. ASSUME NEW i \in 1 .. l + k PROVE u[i] \in S \cup n + 1 .. n + k
  <2>1. CASE i <= l
    <3>1. i \in 1 .. l
      BY <1>3, <2>1
    <3>2. s[i] \in S
      BY <1>2, <3>1 DEF l
    <3> QED
      BY <1>5, <3>1, <3>2
  <2>2. CASE ~(i <= l)
    <3>1. i \in l + 1 .. l + k
      BY <1>3, <2>2
    <3>2. u[i] = n + (i - l) /\ n + (i - l) \in n + 1 .. n + k
      BY <1>3, <1>6, <3>1
    <3> QED
      BY <3>2
  <2> QED
    BY <2>1, <2>2
<1>9. ASSUME NEW x \in S \cup n + 1 .. n + k
      PROVE  \E i \in 1 .. l + k : u[i] = x
  <2>1. CASE x \in S
    <3>1. PICK i \in 1 .. l : s[i] = x
      BY <1>2, <2>1 DEF l
    <3>2. i \in 1 .. l + k /\ u[i] = x
      BY <1>3, <1>5, <3>1
    <3> QED
      BY <3>2
  <2>2. CASE x \in n + 1 .. n + k
    <3> DEFINE i == l + (x - n)
    <3>1. i \in l + 1 .. l + k /\ i \in 1 .. l + k /\ n + (i - l) = x
      BY <1>3, <2>2
    <3> HIDE DEF i
    <3>2. u[i] = x
      BY <1>6, <3>1
    <3> QED
      BY <3>1, <3>2
  <2> QED
    BY <1>9, <2>1, <2>2
<1>10. {u[i] : i \in 1 .. Len(u)} = S \cup n + 1 .. n + k
  BY <1>3, <1>8, <1>9, ZenonT(60)
<1>11. Lists(u, S \cup n + 1 .. n + k)
  BY <1>3, <1>7, <1>10 DEF Lists
<1> QED
  BY <1>3, <1>11 DEF IsList, u

(* What is cut off the end of a list is not in the rest.                   *)
LEMMA ListCut ==
  ASSUME NEW s \in Seq(Nat), NEW b \in Seq(Nat), NEW S, IsList(s \o b, S),
         NEW n \in 0 .. Len(b)
  PROVE  IsList(s \o SubSeq(b, 1, n), S \ {b[m] : m \in n + 1 .. Len(b)})
<1> DEFINE l == Len(s)
           k == Len(b)
           v == s \o b
           c == SubSeq(b, 1, n)
           u == s \o c
           L == {b[m] : m \in n + 1 .. Len(b)}
<1>1. l \in Nat /\ k \in Nat /\ n \in 0 .. k
  BY LenProperties
<1>2. Len(v) = l + k
      /\ \A i \in 1 .. l + k : v[i] = IF i <= l THEN s[i] ELSE b[i - l]
  BY ConcatProperties
<1>3. /\ \A i, h \in 1 .. Len(v) : i < h => v[i] < v[h]
      /\ {v[i] : i \in 1 .. Len(v)} = S /\ v \in Seq(Nat)
  BY DEF IsList, Lists
<1>4. c \in Seq(Nat) /\ Len(c) = n /\ \A i \in 1 .. n : c[i] = b[i]
  <2>1. \A i \in 1 .. n : b[i] \in Nat
    <3>1. \A i \in 1 .. k : b[i] \in Nat
      BY ElementOfSeq
    <3> QED
      BY <1>1, <3>1
  <2> HIDE DEF k
  <2>2. /\ SubSeq(b, 1, n) \in Seq(Nat)
        /\ Len(SubSeq(b, 1, n)) = IF 1 <= n THEN n - 1 + 1 ELSE 0
        /\ \A i \in 1 .. n - 1 + 1 : SubSeq(b, 1, n)[i] = b[1 + i - 1]
    BY <1>1, <2>1, SubSeqProperties
  <2> HIDE DEF c
  <2>3. /\ c \in Seq(Nat) /\ Len(c) = IF 1 <= n THEN n - 1 + 1 ELSE 0
        /\ \A i \in 1 .. n - 1 + 1 : c[i] = b[1 + i - 1]
    BY <2>2 DEF c
  <2> QED
    BY <1>1, <2>3
<1> HIDE DEF c
<1>5. /\ u \in Seq(Nat) /\ Len(u) = l + n
      /\ \A i \in 1 .. l + n : u[i] = IF i <= l THEN s[i] ELSE c[i - l]
  BY <1>4, ConcatProperties
<1> HIDE DEF u, v, l, k
<1>6. ASSUME NEW i \in 1 .. l + n PROVE u[i] = v[i] /\ i \in 1 .. l + k
  <2>1. i \in 1 .. l + k /\ (~(i <= l) => i - l \in 1 .. n)
    BY <1>1
  <2> QED
    BY <1>2, <1>4, <1>5, <2>1
<1>7. ASSUME NEW x PROVE x \in L <=> \E i \in l + n + 1 .. l + k : v[i] = x
  <2>1. ASSUME NEW m \in n + 1 .. k
        PROVE  l + m \in l + n + 1 .. l + k /\ v[l + m] = b[m]
    <3>1. /\ l + m \in 1 .. l + k /\ ~(l + m <= l) /\ (l + m) - l = m
          /\ l + m \in l + n + 1 .. l + k
      BY <1>1
    <3> QED
      BY <1>2, <3>1
  <2>2. ASSUME NEW i \in l + n + 1 .. l + k
        PROVE  i - l \in n + 1 .. k /\ l + (i - l) = i
    BY <1>1
  <2>3. x \in L <=> \E m \in n + 1 .. k : b[m] = x
    BY DEF k
  <2> HIDE DEF L
  <2>4. ASSUME NEW m \in n + 1 .. k, b[m] = x
        PROVE  \E i \in l + n + 1 .. l + k : v[i] = x
    BY <2>1, <2>4
  <2>5. ASSUME NEW i \in l + n + 1 .. l + k, v[i] = x
        PROVE  \E m \in n + 1 .. k : b[m] = x
    <3>1. v[l + (i - l)] = b[i - l] /\ i - l \in n + 1 .. k
      BY <2>1, <2>2
    <3>2. v[i] = b[i - l]
      BY <2>2, <3>1
    <3> QED
      BY <2>5, <3>1, <3>2
  <2> QED
    BY <2>3, <2>4, <2>5
<1> HIDE DEF L
<1>8. ASSUME NEW i \in 1 .. l + n, NEW h \in 1 .. l + n, i < h
      PROVE  u[i] < u[h]
  BY <1>2, <1>3, <1>6, <1>8
<1>9. ASSUME NEW i \in 1 .. l + n PROVE u[i] \in S \ L
  <2>1. v[i] \in S /\ i \in 1 .. l + k
    BY <1>2, <1>3, <1>6
  <2>2. ASSUME NEW h \in l + n + 1 .. l + k PROVE v[i] # v[h]
    <3>1. i < h /\ h \in 1 .. l + k
      BY <1>1
    <3>2. v[i] < v[h]
      BY <1>2, <1>3, <2>1, <3>1
    <3>3. v[i] \in Nat /\ v[h] \in Nat
      BY <1>2, <1>3, <2>1, <3>1, ElementOfSeq
    <3> QED
      BY <3>2, <3>3
  <2> QED
    BY <1>6, <1>7, <2>1, <2>2
<1>10. ASSUME NEW x \in S \ L PROVE \E i \in 1 .. l + n : u[i] = x
  <2>1. PICK i \in 1 .. l + k : v[i] = x
    BY <1>2, <1>3
  <2>2. i \notin l + n + 1 .. l + k
    BY <1>7, <2>1
  <2>3. i \in 1 .. l + n
    BY <1>1, <2>2
  <2> QED
    BY <1>6, <2>1, <2>3
<1>11. {u[i] : i \in 1 .. Len(u)} = S \ L
  BY <1>5, <1>9, <1>10
<1>12. Lists(u, S \ L)
  BY <1>5, <1>8, <1>11 DEF Lists
<1> QED
  BY <1>5, <1>12 DEF IsList, u, c, L

(* Every file holds its bytes, b included if it goes to pth.               *)
Waiting(p, pth, b) == IF p = pth THEN b ELSE <<>>
OwnedBy(p, own, fail) == {m \in 1 .. Len(own) : own[m] = p /\ m \notin fail}
FilesHold(own, fail, st, pth, b) ==
  \A p \in Paths : IsList(st[p] \o Waiting(p, pth, b), OwnedBy(p, own, fail))

WriterInv ==
  /\ there \subseteq Dirs /\ mDir \in Dirs
  /\ path \in Paths \cup {NoPath} /\ isOpen \in BOOLEAN
  /\ isOpen => path \in Paths
  /\ ~isOpen => buffer = <<>>
  /\ buffer \in Seq(Nat) /\ Len(buffer) < BufferSize
  /\ stored \in [Paths -> Seq(Nat)]
  /\ owner \in Seq(Paths) /\ failed \subseteq 1 .. Len(owner)
  /\ FilesHold(owner, failed, stored, path, buffer)

(* The first n bytes of b reach the file and the rest are lost.            *)
Reached(st, pth, b, n) == [st EXCEPT ![pth] = @ \o SubSeq(b, 1, n)]
LostOf(b, n) == {b[m] : m \in n + 1 .. Len(b)}

(* k bytes are accepted.                                                   *)
OwnersAfter(own, k, pth) == own \o [m \in 1 .. k |-> pth]
BufferAfter(own, k, b) == b \o [m \in 1 .. k |-> Len(own) + m]

LEMMA HoldAfterFlush ==
  ASSUME NEW own, NEW fail, NEW st \in [Paths -> Seq(Nat)],
         NEW pth \in Paths, NEW b \in Seq(Nat), NEW pth2,
         fail \subseteq 1 .. Len(own),
         FilesHold(own, fail, st, pth, b), NEW n \in 0 .. Len(b),
         NEW st2, st2 = Reached(st, pth, b, n),
         NEW fail2, fail2 = fail \cup LostOf(b, n)
  PROVE  /\ st2 \in [Paths -> Seq(Nat)] /\ fail2 \subseteq 1 .. Len(own)
         /\ FilesHold(own, fail2, st2, pth2, <<>>)
<1> DEFINE L == {b[m] : m \in n + 1 .. Len(b)}
           c == SubSeq(b, 1, n)
<1>1. IsList(st[pth] \o b, OwnedBy(pth, own, fail))
  BY DEF FilesHold, Waiting
<1>2. st[pth] \in Seq(Nat)
  OBVIOUS
<1>3. IsList(st[pth] \o c, OwnedBy(pth, own, fail) \ L)
  BY <1>1, <1>2, ListCut
<1>4. L \subseteq OwnedBy(pth, own, fail)
  <2>1. /\ Len(st[pth] \o b) = Len(st[pth]) + Len(b)
        /\ Len(st[pth]) \in Nat /\ Len(b) \in Nat
        /\ \A i \in 1 .. Len(st[pth]) + Len(b) :
             (st[pth] \o b)[i] =
               IF i <= Len(st[pth]) THEN st[pth][i] ELSE b[i - Len(st[pth])]
    BY <1>2, ConcatProperties, LenProperties
  <2>2. {(st[pth] \o b)[i] : i \in 1 .. Len(st[pth] \o b)}
          = OwnedBy(pth, own, fail)
    BY <1>1 DEF IsList, Lists
  <2> DEFINE u == st[pth] \o b
             l == Len(st[pth])
  <2>3. /\ Len(u) = l + Len(b) /\ l \in Nat /\ Len(b) \in Nat
        /\ \A i \in 1 .. l + Len(b) :
             u[i] = IF i <= l THEN st[pth][i] ELSE b[i - l]
        /\ {u[i] : i \in 1 .. Len(u)} = OwnedBy(pth, own, fail)
    BY <2>1, <2>2
  <2> HIDE DEF u, l
  <2>4. ASSUME NEW m \in n + 1 .. Len(b)
        PROVE  b[m] \in OwnedBy(pth, own, fail)
    <3>1. l + m \in 1 .. l + Len(b) /\ ~(l + m <= l) /\ (l + m) - l = m
      BY <2>3
    <3>2. u[l + m] = b[m]
      BY <2>3, <3>1
    <3> QED
      BY <2>3, <3>1, <3>2
  <2> QED
    BY <2>4
<1>5. c \in Seq(Nat)
  <2>1. \A i \in 1 .. n : b[i] \in Nat
    BY ElementOfSeq, LenProperties
  <2>2. n \in Int /\ 1 \in Int
    BY LenProperties
  <2> QED
    BY <2>1, <2>2, SubSeqProperties
<1>6. st[pth] \o c \in Seq(Nat)
  BY <1>2, <1>5, ConcatProperties
<1> HIDE DEF L, c
<1>7. st2 = [st EXCEPT ![pth] = st[pth] \o c] /\ fail2 = fail \cup L
  BY DEF c, L, Reached, LostOf
<1>8. st2 \in [Paths -> Seq(Nat)]
  BY <1>6, <1>7
<1>9. fail2 \subseteq 1 .. Len(own)
  BY <1>4, <1>7 DEF OwnedBy
<1>10. ASSUME NEW p \in Paths
       PROVE  IsList(st2[p] \o Waiting(p, pth2, <<>>), OwnedBy(p, own, fail2))
  <2>1. Waiting(p, pth2, <<>>) = <<>>
    BY DEF Waiting
  <2>2. st2[p] \o <<>> = st2[p]
    BY <1>8, ConcatEmptySeq
  <2>3. CASE p = pth
    <3>1. OwnedBy(p, own, fail2) = OwnedBy(pth, own, fail) \ L
      BY <1>7, <2>3 DEF OwnedBy
    <3>2. st2[p] = st[pth] \o c
      BY <1>7, <2>3
    <3> QED
      BY <1>3, <2>1, <2>2, <3>1, <3>2
  <2>4. CASE p # pth
    <3>1. OwnedBy(p, own, fail2) = OwnedBy(p, own, fail)
      BY <1>4, <1>7, <2>4 DEF OwnedBy
    <3>2. st2[p] = st[p]
      BY <1>7, <2>4
    <3>3. IsList(st[p] \o Waiting(p, pth, b), OwnedBy(p, own, fail))
      BY DEF FilesHold
    <3>4. Waiting(p, pth, b) = <<>>
      BY <2>4 DEF Waiting
    <3>5. st[p] \o <<>> = st[p]
      BY ConcatEmptySeq
    <3> QED
      BY <2>1, <2>2, <3>1, <3>2, <3>3, <3>4, <3>5
  <2> QED
    BY <2>3, <2>4
<1>11. FilesHold(own, fail2, st2, pth2, <<>>)
  BY <1>10 DEF FilesHold
<1> QED
  BY <1>8, <1>9, <1>11

LEMMA Regrouped ==
  \A x, y, z \in Seq(Nat) : (x \o y) \o z = x \o (y \o z)
BY ConcatAssociative, SMTT(30)

(* The buffer accepts bytes for the open file.                             *)
OpenFilesHold(own, fail, st, pth, b) ==
  /\ own \in Seq(Paths) /\ fail \subseteq 1 .. Len(own)
  /\ st \in [Paths -> Seq(Nat)] /\ pth \in Paths /\ b \in Seq(Nat)
  /\ FilesHold(own, fail, st, pth, b)

LEMMA HoldAfterAppend ==
  ASSUME NEW own, NEW fail, NEW st, NEW pth, NEW b,
         OpenFilesHold(own, fail, st, pth, b), NEW k \in Nat
  PROVE  OpenFilesHold(OwnersAfter(own, k, pth), fail, st, pth,
                       BufferAfter(own, k, b))
<1> DEFINE own2 == OwnersAfter(own, k, pth)
           b2 == BufferAfter(own, k, b)
<1>0. /\ own \in Seq(Paths) /\ fail \subseteq 1 .. Len(own)
      /\ st \in [Paths -> Seq(Nat)] /\ pth \in Paths /\ b \in Seq(Nat)
      /\ FilesHold(own, fail, st, pth, b)
  BY DEF OpenFilesHold
<1> DEFINE f == [m \in 1 .. k |-> pth]
           n == Len(own)
           t == [m \in 1 .. k |-> n + m]
<1>1. n \in Nat
  BY <1>0, LenProperties
<1>2. f \in Seq(Paths) /\ Len(f) = k /\ \A m \in 1 .. k : f[m] = pth
  BY <1>0
<1>3. t \in Seq(Nat) /\ Len(t) = k /\ \A m \in 1 .. k : t[m] = n + m
  <2> HIDE DEF n
  <2> QED
    BY <1>1
<1>4. own2 = own \o f /\ b2 = b \o t
  BY DEF OwnersAfter, BufferAfter
<1> HIDE DEF f, t, own2, b2
<1>5. /\ own2 \in Seq(Paths) /\ Len(own2) = n + k
      /\ \A i \in 1 .. n + k : own2[i] = IF i <= n THEN own[i] ELSE f[i - n]
  <2>1. /\ own \o f \in Seq(Paths) /\ Len(own \o f) = n + k
        /\ \A i \in 1 .. n + k :
             (own \o f)[i] = IF i <= n THEN own[i] ELSE f[i - n]
    BY <1>0, <1>2, ConcatProperties
  <2> QED
    BY <1>4, <2>1
<1>6. b2 \in Seq(Nat)
  BY <1>0, <1>3, <1>4, ConcatProperties
<1>7. fail \subseteq 1 .. n
  BY <1>0
<1>8. \A p : OwnedBy(p, own, fail) = {m \in 1 .. n : own[m] = p /\ m \notin fail}
  BY DEF OwnedBy
<1> HIDE DEF n
<1>9. ASSUME NEW p
      PROVE  OwnedBy(p, own2, fail) =
               OwnedBy(p, own, fail) \cup
                 IF p = pth THEN n + 1 .. n + k ELSE {}
  <2>1. ASSUME NEW m \in 1 .. n
        PROVE  m \in 1 .. n + k /\ own2[m] = own[m] /\ m \notin n + 1 .. n + k
    <3>1. m \in 1 .. n + k /\ m <= n
      BY <1>1
    <3> QED
      BY <1>1, <1>5, <3>1
  <2>2. ASSUME NEW m \in n + 1 .. n + k
        PROVE  m \in 1 .. n + k /\ own2[m] = pth /\ m \notin fail
               /\ m \notin 1 .. n
    <3>1. m \in 1 .. n + k /\ ~(m <= n) /\ m - n \in 1 .. k
      BY <1>1
    <3>2. own2[m] = f[m - n]
      BY <1>5, <3>1
    <3>3. f[m - n] = pth
      BY <1>2, <3>1
    <3>4. m \notin 1 .. n
      BY <1>1
    <3> QED
      BY <1>7, <3>1, <3>2, <3>3, <3>4
  <2>3. ASSUME NEW m \in 1 .. n + k PROVE m \in 1 .. n \/ m \in n + 1 .. n + k
    BY <1>1
  <2>4. OwnedBy(p, own2, fail)
          = {m \in 1 .. n + k : own2[m] = p /\ m \notin fail}
    BY <1>5 DEF OwnedBy
  <2>5. ASSUME NEW m
        PROVE  m \in OwnedBy(p, own2, fail) <=>
                 \/ m \in 1 .. n /\ own[m] = p /\ m \notin fail
                 \/ m \in n + 1 .. n + k /\ p = pth
    BY <2>1, <2>2, <2>3, <2>4
  <2> QED
    BY <1>8, <2>5
<1>10. ASSUME NEW p \in Paths
       PROVE  IsList(st[p] \o Waiting(p, pth, b2), OwnedBy(p, own2, fail))
  <2>1. IsList(st[p] \o Waiting(p, pth, b), OwnedBy(p, own, fail))
    BY <1>0 DEF FilesHold
  <2>2. CASE p = pth
    <3>1. IsList(st[p] \o b, OwnedBy(p, own, fail))
      BY <2>1, <2>2 DEF Waiting
    <3>2. OwnedBy(p, own, fail) \subseteq 1 .. n
      BY <1>8
    <3>3. IsList((st[p] \o b) \o t, OwnedBy(p, own, fail) \cup n + 1 .. n + k)
      <4> DEFINE s == st[p] \o b
                 S == OwnedBy(p, own, fail)
      <4>1. IsList(s, S) /\ S \subseteq 1 .. n
        BY <3>1, <3>2
      <4> HIDE DEF s, S
      <4>2. IsList(s \o t, S \cup n + 1 .. n + k)
        BY <1>1, <1>3, <4>1, ListExtended
      <4> QED
        BY <4>2 DEF s, S
    <3>4. (st[p] \o b) \o t = st[p] \o b2
      <4> DEFINE s == st[p]
      <4>1. s \in Seq(Nat)
        BY <1>0
      <4> HIDE DEF s
      <4>2. (s \o b) \o t = s \o (b \o t)
        <5>1. t \in Seq(Nat) /\ b \in Seq(Nat)
          BY <1>0, <1>3
        <5> QED
          BY <4>1, <5>1, Regrouped, Zenon
      <4> QED
        BY <1>4, <4>2 DEF s
    <3>5. Waiting(p, pth, b2) = b2
      BY <2>2 DEF Waiting
    <3>6. OwnedBy(p, own2, fail) = OwnedBy(p, own, fail) \cup n + 1 .. n + k
      BY <1>9, <2>2
    <3> QED
      BY <3>3, <3>4, <3>5, <3>6
  <2>3. CASE p # pth
    <3>1. OwnedBy(p, own2, fail) = OwnedBy(p, own, fail)
      BY <1>9, <2>3
    <3>2. Waiting(p, pth, b2) = <<>> /\ Waiting(p, pth, b) = <<>>
      BY <2>3 DEF Waiting
    <3> QED
      BY <2>1, <3>1, <3>2
  <2> QED
    BY <2>2, <2>3
<1>11. FilesHold(own2, fail, st, pth, b2)
  BY <1>10 DEF FilesHold
<1>12. fail \subseteq 1 .. Len(own2)
  BY <1>1, <1>5, <1>7
<1>13. OpenFilesHold(own2, fail, st, pth, b2)
  BY <1>0, <1>5, <1>6, <1>11, <1>12 DEF OpenFilesHold
<1> QED
  BY <1>13 DEF own2, b2

LEMMA WriterConstants ==
  /\ BufferSize \in Nat \ {0} /\ Lengths \subseteq Nat \ {0}
  /\ Cwd \in Dirs /\ NoPath \notin Paths
BY WriterAssumption DEF Paths

(* Nothing waits, whichever file is open.                                  *)
LEMMA NothingWaits ==
  ASSUME NEW own, NEW fail, NEW st, NEW pth, NEW pth2,
         FilesHold(own, fail, st, pth, <<>>)
  PROVE  FilesHold(own, fail, st, pth2, <<>>)
<1>1. \A p, q : Waiting(p, q, <<>>) = <<>>
  BY DEF Waiting
<1> QED
  BY <1>1 DEF FilesHold

LEMMA HoldsFlushed ==
  ASSUME NEW own, NEW b \in Seq(Nat), path \in Paths,
         stored \in [Paths -> Seq(Nat)], failed \subseteq 1 .. Len(own),
         FilesHold(own, failed, stored, path, b), Flush(b), NEW pth2
  PROVE  /\ buffer' = <<>> /\ stored' \in [Paths -> Seq(Nat)]
         /\ failed' \subseteq 1 .. Len(own)
         /\ FilesHold(own, failed', stored', pth2, <<>>)
<1>1. PICK n \in 0 .. Len(b) :
        /\ stored' = Reached(stored, path, b, n)
        /\ failed' = failed \cup LostOf(b, n)
  BY DEF Flush, Reached, LostOf
<1>2. PICK st2, fail2 : st2 = stored' /\ fail2 = failed'
  OBVIOUS
<1>3. /\ st2 = Reached(stored, path, b, n)
      /\ fail2 = failed \cup LostOf(b, n)
  BY <1>1, <1>2
<1>4. /\ st2 \in [Paths -> Seq(Nat)] /\ fail2 \subseteq 1 .. Len(own)
      /\ FilesHold(own, fail2, st2, pth2, <<>>)
  BY <1>3, HoldAfterFlush, ZenonT(60)
<1> QED
  BY <1>2, <1>4 DEF Flush

(* What FlushIfOpen leaves holds for any next file.                        *)
LEMMA HoldsFlushedIfOpen ==
  ASSUME WriterInv, FlushIfOpen, NEW pth2
  PROVE  /\ buffer' = <<>> /\ stored' \in [Paths -> Seq(Nat)]
         /\ failed' \subseteq 1 .. Len(owner)
         /\ FilesHold(owner, failed', stored', pth2, <<>>)
<1>1. CASE isOpen
  BY <1>1, HoldsFlushed DEF WriterInv, FlushIfOpen
<1>2. CASE ~isOpen
  <2>1. UNCHANGED <<buffer, stored, failed>> /\ buffer = <<>>
    BY <1>2 DEF WriterInv, FlushIfOpen
  <2>2. FilesHold(owner, failed, stored, path, <<>>)
    BY <2>1 DEF WriterInv
  <2>3. FilesHold(owner, failed, stored, pth2, <<>>)
    BY <2>2, NothingWaits
  <2> QED
    BY <2>1, <2>3 DEF WriterInv
<1> QED
  BY <1>1, <1>2

LEMMA EmptyBuffer == <<>> \in Seq(Nat) /\ Len(<<>>) = 0
BY EmptySeq

(* The invariant after a step that leaves the buffer empty.                *)
LEMMA InvWhenEmpty ==
  ASSUME WriterInv, buffer' = <<>>, owner' = owner,
         stored' \in [Paths -> Seq(Nat)], failed' \subseteq 1 .. Len(owner),
         FilesHold(owner, failed', stored', path', <<>>),
         there' \subseteq Dirs, mDir' \in Dirs, isOpen' \in BOOLEAN,
         path' \in Paths \cup {NoPath}, isOpen' => path' \in Paths
  PROVE  WriterInv'
<1>1. buffer' \in Seq(Nat) /\ Len(buffer') < BufferSize
  <2>1. Len(buffer') = 0 /\ buffer' \in Seq(Nat)
    BY EmptyBuffer
  <2> QED
    BY <2>1, WriterConstants
<1>2. owner' \in Seq(Paths) /\ failed' \subseteq 1 .. Len(owner')
  BY DEF WriterInv
<1>3. FilesHold(owner', failed', stored', path', buffer')
  OBVIOUS
<1> QED
  BY <1>1, <1>2, <1>3 DEF WriterInv

LEMMA WriteKeepsInv ==
  ASSUME WriterInv, NEW length \in Lengths, Write(length)
  PROVE  WriterInv'
<1> DEFINE k == Lesser(length, BufferSize - Len(buffer))
           own == owner \o [m \in 1 .. k |-> path]
           b == buffer \o [m \in 1 .. k |-> Len(owner) + m]
<1>1. /\ isOpen /\ path \in Paths /\ buffer \in Seq(Nat)
      /\ stored \in [Paths -> Seq(Nat)] /\ owner \in Seq(Paths)
      /\ failed \subseteq 1 .. Len(owner)
      /\ FilesHold(owner, failed, stored, path, buffer)
  BY DEF WriterInv, Write
<1>2. k \in Nat
  <2>1. Len(buffer) \in Nat /\ Len(buffer) < BufferSize
    BY LenProperties DEF WriterInv
  <2> QED
    BY <2>1, WriterConstants DEF Lesser
<1>3. /\ owner' = own /\ UNCHANGED <<mDir, there, path, isOpen>>
      /\ \/ Flush(b)
         \/ Len(b) < BufferSize /\ buffer' = b /\ UNCHANGED <<stored, failed>>
  BY DEF Write
<1> HIDE DEF k
<1>4. PICK own2, b2 : own2 = own /\ b2 = b
  OBVIOUS
<1>5. own2 = OwnersAfter(owner, k, path) /\ b2 = BufferAfter(owner, k, buffer)
  BY <1>4 DEF OwnersAfter, BufferAfter
<1>6. /\ own2 \in Seq(Paths) /\ b2 \in Seq(Nat)
      /\ failed \subseteq 1 .. Len(own2)
      /\ FilesHold(own2, failed, stored, path, b2)
  <2>1. OpenFilesHold(owner, failed, stored, path, buffer)
    BY <1>1 DEF OpenFilesHold
  <2>2. OpenFilesHold(own2, failed, stored, path, b2)
    BY <1>2, <1>5, <2>1, HoldAfterAppend
  <2> QED
    BY <2>2 DEF OpenFilesHold
<1>7. /\ owner' = own2 /\ UNCHANGED <<mDir, there, path, isOpen>>
      /\ \/ Flush(b2)
         \/ /\ Len(b2) < BufferSize /\ buffer' = b2
            /\ UNCHANGED <<stored, failed>>
  BY <1>3, <1>4
<1> HIDE DEF own, b
<1>8. /\ there' \subseteq Dirs /\ mDir' \in Dirs
      /\ path' = path /\ path \in Paths /\ isOpen' = TRUE
      /\ owner' \in Seq(Paths)
  BY <1>1, <1>6, <1>7 DEF WriterInv
<1>9. CASE Flush(b2)
  <2>1. /\ buffer' = <<>> /\ stored' \in [Paths -> Seq(Nat)]
        /\ failed' \subseteq 1 .. Len(own2)
        /\ FilesHold(own2, failed', stored', path, <<>>)
    BY <1>1, <1>6, <1>9, HoldsFlushed
  <2>2. buffer' \in Seq(Nat) /\ Len(buffer') < BufferSize
    <3>1. Len(buffer') = 0 /\ buffer' \in Seq(Nat)
      BY <2>1, EmptyBuffer
    <3> QED
      BY <3>1, WriterConstants
  <2>3. FilesHold(owner', failed', stored', path', buffer')
    BY <1>7, <1>8, <2>1
  <2>4. failed' \subseteq 1 .. Len(owner')
    BY <1>7, <2>1
  <2> QED
    BY <1>8, <2>1, <2>2, <2>3, <2>4 DEF WriterInv
<1>10. CASE Len(b2) < BufferSize /\ buffer' = b2 /\ UNCHANGED <<stored, failed>>
  <2>1. FilesHold(owner', failed', stored', path', buffer')
    BY <1>6, <1>7, <1>8, <1>10
  <2>2. failed' \subseteq 1 .. Len(owner') /\ stored' \in [Paths -> Seq(Nat)]
        /\ buffer' \in Seq(Nat) /\ Len(buffer') < BufferSize
    BY <1>1, <1>6, <1>7, <1>10
  <2> QED
    BY <1>8, <2>1, <2>2 DEF WriterInv
<1> QED
  BY <1>7, <1>9, <1>10

LEMMA WriterInduction ==
  ASSUME WriterInv, [WriterNext]_writerVars
  PROVE  WriterInv'
<1>0. there \subseteq Dirs /\ mDir \in Dirs /\ Cwd \in Dirs
  BY WriterConstants DEF WriterInv
<1>1. CASE UNCHANGED writerVars
  BY <1>1 DEF writerVars, WriterInv
<1>2. ASSUME NEW d \in Dirs, SetDir(d) PROVE WriterInv'
  <2>1. there' \subseteq Dirs /\ mDir' \in Dirs
    BY <1>0, <1>2 DEF SetDir
  <2>2. UNCHANGED <<path, isOpen, buffer, stored, owner, failed>>
    BY <1>2 DEF SetDir
  <2> QED
    BY <2>1, <2>2 DEF WriterInv
<1>3. ASSUME NEW name \in Names, SetFile(name) PROVE WriterInv'
  <2>1. UNCHANGED <<mDir, there, owner>> /\ FlushIfOpen
    BY <1>3 DEF SetFile
  <2>2. /\ buffer' = <<>> /\ stored' \in [Paths -> Seq(Nat)]
        /\ failed' \subseteq 1 .. Len(owner)
        /\ FilesHold(owner, failed', stored', path', <<>>)
    BY <2>1, HoldsFlushedIfOpen
  <2>3. /\ isOpen' \in BOOLEAN /\ path' \in Paths \cup {NoPath}
        /\ isOpen' => path' \in Paths
    <3> DEFINE full == IF mDir \in there THEN <<mDir, name>> ELSE NoPath
    <3>1. path' = full /\ isOpen' \in IF full = NoPath THEN {FALSE} ELSE BOOLEAN
      BY <1>3 DEF SetFile
    <3>2. full \in Paths \cup {NoPath}
      BY <1>0 DEF Paths
    <3> HIDE DEF full
    <3> QED
      BY <3>1, <3>2
  <2> QED
    BY <1>0, <2>1, <2>2, <2>3, InvWhenEmpty
<1>4. ASSUME NEW length \in Lengths, Write(length) PROVE WriterInv'
  BY <1>4, WriteKeepsInv
<1>5. CASE Reopen
  <2>1. /\ FlushIfOpen /\ mDir' = Cwd /\ path' = NoPath /\ isOpen' = FALSE
        /\ UNCHANGED <<there, owner>>
    BY <1>5 DEF Reopen
  <2>2. /\ buffer' = <<>> /\ stored' \in [Paths -> Seq(Nat)]
        /\ failed' \subseteq 1 .. Len(owner)
        /\ FilesHold(owner, failed', stored', path', <<>>)
    BY <2>1, HoldsFlushedIfOpen
  <2> QED
    BY <1>0, <2>1, <2>2, InvWhenEmpty
<1>6. CASE CrashWriter
  <2>1. /\ failed' = failed \cup {buffer[m] : m \in 1 .. Len(buffer)}
        /\ mDir' = Cwd /\ path' = NoPath /\ isOpen' = FALSE /\ buffer' = <<>>
        /\ UNCHANGED <<there, stored, owner>>
    BY <1>6 DEF CrashWriter
  <2>2. failed' \subseteq 1 .. Len(owner)
        /\ FilesHold(owner, failed', stored, NoPath, <<>>)
    <3>1. CASE isOpen
      <4>1. /\ path \in Paths /\ buffer \in Seq(Nat)
            /\ stored \in [Paths -> Seq(Nat)]
            /\ failed \subseteq 1 .. Len(owner)
            /\ FilesHold(owner, failed, stored, path, buffer)
        BY <3>1 DEF WriterInv
      <4>2. 0 \in 0 .. Len(buffer)
        BY <4>1, LenProperties
      <4>3. stored = Reached(stored, path, buffer, 0)
        <5>1. SubSeq(buffer, 1, 0) = <<>>
          BY SubSeqEmpty
        <5>2. stored[path] \o <<>> = stored[path]
          BY <4>1, ConcatEmptySeq
        <5> QED
          BY <4>1, <5>1, <5>2 DEF Reached
      <4>4. PICK fail2 : fail2 = failed'
        OBVIOUS
      <4>5. fail2 = failed \cup LostOf(buffer, 0)
        BY <2>1, <4>4 DEF LostOf
      <4>6. /\ fail2 \subseteq 1 .. Len(owner)
            /\ FilesHold(owner, fail2, stored, NoPath, <<>>)
        BY <4>1, <4>2, <4>3, <4>5, HoldAfterFlush
      <4> QED
        BY <4>4, <4>6
    <3>2. CASE ~isOpen
      <4>1. buffer = <<>> /\ failed' = failed
        <5>1. buffer = <<>>
          BY <3>2 DEF WriterInv
        <5>2. {buffer[m] : m \in 1 .. Len(buffer)} = {}
          BY <5>1, EmptyBuffer
        <5> QED
          BY <2>1, <5>1, <5>2
      <4>2. FilesHold(owner, failed, stored, path, <<>>)
        BY <4>1 DEF WriterInv
      <4>3. FilesHold(owner, failed, stored, NoPath, <<>>)
        BY <4>2, NothingWaits
      <4> QED
        BY <4>1, <4>3 DEF WriterInv
    <3> QED
      BY <3>1, <3>2
  <2>3. stored' \in [Paths -> Seq(Nat)]
    BY <2>1 DEF WriterInv
  <2> QED
    BY <1>0, <2>1, <2>2, <2>3, InvWhenEmpty
<1> QED
  BY <1>1, <1>2, <1>3, <1>4, <1>5, <1>6 DEF WriterNext

LEMMA WriterInitially == WriterInit => WriterInv
<1> SUFFICES ASSUME WriterInit PROVE WriterInv
  OBVIOUS
<1>1. /\ there \subseteq Dirs /\ mDir \in Dirs /\ path = NoPath
      /\ isOpen = FALSE /\ buffer = <<>> /\ owner = <<>> /\ failed = {}
      /\ stored = [p \in Paths |-> <<>>]
  BY WriterConstants DEF WriterInit
<1>2. /\ <<>> \in Seq(Nat) /\ Len(<<>>) = 0 /\ <<>> \in Seq(Paths)
  BY EmptySeq
<1>3. stored \in [Paths -> Seq(Nat)]
  BY <1>1, <1>2
<1>4. \A p : OwnedBy(p, <<>>, {}) = {}
  BY <1>2 DEF OwnedBy
<1>5. IsList(<<>>, {})
  <2>1. {<<>>[i] : i \in 1 .. Len(<<>>)} = {}
    BY <1>2
  <2> QED
    BY <1>2, <2>1 DEF IsList, Lists
<1>6. \A p \in Paths : stored[p] \o Waiting(p, path, buffer) = <<>>
  <2>1. <<>> \o <<>> = <<>>
    BY <1>2, ConcatEmptySeq
  <2> QED
    BY <1>1, <2>1 DEF Waiting
<1>7. FilesHold(owner, failed, stored, path, buffer)
  BY <1>1, <1>4, <1>5, <1>6 DEF FilesHold
<1>8. buffer \in Seq(Nat) /\ Len(buffer) < BufferSize
      /\ owner \in Seq(Paths) /\ failed \subseteq 1 .. Len(owner)
  BY <1>1, <1>2, WriterConstants
<1> QED
  BY <1>1, <1>3, <1>7, <1>8 DEF WriterInv

(* The writer's state is well formed and every file, with the buffer if it *)
(* is open, holds what it accepted and has not lost.                       *)
THEOREM WriterInvariant == WriterSpec => []WriterInv
BY WriterInitially, WriterInduction, PTL DEF WriterSpec

(* BytesReachTheirFile: no byte goes to another file than the one that was *)
(* open when it was written, none twice and none out of order.             *)
THEOREM BytesStayInTheirFile == WriterSpec => []BytesReachTheirFile
<1>1. WriterInv => BytesReachTheirFile
  <2> SUFFICES ASSUME WriterInv, NEW p \in Paths
               PROVE  Lists(Held(p), BytesOf(p))
    BY DEF BytesReachTheirFile
  <2>1. IsList(stored[p] \o Waiting(p, path, buffer), OwnedBy(p, owner, failed))
    BY DEF WriterInv, FilesHold
  <2>2. BytesOf(p) = OwnedBy(p, owner, failed)
    BY DEF BytesOf, OwnedBy
  <2>3. Waiting(p, path, buffer) = IF isOpen /\ path = p THEN buffer ELSE <<>>
    BY DEF Waiting, WriterInv
  <2> QED
    BY <2>1, <2>2, <2>3 DEF Held, IsList
<1> QED
  BY <1>1, WriterInvariant, PTL
=============================================================================
