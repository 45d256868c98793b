-------------------------- MODULE SignalDetectProofs --------------------------
(***************************************************************************)
(* SignalDetect for every number of sub-channels, every energy, threshold  *)
(* and neighbour range.  The inductive invariant joins the properties to   *)
(* one more fact: what a flag owes, DebtInv.                               *)
(***************************************************************************)
EXTENDS SignalDetect, QuickSelect, FiniteSetTheorems, TLAPS

LEMMA HighIsInt ==
  ASSUME NEW e \in Nat, NEW n \in Nat
  PROVE  SnrHigh(e, n) \in Int
  BY DetectAssumption DEF SnrHigh

(* Standing out is worth at least one point.                               *)
LEMMA LevelIsPositive ==
  ASSUME NEW excess \in Int, excess > 0
  PROVE  LevelSnr(excess) \in Nat /\ LevelSnr(excess) >= 1
  BY DEF LevelSnr

LEMMA LeastFacts ==
  ASSUME NEW a \in Int, NEW b \in Int
  PROVE  /\ Least(a, b) \in Int
         /\ Least(a, b) <= a /\ Least(a, b) <= b
         /\ Least(a, b) = a \/ Least(a, b) = b
  BY DEF Least

LEMMA NeighborsAreMutual ==
  ASSUME NEW s \in Sub, NEW t \in Neighbors(s)
  PROVE  t \in Sub /\ s \in Neighbors(t) /\ s # t
  BY DetectAssumption DEF Neighbors, Sub

(* The three outcomes of the loop's update of subch_flag[s].               *)
LEMMA FlagCases ==
  ASSUME TypeOK, NEW s \in Sub
  PROVE  /\ NewFlag(s) \in Int /\ NewFlag(s) <= HaveSigMax
         /\ Quiet(s) => NewFlag(s) <= 0 /\ (NewFlag(s) = 0 \/ NewFlag(s) = flag[s] - 1)
         /\ ~Quiet(s) => NewFlag(s) >= flag[s]
         /\ ~Quiet(s) /\ ~StandsOut(s) => NewFlag(s) = flag[s]
         /\ StandsOut(s) => ~Quiet(s) /\ (\/ NewFlag(s) >= flag[s] + 1
                                          \/ NewFlag(s) = HaveSigMax)
<1>1. /\ flag[s] \in Int /\ flag[s] <= HaveSigMax /\ energy[s] \in Nat /\ noise \in Nat
      /\ HaveSigMax \in Nat
  BY DetectAssumption DEF TypeOK
<1> DEFINE excess == SnrHigh(energy[s], noise)
<1>2. excess \in Int
  BY <1>1, HighIsInt
<1>3. StandsOut(s) => ~Quiet(s)
  BY <1>2 DEF StandsOut, Quiet
<1>4. CASE Quiet(s)
  <2>1. NewFlag(s) = Least(flag[s] - 1, 0)
    BY <1>4 DEF NewFlag
  <2>2. Least(flag[s] - 1, 0) \in Int /\ Least(flag[s] - 1, 0) <= 0
        /\ (Least(flag[s] - 1, 0) = 0 \/ Least(flag[s] - 1, 0) = flag[s] - 1)
    BY <1>1 DEF Least
  <2> QED
    BY <1>1, <1>3, <1>4, <2>1, <2>2
<1>5. CASE ~Quiet(s) /\ StandsOut(s)
  <2> DEFINE l == LevelSnr(excess)
  <2>1. l \in Nat /\ l >= 1
    BY <1>2, <1>5, LevelIsPositive DEF Quiet
  <2>2. NewFlag(s) = Least(flag[s] + l, HaveSigMax)
    BY <1>5 DEF NewFlag
  <2> HIDE DEF l
  <2>3. /\ Least(flag[s] + l, HaveSigMax) \in Int
        /\ Least(flag[s] + l, HaveSigMax) <= HaveSigMax
        /\ Least(flag[s] + l, HaveSigMax) >= flag[s]
        /\ \/ Least(flag[s] + l, HaveSigMax) >= flag[s] + 1
           \/ Least(flag[s] + l, HaveSigMax) = HaveSigMax
    BY <1>1, <2>1 DEF Least
  <2> QED
    BY <1>5, <2>2, <2>3
<1>6. CASE ~Quiet(s) /\ ~StandsOut(s)
  BY <1>1, <1>6 DEF NewFlag
<1> QED
  BY <1>4, <1>5, <1>6

-----------------------------------------------------------------------------
(* Windows in which sub-channel s has been judged.                         *)
Judged(s) == IF s < i THEN windows ELSE windows - 1

(* Every window takes at most one point and every one in which s stands out*)
(* gives at least one.                                                     *)
DebtInv ==
  \A s \in Sub : \/ flag[s] = HaveSigMax
                 \/ flag[s] >= 2 * standing[s] - Judged(s)

IInv == TypeOK /\ Hysteresis /\ NoAdjacentSignals /\ DebtInv
          /\ (i < NumSub => windows > 0)

LEMMA DetectInit == Init => IInv
<1> SUFFICES ASSUME Init PROVE IInv
  OBVIOUS
<1>1. TypeOK
  BY DetectAssumption DEF Init, TypeOK
<1>2. Hysteresis /\ NoAdjacentSignals
  BY DetectAssumption DEF Init, Hysteresis, NoAdjacentSignals, Neighbors
<1>3. DebtInv
  BY DetectAssumption DEF Init, DebtInv, Judged, Sub
<1> QED
  BY <1>1, <1>2, <1>3, DetectAssumption DEF IInv, Init

LEMMA MeasureKeeps ==
  ASSUME IInv, Measure
  PROVE  IInv'
<1>1. flag' = flag /\ state' = state /\ standing' = standing
      /\ i = NumSub /\ i' = 0 /\ windows' = windows + 1 /\ windows \in Nat
  BY DEF Measure, IInv, TypeOK
<1>2. TypeOK'
  <2>1. energy' \in [Sub -> Nat]
    BY DetectAssumption DEF Measure
  <2>2. noise' \in Nat
    BY <2>1 DEF Measure, Noises
  <2> QED
    BY <1>1, <2>1, <2>2, DetectAssumption DEF IInv, TypeOK
<1>3. Hysteresis' /\ NoAdjacentSignals'
  BY <1>1 DEF IInv, Hysteresis, NoAdjacentSignals, Neighbors
<1>4. DebtInv'
  <2>1. \A s \in Sub : s < i /\ ~(s < i')
    BY <1>1, DetectAssumption DEF Sub
  <2>2. \A s \in Sub : Judged(s)' = Judged(s)
    BY <1>1, <2>1 DEF Judged
  <2> QED
    BY <1>1, <2>2 DEF IInv, DebtInv
<1> QED
  BY <1>1, <1>2, <1>3, <1>4 DEF IInv

LEMMA JudgeKeeps ==
  ASSUME IInv, Judge
  PROVE  IInv'
<1>1. /\ i \in Sub /\ i' = i + 1 /\ energy' = energy /\ noise' = noise
      /\ windows' = windows /\ windows \in Nat /\ windows > 0
      /\ flag' = [flag EXCEPT ![i] = NewFlag(i)]
      /\ state' = [state EXCEPT ![i] = NewState(i, NewFlag(i))]
      /\ standing' = [standing EXCEPT ![i] = IF StandsOut(i) THEN standing[i] + 1 ELSE 0]
  BY DetectAssumption DEF Judge, IInv, TypeOK, Sub
<1>2. TypeOK /\ flag[i] \in Int /\ state[i] \in BOOLEAN /\ standing[i] \in Nat
  BY <1>1 DEF IInv, TypeOK
<1> DEFINE f == NewFlag(i)
<1>3. /\ f \in Int /\ f <= HaveSigMax
      /\ Quiet(i) => f <= 0 /\ (f = 0 \/ f = flag[i] - 1)
      /\ ~Quiet(i) => f >= flag[i]
      /\ ~Quiet(i) /\ ~StandsOut(i) => f = flag[i]
      /\ StandsOut(i) => ~Quiet(i) /\ (f >= flag[i] + 1 \/ f = HaveSigMax)
  BY <1>1, <1>2, FlagCases
<1> HIDE DEF f
<1>4. /\ flag'[i] = f /\ state'[i] = NewState(i, f)
      /\ standing'[i] = IF StandsOut(i) THEN standing[i] + 1 ELSE 0
      /\ \A s \in Sub : s # i =>
           flag'[s] = flag[s] /\ state'[s] = state[s] /\ standing'[s] = standing[s]
  BY <1>1, <1>2 DEF TypeOK, f
<1>5. TypeOK'
  <2>1. flag' \in [Sub -> Int] /\ \A s \in Sub : flag'[s] <= HaveSigMax
    BY <1>1, <1>2, <1>3, <1>4 DEF TypeOK, f
  <2>2. state' \in [Sub -> BOOLEAN]
    BY <1>1, <1>2 DEF TypeOK, NewState
  <2>3. standing' \in [Sub -> Nat]
    BY <1>1, <1>2 DEF TypeOK
  <2>4. i' \in 0 .. NumSub
    BY <1>1, DetectAssumption DEF Sub
  <2> QED
    BY <1>1, <1>2, <2>1, <2>2, <2>3, <2>4 DEF TypeOK
<1>6. /\ state[i] => flag[i] > NoSigThd
      /\ ~state[i] => flag[i] < HaveSigThd
  BY <1>1 DEF IInv, Hysteresis
<1>7. state'[i] <=> (~state[i] /\ f >= HaveSigThd) \/ (state[i] /\ f > NoSigThd)
  BY <1>4 DEF NewState
<1>8. Hysteresis'
  <2>1. IF state'[i] THEN f > NoSigThd ELSE f < HaveSigThd
    BY <1>3, <1>7, DetectAssumption
  <2>2. \A s \in Sub : s # i =>
          IF state'[s] THEN flag'[s] > NoSigThd ELSE flag'[s] < HaveSigThd
    BY <1>4 DEF IInv, Hysteresis
  <2> QED
    BY <1>1, <1>4, <2>1, <2>2 DEF Hysteresis
<1>9. ~state[i] /\ state'[i] => StandsOut(i)
  <2> SUFFICES ASSUME ~state[i], f >= HaveSigThd, ~StandsOut(i) PROVE FALSE
    BY <1>7
  <2>1. flag[i] < HaveSigThd
    BY <1>6
  <2>2. CASE Quiet(i)
    BY <1>3, <2>2, DetectAssumption
  <2>3. CASE ~Quiet(i)
    BY <1>2, <1>3, <2>1, <2>3, DetectAssumption
  <2> QED
    BY <2>2, <2>3
<1>10. NoAdjacentSignals'
  <2> SUFFICES ASSUME NEW s \in Sub, NEW t \in Neighbors(s), state'[s], state'[t]
               PROVE  FALSE
    BY DEF NoAdjacentSignals, Neighbors
  <2>1. t \in Sub /\ s \in Neighbors(t) /\ s # t
    BY NeighborsAreMutual
  <2>2. ~(state[s] /\ state[t])
    BY <2>1 DEF IInv, NoAdjacentSignals
  <2>3. CASE s = i
    <3>1. state[t]
      BY <1>4, <2>1, <2>3
    <3>2. StandsOut(i)
      BY <1>9, <2>2, <2>3, <3>1
    <3> QED
      BY <2>3, <3>1, <3>2 DEF StandsOut, NeighborHasSignal
  <2>4. CASE t = i
    <3>1. state[s]
      BY <1>4, <2>1, <2>4
    <3>2. StandsOut(i)
      BY <1>9, <2>2, <2>4, <3>1
    <3> QED
      BY <2>1, <2>4, <3>1, <3>2 DEF StandsOut, NeighborHasSignal
  <2>5. CASE s # i /\ t # i
    BY <1>4, <2>1, <2>2, <2>5
  <2> QED
    BY <2>3, <2>4, <2>5
<1>11. DebtInv'
  <2>1. \/ f = HaveSigMax
        \/ f >= 2 * standing'[i] - windows
    <3>1. flag[i] = HaveSigMax \/ flag[i] >= 2 * standing[i] - (windows - 1)
      <4>1. Judged(i) = windows - 1
        BY <1>1, DetectAssumption DEF Judged, Sub
      <4> QED
        BY <1>1, <4>1 DEF IInv, DebtInv
    <3>2. CASE StandsOut(i)
      BY <1>1, <1>2, <1>3, <1>4, <3>1, <3>2, DetectAssumption
    <3>3. CASE ~StandsOut(i)
      BY <1>1, <1>2, <1>3, <1>4, <3>1, <3>3, DetectAssumption
    <3> QED
      BY <3>2, <3>3
  <2>2. \A s \in Sub : s # i => ((s < i + 1) <=> (s < i))
    BY <1>1 DEF Sub
  <2>3. \A s \in Sub : s # i => Judged(s)' = Judged(s)
    BY <1>1, <2>2 DEF Judged
  <2>4. Judged(i) = windows - 1 /\ i < i + 1
    BY <1>1 DEF Judged, Sub
  <2>5. ASSUME NEW s \in Sub
        PROVE  flag'[s] = HaveSigMax \/ flag'[s] >= 2 * standing'[s] - Judged(s)'
    <3>1. CASE s = i
      <4>1. Judged(s)' = windows
        BY <1>1, <2>4, <3>1 DEF Judged
      <4> QED
        BY <1>4, <2>1, <3>1, <4>1
    <3>2. CASE s # i
      BY <1>4, <2>3, <3>2 DEF IInv, DebtInv
    <3> QED
      BY <3>1, <3>2
  <2> QED
    BY <2>5 DEF DebtInv
<1> QED
  BY <1>1, <1>5, <1>8, <1>10, <1>11 DEF IInv

LEMMA DetectStep == IInv /\ [Next]_vars => IInv'
<1>1. IInv /\ UNCHANGED vars => IInv'
  BY DEF vars, IInv, TypeOK, Hysteresis, NoAdjacentSignals, Neighbors, DebtInv,
         Judged
<1> QED
  BY <1>1, MeasureKeeps, JudgeKeeps DEF Next

THEOREM DetectInvariant == Spec => []IInv
  BY DetectInit, DetectStep, PTL DEF Spec

(* Every variable of SignalDetect keeps to its set, the flags below        *)
(* HAVE_SIG_MAX.                                                           *)
THEOREM DetectTypeCorrect == Spec => []TypeOK
<1>1. IInv => TypeOK
  BY DEF IInv
<1> QED
  BY <1>1, DetectInvariant, PTL

(* Two sub-channels within the neighbour range are never reported at once. *)
THEOREM SignalsAreApart == Spec => []NoAdjacentSignals
<1>1. IInv => NoAdjacentSignals
  BY DEF IInv
<1> QED
  BY <1>1, DetectInvariant, PTL

(* subch_state and subch_flag keep to the two thresholds.                  *)
THEOREM HysteresisHolds == Spec => []Hysteresis
<1>1. IInv => Hysteresis
  BY DEF IInv
<1> QED
  BY <1>1, DetectInvariant, PTL

(* A signal waits at most as many windows more as it was quiet before.     *)
THEOREM DebtDelaysReport == Spec => []ReportedOnceDebtIsPaid
<1>1. IInv => ReportedOnceDebtIsPaid
  <2> SUFFICES ASSUME IInv, NEW s \in Sub, s < i,
                      standing[s] >= HaveSigThd + (windows - standing[s])
               PROVE  state[s]
    BY DEF ReportedOnceDebtIsPaid
  <2>1. flag[s] \in Int /\ standing[s] \in Nat /\ windows \in Nat
    BY DEF IInv, TypeOK
  <2>2. flag[s] = HaveSigMax \/ flag[s] >= 2 * standing[s] - windows
    BY DEF IInv, DebtInv, Judged
  <2>3. flag[s] >= HaveSigThd
    BY <2>1, <2>2, DetectAssumption
  <2> QED
    BY <2>1, <2>3, DetectAssumption DEF IInv, Hysteresis
<1> QED
  BY <1>1, DetectInvariant, PTL

(* A report begins only when a sub-channel stands out and ends only when it*)
(* is quiet.                                                               *)
THEOREM ReportsFollow == Spec => ReportsFollowEvidence
<1> DEFINE Step == \A s \in Sub :
                     /\ ~state[s] /\ state'[s] => StandsOut(s)
                     /\ state[s] /\ ~state'[s] => Quiet(s)
<1>1. IInv /\ [Next]_vars => [Step]_vars
  <2> SUFFICES ASSUME IInv, [Next]_vars, ~UNCHANGED vars, NEW s \in Sub
               PROVE  /\ ~state[s] /\ state'[s] => StandsOut(s)
                      /\ state[s] /\ ~state'[s] => Quiet(s)
    OBVIOUS
  <2>1. CASE Measure
    BY <2>1 DEF Measure
  <2>2. CASE Judge
    <3>1. /\ i \in Sub /\ state' = [state EXCEPT ![i] = NewState(i, NewFlag(i))]
          /\ TypeOK /\ flag[i] \in Int /\ state[i] \in BOOLEAN
      BY <2>2, DetectAssumption DEF Judge, IInv, TypeOK, Sub
    <3>2. CASE s # i
      BY <3>1, <3>2 DEF TypeOK
    <3>3. CASE s = i
      <4>1. state'[i] = NewState(i, NewFlag(i))
        BY <3>1 DEF TypeOK
      <4>2. /\ NewFlag(i) \in Int
            /\ Quiet(i) => NewFlag(i) <= 0
            /\ ~Quiet(i) => NewFlag(i) >= flag[i]
            /\ ~Quiet(i) /\ ~StandsOut(i) => NewFlag(i) = flag[i]
        BY <3>1, FlagCases
      <4>3. IF state[i] THEN flag[i] > NoSigThd ELSE flag[i] < HaveSigThd
        BY <3>1 DEF IInv, Hysteresis
      <4> HIDE DEF NewFlag
      <4> QED
        BY <3>1, <3>3, <4>1, <4>2, <4>3, DetectAssumption DEF NewState
    <3> QED
      BY <3>2, <3>3
  <2> QED
    BY <2>1, <2>2 DEF Next
<1> QED
  BY <1>1, DetectInvariant, PTL DEF Spec, ReportsFollowEvidence

-----------------------------------------------------------------------------
(* For an array of any size and any numbers, quickselect returns the       *)
(* element of the wanted rank.  The argument: swapping keeps the elements  *)
(* (Permuted), every partition leaves nothing greater below low and        *)
(* nothing smaller above high (Apart), and the rank stays between them.    *)

(* The array has the elements that were passed.                            *)
Permuted ==
  \E f \in Bijection(Index, Index) : \A p \in Index : arr[p] = given[f[p]]

(* What is outside low .. high is where it belongs.                        *)
Apart ==
  at # "returned" =>
    /\ low <= rank /\ rank <= high
    /\ \A p, q \in Index : p < low /\ low <= q => arr[p] <= arr[q]
    /\ \A p, q \in Index : p <= high /\ high < q => arr[p] <= arr[q]

(* What the loop of partition has done so far.                             *)
Scanned ==
  at = "scan" =>
    /\ low < high /\ low <= next /\ next <= high
    /\ low - 1 <= last /\ last < next
    /\ \A p \in Index : low <= p /\ p <= last => arr[p] < arr[high]
    /\ \A p \in Index : last < p /\ p < next => arr[high] <= arr[p]

(* The pivot is between what is smaller and what is not.                   *)
Parted ==
  at = "compare" =>
    /\ low < high /\ low - 1 <= last /\ last < high
    /\ \A p \in Index : low <= p /\ p <= last => arr[p] < arr[last + 1]
    /\ \A p \in Index : last + 1 < p /\ p <= high => arr[last + 1] <= arr[p]

Found ==
  at = "returned" =>
    /\ chosen = arr[rank]
    /\ \A p \in Index : (p < rank => arr[p] <= chosen)
                     /\ (rank < p => chosen <= arr[p])

SelectInv == SelectTypeOK /\ Permuted /\ Apart /\ Scanned /\ Parted /\ Found

-----------------------------------------------------------------------------
(* Swapping two elements only.                                             *)
LEMMA SwapIs ==
  ASSUME SelectTypeOK, NEW p \in Index, NEW q \in Index, Swap(p, q)
  PROVE  /\ arr' \in [Index -> Values]
         /\ arr'[p] = arr[q] /\ arr'[q] = arr[p]
         /\ \A x \in Index : x # p /\ x # q => arr'[x] = arr[x]
BY DEF SelectTypeOK, Swap

(* Swapping keeps the elements.                                            *)
LEMMA SwapPermutes ==
  ASSUME SelectTypeOK, Permuted, NEW p \in Index, NEW q \in Index, Swap(p, q),
         given' = given
  PROVE  Permuted'
<1>1. PICK f \in Bijection(Index, Index) :
        \A x \in Index : arr[x] = given[f[x]]
  BY DEF Permuted
<1> DEFINE g == [x \in Index |-> IF x = p THEN f[q] ELSE IF x = q THEN f[p]
                                 ELSE f[x]]
<1>2. /\ f \in [Index -> Index]
      /\ \A x, y \in Index : f[x] = f[y] => x = y
      /\ \A y \in Index : \E x \in Index : f[x] = y
  BY DEF Bijection, Injection, Surjection, IsInjective
<1>3. g \in [Index -> Index]
  BY <1>2
<1>4. \A x, y \in Index : g[x] = g[y] => x = y
  BY <1>2
<1>5. ASSUME NEW y \in Index PROVE \E x \in Index : g[x] = y
  <2>1. PICK x \in Index : f[x] = y
    BY <1>2
  <2> QED
    BY <2>1
<1>6. g \in Bijection(Index, Index)
  BY <1>3, <1>4, <1>5 DEF Bijection, Injection, Surjection, IsInjective
<1>7. \A x \in Index : arr'[x] = given[g[x]]
  BY <1>1, SwapIs
<1> HIDE DEF g
<1> QED
  BY <1>6, <1>7 DEF Permuted

LEMMA InitSelect == SelectInit => SelectInv
<1> SUFFICES ASSUME SelectInit PROVE SelectInv
  OBVIOUS
<1>1. Size \in Nat \ {0}
  BY SelectAssumption
<1>2. SelectTypeOK
  BY <1>1 DEF SelectInit, SelectTypeOK, Index
<1>3. Permuted
  <2> DEFINE g == [x \in Index |-> x]
  <2>1. g \in Bijection(Index, Index)
    BY DEF Bijection, Injection, Surjection, IsInjective
  <2>2. \A x \in Index : arr[x] = given[g[x]]
    BY DEF SelectInit
  <2> HIDE DEF g
  <2> QED
    BY <2>1, <2>2 DEF Permuted
<1>4. Apart /\ Scanned /\ Parted /\ Found
  BY <1>1 DEF SelectInit, Apart, Scanned, Parted, Found, Index
<1> QED
  BY <1>2, <1>3, <1>4 DEF SelectInv

(* Types of the numbers, for the provers.                                  *)
LEMMA Numbers ==
  ASSUME SelectTypeOK
  PROVE  /\ Size \in Nat \ {0} /\ Index \subseteq Int
         /\ low \in 0 .. Size - 1 /\ high \in 0 .. Size - 1
         /\ rank \in 0 .. Size - 1 /\ next \in 0 .. Size - 1 /\ last \in Int
         /\ \A p \in Index : arr[p] \in Int
<1>1. /\ Size \in Nat \ {0} /\ Index \subseteq Int
      /\ rank \in Index /\ low \in Index /\ high \in Index /\ next \in Index
      /\ last \in Int
  BY SelectAssumption DEF SelectTypeOK, Index
<1>2. \A p \in Index : arr[p] \in Int
  BY SelectAssumption DEF SelectTypeOK
<1> QED
  BY <1>1, <1>2 DEF Index

LEMMA SingleStep == SelectInv /\ Single => SelectInv'
<1> SUFFICES ASSUME SelectInv, Single PROVE SelectInv'
  OBVIOUS
<1> USE DEF SelectInv
<1>1. SelectTypeOK'
  BY DEF Single, SelectTypeOK
<1>2. Permuted'
  BY DEF Single, Permuted
<1>3. low = rank
  BY Numbers DEF Single, Apart
<1>4. Found'
  BY <1>3, Numbers DEF Single, Apart, Found, Index
<1> QED
  BY <1>1, <1>2, <1>4 DEF Single, Apart, Scanned, Parted

LEMMA PartitionStep == SelectInv /\ Partition => SelectInv'
<1> SUFFICES ASSUME SelectInv, Partition PROVE SelectInv'
  OBVIOUS
<1> USE DEF SelectInv
<1>1. SelectTypeOK'
  BY Numbers DEF Partition, SelectTypeOK, Index
<1>2. Permuted'
  BY DEF Partition, Permuted
<1>3. Apart'
  BY DEF Partition, Apart
<1>4. Scanned'
  BY Numbers DEF Partition, Apart, Scanned
<1> QED
  BY <1>1, <1>2, <1>3, <1>4 DEF Partition, Parted, Found

LEMMA ScanStep == SelectInv /\ Scan => SelectInv'
<1> SUFFICES ASSUME SelectInv, Scan PROVE SelectInv'
  OBVIOUS
<1> USE DEF SelectInv
<1>1. /\ low < high /\ low <= next /\ next < high /\ low - 1 <= last /\ last < next
      /\ at = "scan" /\ at' = at /\ next' = next + 1
      /\ low' = low /\ high' = high /\ rank' = rank /\ given' = given
  BY Numbers DEF Scan, Scanned
<1>2. next \in Index /\ high \in Index /\ low \in Index
  BY DEF SelectTypeOK
<1>3. CASE arr[next] < arr[high]
  <2>1. Swap(last + 1, next) /\ last' = last + 1
    BY <1>3 DEF Scan
  <2>2. last + 1 \in Index /\ last + 1 # high /\ next # high /\ last + 1 <= next
    BY <1>1, Numbers DEF Index
  <2>3. /\ arr' \in [Index -> Values]
        /\ arr'[last + 1] = arr[next] /\ arr'[next] = arr[last + 1]
        /\ \A x \in Index : x # last + 1 /\ x # next => arr'[x] = arr[x]
    BY <1>2, <2>1, <2>2, SwapIs
  <2>4. SelectTypeOK'
    BY <1>1, <2>1, <2>2, <2>3, Numbers DEF SelectTypeOK, Scan, Index
  <2>5. Permuted'
    BY <1>1, <1>2, <2>1, <2>2, SwapPermutes
  <2>6. Apart'
    BY <1>1, <1>2, <2>2, <2>3, Numbers DEF Apart
  <2>7. Scanned'
    BY <1>1, <1>2, <1>3, <2>1, <2>2, <2>3, Numbers DEF Scanned
  <2> QED
    BY <1>1, <2>4, <2>5, <2>6, <2>7 DEF Parted, Found
<1>4. CASE ~(arr[next] < arr[high])
  <2>1. arr' = arr /\ last' = last
    BY <1>4 DEF Scan
  <2>2. SelectTypeOK'
    BY <1>1, <2>1, Numbers DEF SelectTypeOK, Scan, Index
  <2>3. Permuted' /\ Apart'
    BY <1>1, <2>1 DEF Permuted, Apart
  <2>4. Scanned'
    BY <1>1, <1>2, <1>4, <2>1, Numbers DEF Scanned
  <2> QED
    BY <1>1, <2>2, <2>3, <2>4 DEF Parted, Found
<1> QED
  BY <1>3, <1>4

LEMMA PlaceStep == SelectInv /\ Place => SelectInv'
<1> SUFFICES ASSUME SelectInv, Place PROVE SelectInv'
  OBVIOUS
<1> USE DEF SelectInv
<1>1. /\ low < high /\ next = high /\ low - 1 <= last /\ last < high
      /\ at = "scan" /\ at' = "compare" /\ last' = last
      /\ low' = low /\ high' = high /\ rank' = rank /\ given' = given
  BY Numbers DEF Place, Scanned
<1>2. high \in Index /\ last + 1 \in Index /\ Swap(last + 1, high)
  BY <1>1, Numbers DEF Place, Index
<1>3. /\ arr' \in [Index -> Values]
      /\ arr'[last + 1] = arr[high] /\ arr'[high] = arr[last + 1]
      /\ \A x \in Index : x # last + 1 /\ x # high => arr'[x] = arr[x]
  BY <1>2, SwapIs
<1>4. SelectTypeOK'
  BY <1>1, <1>3 DEF SelectTypeOK, Place
<1>5. Permuted'
  BY <1>1, <1>2, SwapPermutes
<1>6. Apart'
  BY <1>1, <1>2, <1>3, Numbers DEF Apart
<1>7. Parted'
  BY <1>1, <1>2, <1>3, Numbers DEF Scanned, Parted
<1> QED
  BY <1>1, <1>4, <1>5, <1>6, <1>7 DEF Scanned, Found

LEMMA CompareStep == SelectInv /\ Compare => SelectInv'
<1> SUFFICES ASSUME SelectInv, Compare PROVE SelectInv'
  OBVIOUS
<1> USE DEF SelectInv
<1>1. /\ at = "compare" /\ arr' = arr /\ rank' = rank /\ given' = given
      /\ last' = last /\ next' = next
      /\ low < high /\ low - 1 <= last /\ last < high
      /\ low <= rank /\ rank <= high
  BY DEF Compare, Parted, Apart
<1>2. Permuted'
  BY <1>1 DEF Permuted
<1>3. last + 1 \in Index
  BY <1>1, Numbers DEF Index
<1>4. ASSUME NEW p \in Index, p <= last
      PROVE  arr[p] <= arr[last + 1]
  BY <1>1, <1>3, <1>4, Numbers DEF Apart, Parted
<1>5. ASSUME NEW p \in Index, last + 1 < p
      PROVE  arr[last + 1] <= arr[p]
  BY <1>1, <1>3, <1>5, Numbers DEF Apart, Parted
<1>6. CASE rank = last + 1 /\ chosen' = arr[rank] /\ at' = "returned"
           /\ UNCHANGED <<low, high>>
  <2>1. SelectTypeOK'
    BY <1>1, <1>6 DEF SelectTypeOK
  <2>2. Found'
    BY <1>1, <1>4, <1>5, <1>6, Numbers DEF Found
  <2> QED
    BY <1>2, <1>6, <2>1, <2>2 DEF Apart, Scanned, Parted
<1>7. CASE rank < last + 1 /\ high' = last /\ at' = "select"
           /\ UNCHANGED <<low, chosen>>
  <2>1. SelectTypeOK'
    BY <1>1, <1>7, Numbers DEF SelectTypeOK, Index
  <2>2. ASSUME NEW p \in Index, NEW q \in Index, p <= last, last < q
        PROVE  arr[p] <= arr[q]
    <3>1. q = last + 1 \/ last + 1 < q
      BY <2>2, Numbers
    <3> QED
      BY <2>2, <3>1, <1>3, <1>4, <1>5, Numbers
  <2>3. Apart'
    BY <1>1, <1>7, <2>2, Numbers DEF Apart
  <2> QED
    BY <1>2, <1>7, <2>1, <2>3 DEF Scanned, Parted, Found
<1>8. CASE rank > last + 1 /\ low' = last + 2 /\ at' = "select"
           /\ UNCHANGED <<high, chosen>>
  <2>1. SelectTypeOK'
    BY <1>1, <1>8, Numbers DEF SelectTypeOK, Index
  <2>2. ASSUME NEW p \in Index, NEW q \in Index, p < last + 2, last + 2 <= q
        PROVE  arr[p] <= arr[q]
    <3>1. p = last + 1 \/ p <= last
      BY <2>2, Numbers
    <3> QED
      BY <2>2, <3>1, <1>3, <1>4, <1>5, Numbers
  <2>3. Apart'
    BY <1>1, <1>8, <2>2, Numbers DEF Apart
  <2> QED
    BY <1>2, <1>8, <2>1, <2>3 DEF Scanned, Parted, Found
<1> QED
  BY <1>6, <1>7, <1>8 DEF Compare

(* The inductive invariant: the elements are kept, what is outside the     *)
(* part in work is where it belongs, and the rank is inside.               *)
THEOREM SelectInvariant == SelectSpec => []SelectInv
<1>1. SelectInv /\ [SelectNext]_selectVars => SelectInv'
  <2> SUFFICES ASSUME SelectInv, [SelectNext]_selectVars PROVE SelectInv'
    OBVIOUS
  <2>1. CASE UNCHANGED selectVars
    BY <2>1 DEF selectVars, SelectInv, SelectTypeOK, Permuted, Apart, Scanned,
                Parted, Found
  <2> QED
    BY <2>1, SingleStep, PartitionStep, ScanStep, PlaceStep, CompareStep
    DEF SelectNext
<1> QED
  BY <1>1, InitSelect, PTL DEF SelectSpec

-----------------------------------------------------------------------------
(* What is found has its rank in the array that was passed.                *)
LEMMA FoundHasRank == SelectInv => RankSelected
<1> SUFFICES ASSUME SelectInv, at = "returned"
             PROVE  /\ Cardinality({p \in Index : given[p] < chosen}) <= rank
                    /\ rank < Cardinality({p \in Index : given[p] <= chosen})
  BY DEF RankSelected
<1>1. /\ SelectTypeOK /\ rank \in Index /\ chosen = arr[rank] /\ chosen \in Int
      /\ \A p \in Index : arr[p] \in Int /\ given[p] \in Int
      /\ \A p \in Index : (p < rank => arr[p] <= chosen)
                       /\ (rank < p => chosen <= arr[p])
  BY SelectAssumption DEF SelectInv, SelectTypeOK, Found
<1>2. PICK f \in Bijection(Index, Index) :
        \A p \in Index : arr[p] = given[f[p]]
  BY DEF SelectInv, Permuted
<1>3. /\ f \in [Index -> Index]
      /\ \A p, q \in Index : f[p] = f[q] => p = q
      /\ \A q \in Index : \E p \in Index : f[p] = q
  BY DEF Bijection, Injection, Surjection, IsInjective
<1>4. rank \in Nat /\ Index \subseteq Nat /\ IsFiniteSet(Index)
      /\ 0 .. rank \subseteq Index
  <2>1. Size \in Nat \ {0} /\ rank \in 0 .. Size - 1
    BY <1>1, SelectAssumption DEF Index
  <2>2. IsFiniteSet(0 .. Size - 1)
    BY <2>1, FS_Interval
  <2> QED
    BY <2>1, <2>2 DEF Index
<1>5. Cardinality({p \in Index : given[p] < chosen}) <= rank
  <2> DEFINE Less == {p \in Index : given[p] < chosen}
             Source(p) == CHOOSE q \in Index : f[q] = p
             g == [p \in Less |-> Source(p)]
  <2>1. \A p \in Less : Source(p) \in Index /\ f[Source(p)] = p
    BY <1>3
  <2>2. \A p \in Less : p \in Index /\ given[p] < chosen
    OBVIOUS
  <2> HIDE DEF Source, Less
  <2>3. ASSUME NEW p \in Less PROVE Source(p) \in 0 .. rank - 1
    <3>1. /\ Source(p) \in Index /\ arr[Source(p)] = given[p]
          /\ given[p] < chosen /\ given[p] \in Int
      BY <2>1, <2>2, <1>1, <1>2
    <3>2. ~(rank < Source(p)) /\ Source(p) # rank
      BY <3>1, <1>1
    <3>3. Source(p) \in Nat /\ rank \in Nat
      BY <3>1, <1>4
    <3> QED
      BY <3>2, <3>3
  <2>4. DOMAIN g = Less /\ \A p \in Less : g[p] = Source(p)
    OBVIOUS
  <2>5. \A p, q \in Less : g[p] = g[q] => p = q
    BY <2>1, <2>4
  <2>6. g \in [Less -> 0 .. rank - 1]
    BY <2>3
  <2>7. g \in Injection(Less, 0 .. rank - 1)
    BY <2>4, <2>5, <2>6 DEF Injection, IsInjective
  <2>8. IsFiniteSet(0 .. rank - 1) /\ Cardinality(0 .. rank - 1) = rank
    BY <1>4, FS_Interval
  <2> HIDE DEF g
  <2>9. Cardinality(Less) <= Cardinality(0 .. rank - 1)
    BY <2>7, <2>8, FS_Injection
  <2> QED
    BY <2>8, <2>9 DEF Less
<1>6. rank < Cardinality({p \in Index : given[p] <= chosen})
  <2> DEFINE Most == {p \in Index : given[p] <= chosen}
             g == [p \in 0 .. rank |-> f[p]]
  <2>1. ASSUME NEW p \in 0 .. rank PROVE g[p] \in Most
    <3>1. p \in Index /\ arr[p] <= chosen
      BY <1>1, <1>4
    <3> QED
      BY <3>1, <1>2, <1>3
  <2>2. g \in Injection(0 .. rank, Most)
    BY <2>1, <1>3, <1>4 DEF Injection, IsInjective
  <2>3. IsFiniteSet(Most)
    BY <1>4, FS_Subset
  <2>4. Cardinality(0 .. rank) = rank + 1
    BY <1>4, FS_Interval
  <2> HIDE DEF g, Most
  <2>5. Cardinality(0 .. rank) <= Cardinality(Most) /\ Cardinality(Most) \in Nat
    BY <2>2, <2>3, FS_Injection, FS_CardinalityType
  <2> QED
    BY <2>4, <2>5, <1>4 DEF Most
<1> QED
  BY <1>5, <1>6

(* quickselect returns the element of the wanted rank, for any array and   *)
(* any rank: the noise of a window is the energy that SignalDetect takes.  *)
THEOREM NoiseHasItsRank == SelectSpec => []RankSelected
<1> QED
  BY SelectInvariant, FoundHasRank, PTL
=============================================================================
