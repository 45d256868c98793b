----------------------------- MODULE PlotProofs -----------------------------
(***************************************************************************)
(* The plotter and its slider, for any sizes, any frame length, any widths *)
(* and any values of the controls in any order.  What they rest on is      *)
(* arithmetic: every conversion between a bin, a value and a pixel rounds, *)
(* and the lemmas say by how much.  At the end, that the plotter           *)
(* implements the sliding average: the sums that frames are added to and   *)
(* subtracted from are the sums of the frames in the ring.                 *)
(***************************************************************************)
EXTENDS PlotWindow, SequenceTheorems, WellFoundedInduction, TLAPS

LEMMA TimesMonotone ==
  ASSUME NEW a \in Int, NEW b \in Int, NEW k \in Nat, a <= b
  PROVE  a * k <= b * k
OBVIOUS

LEMMA Divided ==
  ASSUME NEW n \in Int, NEW d \in Nat \ {0}
  PROVE  /\ n \div d \in Int
         /\ (n \div d) * d <= n
         /\ n < (n \div d) * d + d
OBVIOUS

(* A quotient is bounded by what bounds its products.                      *)
LEMMA QuotientAtMost ==
  ASSUME NEW n \in Int, NEW d \in Nat \ {0}, NEW k \in Int, n < k * d + d
  PROVE  n \div d <= k
OBVIOUS

LEMMA QuotientAtLeast ==
  ASSUME NEW n \in Int, NEW d \in Nat \ {0}, NEW k \in Int, k * d <= n
  PROVE  k <= n \div d
OBVIOUS

-----------------------------------------------------------------------------
(* What the shown range needs of a display mode and a size.                *)
RangeInv ==
  /\ mode \in {"sequential", "shifted", "lower"}
  /\ fftSize \in Nat /\ fftSize >= 2
  /\ binMin \in Int /\ binMax \in Int
  /\ RangeInFft

(* The limits of a mode that the program uses.                             *)
LEMMA Limits ==
  ASSUME NEW m \in {"sequential", "shifted", "lower"},
         NEW size \in Nat, size >= 2
  PROVE  /\ LimitMin(m, size) \in Int /\ LimitMax(m, size) \in Int
         /\ LimitMin(m, size) < LimitMax(m, size)
         /\ m = "shifted" => /\ LimitMin(m, size) = Mid(size) + 1 - size
                             /\ LimitMax(m, size) = Mid(size)
         /\ m = "lower" => LimitMin(m, size) = 0 /\ LimitMax(m, size) = Mid(size)
         /\ m = "sequential" =>
              LimitMin(m, size) = 0 /\ LimitMax(m, size) = size - 1
         /\ Mid(size) \in Nat /\ 1 <= Mid(size) /\ Mid(size) < size
<1>1. Mid(size) \in Nat /\ 1 <= Mid(size) /\ Mid(size) < size
  BY DEF Mid
<1>2. CASE m = "sequential"
  BY <1>1, <1>2 DEF LimitMin, LimitMax
<1>3. CASE m = "shifted"
  BY <1>1, <1>3 DEF LimitMin, LimitMax
<1>4. CASE m = "lower"
  BY <1>1, <1>4 DEF LimitMin, LimitMax
<1> QED
  BY <1>2, <1>3, <1>4

LEMMA ResetKeepsRange ==
  ASSUME NEW m \in {"sequential", "shifted", "lower"},
         NEW size \in Nat, size >= 2, UpdateBinRanges(m, size)
  PROVE  RangeInv'
<1>1. mode' = m /\ fftSize' = size
      /\ binMin' = LimitMin(m, size) /\ binMax' = LimitMax(m, size)
  BY DEF UpdateBinRanges
<1>2. RangeInFft'
  BY <1>1, Limits DEF RangeInFft
<1> QED
  BY <1>1, <1>2, Limits DEF RangeInv

(* One bound is moved and the other stays: the range that is refused when  *)
(* it is empty is cut to the FFT, and neither cut empties it.              *)
LEMMA SetRangeKeepsRange ==
  ASSUME RangeInv, NEW min \in Int, NEW max \in Int, SetBinRange(min, max),
         min = binMin \/ max = binMax
  PROVE  RangeInv'
<1> DEFINE lo == LimitMin(mode, fftSize)
           hi == LimitMax(mode, fftSize)
<1>1. /\ min < max /\ mode' = mode /\ fftSize' = fftSize
      /\ binMin' = (IF min <= lo THEN lo ELSE min)
      /\ binMax' = (IF max >= hi THEN hi ELSE max)
  BY DEF SetBinRange
<1>2. lo \in Int /\ hi \in Int /\ lo < hi
  BY Limits DEF RangeInv
<1>3. lo <= binMin /\ binMin < binMax /\ binMax <= hi
      /\ binMin \in Int /\ binMax \in Int
  BY DEF RangeInv, RangeInFft
<1>4. LimitMin(mode', fftSize') = lo /\ LimitMax(mode', fftSize') = hi
  BY <1>1
<1> HIDE DEF lo, hi
<1>5. /\ lo <= binMin' /\ binMin' < binMax' /\ binMax' <= hi
      /\ binMin' \in Int /\ binMax' \in Int
  BY <1>1, <1>2, <1>3
<1> QED
  BY <1>1, <1>4, <1>5 DEF RangeInv, RangeInFft

LEMMA SameRange == RangeInv /\ UNCHANGED rangeVars => RangeInv'
BY DEF RangeInv, RangeInFft, rangeVars, LimitMin, LimitMax, Mid

(* Any caller: the calls of the plotter in any order.                      *)
LEMMA PlotterStep ==
  ASSUME "upper" \notin Modes, RangeInv, [Next]_vars
  PROVE  RangeInv'
<1>1. CASE UNCHANGED vars
  BY <1>1, SameRange DEF vars
<1>2. ASSUME NEW size \in FftSizes, SetFftSize(size) PROVE RangeInv'
  BY <1>2, ResetKeepsRange, PlotterAssumption DEF SetFftSize, RangeInv
<1>3. ASSUME NEW m \in Modes, SetDisplayMode(m) PROVE RangeInv'
  BY <1>3, ResetKeepsRange, PlotterAssumption DEF SetDisplayMode, RangeInv
<1>4. ASSUME NEW b \in Bounds, SetBinMin(b) \/ SetBinMax(b) PROVE RangeInv'
  BY <1>4, SetRangeKeepsRange, PlotterAssumption
  DEF SetBinMin, SetBinMax, RangeInv
<1>5. CASE TogglePlotMode
  BY <1>5, SameRange DEF TogglePlotMode
<1>6. ASSUME NEW p \in BOOLEAN, SetPaused(p) PROVE RangeInv'
  BY <1>6, SameRange DEF SetPaused
<1>7. ASSUME NEW n \in 0 .. Cap + 1, SetAvgLen(n) PROVE RangeInv'
  BY <1>7, SameRange DEF SetAvgLen
<1>8. ASSUME NEW v \in Levels, PlotFreq(v) PROVE RangeInv'
  BY <1>8, SameRange DEF PlotFreq
<1> QED
  BY <1>1, <1>2, <1>3, <1>4, <1>5, <1>6, <1>7, <1>8 DEF Next

LEMMA RangeInitially ==
  ASSUME Init, mode # "upper"
  PROVE  RangeInv
BY Limits, PlotterAssumption DEF Init, RangeInv, RangeInFft

(* The inductive invariant of the shown range.  "upper", which no plotter  *)
(* of the program uses, has an empty range with the smallest sizes.        *)
THEOREM RangeInvariant ==
  ASSUME "upper" \notin Modes
  PROVE  Spec => []RangeInv
<1>1. Init => RangeInv
  BY RangeInitially DEF Init
<1>2. RangeInv /\ [Next]_vars => RangeInv'
  BY PlotterStep
<1> QED
  BY <1>1, <1>2, PTL DEF Spec

(* The shown range is never inverted and never outside the FFT.            *)
THEOREM RangeStaysInFft ==
  ASSUME "upper" \notin Modes
  PROVE  Spec => []RangeInFft
<1>1. RangeInv => RangeInFft
  BY DEF RangeInv
<1> QED
  BY <1>1, RangeInvariant, PTL

-----------------------------------------------------------------------------
(* Rounding does not leave the whole numbers that enclose a quotient.      *)
LEMMA RoundedBetween ==
  ASSUME NEW a \in Int, NEW b \in Nat \ {0}, NEW lo \in Int, NEW hi \in Int,
         lo * b <= a, a <= hi * b
  PROVE  /\ Rounded(a, b) \in Int
         /\ lo <= Rounded(a, b) /\ Rounded(a, b) <= hi
<1> DEFINE d == 2 * b
<1>1. d \in Nat \ {0}
  OBVIOUS
<1>2. lo * d <= 2 * a /\ 2 * a <= hi * d
  OBVIOUS
<1>3. CASE a >= 0
  <2>1. Rounded(a, b) = (2 * a + b) \div d
    BY <1>3 DEF Rounded
  <2>2. lo * d <= 2 * a + b /\ 2 * a + b < hi * d + d
    BY <1>2
  <2> HIDE DEF d
  <2> QED
    BY <1>1, <2>1, <2>2, QuotientAtMost, QuotientAtLeast, Divided
<1>4. CASE a < 0
  <2>1. Rounded(a, b) = -((2 * (-a) + b) \div d)
    BY <1>4 DEF Rounded
  <2>2. (-hi) * d <= 2 * (-a) + b /\ 2 * (-a) + b < (-lo) * d + d
    <3>1. (-hi) * d = -(hi * d) /\ (-lo) * d = -(lo * d)
      OBVIOUS
    <3> QED
      BY <1>2, <3>1
  <2> HIDE DEF d
  <2>3. 2 * (-a) + b \in Int /\ -hi \in Int /\ -lo \in Int
    OBVIOUS
  <2>4. (2 * (-a) + b) \div d <= -lo /\ -hi <= (2 * (-a) + b) \div d
        /\ (2 * (-a) + b) \div d \in Int
    BY <1>1, <2>2, <2>3, QuotientAtMost, QuotientAtLeast, Divided
  <2> QED
    BY <2>1, <2>4
<1> QED
  BY <1>3, <1>4

(* The bins a column of the waterfall or a point of the spectrum stands    *)
(* for: between the bounds of the range, and within a frame.               *)
LEMMA InRange ==
  ASSUME RangeInv, LongEnough, Mid(fftSize) # FrameLen,
         NEW x \in Int, binMin <= x, x <= binMin + BinCount - 1
  PROVE  Bin(x) \in 0 .. FrameLen - 1 /\ Bin(x) \in 0 .. Bins - 1
<1> DEFINE lo == LimitMin(mode, fftSize)
           hi == LimitMax(mode, fftSize)
           n == fftSize
           h == Mid(fftSize)
<1>1. n \in Nat /\ n >= 2 /\ FrameLen \in Nat /\ h \in Nat /\ h < n
  BY Limits, PlotterAssumption DEF RangeInv
<1>2. lo \in Int /\ hi \in Int /\ Bins = hi - lo + 1
  BY Limits DEF RangeInv, Bins
<1>3. lo <= x /\ x <= hi
  BY <1>2, PlotterAssumption DEF RangeInv, RangeInFft, BinCount
<1>4. Bin(x) = IF x < 0 THEN n + x ELSE x
  BY DEF Bin
<1>5. /\ mode = "sequential" => lo = 0 /\ hi = n - 1 /\ FrameLen >= n
      /\ mode = "shifted" => lo = h + 1 - n /\ hi = h /\ FrameLen >= n
      /\ mode = "lower" => lo = 0 /\ hi = h /\ FrameLen > h
  BY <1>1, Limits DEF RangeInv, LongEnough
<1>6. mode \in {"sequential", "shifted", "lower"}
  BY DEF RangeInv
<1> HIDE DEF lo, hi, n, h
<1>7. CASE mode = "sequential"
  BY <1>1, <1>2, <1>3, <1>4, <1>5, <1>7
<1>8. CASE mode = "shifted"
  BY <1>1, <1>2, <1>3, <1>4, <1>5, <1>8
<1>9. CASE mode = "lower"
  BY <1>1, <1>2, <1>3, <1>4, <1>5, <1>9
<1> QED
  BY <1>6, <1>7, <1>8, <1>9

LEMMA ShownBins ==
  ASSUME RangeInv, Mid(fftSize) # FrameLen
  PROVE  ShownBinsAreData
<1> SUFFICES ASSUME LongEnough
             PROVE  /\ SpectrumReads \subseteq 0 .. Bins - 1
                    /\ SpectrumReads \subseteq 0 .. FrameLen - 1
                    /\ WaterfallReads \subseteq 0 .. FrameLen - 1
  BY DEF ShownBinsAreData
<1>1. /\ binMin \in Int /\ binMax \in Int /\ binMin < binMax
      /\ BinCount \in Nat \ {0} /\ BinCount <= binMax - binMin + 1
  BY Limits, PlotterAssumption DEF RangeInv, RangeInFft, BinCount
<1>2. ASSUME NEW i \in 0 .. BinCount - 1
      PROVE  /\ Bin(binMin + i) \in 0 .. Bins - 1
             /\ Bin(binMin + i) \in 0 .. FrameLen - 1
  BY <1>1, <1>2, InRange
<1> DEFINE size == (MapX * BinCount) \div (binMax - binMin + 1)
<1>3. ASSUME NEW i \in 0 .. size - 1
      PROVE  Bin(Rounded(binMin * size + i * (BinCount - 1), size))
               \in 0 .. FrameLen - 1
  <2>1. size \in Nat \ {0}
    <3>1. MapX * BinCount \in Int /\ binMax - binMin + 1 \in Nat \ {0}
      BY <1>1, PlotterAssumption
    <3>2. size \in Int
      BY <3>1, Divided
    <3> HIDE DEF size
    <3> QED
      BY <1>3, <3>2
  <2> HIDE DEF size
  <2> DEFINE k == BinCount - 1
             a == binMin * size + i * k
  <2>2. k \in Nat /\ i \in Nat /\ i <= size
    BY <1>1, <2>1
  <2> HIDE DEF k
  <2>3. 0 <= i * k /\ i * k <= k * size /\ i * k \in Int
    BY <2>1, <2>2
  <2>4. (binMin + k) * size = binMin * size + k * size
        /\ binMin * size \in Int /\ k * size \in Int
    BY <1>1, <2>1, <2>2
  <2>5. a \in Int /\ binMin * size <= a /\ a <= (binMin + k) * size
    BY <2>3, <2>4
  <2>6. /\ Rounded(a, size) \in Int /\ binMin <= Rounded(a, size)
        /\ Rounded(a, size) <= binMin + k
    <3> DEFINE hi == binMin + k
    <3>1. hi \in Int /\ a <= hi * size
      BY <1>1, <2>2, <2>5
    <3> HIDE DEF a, hi
    <3>2. /\ Rounded(a, size) \in Int /\ binMin <= Rounded(a, size)
          /\ Rounded(a, size) <= hi
      BY <1>1, <2>1, <2>5, <3>1, RoundedBetween
    <3> QED
      BY <3>2 DEF hi
  <2>7. Rounded(a, size) <= binMin + BinCount - 1
    <3> HIDE DEF a
    <3> QED
      BY <1>1, <2>6 DEF k
  <2>8. Bin(Rounded(a, size)) \in 0 .. FrameLen - 1
    <3> HIDE DEF a
    <3> QED
      BY <2>6, <2>7, InRange
  <2> QED
    BY <2>8 DEF k
<1>4. WaterfallReads =
        {Bin(Rounded(binMin * size + i * (BinCount - 1), size)) :
           i \in 0 .. size - 1}
  BY DEF WaterfallReads
<1> QED
  BY <1>2, <1>3, <1>4 DEF SpectrumReads

(* The sizes a plotter is set to.                                          *)
KnownSize == fftSize \in FftSizes \cup {StartSize}

LEMMA SizeStep == KnownSize /\ [Next]_vars => KnownSize'
BY DEF KnownSize, Next, vars, rangeVars, SetFftSize, SetDisplayMode,
       UpdateBinRanges, SetBinMin, SetBinMax, SetBinRange, TogglePlotMode,
       SetPaused, SetAvgLen, PlotFreq

(* A frame that passes the length check is shown from bins that exist and  *)
(* that it has written; except at the FFT size of twice its length, which  *)
(* the check lets through although a bin is missing.                       *)
THEOREM OnlyDataIsShown ==
  ASSUME "upper" \notin Modes,
         \A size \in FftSizes \cup {StartSize} : Mid(size) # FrameLen
  PROVE  Spec => []ShownBinsAreData
<1>1. Init => KnownSize
  BY DEF Init, KnownSize
<1>2. RangeInv /\ KnownSize => ShownBinsAreData
  BY ShownBins DEF KnownSize
<1>3. Spec => []RangeInv
  BY RangeInvariant
<1> QED
  BY <1>1, <1>2, <1>3, SizeStep, PTL DEF Spec

-----------------------------------------------------------------------------
(* The slider.                                                             *)
SliderInv ==
  /\ lower \in Minimum .. Maximum /\ upper \in Minimum .. Maximum
  /\ width \in Widths /\ pressed \in {"none", "first", "second"}
  /\ delta \in Int
  /\ HandlesMeet

LEMMA Geometry ==
  ASSUME NEW w \in Widths
  PROVE  /\ ValidLengthOf(w) \in Nat \ {0} /\ Interval \in Nat \ {0}
         /\ PixelWorth(w) \in Nat \ {0}
         /\ Interval <= PixelWorth(w) * ValidLengthOf(w)
         /\ Minimum \in Int /\ Maximum \in Int /\ Minimum < Maximum
         /\ Side \in Nat /\ Margin \in Nat /\ Half \in Nat
         /\ 2 * Half <= Side /\ Side <= 2 * Half + 1
<1> DEFINE l == ValidLengthOf(w)
           n == Interval + l - 1
<1>1. /\ Minimum \in Int /\ Maximum \in Int /\ Minimum < Maximum
      /\ Side \in Nat /\ Margin \in Nat /\ w \in Nat
      /\ w > 2 * Margin + 2 * Side
  BY SliderAssumption
<1>2. l \in Nat \ {0} /\ Interval \in Nat \ {0}
  BY <1>1 DEF ValidLengthOf, Interval
<1>3. Half \in Nat /\ 2 * Half <= Side /\ Side <= 2 * Half + 1
  BY <1>1 DEF Half
<1>4. PixelWorth(w) = n \div l
  BY DEF PixelWorth
<1> HIDE DEF l
<1>5. n \in Int /\ 1 * l <= n
  BY <1>2
<1>6. n \div l \in Int /\ n < (n \div l) * l + l /\ 1 <= n \div l
  <2> HIDE DEF n
  <2> QED
    BY <1>2, <1>5, Divided, QuotientAtLeast
<1>7. Interval <= (n \div l) * l
  <2> DEFINE q == n \div l
             m == q * l
  <2>1. m \in Int /\ n < m + l
    BY <1>2, <1>6
  <2> HIDE DEF m, q
  <2>2. Interval <= m
    BY <1>2, <2>1
  <2> QED
    BY <2>2 DEF m, q
<1> HIDE DEF n
<1> QED
  BY <1>1, <1>2, <1>3, <1>4, <1>6, <1>7 DEF l

(* The value of a pixel lies between the values whose pixels enclose it.   *)
LEMMA ValueBetween ==
  ASSUME width \in Widths, NEW pixels \in Int
  PROVE  /\ ValueAt(pixels) \in Int
         /\ \A v \in Int :
              /\ pixels * Interval + Minimum * ValidLength <= v * ValidLength
                   => ValueAt(pixels) <= v
              /\ v * ValidLength <= pixels * Interval + Minimum * ValidLength
                   => v <= ValueAt(pixels)
<1> DEFINE l == ValidLength
           n == pixels * Interval + Minimum * l
<1>1. l \in Nat \ {0} /\ n \in Int
  BY Geometry DEF ValidLength
<1>2. ValueAt(pixels) = IF n < 0 THEN -((-n) \div l) ELSE n \div l
  BY DEF ValueAt
<1> HIDE DEF n, l
<1>3. n \div l \in Int /\ (-n) \div l \in Int
  BY <1>1, Divided
<1>4. ASSUME NEW v \in Int, n <= v * l PROVE ValueAt(pixels) <= v
  <2>1. CASE n < 0
    <3>1. (-v) * l = -(v * l) /\ v * l \in Int
      BY <1>1
    <3>2. (-v) * l <= -n
      BY <1>1, <1>4, <3>1
    <3>3. -v <= (-n) \div l
      BY <1>1, <3>2, QuotientAtLeast
    <3> QED
      BY <1>2, <1>3, <2>1, <3>3
  <2>2. CASE ~(n < 0)
    <3>1. n < v * l + l
      BY <1>1, <1>4
    <3> QED
      BY <1>1, <1>2, <2>2, <3>1, QuotientAtMost
  <2> QED
    BY <2>1, <2>2
<1>5. ASSUME NEW v \in Int, v * l <= n PROVE v <= ValueAt(pixels)
  <2>1. CASE n < 0
    <3>1. (-v) * l = -(v * l) /\ v * l \in Int
      BY <1>1
    <3>2. -n < (-v) * l + l
      BY <1>1, <1>5, <3>1
    <3>3. (-n) \div l <= -v
      BY <1>1, <3>2, QuotientAtMost
    <3> QED
      BY <1>2, <1>3, <2>1, <3>3
  <2>2. CASE ~(n < 0)
    BY <1>1, <1>2, <1>5, <2>2, QuotientAtLeast
  <2> QED
    BY <2>1, <2>2
<1> QED
  BY <1>2, <1>3, <1>4, <1>5 DEF n, l

(* A handle whose left edge is rounded to p pixels from the left margin.   *)
LEMMA EdgeOf ==
  ASSUME width \in Widths, NEW v \in Int
  PROVE  LET p == ((v - Minimum) * ValidLength) \div Interval
         IN  /\ p \in Int
             /\ p * Interval + Minimum * ValidLength <= v * ValidLength
             /\ v * ValidLength < p * Interval + Minimum * ValidLength + Interval
<1> DEFINE n == (v - Minimum) * ValidLength
<1>1. n \in Int /\ n = v * ValidLength - Minimum * ValidLength
      /\ Minimum * ValidLength \in Int /\ Interval \in Nat \ {0}
  BY Geometry DEF ValidLength
<1> DEFINE p == n \div Interval
           m == p * Interval
<1>2. p \in Int /\ m <= n /\ n < m + Interval /\ m \in Int
  <2> HIDE DEF n
  <2>1. p \in Int /\ m <= n /\ n < m + Interval
    BY <1>1, Divided
  <2> HIDE DEF p
  <2> QED
    BY <1>1, <2>1
<1> DEFINE a == v * ValidLength
           b == Minimum * ValidLength
<1>3. n = a - b /\ a \in Int /\ b \in Int
  BY <1>1, Geometry DEF ValidLength
<1> HIDE DEF a, b, m, n
<1>4. m + b <= a /\ a < m + b + Interval
  BY <1>1, <1>2, <1>3
<1> QED
  BY <1>2, <1>4 DEF a, b, m, n

LEMMA ClampedIs ==
  ASSUME NEW v \in Int
  PROVE  /\ Clamped(v) \in Minimum .. Maximum
         /\ Clamped(v) \in {v, Minimum, Maximum}
         /\ v \in Minimum .. Maximum => Clamped(v) = v
         /\ Clamped(v) <= v \/ Clamped(v) = Minimum
         /\ v <= Clamped(v) \/ Clamped(v) = Maximum
BY SliderAssumption DEF Clamped

(* The left handle is dragged at most the value of a pixel past the right. *)
LEMMA DragFirstStops ==
  ASSUME SliderInv, NEW x \in Int
  PROVE  /\ DraggedFirst(x).to \in Int
         /\ DraggedFirst(x).to <= upper + PixelWorth(width)
<1> DEFINE l == ValidLength
           i == Interval
           q == ((upper - Minimum) * l) \div i
           p == x - delta - Margin - Half
           w == PixelWorth(width)
<1>1. /\ width \in Widths /\ upper \in Int /\ delta \in Int
  BY SliderAssumption DEF SliderInv
<1>2. /\ l \in Nat \ {0} /\ i \in Nat \ {0} /\ w \in Nat \ {0} /\ i <= w * l
      /\ Minimum \in Int /\ Side \in Nat /\ Margin \in Nat /\ Half \in Nat
      /\ Side <= 2 * Half + 1
  BY <1>1, Geometry DEF ValidLength
<1>3. q \in Int /\ q * i + Minimum * l <= upper * l
  BY <1>1, EdgeOf
<1>4. CASE x - delta + Half <= SecondX
  <2>1. DraggedFirst(x).to = ValueAt(p)
    BY <1>4 DEF DraggedFirst
  <2>2. SecondX = Margin + Side + q
    BY DEF SecondX
  <2> HIDE DEF q, l, i, w
  <2>3. p \in Int /\ p <= q + 1
    BY <1>1, <1>2, <1>3, <1>4, <2>2
  <2> HIDE DEF p
  <2>4. p * i <= (q + 1) * i /\ (q + 1) * i = q * i + i /\ q * i \in Int
        /\ p * i \in Int
    BY <1>2, <1>3, <2>3
  <2>5. (upper + w) * l = upper * l + w * l /\ upper * l \in Int /\ w * l \in Int
        /\ Minimum * l \in Int
    BY <1>1, <1>2
  <2> DEFINE pi == p * i
             qi == q * i
             ul == upper * l
             wl == w * l
             ml == Minimum * l
  <2>6. /\ pi <= qi + i /\ qi + ml <= ul /\ i <= wl
        /\ pi \in Int /\ qi \in Int /\ ul \in Int /\ wl \in Int /\ ml \in Int
    BY <1>2, <1>3, <2>4, <2>5
  <2> HIDE DEF pi, qi, ul, wl, ml
  <2>7. pi + ml <= ul + wl
    BY <1>2, <2>6
  <2>8. p * i + Minimum * l <= (upper + w) * l
    BY <2>5, <2>7 DEF pi, ul, wl, ml
  <2>9. upper + w \in Int
    BY <1>1, <1>2
  <2> QED
    BY <1>1, <2>1, <2>3, <2>8, <2>9, ValueBetween DEF l, i, w
<1>5. CASE ~(x - delta + Half <= SecondX)
  BY <1>1, <1>2, <1>5 DEF DraggedFirst
<1> QED
  BY <1>4, <1>5

(* And the right one at most as much past the left.                        *)
LEMMA DragSecondStops ==
  ASSUME SliderInv, NEW x \in Int
  PROVE  /\ DraggedSecond(x).to \in Int
         /\ lower <= DraggedSecond(x).to + PixelWorth(width)
<1> DEFINE l == ValidLength
           i == Interval
           q == ((lower - Minimum) * l) \div i
           p == x - delta - Margin - Half - Side
           w == PixelWorth(width)
<1>1. /\ width \in Widths /\ lower \in Int /\ delta \in Int
  BY SliderAssumption DEF SliderInv
<1>2. /\ l \in Nat \ {0} /\ i \in Nat \ {0} /\ w \in Nat \ {0} /\ i <= w * l
      /\ Minimum \in Int /\ Side \in Nat /\ Margin \in Nat /\ Half \in Nat
      /\ 2 * Half <= Side
  BY <1>1, Geometry DEF ValidLength
<1>3. q \in Int /\ lower * l < q * i + Minimum * l + i
  BY <1>1, EdgeOf
<1>4. CASE 2 * FirstX + 3 * Side <= 2 * (x - delta)
  <2>1. DraggedSecond(x).to = ValueAt(p)
    BY <1>4 DEF DraggedSecond
  <2>2. FirstX = Margin + q
    BY DEF FirstX
  <2> HIDE DEF q, l, i, w
  <2>3. p \in Int /\ q <= p
    BY <1>1, <1>2, <1>3, <1>4, <2>2
  <2> HIDE DEF p
  <2>4. q * i <= p * i /\ q * i \in Int /\ p * i \in Int
    BY <1>2, <1>3, <2>3
  <2>5. (lower - w) * l = lower * l - w * l /\ lower * l \in Int
        /\ w * l \in Int /\ Minimum * l \in Int
    BY <1>1, <1>2
  <2> DEFINE pi == p * i
             qi == q * i
             ll == lower * l
             wl == w * l
             ml == Minimum * l
  <2>6. /\ qi <= pi /\ ll < qi + ml + i /\ i <= wl
        /\ pi \in Int /\ qi \in Int /\ ll \in Int /\ wl \in Int /\ ml \in Int
    BY <1>2, <1>3, <2>4, <2>5
  <2> HIDE DEF pi, qi, ll, wl, ml
  <2>7. ll - wl <= pi + ml
    BY <1>2, <2>6
  <2>8. (lower - w) * l <= p * i + Minimum * l
    BY <2>5, <2>7 DEF pi, ll, wl, ml
  <2>9. lower - w \in Int
    BY <1>1, <1>2
  <2>10. ValueAt(p) \in Int /\ lower - w <= ValueAt(p)
    BY <1>1, <2>3, <2>8, <2>9, ValueBetween DEF l, i
  <2> QED
    BY <1>1, <1>2, <2>1, <2>10 DEF w
<1>5. CASE ~(2 * FirstX + 3 * Side <= 2 * (x - delta))
  BY <1>1, <1>2, <1>5 DEF DraggedSecond
<1> QED
  BY <1>4, <1>5

(* What a press or a drag sets leaves the handles within a pixel's value.  *)
Within(a, b) == \E w \in Widths : a <= b + PixelWorth(w)

Harmless(s) ==
  \/ s.set = "none"
  \/ s.set = "lower" /\ s.to \in Int /\ Within(s.to, upper)
  \/ s.set = "upper" /\ s.to \in Int /\ Within(lower, s.to)

LEMMA DragIsHarmless ==
  ASSUME SliderInv, NEW x \in Int
  PROVE  Harmless(DragSets(x))
<1>1. Harmless(DraggedFirst(x))
  BY DragFirstStops DEF Harmless, Within, DraggedFirst, SliderInv
<1>2. Harmless(DraggedSecond(x))
  BY DragSecondStops DEF Harmless, Within, DraggedSecond, SliderInv
<1> QED
  BY <1>1, <1>2 DEF DragSets

(* A page never takes a handle past the other one.                         *)
LEMMA PressIsHarmless ==
  ASSUME SliderInv, NEW x \in Int, NEW inside \in BOOLEAN
  PROVE  Harmless(PressSets(x, inside))
<1>1. PICK w \in Widths : lower <= upper + PixelWorth(w)
  BY DEF SliderInv, HandlesMeet
<1>2. /\ lower \in Int /\ upper \in Int
      /\ PageStep \in Int /\ PageStep >= 1 /\ PixelWorth(w) \in Nat
  <2>1. Interval \in Nat
    BY Geometry
  <2> QED
    BY <2>1, Geometry, SliderAssumption DEF SliderInv, PageStep
<1> DEFINE l1 == [set |-> "lower", to |-> lower - PageStep]
           l2 == [set |-> "lower", to |-> Lesser(lower + PageStep, upper)]
           u1 == [set |-> "upper", to |-> Greater(upper - PageStep, lower)]
           u2 == [set |-> "upper", to |-> upper + PageStep]
           no == [set |-> "none", to |-> 0]
<1>3. PressSets(x, inside) \in {l1, l2, u1, u2, no}
  BY DEF PressSets, Paged
<1>4. Harmless(l1) /\ Harmless(u2)
  <2>1. /\ lower - PageStep <= upper + PixelWorth(w)
        /\ lower <= upper + PageStep + PixelWorth(w)
    BY <1>1, <1>2
  <2> QED
    BY <1>2, <2>1 DEF Harmless, Within
<1>5. Harmless(l2) /\ Harmless(u1)
  <2>1. /\ Lesser(lower + PageStep, upper) \in Int
        /\ Lesser(lower + PageStep, upper) <= upper + PixelWorth(w)
        /\ Greater(upper - PageStep, lower) \in Int
        /\ lower <= Greater(upper - PageStep, lower) + PixelWorth(w)
    BY <1>2 DEF Lesser, Greater
  <2> QED
    BY <2>1 DEF Harmless, Within
<1>6. Harmless(no)
  BY DEF Harmless
<1> QED
  BY <1>3, <1>4, <1>5, <1>6

LEMMA SetValueKeeps ==
  ASSUME SliderInv, NEW s, Harmless(s), SetValue(s)
  PROVE  /\ lower' \in Minimum .. Maximum /\ upper' \in Minimum .. Maximum
         /\ Within(lower', upper')
<1>1. /\ lower \in Minimum .. Maximum /\ upper \in Minimum .. Maximum
      /\ Minimum \in Int /\ Maximum \in Int
      /\ \A w \in Widths : PixelWorth(w) \in Nat
  BY Geometry, SliderAssumption DEF SliderInv
<1>2. CASE s.set = "none"
  BY <1>1, <1>2 DEF SetValue, SliderInv, HandlesMeet, Within
<1>3. CASE s.set = "lower" /\ s.to \in Int /\ Within(s.to, upper)
  <2>1. PICK w \in Widths : s.to <= upper + PixelWorth(w)
    BY <1>3 DEF Within
  <2>2. lower' = Clamped(s.to) /\ upper' = upper
    BY <1>3 DEF SetValue
  <2>3. lower' \in Minimum .. Maximum /\ (lower' <= s.to \/ lower' = Minimum)
    BY <1>3, <2>2, ClampedIs
  <2>4. lower' <= upper + PixelWorth(w)
    BY <1>1, <1>3, <2>1, <2>3
  <2> QED
    BY <1>1, <2>2, <2>3, <2>4 DEF Within
<1>4. CASE s.set = "upper" /\ s.to \in Int /\ Within(lower, s.to)
  <2>1. PICK w \in Widths : lower <= s.to + PixelWorth(w)
    BY <1>4 DEF Within
  <2>2. upper' = Clamped(s.to) /\ lower' = lower
    BY <1>4 DEF SetValue
  <2>3. upper' \in Minimum .. Maximum /\ (s.to <= upper' \/ upper' = Maximum)
    BY <1>4, <2>2, ClampedIs
  <2>4. lower <= upper' + PixelWorth(w)
    BY <1>1, <1>4, <2>1, <2>3
  <2> QED
    BY <1>1, <2>2, <2>3, <2>4 DEF Within
<1> QED
  BY <1>2, <1>3, <1>4 DEF Harmless

-----------------------------------------------------------------------------
(* The window: both together.                                              *)
WindowInv == RangeInv /\ SliderInv

(* A value of the slider moves the range as setting a bound does.          *)
LEMMA FollowKeepsRange ==
  ASSUME RangeInv, SliderInv, NEW s, Harmless(s), Follow(s)
  PROVE  RangeInv'
<1> DEFINE bin == BinOf(Clamped(s.to))
<1>1. CASE UNCHANGED vars
  BY <1>1, SameRange DEF vars
<1>2. CASE s.set # "none" /\ (SetBinMin(bin) \/ SetBinMax(bin))
  <2>1. s.to \in Int
    BY <1>2 DEF Harmless
  <2>2. /\ Clamped(s.to) \in Int /\ fftSize \in Nat
        /\ 2 * Maximum \in Nat \ {0}
    BY <2>1, ClampedIs, SliderAssumption, WindowAssumption DEF RangeInv
  <2>3. Clamped(s.to) * fftSize \in Int
    BY <2>2
  <2>4. bin \in Int
    <3> DEFINE n == Clamped(s.to) * fftSize
               d == 2 * Maximum
    <3> HIDE DEF n, d
    <3>1. n \div d \in Int
      BY <2>2, <2>3, Divided DEF n, d
    <3> QED
      BY <3>1 DEF n, d, BinOf
  <2> HIDE DEF bin
  <2> QED
    BY <1>2, <2>4, SetRangeKeepsRange DEF SetBinMin, SetBinMax, RangeInv
<1> QED
  BY <1>1, <1>2 DEF Follow

LEMMA WindowStep == WindowInv /\ [WindowNext]_windowVars => WindowInv'
<1> SUFFICES ASSUME RangeInv, SliderInv, [WindowNext]_windowVars
             PROVE  RangeInv' /\ SliderInv'
  BY DEF WindowInv
<1>1. Places \subseteq Int /\ \A x \in Places : x \in Int
  BY SliderAssumption DEF Places, SliderInv
<1>2. ASSUME UNCHANGED sliderVars PROVE SliderInv'
  BY <1>2 DEF sliderVars, SliderInv, HandlesMeet
<1>3. ASSUME UNCHANGED vars PROVE RangeInv'
  BY <1>3, SameRange DEF vars
<1>4. CASE UNCHANGED windowVars
  BY <1>2, <1>3, <1>4 DEF windowVars
<1>5. CASE PressSlider
  <2>1. PICK x \in Places, level \in BOOLEAN, inside \in BOOLEAN :
          Press(x, level, inside) /\ Follow(PressSets(x, inside))
    BY <1>5 DEF PressSlider
  <2>2. Harmless(PressSets(x, inside))
    BY <1>1, PressIsHarmless
  <2>3. RangeInv'
    BY <2>1, <2>2, FollowKeepsRange
  <2>4. /\ width' = width /\ pressed' \in {"none", "first", "second"}
        /\ delta' \in Int /\ SetValue(PressSets(x, inside))
    BY <1>1, <2>1, Geometry, EdgeOf, SliderAssumption
    DEF Press, SliderInv, FirstX, SecondX
  <2>5. /\ lower' \in Minimum .. Maximum /\ upper' \in Minimum .. Maximum
        /\ Within(lower', upper')
    BY <2>2, <2>4, SetValueKeeps
  <2>6. SliderInv'
    BY <2>4, <2>5 DEF SliderInv, HandlesMeet, Within
  <2> QED
    BY <2>3, <2>6
<1>6. CASE DragSlider
  <2>1. PICK x \in Places : Drag(x) /\ Follow(DragSets(x))
    BY <1>6 DEF DragSlider
  <2>2. Harmless(DragSets(x))
    BY <1>1, DragIsHarmless
  <2>3. RangeInv'
    BY <2>1, <2>2, FollowKeepsRange
  <2>4. /\ lower' \in Minimum .. Maximum /\ upper' \in Minimum .. Maximum
        /\ Within(lower', upper')
    BY <2>1, <2>2, SetValueKeeps DEF Drag
  <2>5. SliderInv'
    BY <2>1, <2>4 DEF Drag, SliderInv, HandlesMeet, Within
  <2> QED
    BY <2>3, <2>5
<1>7. CASE LetGo
  BY <1>3, <1>7 DEF LetGo, Release, SliderInv, HandlesMeet
<1>8. CASE ResizeWindow
  BY <1>3, <1>8 DEF ResizeWindow, Resize, SliderInv, HandlesMeet
<1>9. ASSUME NEW size \in FftSizes, SetFftSize(size), UNCHANGED sliderVars
      PROVE  RangeInv' /\ SliderInv'
  BY <1>2, <1>9, ResetKeepsRange, PlotterAssumption DEF SetFftSize, RangeInv
<1>10. CASE TogglePlotMode /\ UNCHANGED sliderVars
  BY <1>2, <1>10, SameRange DEF TogglePlotMode
<1> QED
  BY <1>4, <1>5, <1>6, <1>7, <1>8, <1>9, <1>10 DEF WindowNext

(* The inductive invariant of the window, whose plotter is in mode "lower".*)
THEOREM WindowInvariant == WindowSpec => []WindowInv
<1>1. WindowInit /\ mode = "lower" => WindowInv
  <2> SUFFICES ASSUME WindowInit, mode = "lower" PROVE RangeInv /\ SliderInv
    BY DEF WindowInv
  <2>1. RangeInv
    BY RangeInitially DEF WindowInit
  <2>2. width \in Widths /\ lower = Minimum /\ upper = Maximum
        /\ pressed = "none" /\ delta = 0
    BY DEF WindowInit, SliderInit
  <2>3. Minimum <= Maximum + PixelWorth(width)
    BY <2>2, Geometry
  <2> QED
    BY <2>1, <2>2, <2>3, SliderAssumption DEF SliderInv, HandlesMeet
<1> QED
  BY <1>1, WindowStep, PTL DEF WindowSpec

(* The handles never pass each other by more than the value of a pixel.    *)
THEOREM HandlesStayApart == WindowSpec => []HandlesMeet
<1>1. WindowInv => HandlesMeet
  BY DEF WindowInv, SliderInv
<1> QED
  BY <1>1, WindowInvariant, PTL

(* The slider never gives the plotter a range it should not have.          *)
THEOREM SliderKeepsRange == WindowSpec => []RangeInFft
<1>1. WindowInv => RangeInFft
  BY DEF WindowInv, RangeInv
<1> QED
  BY <1>1, WindowInvariant, PTL

(* What it then shows is data, whatever was done to slider and sizes.      *)
THEOREM WindowShowsOnlyData ==
  ASSUME \A size \in FftSizes \cup {StartSize} : Mid(size) # FrameLen
  PROVE  WindowSpec => []ShownBinsAreData
<1>1. WindowInit => KnownSize
  BY DEF WindowInit, Init, KnownSize
<1>2. KnownSize /\ [WindowNext]_windowVars => KnownSize'
  BY DEF KnownSize, WindowNext, windowVars, vars, rangeVars, SetFftSize,
         UpdateBinRanges, PressSlider, DragSlider, Follow, SetBinMin, SetBinMax,
         SetBinRange, LetGo, ResizeWindow, TogglePlotMode
<1>3. WindowInv /\ KnownSize => ShownBinsAreData
  BY ShownBins DEF KnownSize, WindowInv
<1> QED
  BY <1>1, <1>2, <1>3, WindowInvariant, PTL DEF WindowSpec

-----------------------------------------------------------------------------
(* Induction over the natural numbers, for sets: every nonempty set of them *)
(* has a least element, and what contains 0 and each successor is all.     *)
LEMMA LeastOne ==
  ASSUME NEW T, T \subseteq Nat, T # {}
  PROVE  \E x \in T : \A y \in T : x <= y
<1> DEFINE R == OpToRel(<, Nat)
<1>1. \E x \in T : \A y \in T : ~(<<y, x>> \in R)
  <2>1. IsWellFoundedOn(R, Nat)
    BY NatLessThanWellFounded, Zenon
  <2> HIDE DEF R
  <2> QED
    BY <2>1, WFMin
<1> HIDE DEF R
<1>2. PICK x \in T : \A y \in T : ~(<<y, x>> \in R)
  BY <1>1
<1>3. ASSUME NEW y \in T PROVE x <= y
  <2>1. <<y, x>> \notin R
    BY <1>2
  <2>2. x \in Nat /\ y \in Nat
    OBVIOUS
  <2>3. y < x => <<y, x>> \in R
    BY <2>2 DEF R, OpToRel
  <2> QED
    BY <2>1, <2>2, <2>3
<1> QED
  BY <1>3

LEMMA NatSet ==
  ASSUME NEW S, 0 \in S, \A n \in Nat : n \in S => n + 1 \in S
  PROVE  Nat \subseteq S
<1> SUFFICES ASSUME NEW m \in Nat, m \notin S PROVE FALSE
  OBVIOUS
<1> DEFINE T == {n \in Nat : n \notin S}
<1>1. PICK x \in T : \A y \in T : x <= y
  <2>1. T \subseteq Nat /\ T # {}
    OBVIOUS
  <2> HIDE DEF T
  <2> QED
    BY <2>1, LeastOne
<1>2. x \in Nat /\ x # 0 /\ x - 1 \in Nat
  OBVIOUS
<1>3. x - 1 \notin T
  BY <1>1, <1>2
<1>4. x - 1 \in S
  BY <1>2, <1>3
<1>5. (x - 1) + 1 = x
  BY <1>2
<1> QED
  BY <1>2, <1>4, <1>5

(* s lists the sums of the first values of w, as many as n.                *)
Sums(s, w, n) ==
  /\ s \in [0 .. n -> Int] /\ s[0] = 0
  /\ \A i \in 1 .. n : s[i] = s[i - 1] + w[i]

AllInt(w, n) == \A i \in 1 .. n : w[i] \in Int

LEMMA SumsExist ==
  ASSUME NEW w, NEW m \in Nat, AllInt(w, m)
  PROVE  \E s : Sums(s, w, m)
<1> DEFINE S == {n \in Nat : n <= m => \E s : Sums(s, w, n)}
<1>1. 0 \in S
  <2>1. Sums([i \in 0 .. 0 |-> 0], w, 0)
    BY DEF Sums
  <2> QED
    BY <2>1
<1>2. ASSUME NEW n \in Nat, n \in S PROVE n + 1 \in S
  <2> SUFFICES ASSUME n + 1 <= m PROVE \E s : Sums(s, w, n + 1)
    OBVIOUS
  <2>1. PICK s : Sums(s, w, n)
    BY <1>2
  <2> DEFINE t == [i \in 0 .. n + 1 |->
                      IF i <= n THEN s[i] ELSE s[n] + w[n + 1]]
  <2>2. w[n + 1] \in Int
    BY DEF AllInt
  <2>3. t \in [0 .. n + 1 -> Int]
    BY <2>1, <2>2 DEF Sums
  <2>4. t[0] = 0
    BY <2>1 DEF Sums
  <2>5. ASSUME NEW i \in 1 .. n + 1 PROVE t[i] = t[i - 1] + w[i]
    <3>1. CASE i <= n
      BY <2>1, <3>1 DEF Sums
    <3>2. CASE i = n + 1
      BY <3>2
    <3> QED
      BY <3>1, <3>2
  <2> HIDE DEF t
  <2>6. Sums(t, w, n + 1)
    BY <2>3, <2>4, <2>5 DEF Sums
  <2> QED
    BY <2>6
<1> HIDE DEF S
<1>3. m \in S
  BY <1>1, <1>2, NatSet
<1> QED
  BY <1>3 DEF S

(* What a sum by recursion is: the last of the list.                       *)
LEMMA RecursiveSum ==
  ASSUME NEW w, NEW m \in Nat, NEW s, Sums(s, w, m), NEW f,
         f = [i \in 0 .. m |-> IF i = 0 THEN 0 ELSE f[i - 1] + w[i]]
  PROVE  f[m] = s[m]
<1> DEFINE S == {n \in Nat : n <= m => f[n] = s[n]}
<1>1. 0 \in S
  BY DEF Sums
<1>2. ASSUME NEW n \in Nat, n \in S PROVE n + 1 \in S
  <2> SUFFICES ASSUME n + 1 <= m PROVE f[n + 1] = s[n + 1]
    OBVIOUS
  <2>1. f[n] = s[n]
    BY <1>2
  <2>2. f[n + 1] = f[(n + 1) - 1] + w[n + 1]
    OBVIOUS
  <2>3. s[n + 1] = s[(n + 1) - 1] + w[n + 1]
    BY DEF Sums
  <2> QED
    BY <2>1, <2>2, <2>3
<1> HIDE DEF S
<1>3. m \in S
  BY <1>1, <1>2, NatSet
<1> QED
  BY <1>3 DEF S

LEMMA ByRecursion ==
  ASSUME NEW w, NEW m \in Nat, NEW s, Sums(s, w, m)
  PROVE  (CHOOSE f : f = [i \in 0 .. m |-> IF i = 0 THEN 0
                                           ELSE f[i - 1] + w[i]])[m] = s[m]
<1> DEFINE Is(f) == f = [i \in 0 .. m |-> IF i = 0 THEN 0 ELSE f[i - 1] + w[i]]
<1>1. Is(s)
  BY DEF Sums
<1>2. \A f : Is(f) => f[m] = s[m]
  BY RecursiveSum
<1>3. (CHOOSE f : Is(f))[m] = s[m]
  <2> HIDE DEF Is
  <2> QED
    BY <1>1, <1>2
<1> QED
  BY <1>3

LEMMA TotalIs ==
  ASSUME NEW w, Len(w) \in Nat, NEW s, Sums(s, w, Len(w))
  PROVE  Average!Total(w) = s[Len(w)]
BY ByRecursion DEF Average!Total

LEMMA SumOfFirstIs ==
  ASSUME NEW k \in Nat, NEW s, Sums(s, Buffered, k)
  PROVE  SumOfFirst(k) = s[k]
BY ByRecursion DEF SumOfFirst

-----------------------------------------------------------------------------
(* A place in the ring.                                                    *)
Wrapped(x) == x % Cap

(* The frames of a ring r between out and in.                              *)
Between(r, in, out) ==
  [i \in 1 .. Used(in, out) |-> r[Wrapped(out + i - 1)]]

LEMMA ModuloCap ==
  ASSUME NEW x \in 0 .. 2 * Cap - 1
  PROVE  /\ Wrapped(x) = IF x < Cap THEN x ELSE x - Cap
         /\ Wrapped(x) \in 0 .. Cap - 1
<1>1. Cap \in Nat /\ Cap >= 2
  BY PlotterAssumption
<1>2. CASE x < Cap
  BY <1>1, <1>2 DEF Wrapped
<1>3. CASE x >= Cap
  <2>1. x = Cap + (x - Cap) /\ x - Cap \in 0 .. Cap - 1
    BY <1>1, <1>3
  <2> QED
    BY <1>1, <1>3, <2>1 DEF Wrapped
<1> QED
  BY <1>1, <1>2, <1>3

LEMMA UsedIs ==
  ASSUME NEW in \in 0 .. Cap - 1, NEW out \in 0 .. Cap - 1
  PROVE  /\ Used(in, out) = IF in >= out THEN in - out ELSE (in + Cap) - out
         /\ Used(in, out) \in 0 .. Cap - 1
<1>1. Cap \in Nat /\ Cap >= 2
  BY PlotterAssumption
<1>2. in + Cap - out \in 0 .. 2 * Cap - 1
  BY <1>1
<1> DEFINE x == in + Cap - out
<1>3. Used(in, out) = Wrapped(x)
  BY DEF Used, Wrapped
<1>4. x = (in + Cap) - out
  BY <1>1
<1> HIDE DEF x
<1>5. Wrapped(x) = IF x < Cap THEN x ELSE x - Cap
  BY <1>2, ModuloCap DEF x
<1> QED
  BY <1>1, <1>3, <1>4, <1>5

(* Taking out the k oldest frames of a ring moves its first place.         *)
LEMMA FirstMoves ==
  ASSUME NEW in \in 0 .. Cap - 1, NEW out \in 0 .. Cap - 1,
         NEW u, u = Used(in, out), NEW k \in 0 .. u, u - k + 1 <= Cap - 1,
         NEW next, next = Wrapped(in + 1),
         NEW first, first = Wrapped(out + k)
  PROVE  /\ next \in 0 .. Cap - 1 /\ first \in 0 .. Cap - 1
         /\ Used(next, first) = u - k + 1
         /\ Wrapped(first + (u - k)) = in
         /\ \A i \in 1 .. u - k :
              /\ Wrapped(first + i - 1) = Wrapped(out + (k + i) - 1)
              /\ Wrapped(first + i - 1) \in 0 .. Cap - 1
              /\ Wrapped(first + i - 1) # in
<1>1. Cap \in Nat /\ Cap >= 2
  BY PlotterAssumption
<1>2. u = (IF in >= out THEN in - out ELSE (in + Cap) - out)
      /\ u \in 0 .. Cap - 1
  BY UsedIs
<1>3. k \in 0 .. u /\ u - k + 1 <= Cap - 1
  OBVIOUS
<1>4. \A x \in 0 .. 2 * Cap - 1 : Wrapped(x) = IF x < Cap THEN x ELSE x - Cap
  BY ModuloCap
<1>5. /\ next = (IF in + 1 < Cap THEN in + 1 ELSE 0)
      /\ next \in 0 .. Cap - 1
  <2>1. in + 1 \in 0 .. 2 * Cap - 1
    BY <1>1
  <2>2. next = IF in + 1 < Cap THEN in + 1 ELSE (in + 1) - Cap
    BY <1>4, <2>1
  <2>3. in + 1 < Cap \/ (in + 1) - Cap = 0
    BY <1>1
  <2> QED
    BY <1>1, <2>2, <2>3
<1>6. /\ first = (IF out + k < Cap THEN out + k ELSE (out + k) - Cap)
      /\ first \in 0 .. Cap - 1
  <2>1. out + k \in 0 .. 2 * Cap - 1
    BY <1>1, <1>2
  <2>2. first = IF out + k < Cap THEN out + k ELSE (out + k) - Cap
    BY <1>4, <2>1
  <2> QED
    BY <1>1, <1>2, <2>2
<1>7. Used(next, first) = u - k + 1
  <2>1. Used(next, first) =
          IF next >= first THEN next - first ELSE (next + Cap) - first
    BY <1>5, <1>6, UsedIs
  <2> DEFINE n == Used(next, first)
  <2> HIDE DEF n
  <2>2. n = IF next >= first THEN next - first ELSE (next + Cap) - first
    BY <2>1 DEF n
  <2>3. CASE in >= out
    BY <1>1, <1>2, <1>3, <1>5, <1>6, <2>2, <2>3 DEF n
  <2>4. CASE in < out
    BY <1>1, <1>2, <1>3, <1>5, <1>6, <2>2, <2>4 DEF n
  <2> QED
    BY <2>3, <2>4
<1>8. Wrapped(first + (u - k)) = in
  <2>1. first + (u - k) \in 0 .. 2 * Cap - 1
    BY <1>1, <1>2, <1>6
  <2>2. Wrapped(first + (u - k)) =
          IF first + (u - k) < Cap THEN first + (u - k)
          ELSE (first + (u - k)) - Cap
    BY <1>4, <2>1
  <2> QED
    BY <1>1, <1>2, <1>6, <2>2
<1>9. ASSUME NEW i \in 1 .. u - k
      PROVE  /\ Wrapped(first + i - 1) = Wrapped(out + (k + i) - 1)
             /\ Wrapped(first + i - 1) \in 0 .. Cap - 1
             /\ Wrapped(first + i - 1) # in
  <2> DEFINE a == first + i - 1
             b == out + (k + i) - 1
  <2>1. a \in 0 .. 2 * Cap - 1 /\ b \in 0 .. 2 * Cap - 1
    BY <1>1, <1>2, <1>6
  <2>2. /\ Wrapped(a) = IF a < Cap THEN a ELSE a - Cap
        /\ Wrapped(b) = IF b < Cap THEN b ELSE b - Cap
    <3> HIDE DEF a, b
    <3> QED
      BY <1>4, <2>1
  <2> QED
    BY <1>1, <1>2, <1>6, <2>1, <2>2
<1> QED
  BY <1>5, <1>6, <1>7, <1>8, <1>9

(* x is w without its k oldest values, of which d are left, and with v.    *)
Shifted(x, w, d, k, v) ==
  /\ \A i \in 1 .. d : x[i] = w[k + i]
  /\ x[d + 1] = v

(* The k oldest of u frames of ring r are taken out, v is put in.          *)
Replaced(r, in, out, u, k, v, q, next, first) ==
  /\ r \in [0 .. Cap - 1 -> Int] /\ v \in Int
  /\ in \in 0 .. Cap - 1 /\ out \in 0 .. Cap - 1
  /\ u = Used(in, out) /\ k \in 0 .. u /\ u - k + 1 <= Cap - 1
  /\ q = [r EXCEPT ![in] = v]
  /\ next = Wrapped(in + 1) /\ first = Wrapped(out + k)

(* With v put in, the others move up.                                      *)
LEMMA RingShifts ==
  ASSUME NEW r, NEW in, NEW out, NEW u, NEW k, NEW v,
         NEW q, NEW next, NEW first,
         Replaced(r, in, out, u, k, v, q, next, first)
  PROVE  /\ Used(next, first) = (u - k) + 1
         /\ Shifted(Between(q, next, first), Between(r, in, out), u - k, k, v)
<1>0. /\ r \in [0 .. Cap - 1 -> Int] /\ v \in Int
      /\ in \in 0 .. Cap - 1 /\ out \in 0 .. Cap - 1
      /\ u = Used(in, out) /\ k \in 0 .. u /\ u - k + 1 <= Cap - 1
      /\ q = [r EXCEPT ![in] = v]
      /\ next = Wrapped(in + 1) /\ first = Wrapped(out + k)
  BY DEF Replaced
<1>1. u \in Nat
  BY <1>0, UsedIs
<1>2. Used(next, first) = u - k + 1
  BY <1>0, FirstMoves
<1>3. Between(q, next, first) =
        [i \in 1 .. u - k + 1 |-> q[Wrapped(first + i - 1)]]
  BY <1>2 DEF Between
<1>4. Between(r, in, out) = [i \in 1 .. u |-> r[Wrapped(out + i - 1)]]
  BY <1>0 DEF Between
<1>5. ASSUME NEW i \in 1 .. u - k
      PROVE  Between(q, next, first)[i] = Between(r, in, out)[k + i]
  <2>1. /\ Wrapped(first + i - 1) = Wrapped(out + (k + i) - 1)
        /\ Wrapped(first + i - 1) \in 0 .. Cap - 1
        /\ Wrapped(first + i - 1) # in
    BY <1>0, FirstMoves
  <2>2. Between(q, next, first)[i] = q[Wrapped(first + i - 1)]
    <3>1. i \in 1 .. u - k + 1
      BY <1>0, <1>1
    <3> QED
      BY <1>3, <3>1
  <2>3. Between(r, in, out)[k + i] = r[Wrapped(out + (k + i) - 1)]
    <3>1. k + i \in 1 .. u
      BY <1>0, <1>1
    <3> QED
      BY <1>4, <3>1
  <2> QED
    BY <1>0, <2>1, <2>2, <2>3
<1>6. Between(q, next, first)[u - k + 1] = v
  <2>1. u - k + 1 \in 1 .. u - k + 1
    BY <1>0, <1>1
  <2>2. Between(q, next, first)[u - k + 1] = q[Wrapped(first + (u - k + 1) - 1)]
    BY <1>3, <2>1
  <2>3. first + (u - k + 1) - 1 = first + (u - k)
    <3>1. (u - k + 1) - 1 = u - k
      BY <1>0, <1>1
    <3> QED
      BY <3>1
  <2>4. Wrapped(first + (u - k)) = in
    BY <1>0, FirstMoves
  <2> QED
    BY <1>0, <2>2, <2>3, <2>4
<1> QED
  BY <1>2, <1>5, <1>6 DEF Shifted

(* The sums of a list without its first k values, and with v.              *)
LEMMA SumsShift ==
  ASSUME NEW w, NEW u \in Nat, NEW k \in 0 .. u, NEW v \in Int,
         NEW s, Sums(s, w, u), AllInt(w, u),
         NEW d, d = u - k, NEW x, Shifted(x, w, d, k, v)
  PROVE  \E t : Sums(t, x, d + 1) /\ t[d + 1] = (s[u] - s[k]) + v
<1> DEFINE n == d + 1
           t == [i \in 0 .. n |-> IF i < n THEN s[k + i] - s[k]
                                  ELSE (s[u] - s[k]) + v]
<1>1. n \in Nat \ {0}
  OBVIOUS
<1>2. s[k] \in Int /\ s[u] \in Int
  BY DEF Sums
<1>3. t \in [0 .. n -> Int]
  <2>1. ASSUME NEW i \in 0 .. n, i < n PROVE s[k + i] \in Int
    <3>1. k + i \in 0 .. u
      BY <2>1
    <3> QED
      BY <3>1 DEF Sums
  <2>2. ASSUME NEW i \in 0 .. n
        PROVE  (IF i < n THEN s[k + i] - s[k] ELSE (s[u] - s[k]) + v) \in Int
    BY <1>2, <2>1
  <2> QED
    BY <2>2
<1>4. t[0] = 0
  BY <1>1, <1>2
<1>5. t[n] = (s[u] - s[k]) + v
  BY <1>1
<1>6. ASSUME NEW i \in 1 .. n PROVE t[i] = t[i - 1] + x[i]
  <2>1. t[i - 1] = s[k + (i - 1)] - s[k]
    BY <1>1
  <2>2. CASE i < n
    <3>1. t[i] = s[k + i] - s[k]
      BY <2>2
    <3>2. x[i] = w[k + i]
      BY <2>2 DEF Shifted
    <3>3. k + i \in 1 .. u
      BY <2>2
    <3>4. s[k + i] = s[(k + i) - 1] + w[k + i]
      BY <3>3 DEF Sums
    <3>5. s[(k + i) - 1] \in Int /\ s[k + i] \in Int
      BY <3>3 DEF Sums
    <3>6. (k + i) - 1 = k + (i - 1)
      OBVIOUS
    <3>7. w[k + i] \in Int
      BY <3>3 DEF AllInt
    <3> QED
      BY <1>2, <2>1, <3>1, <3>2, <3>4, <3>5, <3>6, <3>7
  <2>3. CASE i = n
    <3>1. k + (i - 1) = u
      BY <2>3
    <3> QED
      BY <1>2, <1>5, <2>1, <2>3, <3>1 DEF Shifted
  <2> QED
    BY <2>2, <2>3
<1> HIDE DEF t
<1>7. Sums(t, x, n)
  BY <1>3, <1>4, <1>6 DEF Sums
<1> QED
  BY <1>5, <1>7

(* The n latest of m values.                                               *)
LastOf(z, y, n, m) ==
  /\ z \in Seq(Int) /\ Len(z) = n
  /\ \A i \in 1 .. n : z[i] = y[(m - n) + i]

(* The latest values of a list, when there are enough of them.             *)
LEMMA LatestOf ==
  ASSUME NEW y \in Seq(Int), NEW m \in Nat, Len(y) = m,
         NEW n \in Nat \ {0}, n <= m
  PROVE  LastOf(Average!Latest(y, n), y, n, m)
<1> DEFINE lo == m - n + 1
           z == SubSeq(y, lo, m)
<1>1. lo \in Int /\ m \in Int /\ lo <= m /\ m - lo + 1 = n /\ lo >= 1
  OBVIOUS
<1>2. Average!Latest(y, n) = z
  <2>1. CASE m = n
    <3>1. lo = 1 /\ Average!Latest(y, n) = y
      BY <2>1 DEF Average!Latest
    <3>2. SubSeq(y, 1, Len(y)) = y
      BY SubSeqFull
    <3> QED
      BY <3>1, <3>2
  <2>2. CASE ~(m <= n)
    BY <2>2 DEF Average!Latest
  <2> QED
    BY <2>1, <2>2
<1>3. \A i \in lo .. m : y[i] \in Int
  <2>1. \A i \in lo .. m : i \in 1 .. Len(y)
    BY <1>1
  <2> QED
    BY <2>1, ElementOfSeq
<1> HIDE DEF lo
<1>4. /\ z \in Seq(Int) /\ Len(z) = IF lo <= m THEN m - lo + 1 ELSE 0
      /\ \A i \in 1 .. m - lo + 1 : z[i] = y[lo + i - 1]
  BY <1>1, <1>3, SubSeqProperties
<1> HIDE DEF z
<1>5. \A i \in 1 .. n : lo + i - 1 = (m - n) + i
  BY DEF lo
<1> QED
  BY <1>1, <1>2, <1>4, <1>5 DEF LastOf

(* How many of u frames go before another comes.                           *)
Goes(k, u, n) == \/ u < n /\ k = 0
                 \/ n <= u /\ k = u - n + 1

(* The k oldest of u frames go, v comes.                                   *)
LEMMA LatestIs ==
  ASSUME NEW w \in Seq(Int), NEW u \in Nat, Len(w) = u, NEW v \in Int,
         NEW n \in Nat \ {0}, NEW k \in 0 .. u,
         Goes(k, u, n), NEW d \in Nat, d = u - k,
         NEW x \in Seq(Int), Len(x) = d + 1, Shifted(x, w, d, k, v)
  PROVE  x = Average!Latest(Append(w, v), n)
<1>1. PICK y : y = Append(w, v)
  OBVIOUS
<1>2. /\ y \in Seq(Int) /\ Len(y) = u + 1
      /\ \A i \in 1 .. u : y[i] = w[i]
      /\ y[u + 1] = v
  BY <1>1, AppendProperties
<1>0. /\ \A i \in 1 .. d : x[i] = w[k + i]
      /\ x[d + 1] = v
  BY DEF Shifted
<1>3. CASE u < n /\ k = 0
  <2>1. Average!Latest(y, n) = y
    BY <1>2, <1>3 DEF Average!Latest
  <2>2. d = u
    BY <1>3
  <2>3. \A i \in 1 .. u : x[i] = w[i]
    <3>1. \A i \in 1 .. u : k + i = i
      BY <1>3
    <3> QED
      BY <1>0, <2>2, <3>1
  <2>4. \A i \in 1 .. u + 1 : i \in 1 .. u \/ i = u + 1
    OBVIOUS
  <2>5. \A i \in 1 .. u + 1 : x[i] = y[i]
    BY <1>0, <1>2, <2>2, <2>3, <2>4
  <2>6. x = y
    BY <1>2, <2>2, <2>5, SeqEqual
  <2> QED
    BY <1>1, <2>1, <2>6
<1>4. CASE n <= u /\ k = u - n + 1
  <2>1. d + 1 = n /\ (u + 1) - n = k /\ u + 1 \in Nat /\ n <= u + 1
    BY <1>4
  <2>2. PICK z : z = Average!Latest(y, n)
    OBVIOUS
  <2>3. /\ z \in Seq(Int) /\ Len(z) = n
        /\ \A i \in 1 .. n : z[i] = y[k + i]
    <3>1. LastOf(z, y, n, u + 1)
      BY <1>2, <2>1, <2>2, LatestOf
    <3> QED
      BY <2>1, <3>1 DEF LastOf
  <2>4. \A i \in 1 .. d : x[i] = z[i]
    <3>1. \A i \in 1 .. d : i \in 1 .. n /\ k + i \in 1 .. u
      BY <1>4, <2>1
    <3>2. \A i \in 1 .. d : z[i] = w[k + i]
      BY <1>2, <2>3, <3>1
    <3> QED
      BY <1>0, <3>2
  <2>5. x[n] = z[n]
    <3>1. n \in 1 .. n /\ k + n = u + 1
      BY <1>4
    <3> QED
      BY <1>0, <1>2, <2>1, <2>3, <3>1
  <2>6. \A i \in 1 .. n : i \in 1 .. d \/ i = n
    BY <2>1
  <2>7. Len(x) = Len(z)
    BY <2>1, <2>3
  <2>8. \A i \in 1 .. n : x[i] = z[i]
    BY <2>4, <2>5, <2>6
  <2>9. x = z
    BY <2>3, <2>7, <2>8, SeqEqual
  <2> QED
    BY <1>1, <2>2, <2>9
<1> QED
  BY <1>3, <1>4 DEF Goes

-----------------------------------------------------------------------------
(* The ring holds frames, fewer than it has places, and the sums are those *)
(* of the frames it holds.                                                 *)
AverageInv ==
  /\ avgLen \in 1 .. Cap - 1
  /\ ring \in [0 .. Cap - 1 -> Int]
  /\ bufIn \in 0 .. Cap - 1 /\ bufOut \in 0 .. Cap - 1
  /\ sum = Average!Total(Buffered)

LEMMA RingIsASeq ==
  ASSUME NEW r \in [0 .. Cap - 1 -> Int],
         NEW in \in 0 .. Cap - 1, NEW out \in 0 .. Cap - 1
  PROVE  /\ Between(r, in, out) \in Seq(Int)
         /\ Len(Between(r, in, out)) = Used(in, out)
         /\ Used(in, out) \in 0 .. Cap - 1
<1> DEFINE u == Used(in, out)
<1>1. u \in 0 .. Cap - 1 /\ u \in Nat
  BY UsedIs
<1>2. Cap \in Nat /\ Cap >= 2
  BY PlotterAssumption
<1>3. Between(r, in, out) \in [1 .. u -> Int]
  <2>1. ASSUME NEW i \in 1 .. u
        PROVE  r[Wrapped(out + i - 1)] \in Int
    <3>1. out + i - 1 \in 0 .. 2 * Cap - 1
      BY <1>1, <1>2
    <3>2. Wrapped(out + i - 1) \in 0 .. Cap - 1
      BY <3>1, ModuloCap
    <3> QED
      BY <3>2
  <2>2. Between(r, in, out) = [i \in 1 .. u |-> r[Wrapped(out + i - 1)]]
    BY DEF Between
  <2> QED
    BY <2>1, <2>2
<1> HIDE DEF u
<1>4. \A f \in [1 .. u -> Int] : f \in Seq(Int) /\ Len(f) = u
  BY <1>1
<1> QED
  BY <1>1, <1>3, <1>4 DEF u

(* A frame: the window is the latest frames, the sums are theirs.          *)
LEMMA FrameAdds ==
  ASSUME AverageInv, NEW v \in Levels, AddFrame(v), UNCHANGED avgLen
  PROVE  AverageInv' /\ Average!Add(v)
<1>0. PICK u : u = Used(bufIn, bufOut)
  OBVIOUS
<1>1. /\ avgLen \in 1 .. Cap - 1 /\ ring \in [0 .. Cap - 1 -> Int]
      /\ bufIn \in 0 .. Cap - 1 /\ bufOut \in 0 .. Cap - 1
      /\ sum = Average!Total(Buffered) /\ v \in Int
      /\ Cap \in Nat /\ Cap >= 2
  BY PlotterAssumption DEF AverageInv
<1>2. /\ Buffered \in Seq(Int) /\ Len(Buffered) = u /\ u \in 0 .. Cap - 1
      /\ Buffered = Between(ring, bufIn, bufOut)
  <2>1. Buffered = Between(ring, bufIn, bufOut)
    BY DEF Buffered, Between, Wrapped
  <2> QED
    BY <1>0, <1>1, <2>1, RingIsASeq
<1>3. u = IF bufIn >= bufOut THEN bufIn - bufOut ELSE (bufIn + Cap) - bufOut
  BY <1>0, <1>1, UsedIs
<1>4. PICK w : w = Buffered
  OBVIOUS
<1>5. PICK s : Sums(s, w, u)
  <2>1. AllInt(w, u)
    BY <1>2, <1>4, ElementOfSeq DEF AllInt
  <2>2. u \in Nat
    BY <1>2
  <2> QED
    BY <2>1, <2>2, SumsExist
(* How many frames go, in both branches of the code.                       *)
<1>6. PICK k \in 0 .. u :
        /\ Goes(k, u, avgLen)
        /\ bufOut' = Wrapped(bufOut + k)
        /\ sum' = (s[u] - s[k]) + v
  <2>1. s[u] \in Int /\ sum = s[u]
    <3>1. Len(w) \in Nat /\ Len(w) = u
      BY <1>2, <1>4
    <3>2. Average!Total(w) = s[u]
      BY <1>5, <3>1, TotalIs
    <3> QED
      BY <1>1, <1>4, <1>5, <3>1, <3>2 DEF Sums
  <2>2. CASE avgLen <= 1
    <3>1. sum' = v /\ bufOut' = bufIn /\ avgLen = 1
      BY <1>1, <2>2 DEF AddFrame
    <3>2. Wrapped(bufOut + u) = bufIn
      <4>1. bufOut + u \in 0 .. 2 * Cap - 1
        BY <1>1, <1>2
      <4>2. Wrapped(bufOut + u) = IF bufOut + u < Cap THEN bufOut + u
                                  ELSE (bufOut + u) - Cap
        BY <4>1, ModuloCap
      <4> QED
        BY <1>1, <1>2, <1>3, <4>2
    <3>3. u \in 0 .. u /\ Goes(u, u, 1)
      BY <1>2 DEF Goes
    <3>4. (s[u] - s[u]) + v = v
      BY <1>1, <2>1
    <3> QED
      BY <3>1, <3>2, <3>3, <3>4
  <2>3. CASE avgLen > 1
    <3>1. PICK k : k = Surplus
      OBVIOUS
    <3>2. k = IF u < avgLen THEN 0 ELSE u - avgLen + 1
      BY <1>0, <3>1 DEF Surplus
    <3>3. k \in 0 .. u /\ Goes(k, u, avgLen)
      BY <1>1, <1>2, <2>3, <3>2 DEF Goes
    <3>4. sum' = sum - SumOfFirst(k) + v /\ bufOut' = (bufOut + k) % Cap
      BY <1>1, <2>3, <3>1 DEF AddFrame
    <3>5. Sums([i \in 0 .. k |-> s[i]], Buffered, k)
      BY <1>2, <1>4, <1>5, <3>3 DEF Sums
    <3>6. SumOfFirst(k) = s[k]
      BY <3>3, <3>5, SumOfFirstIs
    <3> QED
      BY <2>1, <3>3, <3>4, <3>6 DEF Wrapped
  <2> QED
    BY <1>1, <2>2, <2>3
<1>7. PICK next, first, q, x : /\ next = bufIn' /\ first = bufOut' /\ q = ring'
                              /\ x = Buffered'
  OBVIOUS
<1>8. /\ next = Wrapped(bufIn + 1) /\ first = Wrapped(bufOut + k)
      /\ q = [ring EXCEPT ![bufIn] = v] /\ x = Between(q, next, first)
  <2>1. Buffered' = Between(ring', bufIn', bufOut')
    BY DEF Buffered, Between, Wrapped
  <2> QED
    BY <1>6, <1>7, <2>1 DEF AddFrame, Wrapped
<1>9. PICK d \in Nat : d = u - k
  BY <1>2, <1>6
<1>10. u - k + 1 <= Cap - 1
  BY <1>1, <1>2, <1>6 DEF Goes
<1>11. /\ Used(next, first) = d + 1
       /\ Shifted(x, w, d, k, v)
  <2>1. /\ Used(next, first) = (u - k) + 1
        /\ Shifted(Between(q, next, first), Between(ring, bufIn, bufOut),
                   u - k, k, v)
    <3>1. Replaced(ring, bufIn, bufOut, u, k, v, q, next, first)
      BY <1>0, <1>1, <1>6, <1>8, <1>10 DEF Replaced
    <3> QED
      BY <3>1, RingShifts
  <2> QED
    BY <1>2, <1>4, <1>8, <1>9, <2>1
<1>12. /\ avgLen' = avgLen /\ ring' \in [0 .. Cap - 1 -> Int]
       /\ bufIn' \in 0 .. Cap - 1 /\ bufOut' \in 0 .. Cap - 1
  <2>1. next \in 0 .. Cap - 1 /\ first \in 0 .. Cap - 1
    BY <1>0, <1>1, <1>6, <1>8, <1>10, FirstMoves
  <2> QED
    BY <1>1, <1>7, <1>8, <2>1
<1>13. x \in Seq(Int) /\ Len(x) = d + 1
  <2>1. /\ q \in [0 .. Cap - 1 -> Int]
        /\ next \in 0 .. Cap - 1 /\ first \in 0 .. Cap - 1
    BY <1>7, <1>12
  <2> QED
    <3>1. /\ Between(q, next, first) \in Seq(Int)
          /\ Len(Between(q, next, first)) = Used(next, first)
      BY <2>1, RingIsASeq
    <3> QED
      BY <1>8, <1>11, <3>1
<1>14. sum' = Average!Total(x)
  <2>1. AllInt(w, u)
    BY <1>2, <1>4, ElementOfSeq DEF AllInt
  <2>2. u \in Nat
    BY <1>2
  <2>3. PICK t : Sums(t, x, d + 1) /\ t[d + 1] = (s[u] - s[k]) + v
    BY <1>1, <1>5, <1>6, <1>9, <1>11, <2>1, <2>2, SumsShift
  <2>4. Len(x) \in Nat
    BY <1>13
  <2> QED
    BY <1>6, <1>13, <2>3, <2>4, TotalIs
<1>15. x = Average!Latest(Append(w, v), avgLen)
  <2>1. /\ w \in Seq(Int) /\ Len(w) = u /\ u \in Nat
        /\ avgLen \in Nat \ {0}
    BY <1>1, <1>2, <1>4
  <2> QED
    BY <1>1, <1>6, <1>9, <1>11, <1>13, <2>1, LatestIs
<1>16. AverageInv'
  BY <1>1, <1>7, <1>12, <1>14 DEF AverageInv
<1> QED
  BY <1>4, <1>7, <1>14, <1>15, <1>16 DEF Average!Add

LEMMA ZerosSumToZero ==
  ASSUME NEW w \in Seq(Int), \A i \in 1 .. Len(w) : w[i] = 0
  PROVE  Average!Total(w) = 0
<1> DEFINE s == [i \in 0 .. Len(w) |-> 0]
<1>1. Len(w) \in Nat
  OBVIOUS
<1>2. Sums(s, w, Len(w)) /\ s[Len(w)] = 0
  BY <1>1 DEF Sums
<1> HIDE DEF s
<1> QED
  BY <1>1, <1>2, TotalIs

LEMMA AverageInitially == Init => AverageInv /\ Average!Init
<1> SUFFICES ASSUME Init PROVE AverageInv /\ Average!Init
  OBVIOUS
<1>1. /\ Cap \in Nat /\ Cap >= 2
      /\ ring = [i \in 0 .. Cap - 1 |-> 0] /\ bufIn = 0 /\ bufOut = 0
      /\ avgLen = 1 /\ sum = 0
  BY PlotterAssumption DEF Init
<1>2. Used(bufIn, bufOut) = 0
  BY <1>1, UsedIs
<1>3. Buffered = <<>>
  BY <1>2 DEF Buffered
<1>4. Average!Total(Buffered) = 0
  <2>1. PICK w : w = Buffered
    OBVIOUS
  <2>2. w \in Seq(Int) /\ \A i \in 1 .. Len(w) : w[i] = 0
    BY <1>3, <2>1
  <2> QED
    BY <2>1, <2>2, ZerosSumToZero
<1> QED
  BY <1>1, <1>3, <1>4 DEF AverageInv, Average!Init

(* A change of size or mode: as many frames of silence.                    *)
LEMMA ResetSilences ==
  ASSUME AverageInv, NEW m, NEW size, UpdateBinRanges(m, size),
         UNCHANGED avgLen
  PROVE  AverageInv' /\ Average!Silence
<1>1. /\ ring \in [0 .. Cap - 1 -> Int]
      /\ bufIn \in 0 .. Cap - 1 /\ bufOut \in 0 .. Cap - 1
  BY DEF AverageInv
<1>2. /\ sum' = 0 /\ bufIn' = bufIn /\ bufOut' = bufOut
      /\ ring' = [i \in 0 .. Cap - 1 |-> 0]
  BY DEF UpdateBinRanges
<1>3. PICK q : q = ring'
  OBVIOUS
<1>4. q \in [0 .. Cap - 1 -> Int]
  BY <1>2, <1>3
<1>5. Buffered = Between(ring, bufIn, bufOut)
  BY DEF Buffered, Between, Wrapped
<1>6. Buffered' = Between(q, bufIn, bufOut)
  BY <1>2, <1>3 DEF Buffered, Between, Wrapped
<1>7. /\ Len(Buffered) = Used(bufIn, bufOut)
      /\ Used(bufIn, bufOut) \in 0 .. Cap - 1
  BY <1>1, <1>5, RingIsASeq
<1>8. Buffered' \in Seq(Int) /\ Len(Buffered') = Used(bufIn, bufOut)
  BY <1>1, <1>4, <1>6, RingIsASeq
<1>9. Buffered' = [i \in 1 .. Len(Buffered) |-> 0]
  <2>1. ASSUME NEW i \in 1 .. Used(bufIn, bufOut)
        PROVE  q[Wrapped(bufOut + i - 1)] = 0
    <3>1. bufOut + i - 1 \in 0 .. 2 * Cap - 1
      BY <1>1, <1>7, PlotterAssumption
    <3>2. Wrapped(bufOut + i - 1) \in 0 .. Cap - 1
      BY <3>1, ModuloCap
    <3> QED
      BY <1>2, <1>3, <3>2
  <2>2. Between(q, bufIn, bufOut) = [i \in 1 .. Used(bufIn, bufOut) |->
                                       q[Wrapped(bufOut + i - 1)]]
    BY DEF Between
  <2> QED
    BY <1>6, <1>7, <2>1, <2>2
<1>10. Average!Total(Buffered') = 0
  <2>1. PICK w : w = Buffered'
    OBVIOUS
  <2>2. w \in Seq(Int) /\ \A i \in 1 .. Len(w) : w[i] = 0
    BY <1>7, <1>8, <1>9, <2>1
  <2>3. Average!Total(w) = 0
    BY <2>2, ZerosSumToZero
  <2> QED
    BY <2>1, <2>3
<1>11. sum' = Average!Total(Buffered)'
  BY <1>2, <1>10
<1>12. AverageInv'
  BY <1>1, <1>2, <1>3, <1>4, <1>11 DEF AverageInv
<1> QED
  BY <1>2, <1>9, <1>12 DEF Average!Silence

LEMMA SameAverage ==
  AverageInv /\ UNCHANGED <<avgLen, ringVars>> =>
    AverageInv' /\ UNCHANGED Average!vars
BY DEF AverageInv, ringVars, Average!vars, Buffered, Used, Average!Total

LEMMA LengthSets ==
  ASSUME AverageInv, NEW n \in 0 .. Cap + 1, SetAvgLen(n)
  PROVE  AverageInv' /\ \E len \in 1 .. Cap - 1 : Average!SetLen(len)
<1>1. BoundedLen(n) \in 1 .. Cap - 1
  BY PlotterAssumption DEF BoundedLen
<1>2. /\ avgLen' = BoundedLen(n) /\ UNCHANGED <<ring, bufIn, bufOut, sum>>
  BY DEF SetAvgLen, ringVars
<1>3. Buffered' = Buffered
  BY <1>2 DEF Buffered, Used
<1>4. Average!SetLen(BoundedLen(n))
  BY <1>2, <1>3 DEF Average!SetLen
<1>5. AverageInv'
  BY <1>1, <1>2, <1>3 DEF AverageInv
<1> QED
  BY <1>1, <1>4, <1>5

(* Every step of the plotter is one of the average, or leaves it alone.    *)
LEMMA AverageStep ==
  ASSUME AverageInv, [Next]_vars
  PROVE  AverageInv' /\ [Average!Next]_(Average!vars)
<1>1. CASE UNCHANGED vars
  BY <1>1, SameAverage DEF vars
<1>2. ASSUME NEW size \in FftSizes, SetFftSize(size)
      PROVE  AverageInv' /\ Average!Silence
  BY <1>2, ResetSilences DEF SetFftSize
<1>3. ASSUME NEW m \in Modes, SetDisplayMode(m)
      PROVE  AverageInv' /\ Average!Silence
  BY <1>3, ResetSilences DEF SetDisplayMode
<1>4. ASSUME NEW b \in Bounds, SetBinMin(b) \/ SetBinMax(b)
      PROVE  AverageInv' /\ UNCHANGED Average!vars
  BY <1>4, SameAverage DEF SetBinMin, SetBinMax, SetBinRange
<1>5. CASE TogglePlotMode
  BY <1>5, SameAverage DEF TogglePlotMode
<1>6. ASSUME NEW p \in BOOLEAN, SetPaused(p)
      PROVE  AverageInv' /\ UNCHANGED Average!vars
  BY <1>6, SameAverage DEF SetPaused
<1>7. ASSUME NEW n \in 0 .. Cap + 1, SetAvgLen(n)
      PROVE  AverageInv' /\ \E len \in 1 .. Cap - 1 : Average!SetLen(len)
  BY <1>7, LengthSets
<1>8. ASSUME NEW v \in Levels, PlotFreq(v)
      PROVE  AverageInv' /\ Average!Add(v)
  BY <1>8, FrameAdds DEF PlotFreq
<1> QED
  BY <1>1, <1>2, <1>3, <1>4, <1>5, <1>6, <1>7, <1>8 DEF Next, Average!Next

(* The plotter implements the sliding average: the sums it shows are those *)
(* of the last frames, for any capacity, levels, lengths and sizes.        *)
THEOREM ShowsTheSlidingAverage == Spec => SumsLastFrames
<1>1. Init => AverageInv /\ Average!Init
  BY AverageInitially
<1>2. AverageInv /\ [Next]_vars => AverageInv' /\ [Average!Next]_(Average!vars)
  BY AverageStep
<1> QED
  BY <1>1, <1>2, PTL DEF Spec, SumsLastFrames, Average!Spec
=============================================================================
