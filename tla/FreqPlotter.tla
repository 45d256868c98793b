----------------------------- MODULE FreqPlotter -----------------------------
(***************************************************************************)
(* The spectrum and waterfall plotter (freqplotter.cpp): which bins of a   *)
(* frame it shows, and the running average over the last frames.  Frames   *)
(* have FrameLen bins, whatever FFT size the plotter is set to; a frame is *)
(* one level, the same in all of its bins.  Both plotters of the program   *)
(* are made with a size, so that fft_size_inited is true from the start.   *)
(***************************************************************************)
EXTENDS Integers, Sequences

CONSTANTS
  FrameLen,  \* bins in a frame of the channel
  FftSizes,  \* sizes set_fft_size is called with
  StartSize, \* the constructor's
  Modes,     \* FFTDisplayMode of the plotters
  Bounds,    \* values set_bin_min and set_bin_max are called with
  Levels,    \* level of a frame
  Cap,       \* AVG_BUFFER_CAPACITY
  MapX       \* map_xsize, columns of the waterfall

ASSUME PlotterAssumption ==
  /\ FrameLen \in Nat \ {0} /\ FftSizes \subseteq Nat
  /\ StartSize \in Nat /\ StartSize >= 2
  /\ Modes \subseteq {"sequential", "shifted", "lower", "upper"}
  /\ Levels \subseteq Int /\ Cap \in Nat /\ Cap >= 2 /\ MapX \in Nat \ {0}
  /\ Bounds \subseteq Int

VARIABLES
  mode,      \* m_fft_mode
  fftSize,   \* m_fft_size
  binMin,    \* bin_min
  binMax,    \* bin_max
  waterfall, \* waterfall_started
  spectrum,  \* m_plot_mode is SPECTRUM
  paused,    \* plot_paused
  avgLen,    \* avg_len
  ring,      \* avg_buffer
  bufIn,     \* buf_in
  bufOut,    \* buf_out
  sum        \* sum_vector

rangeVars == <<mode, fftSize, binMin, binMax>>
viewVars  == <<waterfall, spectrum, paused>>
ringVars  == <<ring, bufIn, bufOut, sum>>
vars == <<rangeVars, viewVars, avgLen, ringVars>>

Mid(size) == size \div 2

(* update_bin_ranges: the first and last bin of each display mode.         *)
LimitMin(m, size) ==
  CASE m = "sequential" -> 0
    [] m = "shifted"    -> Mid(size) + 1 - size
    [] m = "lower"      -> 0
    [] m = "upper"      -> Mid(size) + 1

LimitMax(m, size) == IF m \in {"shifted", "lower"} THEN Mid(size) ELSE size - 1

(* Bins in sum_vector and in each of avg_buffer.                           *)
Bins == LimitMax(mode, fftSize) - LimitMin(mode, fftSize) + 1

Init ==
  /\ mode \in Modes /\ fftSize = StartSize
  /\ binMin = LimitMin(mode, fftSize) /\ binMax = LimitMax(mode, fftSize)
  /\ waterfall = FALSE /\ spectrum = TRUE /\ paused = FALSE
  /\ avgLen = 1 /\ ring = [i \in 0 .. Cap - 1 |-> 0]
  /\ bufIn = 0 /\ bufOut = 0 /\ sum = 0

-----------------------------------------------------------------------------
(* Mutant: the sizes are kept apart, the shown range is not reset.         *)
UpdateBinRangesLazily(m, size) ==
  /\ mode' = m /\ fftSize' = size
  /\ UNCHANGED <<binMin, binMax>>
  /\ sum' = 0 /\ ring' = [i \in 0 .. Cap - 1 |-> 0]
  /\ UNCHANGED <<bufIn, bufOut>>

(* update_bin_ranges: everything shown, sums and averages cleared.         *)
UpdateBinRanges(m, size) ==
  /\ mode' = m /\ fftSize' = size
  /\ binMin' = LimitMin(m, size) /\ binMax' = LimitMax(m, size)
  /\ sum' = 0 /\ ring' = [i \in 0 .. Cap - 1 |-> 0]
  /\ UNCHANGED <<bufIn, bufOut>>

SetFftSize(size) ==
  /\ size >= 2
  /\ UpdateBinRanges(mode, size)
  /\ UNCHANGED <<viewVars, avgLen>>

SetDisplayMode(m) ==
  /\ UpdateBinRanges(m, fftSize)
  /\ UNCHANGED <<viewVars, avgLen>>

(* Mutant: an inverted range is not refused.                               *)
SetBinRangeAny(min, max) ==
  /\ binMin' = IF min <= LimitMin(mode, fftSize) THEN LimitMin(mode, fftSize)
                                                 ELSE min
  /\ binMax' = IF max >= LimitMax(mode, fftSize) THEN LimitMax(mode, fftSize)
                                                 ELSE max
  /\ UNCHANGED <<mode, fftSize, viewVars, avgLen, ringVars>>

(* set_bin_range: an empty range is refused, the others are cut.           *)
SetBinRange(min, max) ==
  /\ min < max
  /\ binMin' = IF min <= LimitMin(mode, fftSize) THEN LimitMin(mode, fftSize)
                                                 ELSE min
  /\ binMax' = IF max >= LimitMax(mode, fftSize) THEN LimitMax(mode, fftSize)
                                                 ELSE max
  /\ UNCHANGED <<mode, fftSize, viewVars, avgLen, ringVars>>

SetBinMin(min) == SetBinRange(min, binMax)
SetBinMax(max) == SetBinRange(binMin, max)

(* set_plot_mode, toggle_plot_mode: the waterfall, once shown, goes on.    *)
TogglePlotMode ==
  /\ spectrum' = ~spectrum
  /\ waterfall' = (waterfall \/ spectrum)
  /\ UNCHANGED <<rangeVars, paused, avgLen, ringVars>>

SetPaused(p) ==
  /\ paused' = p
  /\ UNCHANGED <<rangeVars, waterfall, spectrum, avgLen, ringVars>>

-----------------------------------------------------------------------------
(* Mutant: as long as the buffer itself.                                   *)
BoundedLenWhole(n) == IF n < 1 THEN 1 ELSE IF n > Cap THEN Cap ELSE n

(* qBound(1, len, avg_buffer.size() - 1).                                  *)
BoundedLen(n) == IF n < 1 THEN 1 ELSE IF n > Cap - 1 THEN Cap - 1 ELSE n

SetAvgLen(n) ==
  /\ avgLen' = BoundedLen(n)
  /\ UNCHANGED <<rangeVars, viewVars, ringVars>>

(* avg_buffer_used.                                                        *)
Used(in, out) == (in + Cap - out) % Cap

(* The frame is long enough for the display mode.                          *)
LongEnough ==
  IF mode \in {"sequential", "shifted"} THEN FrameLen >= fftSize
                                        ELSE FrameLen >= Mid(fftSize)

(* The frames of the buffer, oldest first.                                 *)
Buffered == [i \in 1 .. Used(bufIn, bufOut) |-> ring[(bufOut + i - 1) % Cap]]

(* How many of them the loop takes out before a new one is put in.         *)
Surplus ==
  IF Used(bufIn, bufOut) < avgLen THEN 0 ELSE Used(bufIn, bufOut) - avgLen + 1

SumOfFirst(n) ==
  LET subtracted[i \in 0 .. n] ==
        IF i = 0 THEN 0 ELSE subtracted[i - 1] + Buffered[i]
  IN  subtracted[n]

(* The sums and the buffer of the average take in a frame.                 *)
AddFrame(v) ==
  /\ IF avgLen <= 1
       THEN sum' = v /\ bufOut' = bufIn
       ELSE sum' = sum - SumOfFirst(Surplus) + v
            /\ bufOut' = (bufOut + Surplus) % Cap
  /\ ring' = [ring EXCEPT ![bufIn] = v]
  /\ bufIn' = (bufIn + 1) % Cap

(* plot_freq: a frame that comes too soon after the last, or while the     *)
(* plotter is paused, or is too short, changes nothing.                    *)
PlotFreq(v) ==
  /\ ~paused /\ LongEnough
  /\ AddFrame(v)
  /\ UNCHANGED <<rangeVars, viewVars, avgLen>>

(* What it then draws: bin_count bins from bin_min on, negative ones being  *)
(* the upper half of the transform.                                        *)
BinCount ==
  IF binMax - binMin + 1 < FrameLen THEN binMax - binMin + 1 ELSE FrameLen
Bin(i) == IF i < 0 THEN fftSize + i ELSE i

(* Bins of sum_vector that the spectrum shows (freq_bin_step is 1).        *)
SpectrumReads == {Bin(binMin + i) : i \in 0 .. BinCount - 1}

(* lround(a / b) for b > 0, halves away from zero.                         *)
Rounded(a, b) ==
  IF a < 0 THEN -((2 * (-a) + b) \div (2 * b)) ELSE (2 * a + b) \div (2 * b)

(* Bins of the frame that the columns of the waterfall show.               *)
WaterfallReads ==
  LET size == (MapX * BinCount) \div (binMax - binMin + 1)
  IN  {Bin(Rounded(binMin * size + i * (BinCount - 1), size)) :
         i \in 0 .. size - 1}

Next ==
  \/ \E size \in FftSizes : SetFftSize(size)
  \/ \E m \in Modes : SetDisplayMode(m)
  \/ \E b \in Bounds : SetBinMin(b) \/ SetBinMax(b)
  \/ TogglePlotMode
  \/ \E p \in BOOLEAN : SetPaused(p)
  \/ \E n \in 0 .. Cap + 1 : SetAvgLen(n)
  \/ \E v \in Levels : PlotFreq(v)

Spec == Init /\ [][Next]_vars

-----------------------------------------------------------------------------
TypeOK ==
  /\ mode \in Modes /\ fftSize \in Nat
  /\ binMin \in Int /\ binMax \in Int
  /\ {waterfall, spectrum, paused} \subseteq BOOLEAN
  /\ avgLen \in 1 .. Cap - 1
  /\ ring \in [0 .. Cap - 1 -> Levels \cup {0}]
  /\ bufIn \in 0 .. Cap - 1 /\ bufOut \in 0 .. Cap - 1
  /\ sum \in Int

(* The shown sum is that of the last frames and of no others, through      *)
(* every change of the average's length and of the FFT size                *)
(* (freqplotter.cpp:313-346, 599-607, 646-653).                            *)
Average == INSTANCE SlidingAverage
             WITH MaxLen <- Cap - 1, window <- Buffered, len <- avgLen,
                  total <- sum
SumsLastFrames == Average!Spec

(* The shown range is never inverted and never outside the FFT, in         *)
(* whatever order sizes and the two bounds are set: the number of points   *)
(* and the division by the range's width (freqplotter.cpp:357, 385) rest   *)
(* on it.                                                                  *)
RangeInFft ==
  LimitMin(mode, fftSize) <= binMin /\ binMin < binMax
    /\ binMax <= LimitMax(mode, fftSize)

(* A frame that passes the length check is shown from bins that exist and  *)
(* that it has written (freqplotter.cpp:300-311, 351-394).                 *)
ShownBinsAreData ==
  LongEnough =>
    /\ spectrum => SpectrumReads \subseteq 0 .. Bins - 1
    /\ spectrum => SpectrumReads \subseteq 0 .. FrameLen - 1
    /\ waterfall => WaterfallReads \subseteq 0 .. FrameLen - 1
=============================================================================
