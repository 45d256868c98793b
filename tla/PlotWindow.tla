----------------------------- MODULE PlotWindow -----------------------------
(***************************************************************************)
(* The wideband plotter and the controls of the receiver's window that     *)
(* reach its shown range (mainwindow.cpp:15-73): the slider, whose every   *)
(* value is turned into a bin, the FFT size and the change of picture.     *)
(* The slider never hears of a range the plotter has refused or reset.     *)
(***************************************************************************)
EXTENDS FreqPlotter, RangeSlider

(* SetRange(0, 300): values are divided by the largest.                    *)
ASSUME WindowAssumption == Maximum > 0

windowVars == <<vars, sliderVars>>

WindowInit == Init /\ SliderInit

(* The slider's range is twice as wide as the part of the FFT it stands    *)
(* for: lo * fft_size / 600 with values up to 300.                         *)
BinOf(value) == (value * fftSize) \div (2 * Maximum)

(* What the plotter makes of a value: it refuses an empty range.           *)
Follow(s) ==
  LET bin == BinOf(Clamped(s.to))
  IN  \/ s.set = "lower" /\ bin < binMax /\ SetBinMin(bin)
      \/ s.set = "upper" /\ binMin < bin /\ SetBinMax(bin)
      \/ /\ \/ s.set = "none"
            \/ s.set = "lower" /\ bin >= binMax
            \/ s.set = "upper" /\ binMin >= bin
         /\ UNCHANGED vars

(* The mouse may leave the widget while a handle is held.                  *)
Places == -2 .. width + 2

PressSlider ==
  \E x \in Places, level \in BOOLEAN, inside \in BOOLEAN :
    Press(x, level, inside) /\ Follow(PressSets(x, inside))
DragSlider == \E x \in Places : Drag(x) /\ Follow(DragSets(x))
LetGo == Release /\ UNCHANGED vars
ResizeWindow == \E w \in Widths : Resize(w) /\ UNCHANGED vars

(* The controls; frames and the length of the average, which concern       *)
(* neither the slider nor the range, are FreqPlotter's.                    *)
WindowNext ==
  \/ PressSlider
  \/ DragSlider
  \/ LetGo
  \/ ResizeWindow
  \/ \E size \in FftSizes : SetFftSize(size) /\ UNCHANGED sliderVars
  \/ TogglePlotMode /\ UNCHANGED sliderVars

WindowSpec == WindowInit /\ mode = "lower" /\ [][WindowNext]_windowVars
=============================================================================
