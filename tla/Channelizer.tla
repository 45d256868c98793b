----------------------------- MODULE Channelizer -----------------------------
(***************************************************************************)
(* The samples' way through a channel, from the package that               *)
(* slot_business_package_enqueued has accepted to the energies of the 334  *)
(* sub-channels.  Every stage keeps what it cannot use yet in a circular   *)
(* buffer of liquid-dsp, whose push refuses a sample when it is full (the  *)
(* result is not looked at).  A buffer is its number of samples here; the  *)
(* filters' arithmetic is left out, but not where each output goes: the    *)
(* outputs of the second stage are numbered by a running index that nothing*)
(* but the number of drained blocks keeps below the 334 sub-channels.      *)
(*                                                                         *)
(*   package -> chlza_inbuf -> chlza -> chlzb_inbuf[j] -> chlzb[j]         *)
(*           -> ch_inbuf -> plot           -> fft_inbuf[i] -> energy       *)
(***************************************************************************)
EXTENDS Integers, Sequences

CONSTANTS
  PackSamples, \* samples of a business package (256)
  DecA,        \* dec_factor_chlza (8)
  CapA,        \* chlza_inbuf (512)
  DecB,        \* dec_factor_chlzb (80)
  NumBinsB,    \* num_ch_chlzb (160)
  CapB,        \* chlzb_inbuf[j] (320)
  FftSub,      \* fftsize_subch (512)
  CapSub,      \* MAX_FFTSIZE_SUBCH, fft_inbuf[i] (4096)
  CapIf,       \* MAX_FFTSIZE_CH, ch_inbuf (65536)
  IfRead,      \* MIN_FFTSIZE_CH << fft_size_idx (8192)
  MaxPackages  \* bound: packages of one behaviour

NumChlzb == 5   \* NUM_CHLZB
NumSub == 334   \* NUM_CH_SUB
Chlzb == 0 .. NumChlzb - 1
Sub == 0 .. NumSub - 1

ASSUME ChannelizerAssumption ==
  /\ {PackSamples, DecA, CapA, DecB, CapB, FftSub, CapSub, CapIf, IfRead}
       \subseteq Nat \ {0}
  /\ NumBinsB = 2 * DecB
  /\ IfRead <= CapIf
  /\ MaxPackages \in Nat

(* How the sizes go together.  The numbers of bins in OutBins are for 80.  *)
ASSUME SizesAssumption ==
  /\ DecB = 80
  /\ CapIf % PackSamples = 0 /\ IfRead % PackSamples = 0
  /\ PackSamples <= DecA * DecB
  /\ DecA + PackSamples <= CapA + 1
  /\ 2 * DecB <= CapB /\ FftSub <= CapSub

VARIABLES
  stage,    \* "package", "plot", "first", "second" or "energy"
  inA,      \* samples in chlza_inbuf
  inB,      \* samples in every chlzb_inbuf
  inIf,     \* samples in ch_inbuf
  inSub,    \* samples in every fft_inbuf
  j,        \* the second-stage channelizer that is drained
  idxSub,   \* idx_subch
  packages, \* packages received
  frames,   \* spectra sent to the wideband plotter
  windows,  \* energy windows of every sub-channel
  unit      \* history: the frequency of the last output a sub-channel got

vars == <<stage, inA, inB, inIf, inSub, j, idxSub, packages, frames, windows,
          unit>>

none == -1

Init ==
  /\ stage = "package"
  /\ inA = 0 /\ inIf = 0
  /\ inB = [b \in Chlzb |-> 0]
  /\ inSub = [i \in Sub |-> 0]
  /\ j = 0 /\ idxSub = 0
  /\ packages = 0 /\ frames = 0
  /\ windows = [i \in Sub |-> 0]
  /\ unit = [i \in Sub |-> none]

-----------------------------------------------------------------------------
(* cbuffer_push, n times, of a buffer with size samples and room for cap.  *)
Pushed(size, n, cap) == IF size + n <= cap THEN size + n ELSE cap

(* 256 samples go to both buffers.                                         *)
Unpack ==
  /\ stage = "package" /\ packages < MaxPackages
  /\ stage' = "plot"
  /\ packages' = packages + 1
  /\ inA' = Pushed(inA, PackSamples, CapA)
  /\ inIf' = Pushed(inIf, PackSamples, CapIf)
  /\ UNCHANGED <<inB, inSub, j, idxSub, frames, windows, unit>>

(* Mutant: > for >=.                                                       *)
PlotIfPastThreshold ==
  /\ stage = "plot"
  /\ stage' = "first"
  /\ IF inIf > CapIf
       THEN inIf' = inIf - IfRead /\ frames' = frames + 1
       ELSE UNCHANGED <<inIf, frames>>
  /\ UNCHANGED <<inA, inB, inSub, j, idxSub, packages, windows, unit>>

(* The wideband spectrum, once ch_inbuf holds MAX_FFTSIZE_CH samples.      *)
PlotIf ==
  /\ stage = "plot"
  /\ stage' = "first"
  /\ IF inIf >= CapIf
       THEN inIf' = inIf - IfRead /\ frames' = frames + 1
       ELSE UNCHANGED <<inIf, frames>>
  /\ UNCHANGED <<inA, inB, inSub, j, idxSub, packages, windows, unit>>

(* A turn of chlza's loop: DecA samples give one to each chlzb_inbuf.      *)
AnalyseFirst ==
  /\ stage = "first" /\ inA >= DecA
  /\ inB' = [b \in Chlzb |-> Pushed(inB[b], 1, CapB)]
  /\ inA' = inA - DecA
  /\ UNCHANGED <<stage, inIf, inSub, j, idxSub, packages, frames, windows, unit>>

LeaveFirst ==
  /\ stage = "first" /\ inA < DecA
  /\ stage' = "second" /\ j' = 0 /\ idxSub' = 0
  /\ UNCHANGED <<inA, inB, inIf, inSub, packages, frames, windows, unit>>

(* Bins lo .. hi in order.                                                 *)
Bins(lo, hi) == [n \in 1 .. hi - lo + 1 |-> lo + n - 1]

(* Mutant: the bins above the center first.                                *)
OutBinsUpperFirst(b) ==
  CASE b = 0            -> Bins(0, 40) \o Bins(147, 159)
    [] b \in 1 .. 3     -> Bins(0, 40) \o Bins(121, 159)
    [] b = NumChlzb - 1 -> Bins(0, 0) \o Bins(121, 159)

(* Mutant: the last channelizer's center output is forgotten.              *)
OutBinsWithoutLast(b) ==
  IF b = 0 THEN Bins(147, 159) \o Bins(0, 40)
  ELSE Bins(121, 159) \o (IF b = NumChlzb - 1 THEN <<>> ELSE Bins(0, 40))

(* The outputs of chlzb[b] that are kept, in the order they are pushed.    *)
OutBins(b) ==
  CASE b = 0            -> Bins(147, 159) \o Bins(0, 40)
    [] b \in 1 .. 3     -> Bins(121, 159) \o Bins(0, 40)
    [] b = NumChlzb - 1 -> Bins(121, 159) \o Bins(0, 0)

(* The frequency of bin n of chlzb[b], in steps of 0.15 kHz: chlzb[b] is   *)
(* fed from output 1 + b of chlza, whose center is DecB steps further than *)
(* that of output b; a bin from DecB on lies below the center.             *)
Unit(b, n) == DecB * (1 + b) + (IF n < DecB THEN n ELSE n - NumBinsB)

(* A turn of chlzb[j]'s loop.  An index past the last sub-channel is out of*)
(* the QVector: idxSub shows it, and no buffer of the model changes.       *)
AnalyseSecond ==
  /\ stage = "second" /\ j < NumChlzb /\ inB[j] >= DecB
  /\ \E bins \in {OutBins(j)} :
       \E got \in {idxSub .. idxSub + Len(bins) - 1} :
         /\ inSub' = [i \in Sub |->
                        IF i \in got THEN Pushed(inSub[i], 1, CapSub)
                                     ELSE inSub[i]]
         /\ unit' = [i \in Sub |->
                       IF i \in got THEN Unit(j, bins[i - idxSub + 1])
                                    ELSE unit[i]]
         /\ idxSub' = idxSub + Len(bins)
  /\ inB' = [inB EXCEPT ![j] = @ - DecB]
  /\ UNCHANGED <<stage, inA, inIf, j, packages, frames, windows>>

NextChannelizer ==
  /\ stage = "second" /\ j < NumChlzb /\ inB[j] < DecB
  /\ j' = j + 1
  /\ UNCHANGED <<stage, inA, inB, inIf, inSub, idxSub, packages, frames,
                 windows, unit>>

LeaveSecond ==
  /\ stage = "second" /\ j = NumChlzb
  /\ stage' = "energy"
  /\ UNCHANGED <<inA, inB, inIf, inSub, j, idxSub, packages, frames, windows,
                 unit>>

(* The sub-channels the loops of step 4 reach: they stop at the first      *)
(* whose buffer does not hold a window.                                    *)
Full ==
  LET short == {h \in Sub : inSub[h] < FftSub}
  IN  {i \in Sub : \A h \in short : i < h}

(* v, with n more for the sub-channels in full.                            *)
Add(v, full, n) == [i \in Sub |-> IF i \in full THEN v[i] + n ELSE v[i]]

(* Energy, noise, detection and release of every full window.              *)
Measure ==
  /\ stage = "energy"
  /\ stage' = "package"
  /\ inSub' = Add(inSub, Full, -FftSub)
  /\ windows' = Add(windows, Full, 1)
  /\ UNCHANGED <<inA, inB, inIf, j, idxSub, packages, frames, unit>>

Next ==
  \/ Unpack \/ PlotIf \/ AnalyseFirst \/ LeaveFirst
  \/ AnalyseSecond \/ NextChannelizer \/ LeaveSecond \/ Measure

Spec == Init /\ [][Next]_vars

-----------------------------------------------------------------------------
TypeOK ==
  /\ stage \in {"package", "plot", "first", "second", "energy"}
  /\ inA \in 0 .. CapA /\ inIf \in 0 .. CapIf
  /\ inB \in [Chlzb -> 0 .. CapB]
  /\ inSub \in [Sub -> 0 .. CapSub]
  /\ j \in 0 .. NumChlzb /\ idxSub \in Nat
  /\ packages \in Nat /\ frames \in Nat
  /\ windows \in [Sub -> Nat]
  /\ unit \in [Sub -> Int]

(* No sample is lost on the way (vlfchannel.cpp:293-294, 342, 366-371,     *)
(* 388-393, 407-410, where the result of the push is not looked at): a     *)
(* sub-channel has been given exactly one output for every DecA * DecB     *)
(* samples received, the wideband plotter all of them.                     *)
NoSampleLost ==
  stage = "package" =>
    /\ packages * PackSamples = inIf + IfRead * frames
    /\ \A b \in Chlzb, i \in Sub :
         packages * PackSamples =
           inA + DecA * (inB[b] + DecB * (inSub[i] + FftSub * windows[i]))

(* The sub-channels fill in step, so that the loops of step 4, which stop  *)
(* at the first one without a window, and the noise estimate, which looks  *)
(* at the first one only, cover all of them or none (vlfchannel.cpp:421,   *)
(* 465, 491, 541); the running index that deals them their samples never   *)
(* leaves the vector of sub-channels: no chlzb_inbuf is drained twice for  *)
(* a package (vlfchannel.cpp:366-410).                                     *)
InStep ==
  /\ idxSub <= NumSub
  /\ stage = "energy" => \A i \in Sub : inSub[i] = inSub[0]

(* Sub-channel i is the one whose frequency the program displays for it,   *)
(* 10.05 kHz + i * 0.15 kHz (vlfchannel.cpp:526, mainwindow.cpp:68): in    *)
(* steps of 0.15 kHz, 67 + i.                                              *)
FrequencyOfSubchannel == \A i \in Sub : unit[i] \in {none, 67 + i}
=============================================================================
