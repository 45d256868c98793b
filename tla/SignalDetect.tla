----------------------------- MODULE SignalDetect -----------------------------
(***************************************************************************)
(* Which sub-channels carry a signal (vlfchannel.cpp:464-523).  Once every *)
(* sub-channel has a window of samples, its energy is compared with the    *)
(* noise, the energy of a fixed rank among all of them.  A sub-channel     *)
(* collects points in subch_flag while it stands out, and is reported in   *)
(* subch_state with a hysteresis; while a neighbour is reported it collects*)
(* none.  The sub-channels are judged one after another, each seeing what  *)
(* the earlier ones of the same window have become.                        *)
(*                                                                         *)
(* Energies are whole steps of StepDb decibels.                            *)
(***************************************************************************)
EXTENDS Integers, FiniteSets

CONSTANTS
  NumSub,        \* NUM_CH_SUB
  Energies,      \* what a window of every sub-channel may measure
  StepDb,        \* dB of one energy step
  NoiseRank,     \* rank of the noise among the energies (133 of 334)
  SnrThreshold,  \* SNR_THREASHOLD
  HaveSigMax, HaveSigThd, NoSigThd,
  NeighborRange,
  MaxWindows     \* bound: windows of one behaviour

Sub == 0 .. NumSub - 1

ASSUME DetectAssumption ==
  /\ NumSub \in Nat \ {0}
  /\ Energies \subseteq [Sub -> Nat]
  /\ StepDb \in Nat /\ SnrThreshold \in Nat
  /\ NoiseRank \in Sub
  /\ HaveSigMax \in Nat /\ HaveSigThd \in Nat /\ NoSigThd \in Nat
  /\ NoSigThd < HaveSigThd /\ HaveSigThd <= HaveSigMax
  /\ NeighborRange \in Nat
  /\ MaxWindows \in Nat

VARIABLES
  energy, \* subch_energy
  noise,  \* noise_energy_db of the window
  i,      \* the sub-channel to judge; NumSub: the window is done
  flag,   \* subch_flag
  state,  \* subch_state
  windows, \* windows so far
  standing \* history: windows in a row in which a sub-channel stood out

vars == <<energy, noise, i, flag, state, windows, standing>>

(* The energy at index r of the sorted energies: what quickselect returns. *)
HasRank(e, v, r) ==
  /\ Cardinality({s \in Sub : e[s] < v}) <= r
  /\ r < Cardinality({s \in Sub : e[s] <= v})

Noises(e) == {v \in {e[s] : s \in Sub} : HasRank(e, v, NoiseRank)}

Init ==
  /\ energy = [s \in Sub |-> 0] /\ noise = 0
  /\ i = NumSub
  /\ flag = [s \in Sub |-> 0]
  /\ state = [s \in Sub |-> FALSE]
  /\ windows = 0
  /\ standing = [s \in Sub |-> 0]

-----------------------------------------------------------------------------
SnrHigh(e, n) == StepDb * (e - n) - SnrThreshold

(* Mutant: the quotient is truncated.                                      *)
LevelSnrTruncated(high) == high \div 3

(* ceil(snr_high / 3)                                                      *)
LevelSnr(high) == (high + 2) \div 3

Neighbors(s) == {t \in Sub : t # s /\ t >= s - NeighborRange
                                   /\ t <= s + NeighborRange}

(* Mutant: the loop ends before the neighbour behind.                      *)
NeighborBeforeHasSignal(s) == \E t \in Neighbors(s) : t < s /\ state[t]

NeighborHasSignal(s) == \E t \in Neighbors(s) : state[t]

(* The first and the last sub-channel always are: is_local_extreme does not*)
(* use the result of the comparison there.                                 *)
IsLocalExtreme(e, s) ==
  \/ s = 0 \/ s = NumSub - 1
  \/ e[s] > e[s - 1] /\ e[s] > e[s + 1]

(* What a sub-channel needs to collect points in this window.              *)
StandsOut(s) ==
  /\ SnrHigh(energy[s], noise) > 0
  /\ ~NeighborHasSignal(s)
  /\ IsLocalExtreme(energy, s)

Quiet(s) == SnrHigh(energy[s], noise) <= 0

(* A window of every sub-channel is full.                                  *)
Measure ==
  /\ i = NumSub /\ windows < MaxWindows
  /\ energy' \in Energies
  /\ noise' \in Noises(energy')
  /\ i' = 0 /\ windows' = windows + 1
  /\ UNCHANGED <<flag, state, standing>>

Least(a, b) == IF a < b THEN a ELSE b

(* Mutant: a sub-channel that does not stand out counts as a quiet one.    *)
NewFlagStandOutOrFall(s) ==
  IF StandsOut(s)
    THEN Least(flag[s] + LevelSnr(SnrHigh(energy[s], noise)), HaveSigMax)
    ELSE Least(flag[s] - 1, 0)

(* What the loop makes of subch_flag[s].                                   *)
NewFlag(s) ==
  IF Quiet(s) THEN Least(flag[s] - 1, 0)
  ELSE IF StandsOut(s)
    THEN Least(flag[s] + LevelSnr(SnrHigh(energy[s], noise)), HaveSigMax)
    ELSE flag[s]

(* subch_state[s], from its flag f after the update.                       *)
NewState(s, f) ==
  \/ ~state[s] /\ f >= HaveSigThd
  \/ state[s] /\ f > NoSigThd

(* A turn of the detection's loop.                                         *)
Judge ==
  /\ i < NumSub
  /\ flag' = [flag EXCEPT ![i] = NewFlag(i)]
  /\ state' = [state EXCEPT ![i] = NewState(i, NewFlag(i))]
  /\ standing' = [standing EXCEPT ![i] = IF StandsOut(i) THEN @ + 1 ELSE 0]
  /\ i' = i + 1
  /\ UNCHANGED <<energy, noise, windows>>

Next == Measure \/ Judge

Spec == Init /\ [][Next]_vars

-----------------------------------------------------------------------------
TypeOK ==
  /\ energy \in [Sub -> Nat] /\ noise \in Nat
  /\ i \in 0 .. NumSub
  /\ flag \in [Sub -> Int] /\ \A s \in Sub : flag[s] <= HaveSigMax
  /\ state \in [Sub -> BOOLEAN]
  /\ windows \in Nat /\ standing \in [Sub -> Nat]

(* Two sub-channels within NEIGHBOR_RANGE are never reported at once       *)
(* (vlfchannel.cpp:495-503, 511): of a signal that spills into the next    *)
(* sub-channel one is reported.  It takes the order of the loop, the       *)
(* hysteresis and the neighbours' flags that stand still.                  *)
NoAdjacentSignals ==
  \A s \in Sub : \A t \in Neighbors(s) : ~(state[s] /\ state[t])

(* The hysteresis: a reported sub-channel is above the lower threshold, one*)
(* that is not reported below the upper one (vlfchannel.cpp:517-523).      *)
Hysteresis ==
  \A s \in Sub : IF state[s] THEN flag[s] > NoSigThd ELSE flag[s] < HaveSigThd

(* A sub-channel is reported only from a window in which it stands out, and*)
(* it stops being reported only in a window in which it is quiet: while a  *)
(* neighbour is stronger, or is reported, nothing changes for it.          *)
ReportsFollowEvidence ==
  [][\A s \in Sub :
       /\ ~state[s] /\ state'[s] => StandsOut(s)
       /\ state[s] /\ ~state'[s] => Quiet(s)]_vars

(* What a signal waits for (vlfchannel.cpp:508-518): quiet windows are     *)
(* counted below zero without a limit, so a sub-channel that begins to     *)
(* stand out is reported at the latest after HAVE_SIG_THD windows more     *)
(* than it had before, one point for each, and a long silence delays it.   *)
ReportedOnceDebtIsPaid ==
  \A s \in Sub :
    s < i /\ standing[s] >= HaveSigThd + (windows - standing[s]) => state[s]
=============================================================================
