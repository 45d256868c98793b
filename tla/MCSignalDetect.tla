---------------------------- MODULE MCSignalDetect ----------------------------
(* Four sub-channels, two of them at an edge.  A step of 10 dB above the   *)
(* noise is worth one point and two steps four; the thresholds are scaled  *)
(* from 15, 10 and 5 to 5, 3 and 1.  With the noise the second lowest of   *)
(* four energies, two sub-channels are always quiet; what they measure     *)
(* makes no difference, so it is the noise itself, 0.                      *)
(*                                                                         *)
(* A behaviour is one of the detection, which takes the noise for the      *)
(* energy of its rank, or one of quickselect, which finds it: of any rank  *)
(* in any array of five elements with three values, equal ones among them. *)
EXTENDS SignalDetect, QuickSelect

VARIABLE driver \* "windows" or "selection"

MCEnergies ==
  {e \in [Sub -> 0 .. 2] : Cardinality({s \in Sub : e[s] = 0}) >= 2}
MCValues == 0 .. 2

MCInit ==
  /\ Init /\ driver \in {"windows", "selection"}
  /\ SelectInit
  /\ driver = "windows" => given = [p \in Index |-> 0] /\ rank = 0
MCNext ==
  \/ driver = "windows" /\ Next /\ UNCHANGED <<selectVars, driver>>
  \/ driver = "selection" /\ SelectNext /\ UNCHANGED <<vars, driver>>
MCSpec == MCInit /\ [][MCNext]_<<vars, selectVars, driver>>
=============================================================================
