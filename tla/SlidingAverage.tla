--------------------------- MODULE SlidingAverage ---------------------------
(***************************************************************************)
(* What the time average of the spectrum plotter promises: the sum that is *)
(* shown is the sum of the last frames, as many as the average's length    *)
(* allows.  A change of the FFT size turns the frames so far into silence  *)
(* without shortening the window.                                          *)
(***************************************************************************)
EXTENDS Integers, Sequences

CONSTANTS
  Levels, \* what a bin of a frame may hold
  MaxLen  \* the largest length of the average

VARIABLES
  window, \* the frames in the average, oldest first
  len,    \* how many there may be
  total   \* the sum that is shown, before it is divided

vars == <<window, len, total>>

Total(frames) ==
  LET sum[i \in 0 .. Len(frames)] ==
        IF i = 0 THEN 0 ELSE sum[i - 1] + frames[i]
  IN  sum[Len(frames)]
Latest(frames, n) ==
  IF Len(frames) <= n THEN frames
  ELSE SubSeq(frames, Len(frames) - n + 1, Len(frames))

Init == window = <<>> /\ len = 1 /\ total = 0

Add(v) ==
  /\ window' = Latest(Append(window, v), len)
  /\ total' = Total(window')
  /\ UNCHANGED len

SetLen(n) == len' = n /\ UNCHANGED <<window, total>>

Silence ==
  /\ window' = [i \in 1 .. Len(window) |-> 0] /\ total' = 0
  /\ UNCHANGED len

Next ==
  \/ \E v \in Levels : Add(v)
  \/ \E n \in 1 .. MaxLen : SetLen(n)
  \/ Silence

Spec == Init /\ [][Next]_vars
=============================================================================
