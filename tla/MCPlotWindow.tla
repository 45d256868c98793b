---------------------------- MODULE MCPlotWindow ----------------------------
(* Frames of five bins instead of 4097, sizes on both sides of every       *)
(* parity and of FrameLen, a slider with values up to 6 whose handles are  *)
(* three pixels wide, on a widget with fewer and with more pixels than     *)
(* values.                                                                 *)
EXTENDS PlotWindow

VARIABLE driver \* who drives the plotter: any caller, or the window

MCSizes == {1, 2, 3, 4, 5, 6, 8, 9, 13}
MCSizesTwice == MCSizes \cup {2 * FrameLen}
MCBounds == -7 .. 7

MCInit == WindowInit /\ driver \in {"caller", "window"}
                     /\ (driver = "window" => mode = "lower")
                     /\ (driver = "caller" => width = 12)
MCNext ==
  \/ driver = "caller" /\ Next /\ UNCHANGED <<sliderVars, driver>>
  \/ driver = "window" /\ WindowNext /\ UNCHANGED driver
MCSpec == MCInit /\ [][MCNext]_<<windowVars, driver>>
MCWindowSpec == MCSpec /\ driver = "window"
=============================================================================
