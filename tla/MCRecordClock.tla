---------------------------- MODULE MCRecordClock ----------------------------
(* A day of two minutes, a minute of three files, a file of four seconds.  *)
(* A behaviour is one of the clock or one of the writer, with any caller:  *)
(* two directories, two names, a buffer of three bytes filled by ones and  *)
(* twos.                                                                   *)
EXTENDS RecordClock, BufferedWriter

VARIABLE driver \* "clock" or "writer"

MCDays == 0 .. 2

MCInit ==
  /\ ClockInit /\ WriterInit /\ driver \in {"clock", "writer"}
MCNext ==
  \/ driver = "clock" /\ ClockNext /\ UNCHANGED <<writerVars, driver>>
  \/ driver = "writer" /\ WriterNext /\ UNCHANGED <<clockVars, driver>>
MCSpec == MCInit /\ [][MCNext]_<<clockVars, writerVars, driver>>
MCClockSpec == MCSpec /\ driver = "clock"
=============================================================================
