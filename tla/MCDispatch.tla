----------------------------- MODULE MCDispatch -----------------------------
(* Dispatch on small instances: two channels, of which the second is not   *)
(* open in the configuration; packages that pass every filter, packages    *)
(* with the parameters of an unconfigured channel, and short ones.         *)
EXTENDS Dispatch

CONSTANTS off, day0, day1, zero, cfg

MCDevices == {off, day0, day1}
MCParams == {zero, cfg}
MCChannelParams == [c \in Channels |-> cfg]
MCOpenState == [c \in Channels |-> c = 0]

Business1(c, i, p, f) ==
  [kind |-> "business", ch |-> c, pkg |-> [idx |-> i, par |-> p, full |-> f]]

MCTraffic ==
  {[kind |-> "status", dev |-> day0], [kind |-> "status", dev |-> day1],
   [kind |-> "other"]}
    \cup {Business1(0, i, cfg, TRUE) : i \in Indices}
    \cup {Business1(0, 1, zero, TRUE), Business1(1, 1, cfg, FALSE)}
=============================================================================
