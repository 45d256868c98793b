---------------------------- MODULE MCChannelizer ----------------------------
(* Channelizer with the program's own sizes; 1300 packages are one energy  *)
(* window of every sub-channel (1280 packages) and what follows it.        *)
EXTENDS Channelizer
=============================================================================
