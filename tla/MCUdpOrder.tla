------------------------------ MODULE MCUdpOrder ------------------------------
(* Indices of four bits: they wrap after 15 packages.                      *)
EXTENDS UdpOrder
=============================================================================
