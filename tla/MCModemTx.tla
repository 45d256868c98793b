------------------------------ MODULE MCModemTx ------------------------------
(* A frame of three samples and one of two, packages of two, ticks of two  *)
(* packages or one: a frame and a gap last longer than a tick of one       *)
(* package and end inside packages as well as between them.  In the last   *)
(* setting frame follows frame.                                            *)
EXTENDS ModemTx
Wave(on, type, delay, len, gap, packages) ==
  [on |-> on, type |-> type, delay |-> delay, len |-> len, gap |-> gap,
   packages |-> packages]
MCSettings ==
  {Wave(TRUE, "FSK", 0, 3, 2, 2), Wave(TRUE, "MSK", 3, 3, 2, 2),
   Wave(TRUE, "FSK", 3, 2, 3, 1), Wave(FALSE, "FSK", 0, 3, 2, 2),
   Wave(TRUE, "MSK", 0, 3, 0, 1)}
MCOneSetting == {Wave(TRUE, "FSK", 0, 3, 2, 1)}
=============================================================================
