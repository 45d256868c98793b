--------------------------- MODULE MCSampleStream ---------------------------
(***************************************************************************)
(* Two shapes the constructor makes when a block has at most 2 slots: one  *)
(* block of 4 for 3 elements (the program's case: one block of 1024 for    *)
(* 512), five blocks of 2 for 4 elements.  Blocks of 3 samples out of      *)
(* packages of 2 in a ring of 5: every place of a block in the ring.  Of   *)
(* the packages the slot drops one, later two in a row.                    *)
(***************************************************************************)
EXTENDS SampleStream

MCShapes == {ShapeFor(3, 2), ShapeFor(4, 2)}
MCPassing == 1 .. MaxSent \ {3, 6, 7}
MCSample == 0 .. PackSamples * MaxSent
=============================================================================
