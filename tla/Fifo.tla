-------------------------------- MODULE Fifo --------------------------------
(***************************************************************************)
(* What the buffers of the program promise: an element that was accepted   *)
(* leaves once, in the order of acceptance.  ReaderWriterQueue and CBuffer *)
(* implement this specification; refusing an element and finding nothing   *)
(* to take leave it unchanged.                                             *)
(***************************************************************************)
EXTENDS Integers, Sequences

CONSTANT Element

VARIABLES
  items, \* accepted and not yet taken, oldest first
  out    \* what was taken last

vars == <<items, out>>

Init == items = <<>> /\ out = <<>>

Put(e) == items' = Append(items, e) /\ UNCHANGED out

Take(n) ==
  /\ out' = SubSeq(items, 1, n)
  /\ items' = SubSeq(items, n + 1, Len(items))

Next ==
  \/ \E e \in Element : Put(e)
  \/ \E n \in 1 .. Len(items) : Take(n)

Spec == Init /\ [][Next]_vars
=============================================================================
