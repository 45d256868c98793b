------------------------------- MODULE CBuffer -------------------------------
(***************************************************************************)
(* liquid-dsp's circular buffer, which keeps samples between the stages of *)
(* a channel.  push refuses a sample when the buffer is full.  read hands  *)
(* out a pointer to the oldest samples, release gives them back; for the   *)
(* pointer to be good for samples on both sides of the ring's end, the     *)
(* array is longer than the ring and read copies the beginning of the ring *)
(* behind its end.                                                         *)
(***************************************************************************)
EXTENDS Integers, Sequences

CONSTANTS
  MaxSize, \* samples the buffer holds
  MaxRead, \* samples a read hands out at most
  Sample

ASSUME BufferAssumption ==
  /\ MaxSize \in Nat \ {0}
  /\ MaxRead \in 1 .. MaxSize
  /\ 0 \in Sample

VARIABLES
  v,      \* the array, of which the first MaxSize elements are the ring
  readIndex,
  writeIndex,
  num,    \* num_elements
  window, \* the samples behind the pointer that read handed out
  gone    \* history: the samples last released

bufferVars == <<v, readIndex, writeIndex, num, window, gone>>

NumAllocated == MaxSize + MaxRead - 1
Cells == 0 .. NumAllocated - 1

BufferInit ==
  /\ v = [i \in Cells |-> 0]
  /\ readIndex = 0 /\ writeIndex = 0 /\ num = 0
  /\ window = <<>> /\ gone = <<>>

(* A full buffer refuses the sample.                                       *)
Push(x) ==
  IF num = MaxSize THEN UNCHANGED bufferVars
  ELSE /\ v' = [v EXCEPT ![writeIndex] = x]
       /\ writeIndex' = (writeIndex + 1) % MaxSize
       /\ num' = num + 1
       /\ UNCHANGED <<readIndex, window, gone>>

(* The array with the beginning of the ring copied behind its end.         *)
Linearized ==
  [i \in Cells |-> IF i < MaxSize THEN v[i] ELSE v[i - MaxSize]]

(* Mutant: linearized one sample too late.                                 *)
ArrayToReadLate(n) == IF n > MaxSize - readIndex + 1 THEN Linearized ELSE v

ArrayToRead(n) == IF n > MaxSize - readIndex THEN Linearized ELSE v

(* How many samples a read of so many hands out.                           *)
Available(requested) ==
  CHOOSE n \in {requested, num, MaxRead} :
    n <= requested /\ n <= num /\ n <= MaxRead

Read(requested) ==
  \E n \in {Available(requested)} :
    /\ v' = ArrayToRead(n)
    /\ window' = [i \in 1 .. n |-> v'[readIndex + i - 1]]
    /\ UNCHANGED <<readIndex, writeIndex, num, gone>>

(* Samples that were read are given back.                                  *)
Release(n) ==
  /\ n <= num
  /\ readIndex' = (readIndex + n) % MaxSize
  /\ num' = num - n
  /\ gone' = window /\ window' = <<>>
  /\ UNCHANGED <<v, writeIndex>>

-----------------------------------------------------------------------------
(* What is in the buffer.                                                  *)
Contents == [i \in 1 .. num |-> v[(readIndex + i - 1) % MaxSize]]

B == INSTANCE Fifo WITH Element <- Sample, items <- Contents, out <- gone

(* What a reader was shown and released are the oldest samples, once and   *)
(* in order, wherever in the ring they lie (cbuffer.proto.c:257-314): the  *)
(* indices and the copy implement the FIFO.                                *)
BufferIsFifo == B!Spec
=============================================================================
