---------------------------- MODULE SampleStream ----------------------------
(***************************************************************************)
(* The way of the samples from the receiver's thread to the first reader   *)
(* of a channel's thread: the receiver enqueues packages in m_queue        *)
(* (ReaderWriterQueue), the channel dequeues one at a time and, unless it  *)
(* drops the package, pushes its samples into a circular buffer (CBuffer)  *)
(* and reads them in blocks.                                               *)
(* This is the chain that Dispatch takes for a FIFO and Channelizer for a  *)
(* number.  Packages are numbered, and so are the samples: package p has   *)
(* the samples from PackSamples * (p - 1) + 1 on.                          *)
(***************************************************************************)
EXTENDS ReaderWriterQueue, CBuffer

CONSTANTS
  PackSamples, \* samples of a package
  Passing,     \* packages that the slot does not drop; any: Dispatch says why
  Block        \* samples the reader asks for and needs

ASSUME StreamAssumption ==
  /\ PackSamples \in Nat \ {0} /\ Block \in 1 .. MaxRead
  /\ MaxSize >= Block - 1 + PackSamples
  /\ 1 .. PackSamples * MaxSent \subseteq Sample

VARIABLES
  slot,   \* where slot_business_package_enqueued is
  pushed, \* samples of the package that are in the buffer
  read,   \* history: samples the reader has had
  stream  \* history: the samples of the packages that were not dropped

slotVars == <<slot, pushed, read, stream>>
vars == <<queueVars, bufferVars, slotVars>>

Init ==
  /\ QueueInit /\ BufferInit
  /\ slot = "dequeue" /\ pushed = 0 /\ read = 0 /\ stream = <<>>

(* The receiver's thread: package_enqueue.                                 *)
Receive == Enqueue /\ UNCHANGED <<bufferVars, slotVars>>

SampleOf(p, i) == PackSamples * (p - 1) + i
Samples(p) == [i \in 1 .. PackSamples |-> SampleOf(p, i)]

(* try_dequeue.  Without a package the slot returns, and with one that it  *)
(* drops: of a closed channel, short, with other parameters, or late.      *)
TakePackage ==
  /\ slot = "dequeue"
  /\ Dequeue
  /\ IF taken' # taken /\ out'[1] \in Passing
       THEN slot' = "push" /\ stream' = stream \o Samples(out'[1])
       ELSE UNCHANGED <<slot, stream>>
  /\ UNCHANGED <<pushed, read, bufferVars>>

PushSample ==
  /\ slot = "push" /\ pushed < PackSamples
  /\ Push(SampleOf(out[1], pushed + 1))
  /\ pushed' = pushed + 1
  /\ UNCHANGED <<slot, read, stream, queueVars>>

PushedAll ==
  /\ slot = "push" /\ pushed = PackSamples
  /\ slot' = "drain" /\ pushed' = 0
  /\ UNCHANGED <<read, stream, queueVars, bufferVars>>

(* Mutant: one more block is read than there is.                           *)
ReadBlockShort ==
  /\ slot = "drain" /\ num >= Block - 1
  /\ Read(Block)
  /\ slot' = "process"
  /\ UNCHANGED <<pushed, read, stream, queueVars>>

(* While there is a whole block: read it, process it, release it.          *)
ReadBlock ==
  /\ slot = "drain" /\ num >= Block
  /\ Read(Block)
  /\ slot' = "process"
  /\ UNCHANGED <<pushed, read, stream, queueVars>>

ReleaseBlock ==
  /\ slot = "process"
  /\ Release(Block)
  /\ read' = read + Len(window)
  /\ slot' = "drain"
  /\ UNCHANGED <<pushed, stream, queueVars>>

Drained ==
  /\ slot = "drain" /\ num < Block
  /\ slot' = "dequeue"
  /\ UNCHANGED <<pushed, read, stream, queueVars, bufferVars>>

Next ==
  \/ Receive \/ TakePackage \/ PushSample \/ PushedAll \/ ReadBlock
  \/ ReleaseBlock \/ Drained

Spec == Init /\ [][Next]_vars

-----------------------------------------------------------------------------
(* The reader gets whole blocks of the samples of all packages that were   *)
(* accepted and not dropped, in order, none twice, none left out and none  *)
(* of a dropped one between (vlfchannel.cpp:183-203, 293, 329-345: neither *)
(* the result of a push nor the number of samples read is looked at), and  *)
(* at the end of the slot less than a block is left.                       *)
BlocksAreTheStream ==
  /\ window # <<>> => /\ read + Block <= Len(stream)
                      /\ window = [i \in 1 .. Block |-> stream[read + i]]
  /\ slot = "dequeue" => read + num = Len(stream) /\ num < Block
  /\ \A i, j \in 1 .. Len(stream) : i < j => stream[i] < stream[j]
  /\ \A i \in 1 .. Len(stream) :
       \E p \in Passing \cap 1 .. taken, k \in 1 .. PackSamples :
         stream[i] = SampleOf(p, k)
  /\ \A p \in Passing \cap 1 .. taken, k \in 1 .. PackSamples :
       \E i \in 1 .. Len(stream) : stream[i] = SampleOf(p, k)
=============================================================================
