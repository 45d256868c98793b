-------------------------- MODULE ReaderWriterQueue --------------------------
(***************************************************************************)
(* moodycamel's ReaderWriterQueue, m_queue of a channel: one producer that *)
(* calls try_enqueue, one consumer that calls try_dequeue, no lock.  The   *)
(* queue is a ring of blocks, a block a ring of slots of which one stays   *)
(* free.  The producer owns every tail and tailBlock, the consumer every   *)
(* front and frontBlock; each keeps a copy of the other's index, read anew *)
(* only when the copy says that it cannot go on.                           *)
(*                                                                         *)
(* A step makes at most one access to what the other thread writes; reads  *)
(* of what a thread alone writes are joined to it.  The fences are taken   *)
(* to make other threads see the accesses in the order written.  The       *)
(* elements are numbered: the next one accepted is sent + 1.               *)
(***************************************************************************)
EXTENDS Integers, Sequences

CONSTANTS
  Shapes,  \* what the constructor may have built
  MaxSent  \* bound: elements of one behaviour

(* ceilToPow2, for numbers up to 2^x.                                      *)
CeilToPow2(x) == CHOOSE p \in {2 ^ i : i \in 0 .. x} : p >= x /\ p < 2 * x

(* The ring that the constructor makes for size elements.                  *)
ShapeFor(size, maxBlockSize) ==
  LET one == CeilToPow2(size + 1)
  IN  IF one <= 2 * maxBlockSize
        THEN [blocks |-> 1, slots |-> one, size |-> size]
        ELSE [blocks |-> (size + 2 * maxBlockSize - 3) \div (maxBlockSize - 1),
              slots |-> maxBlockSize, size |-> size]

(* The elements a ring holds at least when it refuses one: a block has one *)
(* slot free, and of several blocks the front one may be nearly empty.     *)
CapacityOf(s) == (IF s.blocks = 1 THEN 1 ELSE s.blocks - 1) * (s.slots - 1)

ASSUME QueueAssumption ==
  /\ Shapes \subseteq [blocks : Nat \ {0}, slots : Nat \ {0, 1}, size : Nat]
  /\ \A s \in Shapes : s.size <= CapacityOf(s)
  /\ MaxSent \in Nat

VARIABLES
  shape,      \* the constructor's; never changes
  data,       \* a block's slots
  front,      \* next slot to read of every block
  tail,       \* next slot to write of every block
  localFront, \* the producer's copy of front
  localTail,  \* the consumer's copy of tail
  frontBlock,
  tailBlock,
  producer,   \* where try_enqueue is
  consumer,   \* where try_dequeue is
  result,     \* the consumer's result
  sent,       \* elements accepted
  taken,      \* elements dequeued
  had,        \* history: elements when the running try_enqueue looked first
  found,      \* history: elements when the running try_dequeue looked first
  out         \* history: what the last successful try_dequeue returned

ringVars     == <<shape, data, front, tail, frontBlock, tailBlock>>
producerVars == <<localFront, producer, sent, had>>
consumerVars == <<localTail, consumer, result, taken, found, out>>
queueVars    == <<ringVars, producerVars, consumerVars>>

Blocks == 0 .. shape.blocks - 1
Slots  == 0 .. shape.slots - 1
Inc(i)  == (i + 1) % shape.slots
After(b) == (b + 1) % shape.blocks

Length == sent - taken

QueueInit ==
  /\ shape \in Shapes
  /\ data = [b \in Blocks |-> [i \in Slots |-> 0]]
  /\ front = [b \in Blocks |-> 0] /\ tail = [b \in Blocks |-> 0]
  /\ localFront = [b \in Blocks |-> 0] /\ localTail = [b \in Blocks |-> 0]
  /\ frontBlock = 0 /\ tailBlock = 0
  /\ producer = "idle" /\ consumer = "idle" /\ result = 0
  /\ sent = 0 /\ taken = 0 /\ had = 0 /\ found = 0 /\ out = <<>>

-----------------------------------------------------------------------------
(* The producer: inner_enqueue<CannotAlloc>.                               *)

(* Mutant: the free slot that tells full from empty is used.               *)
FindRoomInAll ==
  /\ producer = "idle" /\ sent < MaxSent
  /\ had' = Length
  /\ producer' = "write"
  /\ UNCHANGED <<ringVars, localFront, sent, consumerVars>>

(* Room in the tail block by the copy of front?  If not, by front itself?  *)
FindRoom ==
  /\ producer = "idle" /\ sent < MaxSent
  /\ had' = Length
  /\ LET b == tailBlock IN
     \/ /\ Inc(tail[b]) # localFront[b]
        /\ producer' = "write" /\ UNCHANGED localFront
     \/ /\ Inc(tail[b]) = localFront[b]
        /\ localFront' = [localFront EXCEPT ![b] = front[b]]
        /\ producer' = IF Inc(tail[b]) # front[b] THEN "write" ELSE "full"
  /\ UNCHANGED <<ringVars, sent, consumerVars>>

Write ==
  /\ producer = "write"
  /\ data' = [data EXCEPT ![tailBlock][tail[tailBlock]] = sent + 1]
  /\ producer' = "publish"
  /\ UNCHANGED <<shape, front, tail, frontBlock, tailBlock, localFront, sent,
                 had, consumerVars>>

Publish ==
  /\ producer = "publish"
  /\ tail' = [tail EXCEPT ![tailBlock] = Inc(@)]
  /\ sent' = sent + 1
  /\ producer' = "idle"
  /\ UNCHANGED <<shape, data, front, frontBlock, tailBlock, localFront, had,
                 consumerVars>>

(* Mutant: the tail may advance to the block that is being read.           *)
FindBlockAny ==
  /\ producer = "full"
  /\ producer' = IF shape.blocks > 1 THEN "next" ELSE "idle"
  /\ UNCHANGED <<ringVars, localFront, sent, had, consumerVars>>

(* The tail block is full: the next one, unless it is being read.  If it   *)
(* is, the element is refused.                                             *)
FindBlock ==
  /\ producer = "full"
  /\ producer' = IF After(tailBlock) # frontBlock THEN "next" ELSE "idle"
  /\ UNCHANGED <<ringVars, localFront, sent, had, consumerVars>>

EnterBlock ==
  /\ producer = "next"
  /\ localFront' = [localFront EXCEPT ![After(tailBlock)] =
                      front[After(tailBlock)]]
  /\ producer' = "writeNext"
  /\ UNCHANGED <<ringVars, sent, had, consumerVars>>

WriteNext ==
  /\ producer = "writeNext"
  /\ LET b == After(tailBlock)
     IN  data' = [data EXCEPT ![b][tail[b]] = sent + 1]
  /\ producer' = "publishNext"
  /\ UNCHANGED <<shape, front, tail, frontBlock, tailBlock, localFront, sent,
                 had, consumerVars>>

PublishNext ==
  /\ producer = "publishNext"
  /\ tail' = [tail EXCEPT ![After(tailBlock)] = Inc(@)]
  /\ producer' = "advance"
  /\ UNCHANGED <<shape, data, front, frontBlock, tailBlock, localFront, sent,
                 had, consumerVars>>

(* tailBlock is set last: until then the consumer does not look there.     *)
AdvanceTail ==
  /\ producer = "advance"
  /\ tailBlock' = After(tailBlock)
  /\ sent' = sent + 1
  /\ producer' = "idle"
  /\ UNCHANGED <<shape, data, front, tail, frontBlock, localFront, had,
                 consumerVars>>

Enqueue ==
  \/ FindRoom \/ Write \/ Publish \/ FindBlock \/ EnterBlock \/ WriteNext
  \/ PublishNext \/ AdvanceTail

-----------------------------------------------------------------------------
(* The consumer: try_dequeue.                                              *)

(* An element in the front block by the copy of tail?  Or by tail itself?  *)
Look ==
  /\ consumer = "idle"
  /\ found' = Length
  /\ LET b == frontBlock IN
     \/ /\ front[b] # localTail[b]
        /\ consumer' = "take" /\ UNCHANGED localTail
     \/ /\ front[b] = localTail[b]
        /\ localTail' = [localTail EXCEPT ![b] = tail[b]]
        /\ consumer' = IF front[b] # tail[b] THEN "take" ELSE "empty"
  /\ UNCHANGED <<ringVars, producerVars, result, taken, out>>

(* Mutant: the front block is not looked at again.                         *)
CompareOnce ==
  /\ consumer = "empty"
  /\ consumer' = IF frontBlock # tailBlock THEN "next" ELSE "idle"
  /\ UNCHANGED <<ringVars, producerVars, localTail, result, taken, found, out>>

(* Mutant: an empty front block is taken for an empty queue.               *)
CompareNever ==
  /\ consumer = "empty"
  /\ consumer' = "idle"
  /\ UNCHANGED <<ringVars, producerVars, localTail, result, taken, found, out>>

(* The front block was empty.  Is it the tail block?  Then so is the queue *)
(* and try_dequeue fails.                                                  *)
Compare ==
  /\ consumer = "empty"
  /\ consumer' = IF frontBlock # tailBlock THEN "again" ELSE "idle"
  /\ UNCHANGED <<ringVars, producerVars, localTail, result, taken, found, out>>

(* It is not: the producer may have filled it before it moved on.          *)
LookAgain ==
  /\ consumer = "again"
  /\ localTail' = [localTail EXCEPT ![frontBlock] = tail[frontBlock]]
  /\ consumer' = IF front[frontBlock] # tail[frontBlock] THEN "take" ELSE "next"
  /\ UNCHANGED <<ringVars, producerVars, result, taken, found, out>>

LookNext ==
  /\ consumer = "next"
  /\ localTail' = [localTail EXCEPT ![After(frontBlock)] =
                     tail[After(frontBlock)]]
  /\ consumer' = "advance"
  /\ UNCHANGED <<ringVars, producerVars, result, taken, found, out>>

AdvanceFront ==
  /\ consumer = "advance"
  /\ frontBlock' = After(frontBlock)
  /\ consumer' = "take"
  /\ UNCHANGED <<shape, data, front, tail, tailBlock, producerVars, localTail,
                 result, taken, found, out>>

(* The element is moved out of its slot and destroyed.                     *)
MoveOut ==
  /\ consumer = "take"
  /\ result' = data[frontBlock][front[frontBlock]]
  /\ consumer' = "release"
  /\ UNCHANGED <<ringVars, producerVars, localTail, taken, found, out>>

(* Its slot is given back; try_dequeue succeeds.                           *)
ReturnSlot ==
  /\ consumer = "release"
  /\ front' = [front EXCEPT ![frontBlock] = Inc(@)]
  /\ taken' = taken + 1
  /\ out' = <<result>>
  /\ consumer' = "idle"
  /\ UNCHANGED <<shape, data, tail, frontBlock, tailBlock, producerVars,
                 localTail, result, found>>

Dequeue ==
  \/ Look \/ Compare \/ LookAgain \/ LookNext \/ AdvanceFront \/ MoveOut
  \/ ReturnSlot

QueueNext == Enqueue \/ Dequeue
QueueSpec == QueueInit /\ [][QueueNext]_queueVars

-----------------------------------------------------------------------------
TypeOK ==
  /\ shape \in Shapes
  /\ data \in [Blocks -> [Slots -> Nat]]
  /\ front \in [Blocks -> Slots] /\ tail \in [Blocks -> Slots]
  /\ localFront \in [Blocks -> Slots] /\ localTail \in [Blocks -> Slots]
  /\ frontBlock \in Blocks /\ tailBlock \in Blocks
  /\ producer \in {"idle", "write", "publish", "full", "next", "writeNext",
                   "publishNext", "advance"}
  /\ consumer \in {"idle", "take", "release", "empty", "again", "next",
                   "advance"}
  /\ result \in Nat /\ sent \in Nat /\ taken \in Nat
  /\ had \in Int /\ found \in Int
  /\ out \in Seq(Nat)

(* The slot the producer fills and the one the consumer empties.           *)
Filled ==
  CASE producer \in {"write", "publish"} ->
         {<<tailBlock, tail[tailBlock]>>}
    [] producer \in {"writeNext", "publishNext"} ->
         {<<After(tailBlock), tail[After(tailBlock)]>>}
    [] OTHER -> {}
Emptied ==
  IF consumer \in {"take", "release"} THEN {<<frontBlock, front[frontBlock]>>}
                                      ELSE {}

(* The two threads are never at the same slot (readerwriterqueue.h:317-319 *)
(* and 560-564: elements are moved, constructed and destroyed without a    *)
(* lock, on the strength of indices that may be old).                      *)
SlotsAreExclusive == Filled \cap Emptied = {}

(* The queue's own assertions (readerwriterqueue.h:351 and 588): a block   *)
(* the consumer advances to has an element, one the producer advances to   *)
(* has none.                                                               *)
BlocksAsAsserted ==
  /\ consumer = "next" => front[After(frontBlock)] # tail[After(frontBlock)]
  /\ producer = "next" => front[After(tailBlock)] = tail[After(tailBlock)]

(* "Constructs a queue that can hold at least `size` elements without      *)
(* further allocations" (readerwriterqueue.h:101-102): whatever the        *)
(* consumer does meanwhile, a refused element found that many in the queue.*)
(* And try_dequeue fails only if there was nothing when it began, although *)
(* it compares a tail, a tail block and a front block read at three        *)
(* different moments (readerwriterqueue.h:298-306).                        *)
FailsOnlyAtALimit ==
  [][/\ producer = "full" /\ producer' = "idle" => had >= shape.size
     /\ consumer = "empty" /\ consumer' = "idle" => found = 0]_queueVars

(* What is in the queue.                                                   *)
Items == [i \in 1 .. Length |-> taken + i]

F == INSTANCE Fifo WITH Element <- 1 .. MaxSent, items <- Items

(* Elements come out once and in the order they went in: the blocks, the   *)
(* copies of indices and the threads' interleavings implement the FIFO.    *)
QueueIsFifo == F!Spec
=============================================================================
