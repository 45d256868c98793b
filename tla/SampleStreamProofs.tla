------------------------- MODULE SampleStreamProofs -------------------------
(***************************************************************************)
(* The chain of buffers between the receiver and a channel's first reader, *)
(* for rings of any number of blocks and slots, buffers of any size and    *)
(* packages of any length: the lock-free queue implements a FIFO, its two  *)
(* threads never meet in a slot, its assertions hold and it fails only at  *)
(* its limits.                                                             *)
(*                                                                         *)
(* The invariant of the queue is a closed form.  Elements are numbered, so *)
(* that the number in every slot in use follows from taken and from how    *)
(* far the slot lies behind the front: DataInv.  For that the blocks       *)
(* between the front and the tail block must be full, and the others empty *)
(* (BlocksInv); and the two copies of indices, however old, must lie       *)
(* between the front and the tail in the order of the ring (CopyInv).      *)
(***************************************************************************)
EXTENDS SampleStream, SequenceTheorems, TLAPS

(* Steps from x to y in a ring of n.                                       *)
Gap(x, y, n) == IF x <= y THEN y - x ELSE y - x + n

Succ(x, n) == (x + 1) % n

Count(b) == Gap(front[b], tail[b], shape.slots)
Off(b, i) == Gap(front[b], i, shape.slots)
Dist(b) == Gap(frontBlock, b, shape.blocks)
FullCount == shape.slots - 1

(* The number of the first element of a block in use.                      *)
First(b) ==
  IF b = frontBlock THEN taken + 1
  ELSE taken + 1 + Count(frontBlock) + (Dist(b) - 1) * FullCount

(* The blocks from the front to the tail block are in use.                 *)
InUse(b) == Dist(b) <= Dist(tailBlock)

BlocksInv ==
  \A b \in Blocks :
    /\ b # frontBlock /\ InUse(b) => Count(b) > 0
    /\ b # frontBlock /\ b # tailBlock /\ InUse(b) => Count(b) = FullCount
    /\ ~InUse(b) =>
         Count(b) = 0 \/ (producer = "advance" /\ b = After(tailBlock))

DataInv ==
  /\ \A b \in Blocks, i \in Slots :
       InUse(b) /\ Off(b, i) < Count(b) => data[b][i] = First(b) + Off(b, i)
  /\ sent + 1 = First(tailBlock) + Count(tailBlock)

CopyInv ==
  \A b \in Blocks :
    /\ Gap(localFront[b], front[b], shape.slots) + Count(b)
         = Gap(localFront[b], tail[b], shape.slots)
    /\ Gap(front[b], localTail[b], shape.slots)
         + Gap(localTail[b], tail[b], shape.slots) = Count(b)

ProducerInv ==
  LET b == tailBlock
      n == After(tailBlock)
  IN
  /\ sent <= MaxSent /\ (producer # "idle" => sent < MaxSent)
  /\ producer \in {"write", "publish"} => Inc(tail[b]) # localFront[b]
  /\ producer = "publish" => data[b][tail[b]] = sent + 1
  /\ producer \notin {"idle", "write", "publish"} /\ b # frontBlock
       => Count(b) = FullCount
  /\ producer = "full" /\ n = frontBlock => had >= CapacityOf(shape)
  /\ producer \in {"next", "writeNext", "publishNext", "advance"}
       => n # frontBlock
  /\ producer \in {"writeNext", "publishNext"} => localFront[n] = front[n]
  /\ producer = "publishNext" => data[n][tail[n]] = sent + 1
  /\ producer = "advance" => Count(n) = 1 /\ data[n][front[n]] = sent + 1

ConsumerInv ==
  /\ consumer \in {"take", "release"} =>
       Count(frontBlock) > 0 /\ front[frontBlock] # localTail[frontBlock]
  /\ consumer = "release" => result = taken + 1
  /\ consumer = "empty" => found = 0 \/ frontBlock # tailBlock
  /\ consumer = "again" => frontBlock # tailBlock
  /\ consumer \in {"next", "advance"} =>
       frontBlock # tailBlock /\ Count(frontBlock) = 0
  /\ consumer = "advance" =>
       front[After(frontBlock)] # localTail[After(frontBlock)]

QueueInv ==
  /\ TypeOK /\ BlocksInv /\ DataInv /\ CopyInv /\ ProducerInv /\ ConsumerInv

-----------------------------------------------------------------------------
(* Rings.                                                                  *)
LEMMA SuccIs ==
  ASSUME NEW n \in Nat \ {0}, NEW x \in 0 .. n - 1
  PROVE  Succ(x, n) = IF x + 1 = n THEN 0 ELSE x + 1
<1>1. CASE x + 1 = n
  BY <1>1 DEF Succ
<1>2. CASE x + 1 < n
  BY <1>2 DEF Succ
<1> QED
  BY <1>1, <1>2

LEMMA Shape ==
  ASSUME shape \in Shapes
  PROVE  /\ shape.blocks \in Nat \ {0} /\ shape.slots \in Nat \ {0, 1}
         /\ Blocks = 0 .. shape.blocks - 1 /\ Slots = 0 .. shape.slots - 1
         /\ FullCount \in Nat /\ FullCount > 0 /\ FullCount = shape.slots - 1
         /\ 0 \in Blocks /\ 0 \in Slots
         /\ shape.size \in Nat /\ shape.size <= CapacityOf(shape)
BY QueueAssumption DEF Blocks, Slots, FullCount

LEMMA GapIs ==
  ASSUME NEW n \in Nat \ {0}, NEW x \in 0 .. n - 1, NEW y \in 0 .. n - 1
  PROVE  /\ Gap(x, y, n) \in Nat /\ Gap(x, y, n) < n
         /\ Gap(x, y, n) = 0 <=> x = y
         /\ Gap(x, x, n) = 0
         /\ \A z \in 0 .. n - 1 : Gap(x, y, n) = Gap(x, z, n) => y = z
BY DEF Gap

(* Distances of blocks.                                                    *)
LEMMA Distance ==
  ASSUME TypeOK, NEW b \in Blocks
  PROVE  /\ frontBlock \in Blocks /\ tailBlock \in Blocks
         /\ Dist(b) \in Nat /\ Dist(b) < shape.blocks
         /\ Dist(b) = 0 <=> b = frontBlock
         /\ \A c \in Blocks : Dist(b) = Dist(c) => b = c
<1>1. /\ frontBlock \in Blocks /\ tailBlock \in Blocks
      /\ Blocks = 0 .. shape.blocks - 1 /\ shape.blocks \in Nat \ {0}
  BY Shape DEF TypeOK
<1> QED
  BY <1>1, GapIs, ZenonT(60) DEF Dist

LEMMA NextBlock ==
  ASSUME TypeOK, NEW b \in Blocks
  PROVE  /\ After(b) \in Blocks
         /\ Dist(After(b)) = IF After(b) = frontBlock THEN 0 ELSE Dist(b) + 1
         /\ After(b) = frontBlock <=> Dist(b) = shape.blocks - 1
         /\ Gap(After(frontBlock), b, shape.blocks) =
              IF b = frontBlock THEN shape.blocks - 1 ELSE Dist(b) - 1
<1>1. /\ frontBlock \in 0 .. shape.blocks - 1 /\ b \in 0 .. shape.blocks - 1
      /\ shape.blocks \in Nat \ {0} /\ Blocks = 0 .. shape.blocks - 1
  BY Shape DEF TypeOK
<1>2. /\ After(b) = IF b + 1 = shape.blocks THEN 0 ELSE b + 1
      /\ After(frontBlock) =
           IF frontBlock + 1 = shape.blocks THEN 0 ELSE frontBlock + 1
  BY <1>1, SuccIs DEF After, Succ
<1> QED
  BY <1>1, <1>2 DEF Dist, Gap

(* Indices of slots.                                                       *)
LEMMA Indices ==
  ASSUME TypeOK, NEW b \in Blocks
  PROVE  /\ front[b] \in Slots /\ tail[b] \in Slots
         /\ localFront[b] \in Slots /\ localTail[b] \in Slots
         /\ Count(b) \in Nat /\ Count(b) <= FullCount
         /\ Count(b) = 0 <=> front[b] = tail[b]
<1>1. /\ front \in [Blocks -> Slots] /\ tail \in [Blocks -> Slots]
      /\ localFront \in [Blocks -> Slots] /\ localTail \in [Blocks -> Slots]
      /\ shape \in Shapes
  BY DEF TypeOK
<1>2. /\ Slots = 0 .. shape.slots - 1 /\ shape.slots \in Nat \ {0}
      /\ FullCount = shape.slots - 1
  BY <1>1, Shape
<1>3. /\ front[b] \in Slots /\ tail[b] \in Slots
      /\ localFront[b] \in Slots /\ localTail[b] \in Slots
  BY <1>1
<1>4. /\ Count(b) \in Nat /\ Count(b) < shape.slots
      /\ Count(b) = 0 <=> front[b] = tail[b]
  BY <1>2, <1>3, GapIs DEF Count
<1> QED
  BY <1>2, <1>3, <1>4

LEMMA Offsets ==
  ASSUME TypeOK, NEW b \in Blocks, NEW i \in Slots
  PROVE  /\ Off(b, i) \in Nat /\ Off(b, i) < shape.slots
         /\ Off(b, front[b]) = 0 /\ Off(b, tail[b]) = Count(b)
         /\ \A k \in Slots : Off(b, i) = Off(b, k) => i = k
<1>1. front[b] \in Slots /\ tail[b] \in Slots
  BY Indices
<1>2. Slots = 0 .. shape.slots - 1 /\ shape.slots \in Nat \ {0}
  BY Shape DEF TypeOK
<1> QED
  BY <1>1, <1>2, GapIs, ZenonT(60) DEF Off, Count

(* A step of an index in its ring.                                         *)
LEMMA NextSlot ==
  ASSUME shape \in Shapes, NEW x \in Slots, NEW y \in Slots
  PROVE  /\ Inc(y) \in Slots
         /\ Gap(x, Inc(y), shape.slots) =
              IF Inc(y) = x THEN 0 ELSE Gap(x, y, shape.slots) + 1
         /\ Inc(y) = x <=> Gap(x, y, shape.slots) = FullCount
         /\ Gap(Inc(x), y, shape.slots) =
              IF x = y THEN FullCount ELSE Gap(x, y, shape.slots) - 1
<1>1. /\ x \in 0 .. shape.slots - 1 /\ y \in 0 .. shape.slots - 1
      /\ shape.slots \in Nat \ {0, 1} /\ Slots = 0 .. shape.slots - 1
      /\ FullCount = shape.slots - 1
  BY Shape
<1>2. /\ Inc(x) = IF x + 1 = shape.slots THEN 0 ELSE x + 1
      /\ Inc(y) = IF y + 1 = shape.slots THEN 0 ELSE y + 1
  BY <1>1, SuccIs DEF Inc, Succ
<1> QED
  BY <1>1, <1>2 DEF Gap

-----------------------------------------------------------------------------
(* Types.                                                                  *)
LEMMA QueueTypes == TypeOK /\ [QueueNext]_queueVars => TypeOK'
<1> SUFFICES ASSUME TypeOK, [QueueNext]_queueVars PROVE TypeOK'
  OBVIOUS
<1>1. /\ shape \in Shapes /\ data \in [Blocks -> [Slots -> Nat]]
      /\ front \in [Blocks -> Slots] /\ tail \in [Blocks -> Slots]
      /\ localFront \in [Blocks -> Slots] /\ localTail \in [Blocks -> Slots]
      /\ frontBlock \in Blocks /\ tailBlock \in Blocks
      /\ result \in Nat /\ sent \in Nat /\ taken \in Nat
      /\ Length \in Int /\ had \in Int /\ found \in Int /\ out \in Seq(Nat)
  BY DEF TypeOK, Length
<1>0. sent + 1 \in Nat /\ taken + 1 \in Nat /\ <<result>> \in Seq(Nat)
  BY <1>1
<1>2. After(tailBlock) \in Blocks /\ After(frontBlock) \in Blocks
  BY <1>1, NextBlock
<1>3. /\ Inc(tail[tailBlock]) \in Slots /\ Inc(front[frontBlock]) \in Slots
      /\ Inc(tail[After(tailBlock)]) \in Slots
  BY <1>1, <1>2, NextSlot
<1>4. shape' = shape => Blocks' = Blocks /\ Slots' = Slots
  BY DEF Blocks, Slots
<1> USE DEF TypeOK, ringVars, producerVars, consumerVars
<1>5. CASE FindRoom
  BY <1>1, <1>4, <1>5 DEF FindRoom
<1>6. CASE Write
  BY <1>1, <1>4, <1>0, <1>6 DEF Write
<1>7. CASE Publish
  BY <1>1, <1>3, <1>4, <1>0, <1>7 DEF Publish
<1>8. CASE FindBlock
  BY <1>1, <1>4, <1>8 DEF FindBlock
<1>9. CASE EnterBlock
  BY <1>1, <1>2, <1>4, <1>9 DEF EnterBlock
<1>10. CASE WriteNext
  BY <1>1, <1>2, <1>4, <1>0, <1>10 DEF WriteNext
<1>11. CASE PublishNext
  BY <1>1, <1>2, <1>3, <1>4, <1>11 DEF PublishNext
<1>12. CASE AdvanceTail
  BY <1>1, <1>2, <1>4, <1>0, <1>12 DEF AdvanceTail
<1>13. CASE Look
  BY <1>1, <1>4, <1>13 DEF Look
<1>14. CASE Compare
  BY <1>1, <1>4, <1>14 DEF Compare
<1>15. CASE LookAgain
  BY <1>1, <1>4, <1>15 DEF LookAgain
<1>16. CASE LookNext
  BY <1>1, <1>2, <1>4, <1>16 DEF LookNext
<1>17. CASE AdvanceFront
  BY <1>1, <1>2, <1>4, <1>17 DEF AdvanceFront
<1>18. CASE MoveOut
  BY <1>1, <1>4, <1>18 DEF MoveOut
<1>19. CASE ReturnSlot
  BY <1>1, <1>3, <1>4, <1>0, <1>19 DEF ReturnSlot
<1>20. CASE UNCHANGED queueVars
  BY <1>1, <1>4, <1>20 DEF queueVars
<1> QED
  BY <1>5, <1>6, <1>7, <1>8, <1>9, <1>10, <1>11, <1>12, <1>13, <1>14, <1>15,
     <1>16, <1>17, <1>18, <1>19, <1>20 DEF QueueNext, Enqueue, Dequeue

-----------------------------------------------------------------------------
(* What a step that leaves some variables alone leaves alone.              *)
LEMMA Frames ==
  ASSUME shape' = shape
  PROVE  /\ Blocks' = Blocks /\ Slots' = Slots /\ FullCount' = FullCount
         /\ CapacityOf(shape)' = CapacityOf(shape)
         /\ \A b : After(b)' = After(b) /\ Inc(b)' = Inc(b)
         /\ frontBlock' = frontBlock => \A b : Dist(b)' = Dist(b)
         /\ \A b : front'[b] = front[b] => \A i : Off(b, i)' = Off(b, i)
         /\ \A b : front'[b] = front[b] /\ tail'[b] = tail[b]
              => Count(b)' = Count(b)
BY DEF Blocks, Slots, FullCount, CapacityOf, After, Inc, Dist, Off, Count

LEMMA BlocksKept ==
  ASSUME UNCHANGED <<shape, front, tail, frontBlock, tailBlock>>, BlocksInv,
         producer' = producer \/ (producer # "advance" /\ producer' # "advance")
  PROVE  BlocksInv'
BY DEF BlocksInv, InUse, Blocks, Dist, Count, After, FullCount

(* Steps that only look around.                                            *)
LEMMA LookingKeeps ==
  ASSUME UNCHANGED ringVars, UNCHANGED <<sent, taken>>, BlocksInv, DataInv,
         producer' = producer \/ (producer # "advance" /\ producer' # "advance")
  PROVE  BlocksInv' /\ DataInv'
<1>1. shape' = shape /\ front' = front /\ tail' = tail /\ data' = data
      /\ frontBlock' = frontBlock /\ tailBlock' = tailBlock
      /\ sent' = sent /\ taken' = taken
  BY DEF ringVars
<1>2. BlocksInv'
  BY <1>1, BlocksKept
<1>3. DataInv'
  BY <1>1 DEF DataInv, First, InUse, Blocks, Slots, Dist, Off, Count, FullCount
<1> QED
  BY <1>2, <1>3

LEMMA CopiesKept ==
  ASSUME UNCHANGED <<shape, front, tail, localFront, localTail>>, CopyInv
  PROVE  CopyInv'
BY DEF CopyInv, Blocks, Count

(* A copy of an index is read anew.                                        *)
LEMMA FrontCopied ==
  ASSUME TypeOK, CopyInv, NEW c \in Blocks,
         UNCHANGED <<shape, front, tail, localTail>>,
         localFront' = [localFront EXCEPT ![c] = front[c]]
  PROVE  CopyInv'
<1>1. \A b \in Blocks : localFront'[b] = IF b = c THEN front[c]
                                                  ELSE localFront[b]
  BY DEF TypeOK
<1>2. Gap(front[c], front[c], shape.slots) = 0 /\ Count(c) \in Nat
  BY Shape, Indices, GapIs DEF TypeOK
<1>3. Count(c) = Gap(front[c], tail[c], shape.slots)
  BY DEF Count
<1>4. Blocks' = Blocks /\ \A b : Count(b)' = Count(b)
  BY Frames
<1> QED
  BY <1>1, <1>2, <1>3, <1>4 DEF CopyInv

LEMMA TailCopied ==
  ASSUME TypeOK, CopyInv, NEW c \in Blocks,
         UNCHANGED <<shape, front, tail, localFront>>,
         localTail' = [localTail EXCEPT ![c] = tail[c]]
  PROVE  CopyInv'
<1>1. \A b \in Blocks : localTail'[b] = IF b = c THEN tail[c]
                                                 ELSE localTail[b]
  BY DEF TypeOK
<1>2. Gap(tail[c], tail[c], shape.slots) = 0 /\ Count(c) \in Nat
  BY Shape, Indices, GapIs DEF TypeOK
<1>3. Count(c) = Gap(front[c], tail[c], shape.slots)
  BY DEF Count
<1>4. Blocks' = Blocks /\ \A b : Count(b)' = Count(b)
  BY Frames
<1> QED
  BY <1>1, <1>2, <1>3, <1>4 DEF CopyInv

(* An index moves on: the copies stay between front and tail.              *)
LEMMA TailMoved ==
  ASSUME TypeOK, CopyInv, NEW c \in Blocks, Inc(tail[c]) # localFront[c],
         UNCHANGED <<shape, front, localFront, localTail>>,
         tail' = [tail EXCEPT ![c] = Inc(@)]
  PROVE  /\ CopyInv' /\ Count(c)' = Count(c) + 1
         /\ \A b \in Blocks : b # c => tail'[b] = tail[b] /\ Count(b)' = Count(b)
<1>1. \A b \in Blocks : tail'[b] = IF b = c THEN Inc(tail[c]) ELSE tail[b]
  BY DEF TypeOK
<1>2. \A b \in Blocks : b # c => tail'[b] = tail[b] /\ Count(b)' = Count(b)
  BY <1>1 DEF Count
<1> DEFINE n == shape.slots
           x == front[c]
           y == tail[c]
           p == localFront[c]
           q == localTail[c]
<1>3. /\ x \in Slots /\ y \in Slots /\ p \in Slots /\ q \in Slots
      /\ shape \in Shapes
  BY Indices DEF TypeOK
<1>4. /\ Gap(p, x, n) + Gap(x, y, n) = Gap(p, y, n)
      /\ Gap(x, q, n) + Gap(q, y, n) = Gap(x, y, n)
  BY DEF CopyInv, Count
<1>5. /\ Gap(p, x, n) \in Nat /\ Gap(x, y, n) \in Nat /\ Gap(p, y, n) \in Nat
      /\ Gap(x, q, n) \in Nat /\ Gap(q, y, n) \in Nat
      /\ Gap(p, y, n) < n /\ FullCount = n - 1 /\ n \in Nat
  BY <1>3, Shape, GapIs
<1>6. Gap(p, Inc(y), n) = Gap(p, y, n) + 1 /\ Gap(p, y, n) # FullCount
  BY <1>3, NextSlot
<1>7. Gap(x, Inc(y), n) = Gap(x, y, n) + 1 /\ Gap(q, Inc(y), n) = Gap(q, y, n) + 1
  <2>1. Gap(x, y, n) # FullCount /\ Gap(q, y, n) # FullCount
    BY <1>4, <1>5, <1>6
  <2> QED
    BY <1>3, <2>1, NextSlot
<1>8. Count(c)' = Count(c) + 1
  BY <1>1, <1>7 DEF Count
<1>9. CopyInv'
  <2> SUFFICES ASSUME NEW b \in Blocks
               PROVE  /\ Gap(p, x, n)  + Gap(x, Inc(y), n) = Gap(p, Inc(y), n)
                      /\ Gap(x, q, n) + Gap(q, Inc(y), n) = Gap(x, Inc(y), n)
    BY <1>1, <1>2, Frames DEF CopyInv, Count
  <2> QED
    BY <1>4, <1>5, <1>6, <1>7
<1> QED
  BY <1>2, <1>8, <1>9

LEMMA FrontMoved ==
  ASSUME TypeOK, CopyInv, NEW c \in Blocks, front[c] # localTail[c],
         UNCHANGED <<shape, tail, localFront, localTail>>,
         front' = [front EXCEPT ![c] = Inc(@)]
  PROVE  /\ CopyInv' /\ Count(c)' = Count(c) - 1 /\ Count(c) > 0
         /\ front'[c] = Inc(front[c])
         /\ \A b \in Blocks : b # c =>
              front'[b] = front[b] /\ Count(b)' = Count(b)
<1>1. \A b \in Blocks : front'[b] = IF b = c THEN Inc(front[c]) ELSE front[b]
  BY DEF TypeOK
<1>2. \A b \in Blocks : b # c => front'[b] = front[b] /\ Count(b)' = Count(b)
  BY <1>1 DEF Count
<1> DEFINE n == shape.slots
           x == front[c]
           y == tail[c]
           p == localFront[c]
           q == localTail[c]
<1>3. /\ x \in Slots /\ y \in Slots /\ p \in Slots /\ q \in Slots
      /\ shape \in Shapes
  BY Indices DEF TypeOK
<1>4. /\ Gap(p, x, n) + Gap(x, y, n) = Gap(p, y, n)
      /\ Gap(x, q, n) + Gap(q, y, n) = Gap(x, y, n)
  BY DEF CopyInv, Count
<1>5. /\ Gap(p, x, n) \in Nat /\ Gap(x, y, n) \in Nat /\ Gap(p, y, n) \in Nat
      /\ Gap(x, q, n) \in Nat /\ Gap(q, y, n) \in Nat /\ Gap(x, q, n) # 0
      /\ Gap(p, y, n) < n /\ FullCount = n - 1 /\ n \in Nat
  <2>1. /\ n \in Nat \ {0} /\ FullCount = n - 1
        /\ x \in 0 .. n - 1 /\ y \in 0 .. n - 1
        /\ p \in 0 .. n - 1 /\ q \in 0 .. n - 1 /\ x # q
    BY <1>3, Shape
  <2> HIDE DEF n, x, y, p, q
  <2>2. Gap(p, x, n) \in Nat /\ Gap(x, y, n) \in Nat
    BY <2>1, GapIs
  <2>3. Gap(p, y, n) \in Nat /\ Gap(p, y, n) < n
    BY <2>1, GapIs
  <2>4. Gap(x, q, n) \in Nat /\ Gap(q, y, n) \in Nat
    BY <2>1, GapIs
  <2>5. Gap(x, q, n) # 0
    BY <2>1, GapIs
  <2> QED
    BY <2>1, <2>2, <2>3, <2>4, <2>5
<1>6. Gap(x, y, n) # 0 /\ Gap(p, x, n) # FullCount
  BY <1>4, <1>5
<1>7. /\ Gap(Inc(x), y, n) = Gap(x, y, n) - 1
      /\ Gap(Inc(x), q, n) = Gap(x, q, n) - 1
      /\ Gap(p, Inc(x), n) = Gap(p, x, n) + 1
  <2>1. x # y
    BY <1>3, <1>6, Shape DEF Gap
  <2> QED
    BY <1>3, <1>6, <2>1, NextSlot
<1>8. Count(c)' = Count(c) - 1 /\ Count(c) > 0
  BY <1>1, <1>5, <1>6, <1>7 DEF Count
<1>9. CopyInv'
  <2> SUFFICES ASSUME NEW b \in Blocks
               PROVE  /\ Gap(p, Inc(x), n) + Gap(Inc(x), y, n) = Gap(p, y, n)
                      /\ Gap(Inc(x), q, n) + Gap(q, y, n) = Gap(Inc(x), y, n)
    BY <1>1, <1>2, Frames DEF CopyInv, Count
  <2> QED
    BY <1>4, <1>5, <1>7
<1> QED
  BY <1>1, <1>2, <1>8, <1>9

LEMMA Distributed ==
  ASSUME NEW k \in Int, NEW m \in Int
  PROVE  (k - 1) * m + m = k * m /\ (k - 1) * m \in Int /\ k * m \in Int
OBVIOUS

LEMMA FirstIs ==
  ASSUME TypeOK, NEW b \in Blocks
  PROVE  First(b) \in Int
<1>1. /\ taken \in Nat /\ frontBlock \in Blocks /\ shape \in Shapes
  BY DEF TypeOK
<1>2. Count(frontBlock) \in Nat /\ Dist(b) \in Int /\ FullCount \in Int
  BY <1>1, Indices, Distance, Shape
<1>3. (Dist(b) - 1) * FullCount \in Int
  BY <1>2, Distributed
<1> QED
  BY <1>1, <1>2, <1>3 DEF First

(* A full tail block with the front block behind it: the queue has as many *)
(* elements as it must be able to hold.                                    *)
LEMMA FullRing ==
  ASSUME QueueInv, Count(tailBlock) = FullCount, After(tailBlock) = frontBlock
  PROVE  Length >= CapacityOf(shape)
<1> DEFINE m == FullCount
           k == shape.blocks - 1
           g == Count(frontBlock)
<1>1. /\ shape.blocks \in Nat \ {0} /\ m \in Nat /\ m = shape.slots - 1
      /\ frontBlock \in Blocks /\ tailBlock \in Blocks
      /\ sent \in Nat /\ taken \in Nat
  BY Shape DEF QueueInv, TypeOK
<1>2. Dist(tailBlock) = k /\ (k = 0 <=> tailBlock = frontBlock)
  BY <1>1, NextBlock, Distance DEF QueueInv
<1>3. g \in Nat /\ k \in Nat
  BY <1>1, Indices DEF QueueInv
<1>4. sent + 1 = First(tailBlock) + m
  BY DEF QueueInv, DataInv
<1> HIDE DEF m, k, g
<1>5. CASE k = 0
  <2>1. sent = taken + m
    BY <1>1, <1>2, <1>4, <1>5 DEF First
  <2>2. CapacityOf(shape) = m
    BY <1>1, <1>5 DEF CapacityOf, k
  <2> QED
    BY <2>1, <2>2, <1>1 DEF Length
<1>6. CASE k # 0
  <2>1. First(tailBlock) = taken + 1 + g + (k - 1) * m
    BY <1>2, <1>6 DEF First, g, m
  <2>2. (k - 1) * m + m = k * m /\ (k - 1) * m \in Int /\ k * m \in Int
    BY <1>1, <1>3, Distributed
  <2>3. CapacityOf(shape) = k * m
    BY <1>1, <1>6 DEF CapacityOf, k
  <2>4. sent - taken = g + k * m
    BY <2>1, <2>2, <1>1, <1>3, <1>4
  <2> QED
    BY <2>2, <2>3, <2>4, <1>3 DEF Length
<1> QED
  BY <1>5, <1>6

-----------------------------------------------------------------------------
(* The producer.                                                           *)
LEMMA FindRoomKeeps == QueueInv /\ TypeOK' /\ FindRoom => QueueInv'
<1> SUFFICES ASSUME QueueInv, TypeOK', FindRoom PROVE QueueInv'
  OBVIOUS
<1> USE DEF QueueInv
<1> DEFINE b == tailBlock
<1>1. /\ producer = "idle" /\ sent < MaxSent /\ had' = Length
      /\ shape' = shape /\ data' = data /\ front' = front /\ tail' = tail
      /\ frontBlock' = frontBlock /\ tailBlock' = tailBlock
      /\ UNCHANGED <<localTail, consumer, result, sent, taken, found>>
      /\ b \in Blocks /\ shape \in Shapes
  BY DEF FindRoom, ringVars, consumerVars, TypeOK
<1>2. /\ producer' \in {"write", "full"}
      /\ producer' = "write" => Inc(tail[b]) # localFront'[b]
      /\ producer' = "full" => Inc(tail[b]) = front[b]
      /\ localFront' = localFront
           \/ localFront' = [localFront EXCEPT ![b] = front[b]]
  BY <1>1 DEF FindRoom, TypeOK
<1>3. BlocksInv' /\ DataInv'
  BY <1>1, <1>2, LookingKeeps DEF ringVars
<1>4. CopyInv'
  BY <1>1, <1>2, CopiesKept, FrontCopied
<1>5. Inc(tail[b]) = front[b] => Count(b) = FullCount
  BY <1>1, Indices, NextSlot DEF Count
<1>6. ProducerInv'
  <2>1. Count(b)' = Count(b) /\ FullCount' = FullCount /\ After(b)' = After(b)
        /\ CapacityOf(shape)' = CapacityOf(shape) /\ \A i : Inc(i)' = Inc(i)
    BY <1>1 DEF Count, FullCount, After, CapacityOf, Inc
  <2>2. producer' = "full" /\ After(b) = frontBlock => had' >= CapacityOf(shape)
    BY <1>1, <1>2, <1>5, FullRing
  <2> QED
    BY <1>1, <1>2, <1>5, <2>1, <2>2 DEF ProducerInv
<1>7. ConsumerInv'
  BY <1>1, Frames DEF ConsumerInv
<1> QED
  BY <1>3, <1>4, <1>6, <1>7

(* The element is written to the slot behind the tail, where nobody looks. *)
LEMMA Filling ==
  ASSUME TypeOK, DataInv, NEW c \in Blocks,
         UNCHANGED <<shape, front, tail, frontBlock, tailBlock, sent, taken>>,
         data' = [data EXCEPT ![c][tail[c]] = sent + 1]
  PROVE  DataInv' /\ data'[c][tail[c]] = sent + 1
<1>1. tail[c] \in Slots
  BY Indices
<1>2. /\ data'[c][tail[c]] = sent + 1
      /\ \A b \in Blocks, i \in Slots :
           <<b, i>> # <<c, tail[c]>> => data'[b][i] = data[b][i]
  BY <1>1 DEF TypeOK
<1>3. Off(c, tail[c]) = Count(c) /\ Count(c) \in Nat
  BY <1>1, Offsets, Indices
<1>4. \A b \in Blocks, i \in Slots :
        InUse(b) /\ Off(b, i) < Count(b) => data'[b][i] = First(b) + Off(b, i)
  BY <1>2, <1>3 DEF DataInv
<1>5. /\ \A b : InUse(b)' = InUse(b) /\ First(b)' = First(b)
      /\ \A b, i : Off(b, i)' = Off(b, i)
      /\ \A b : Count(b)' = Count(b)
      /\ Blocks' = Blocks /\ Slots' = Slots
  BY DEF InUse, First, Dist, Off, Count, Blocks, Slots, FullCount
<1>6. DataInv'
  BY <1>4, <1>5 DEF DataInv
<1> QED
  BY <1>2, <1>6

LEMMA WriteKeeps == QueueInv /\ TypeOK' /\ Write => QueueInv'
<1> SUFFICES ASSUME QueueInv, TypeOK', Write PROVE QueueInv'
  OBVIOUS
<1> USE DEF QueueInv
<1> DEFINE b == tailBlock
<1>1. /\ producer = "write" /\ producer' = "publish"
      /\ data' = [data EXCEPT ![b][tail[b]] = sent + 1]
      /\ shape' = shape /\ front' = front /\ tail' = tail
      /\ frontBlock' = frontBlock /\ tailBlock' = tailBlock
      /\ UNCHANGED <<localFront, localTail, consumer, result, sent, taken,
                     had, found>>
      /\ b \in Blocks
  BY DEF Write, consumerVars, TypeOK
<1>2. BlocksInv' /\ CopyInv'
  BY <1>1, BlocksKept, CopiesKept
<1>3. DataInv' /\ data'[b][tail[b]] = sent + 1
  BY <1>1, Filling
<1>4. ProducerInv'
  BY <1>1, <1>3, Frames DEF ProducerInv
<1>5. ConsumerInv'
  BY <1>1, Frames DEF ConsumerInv
<1> QED
  BY <1>2, <1>3, <1>4, <1>5

LEMMA PublishKeeps == QueueInv /\ TypeOK' /\ Publish => QueueInv'
<1> SUFFICES ASSUME QueueInv, TypeOK', Publish PROVE QueueInv'
  OBVIOUS
<1> USE DEF QueueInv
<1> DEFINE b == tailBlock
<1>1. /\ producer = "publish" /\ producer' = "idle" /\ sent' = sent + 1
      /\ tail' = [tail EXCEPT ![b] = Inc(@)]
      /\ shape' = shape /\ data' = data /\ front' = front
      /\ frontBlock' = frontBlock /\ tailBlock' = tailBlock
      /\ UNCHANGED <<localFront, localTail, consumer, result, taken, had,
                     found>>
      /\ b \in Blocks /\ frontBlock \in Blocks /\ sent \in Nat /\ taken \in Nat
      /\ sent < MaxSent /\ MaxSent \in Nat
  BY QueueAssumption DEF Publish, consumerVars, TypeOK, ProducerInv
<1>2. /\ Inc(tail[b]) # localFront[b] /\ data[b][tail[b]] = sent + 1
      /\ Off(b, tail[b]) = Count(b) /\ Count(b) \in Nat /\ tail[b] \in Slots
  BY <1>1, Indices, Offsets DEF ProducerInv
<1>3. /\ CopyInv' /\ Count(b)' = Count(b) + 1
      /\ \A c \in Blocks : c # b => tail'[c] = tail[c] /\ Count(c)' = Count(c)
  BY <1>1, <1>2, TailMoved
<1>4. /\ Blocks' = Blocks /\ Slots' = Slots /\ FullCount' = FullCount
      /\ \A c : Dist(c)' = Dist(c) /\ InUse(c)' = InUse(c)
      /\ \A c, i : Off(c, i)' = Off(c, i)
      /\ \A c : After(c)' = After(c)
  BY <1>1 DEF Blocks, Slots, FullCount, Dist, InUse, Off, After
<1>5. InUse(b) /\ \A c \in Blocks : Dist(c) = Dist(b) => c = b
  BY <1>1, Distance DEF InUse
<1>6. BlocksInv'
  BY <1>1, <1>2, <1>3, <1>4, <1>5 DEF BlocksInv
<1>7. \A c \in Blocks : InUse(c) => First(c)' = First(c)
  <2> SUFFICES ASSUME NEW c \in Blocks, InUse(c), c # frontBlock
               PROVE  First(c)' = First(c)
    BY <1>1 DEF First
  <2>1. frontBlock # b
    BY <1>1, Distance DEF InUse
  <2> QED
    BY <1>1, <1>3, <1>4, <2>1 DEF First
<1>8. DataInv'
  <2>1. ASSUME NEW c \in Blocks, NEW i \in Slots, InUse(c),
               Off(c, i) < Count(c)'
        PROVE  data[c][i] = First(c) + Off(c, i)
    <3>1. CASE c = b /\ i = tail[b]
      BY <1>2, <3>1 DEF DataInv
    <3>2. CASE c = b /\ i # tail[b]
      <4>1. Off(b, i) # Count(b) /\ Off(b, i) \in Nat
        BY <1>1, <1>2, <3>2, Offsets
      <4> QED
        BY <1>1, <1>2, <1>3, <2>1, <3>2, <4>1 DEF DataInv
    <3>3. CASE c # b
      BY <1>3, <2>1, <3>3 DEF DataInv
    <3> QED
      BY <3>1, <3>2, <3>3
  <2>2. sent' + 1 = First(b) + Count(b)'
    <3>1. First(b) \in Int
      BY <1>1, FirstIs
    <3> QED
      BY <1>1, <1>2, <1>3, <3>1 DEF DataInv
  <2> QED
    BY <1>1, <1>4, <1>5, <1>7, <2>1, <2>2 DEF DataInv
<1>9. ProducerInv'
  BY <1>1 DEF ProducerInv
<1>10. ConsumerInv'
  BY <1>1, <1>2, <1>3, <1>4 DEF ConsumerInv
<1> QED
  BY <1>3, <1>6, <1>8, <1>9, <1>10

LEMMA FindBlockKeeps == QueueInv /\ TypeOK' /\ FindBlock => QueueInv'
<1> SUFFICES ASSUME QueueInv, TypeOK', FindBlock PROVE QueueInv'
  OBVIOUS
<1> USE DEF QueueInv
<1>1. /\ producer = "full"
      /\ \/ producer' = "next" /\ After(tailBlock) # frontBlock
         \/ producer' = "idle"
      /\ UNCHANGED ringVars
      /\ shape' = shape /\ data' = data /\ front' = front /\ tail' = tail
      /\ frontBlock' = frontBlock /\ tailBlock' = tailBlock
      /\ UNCHANGED <<localFront, localTail, consumer, result, sent, taken,
                     had, found>>
  BY DEF FindBlock, ringVars, consumerVars
<1>2. BlocksInv' /\ DataInv' /\ CopyInv'
  BY <1>1, LookingKeeps, CopiesKept
<1>3. ProducerInv'
  BY <1>1, Frames DEF ProducerInv
<1>4. ConsumerInv'
  BY <1>1, Frames DEF ConsumerInv
<1> QED
  BY <1>2, <1>3, <1>4

LEMMA EnterBlockKeeps == QueueInv /\ TypeOK' /\ EnterBlock => QueueInv'
<1> SUFFICES ASSUME QueueInv, TypeOK', EnterBlock PROVE QueueInv'
  OBVIOUS
<1> USE DEF QueueInv
<1> DEFINE n == After(tailBlock)
<1>1. /\ producer = "next" /\ producer' = "writeNext"
      /\ UNCHANGED ringVars
      /\ shape' = shape /\ data' = data /\ front' = front /\ tail' = tail
      /\ frontBlock' = frontBlock /\ tailBlock' = tailBlock
      /\ UNCHANGED <<localTail, consumer, result, sent, taken, had, found>>
      /\ localFront' = [localFront EXCEPT ![n] = front[n]]
      /\ tailBlock \in Blocks
  BY DEF EnterBlock, ringVars, consumerVars, TypeOK
<1>2. n \in Blocks
  BY <1>1, NextBlock
<1>3. localFront'[n] = front[n]
  BY <1>1, <1>2 DEF TypeOK
<1>4. BlocksInv' /\ DataInv' /\ CopyInv'
  BY <1>1, <1>2, LookingKeeps, FrontCopied
<1>5. ProducerInv'
  BY <1>1, <1>3, Frames DEF ProducerInv
<1>6. ConsumerInv'
  BY <1>1, Frames DEF ConsumerInv
<1> QED
  BY <1>4, <1>5, <1>6

LEMMA WriteNextKeeps == QueueInv /\ TypeOK' /\ WriteNext => QueueInv'
<1> SUFFICES ASSUME QueueInv, TypeOK', WriteNext PROVE QueueInv'
  OBVIOUS
<1> USE DEF QueueInv
<1> DEFINE n == After(tailBlock)
<1>1. /\ producer = "writeNext" /\ producer' = "publishNext"
      /\ data' = [data EXCEPT ![n][tail[n]] = sent + 1]
      /\ shape' = shape /\ front' = front /\ tail' = tail
      /\ frontBlock' = frontBlock /\ tailBlock' = tailBlock
      /\ UNCHANGED <<localFront, localTail, consumer, result, sent, taken,
                     had, found>>
      /\ tailBlock \in Blocks
  BY DEF WriteNext, consumerVars, TypeOK
<1>2. n \in Blocks
  BY <1>1, NextBlock
<1>3. BlocksInv' /\ CopyInv'
  BY <1>1, BlocksKept, CopiesKept
<1>4. DataInv' /\ data'[n][tail[n]] = sent + 1
  BY <1>1, <1>2, Filling
<1>5. ProducerInv'
  BY <1>1, <1>4, Frames DEF ProducerInv
<1>6. ConsumerInv'
  BY <1>1, Frames DEF ConsumerInv
<1> QED
  BY <1>3, <1>4, <1>5, <1>6

(* The block after the tail block, when it is not the front block, is not  *)
(* in use.                                                                 *)
LEMMA BlockBehind ==
  ASSUME TypeOK, After(tailBlock) # frontBlock
  PROVE  /\ After(tailBlock) \in Blocks /\ ~InUse(After(tailBlock))
         /\ Dist(After(tailBlock)) = Dist(tailBlock) + 1
         /\ After(tailBlock) # tailBlock
<1>1. tailBlock \in Blocks
  BY DEF TypeOK
<1> QED
  BY <1>1, NextBlock, Distance DEF InUse

LEMMA PublishNextKeeps == QueueInv /\ TypeOK' /\ PublishNext => QueueInv'
<1> SUFFICES ASSUME QueueInv, TypeOK', PublishNext PROVE QueueInv'
  OBVIOUS
<1> USE DEF QueueInv
<1> DEFINE n == After(tailBlock)
<1>1. /\ producer = "publishNext" /\ producer' = "advance"
      /\ tail' = [tail EXCEPT ![n] = Inc(@)]
      /\ shape' = shape /\ data' = data /\ front' = front
      /\ frontBlock' = frontBlock /\ tailBlock' = tailBlock
      /\ UNCHANGED <<localFront, localTail, consumer, result, sent, taken, had,
                     found>>
      /\ tailBlock \in Blocks /\ frontBlock \in Blocks
  BY DEF PublishNext, consumerVars, TypeOK
<1>2. /\ n # frontBlock /\ n \in Blocks /\ ~InUse(n) /\ n # tailBlock
      /\ localFront[n] = front[n] /\ data[n][tail[n]] = sent + 1
  BY <1>1, BlockBehind DEF ProducerInv
<1>3. Count(n) = 0 /\ front[n] = tail[n]
  BY <1>1, <1>2, Indices DEF BlocksInv
<1>4. Inc(tail[n]) # localFront[n]
  <2>1. Gap(front[n], tail[n], shape.slots) # FullCount /\ shape \in Shapes
    BY <1>3, Shape DEF Count, TypeOK
  <2> QED
    BY <1>2, <2>1, NextSlot, Indices
<1>5. /\ CopyInv' /\ Count(n)' = 1
      /\ \A c \in Blocks : c # n => tail'[c] = tail[c] /\ Count(c)' = Count(c)
  <2>1. n' = n
    BY <1>1 DEF After
  <2>2. /\ CopyInv' /\ Count(n)' = Count(n) + 1
        /\ \A c \in Blocks : c # n => tail'[c] = tail[c] /\ Count(c)' = Count(c)
    BY <1>1, <1>2, <1>4, <2>1, TailMoved
  <2> QED
    BY <1>3, <2>2
<1>6. /\ Blocks' = Blocks /\ Slots' = Slots /\ FullCount' = FullCount
      /\ \A c : Dist(c)' = Dist(c) /\ InUse(c)' = InUse(c)
      /\ \A c, i : Off(c, i)' = Off(c, i)
      /\ \A c : After(c)' = After(c) /\ Inc(c)' = Inc(c)
  BY <1>1 DEF Blocks, Slots, FullCount, Dist, InUse, Off, After, Inc
<1>7. BlocksInv'
  BY <1>1, <1>2, <1>5, <1>6 DEF BlocksInv
<1>8. \A c : First(c)' = First(c)
  BY <1>1, <1>2, <1>5, <1>6 DEF First
<1>9. DataInv'
  BY <1>1, <1>2, <1>5, <1>6, <1>8 DEF DataInv
<1>10. ProducerInv'
  BY <1>1, <1>2, <1>3, <1>5, <1>6 DEF ProducerInv
<1>11. ConsumerInv'
  BY <1>1, <1>2, <1>5, <1>6 DEF ConsumerInv
<1> QED
  BY <1>5, <1>7, <1>9, <1>10, <1>11

LEMMA AdvanceTailKeeps == QueueInv /\ TypeOK' /\ AdvanceTail => QueueInv'
<1> SUFFICES ASSUME QueueInv, TypeOK', AdvanceTail PROVE QueueInv'
  OBVIOUS
<1> USE DEF QueueInv
<1> DEFINE b == tailBlock
           n == After(tailBlock)
<1>1. /\ producer = "advance" /\ producer' = "idle"
      /\ tailBlock' = n /\ sent' = sent + 1
      /\ shape' = shape /\ data' = data /\ front' = front /\ tail' = tail
      /\ frontBlock' = frontBlock
      /\ UNCHANGED <<localFront, localTail, consumer, result, taken, had,
                     found>>
      /\ b \in Blocks /\ frontBlock \in Blocks /\ sent \in Nat /\ taken \in Nat
      /\ sent < MaxSent /\ MaxSent \in Nat /\ shape \in Shapes
  BY QueueAssumption DEF AdvanceTail, consumerVars, TypeOK, ProducerInv
<1>2. /\ n # frontBlock /\ n \in Blocks /\ ~InUse(n) /\ n # b
      /\ Dist(n) = Dist(b) + 1 /\ Dist(b) \in Nat
      /\ Count(n) = 1 /\ data[n][front[n]] = sent + 1
      /\ b # frontBlock => Count(b) = FullCount
  BY <1>1, BlockBehind, Distance DEF ProducerInv
<1>3. /\ Blocks' = Blocks /\ Slots' = Slots /\ FullCount' = FullCount
      /\ \A c : Dist(c)' = Dist(c) /\ Count(c)' = Count(c)
      /\ \A c, i : Off(c, i)' = Off(c, i)
      /\ \A c : After(c)' = After(c)
  BY <1>1 DEF Blocks, Slots, FullCount, Dist, Off, After, Count
<1>4. \A c \in Blocks : /\ InUse(c)' <=> InUse(c) \/ c = n
                        /\ c = b => InUse(c)
  <2>1. \A c \in Blocks : /\ Dist(c) \in Nat
                          /\ Dist(c) = Dist(n) => c = n
    BY <1>2, Distance
  <2>2. \A c \in Blocks : InUse(c)' <=> Dist(c) <= Dist(n)
    BY <1>1, <1>3 DEF InUse, Dist
  <2> QED
    BY <1>2, <2>1, <2>2 DEF InUse
<1>5. BlocksInv'
  <2> SUFFICES ASSUME NEW c \in Blocks
               PROVE  /\ c # frontBlock /\ InUse(c)' => Count(c) > 0
                      /\ c # frontBlock /\ c # n /\ InUse(c)'
                           => Count(c) = FullCount
                      /\ ~InUse(c)' => Count(c) = 0
    BY <1>1, <1>3 DEF BlocksInv
  <2> QED
    BY <1>1, <1>2, <1>4 DEF BlocksInv
<1>6. \A c : First(c)' = First(c)
  BY <1>1 DEF First, Count, Dist, FullCount
<1>7. First(n) = sent + 1
  <2> DEFINE m == FullCount
             k == Dist(b)
             g == Count(frontBlock)
  <2>1. sent + 1 = First(b) + Count(b)
    BY DEF DataInv
  <2>2. m \in Int /\ k \in Int /\ g \in Int
    BY <1>1, <1>2, Shape, Indices
  <2>3. First(n) = taken + 1 + g + k * m
    <3>1. Dist(n) - 1 = k
      BY <1>2
    <3> QED
      BY <1>2, <3>1 DEF First
  <2>4. CASE b = frontBlock
    <3>1. k = 0
      BY <1>1, <2>4, Distance
    <3> QED
      BY <1>1, <2>1, <2>2, <2>3, <2>4, <3>1 DEF First
  <2>5. CASE b # frontBlock
    <3>1. First(b) = taken + 1 + g + (k - 1) * m /\ Count(b) = m
      BY <1>2, <2>5 DEF First
    <3>2. (k - 1) * m + m = k * m /\ (k - 1) * m \in Int /\ k * m \in Int
      BY <2>2, Distributed
    <3> HIDE DEF m, k, g
    <3> QED
      BY <1>1, <2>1, <2>2, <2>3, <3>1, <3>2
  <2> QED
    BY <2>4, <2>5
<1>8. DataInv'
  <2>1. ASSUME NEW c \in Blocks, NEW i \in Slots, InUse(c) \/ c = n,
               Off(c, i) < Count(c)
        PROVE  data[c][i] = First(c) + Off(c, i)
    <3>1. CASE c = n
      <4>1. Off(n, i) = 0 /\ Off(n, front[n]) = 0 /\ front[n] \in Slots
        BY <1>2, <2>1, <3>1, Offsets, Indices
      <4>2. i = front[n]
        BY <1>2, <4>1, Offsets
      <4> QED
        BY <1>1, <1>2, <1>7, <3>1, <4>1, <4>2
    <3>2. CASE c # n
      BY <2>1, <3>2 DEF DataInv
    <3> QED
      BY <3>1, <3>2
  <2>2. sent' + 1 = First(n) + Count(n)
    BY <1>1, <1>2, <1>7
  <2>3. First(tailBlock)' = First(n) /\ Count(tailBlock)' = Count(n)
    BY <1>1 DEF First, Count, Dist, FullCount
  <2> QED
    BY <1>1, <1>3, <1>4, <1>6, <2>1, <2>2, <2>3 DEF DataInv
<1>9. CopyInv'
  BY <1>1, CopiesKept
<1>10. ProducerInv'
  BY <1>1 DEF ProducerInv
<1>11. ConsumerInv'
  BY <1>1, <1>2, <1>3 DEF ConsumerInv
<1> QED
  BY <1>5, <1>8, <1>9, <1>10, <1>11

-----------------------------------------------------------------------------
(* The consumer.                                                           *)
LEMMA LookKeeps == QueueInv /\ TypeOK' /\ Look => QueueInv'
<1> SUFFICES ASSUME QueueInv, TypeOK', Look PROVE QueueInv'
  OBVIOUS
<1> USE DEF QueueInv
<1> DEFINE b == frontBlock
<1>1. /\ consumer = "idle" /\ found' = Length
      /\ UNCHANGED ringVars
      /\ shape' = shape /\ data' = data /\ front' = front /\ tail' = tail
      /\ frontBlock' = frontBlock /\ tailBlock' = tailBlock
      /\ UNCHANGED <<localFront, producer, result, sent, taken, had>>
      /\ b \in Blocks /\ shape \in Shapes
  BY DEF Look, ringVars, producerVars, TypeOK
<1>2. /\ consumer' \in {"take", "empty"}
      /\ consumer' = "take" => front[b] # localTail'[b]
      /\ consumer' = "empty" => front[b] = tail[b]
      /\ localTail' = localTail \/ localTail' = [localTail EXCEPT ![b] = tail[b]]
  BY <1>1 DEF Look, TypeOK
<1>3. BlocksInv' /\ DataInv' /\ CopyInv'
  BY <1>1, <1>2, LookingKeeps, CopiesKept, TailCopied
<1>4. ProducerInv'
  BY <1>1, Frames DEF ProducerInv
<1>5. consumer' = "take" => Count(b) > 0
  <2>1. b \in Blocks' /\ b' = b /\ shape' = shape
    BY <1>1, Frames
  <2>2. /\ Gap(front[b], localTail'[b], shape.slots)
             + Gap(localTail'[b], tail[b], shape.slots) = Count(b)
    BY <1>1, <1>3, <2>1, Frames DEF CopyInv
  <2>3. /\ localTail'[b] \in Slots /\ front[b] \in Slots /\ tail[b] \in Slots
    BY <1>1, <2>1, Indices, Frames DEF TypeOK
  <2>4. /\ Slots = 0 .. shape.slots - 1 /\ shape.slots \in Nat \ {0}
    BY <1>1, Shape
  <2>5. ASSUME NEW x \in Slots, NEW y \in Slots, NEW z \in Slots,
               Gap(x, z, shape.slots) + Gap(z, y, shape.slots) = Count(b), x # z
        PROVE  Count(b) > 0
    <3>1. /\ Gap(x, z, shape.slots) \in Nat /\ Gap(x, z, shape.slots) # 0
          /\ Gap(z, y, shape.slots) \in Nat
      BY <2>4, <2>5, GapIs
    <3> QED
      BY <2>5, <3>1
  <2> QED
    BY <1>2, <2>2, <2>3, <2>5
<1>6. consumer' = "empty" => found' = 0 \/ frontBlock # tailBlock
  <2> SUFFICES ASSUME front[b] = tail[b], tailBlock = b PROVE Length = 0
    BY <1>1, <1>2
  <2>1. Count(b) = 0 /\ sent \in Nat /\ taken \in Nat
    BY <1>1, Indices DEF TypeOK
  <2>2. sent + 1 = taken + 1 + 0
    BY <2>1 DEF DataInv, First
  <2> QED
    BY <2>1, <2>2 DEF Length
<1>7. ConsumerInv'
  BY <1>1, <1>2, <1>5, <1>6, Frames DEF ConsumerInv
<1> QED
  BY <1>3, <1>4, <1>7

LEMMA CompareKeeps == QueueInv /\ TypeOK' /\ Compare => QueueInv'
<1> SUFFICES ASSUME QueueInv, TypeOK', Compare PROVE QueueInv'
  OBVIOUS
<1> USE DEF QueueInv
<1>1. /\ \/ consumer' = "again" /\ frontBlock # tailBlock
         \/ consumer' = "idle"
      /\ UNCHANGED ringVars
      /\ shape' = shape /\ data' = data /\ front' = front /\ tail' = tail
      /\ frontBlock' = frontBlock /\ tailBlock' = tailBlock
      /\ UNCHANGED <<localFront, localTail, producer, result, sent, taken, had,
                     found>>
  BY DEF Compare, ringVars, producerVars
<1>2. BlocksInv' /\ DataInv' /\ CopyInv'
  BY <1>1, LookingKeeps, CopiesKept
<1>3. ProducerInv'
  BY <1>1, Frames DEF ProducerInv
<1>4. ConsumerInv'
  BY <1>1, Frames DEF ConsumerInv
<1> QED
  BY <1>2, <1>3, <1>4

LEMMA LookAgainKeeps == QueueInv /\ TypeOK' /\ LookAgain => QueueInv'
<1> SUFFICES ASSUME QueueInv, TypeOK', LookAgain PROVE QueueInv'
  OBVIOUS
<1> USE DEF QueueInv
<1> DEFINE b == frontBlock
<1>1. /\ consumer = "again"
      /\ consumer' = IF front[b] # tail[b] THEN "take" ELSE "next"
      /\ UNCHANGED ringVars
      /\ shape' = shape /\ data' = data /\ front' = front /\ tail' = tail
      /\ frontBlock' = frontBlock /\ tailBlock' = tailBlock
      /\ UNCHANGED <<localFront, producer, result, sent, taken, had, found>>
      /\ localTail' = [localTail EXCEPT ![b] = tail[b]]
      /\ b \in Blocks
  BY DEF LookAgain, ringVars, producerVars, TypeOK
<1>2. BlocksInv' /\ DataInv' /\ CopyInv'
  BY <1>1, LookingKeeps, TailCopied
<1>3. ProducerInv'
  BY <1>1, Frames DEF ProducerInv
<1>4. /\ Count(b) \in Nat
      /\ Count(b) = 0 <=> front[b] = tail[b]
      /\ localTail'[b] = tail[b]
  BY <1>1, Indices DEF TypeOK
<1>5. Count(frontBlock)' = Count(b)
  BY <1>1 DEF Count
<1>6. ConsumerInv'
  BY <1>1, <1>4, <1>5 DEF ConsumerInv
<1> QED
  BY <1>2, <1>3, <1>6

(* While the tail block is another, the block after the front block has    *)
(* an element.                                                             *)
LEMMA BlockAhead ==
  ASSUME QueueInv, frontBlock # tailBlock
  PROVE  LET n == After(frontBlock)
         IN  /\ n \in Blocks /\ n # frontBlock /\ InUse(n) /\ Dist(n) = 1
             /\ Count(n) > 0 /\ front[n] # tail[n]
<1> USE DEF QueueInv
<1>1. frontBlock \in Blocks /\ tailBlock \in Blocks
  BY DEF TypeOK
<1>2. Dist(tailBlock) # 0 /\ Dist(tailBlock) \in Nat
      /\ Dist(tailBlock) < shape.blocks /\ Dist(frontBlock) = 0
  BY <1>1, Distance
<1>3. /\ After(frontBlock) \in Blocks
      /\ After(frontBlock) # frontBlock /\ Dist(After(frontBlock)) = 1
  <2>1. shape.blocks - 1 # 0
    BY <1>2, Shape DEF TypeOK
  <2>2. /\ After(frontBlock) \in Blocks
        /\ Dist(After(frontBlock)) =
             IF After(frontBlock) = frontBlock THEN 0 ELSE Dist(frontBlock) + 1
        /\ After(frontBlock) = frontBlock
             <=> Dist(frontBlock) = shape.blocks - 1
    BY <1>1, NextBlock
  <2> QED
    BY <1>2, <2>1, <2>2
<1>4. InUse(After(frontBlock))
  BY <1>2, <1>3 DEF InUse
<1>5. Count(After(frontBlock)) > 0
  BY <1>3, <1>4 DEF BlocksInv
<1> QED
  BY <1>3, <1>4, <1>5, Indices

LEMMA LookNextKeeps == QueueInv /\ TypeOK' /\ LookNext => QueueInv'
<1> SUFFICES ASSUME QueueInv, TypeOK', LookNext PROVE QueueInv'
  OBVIOUS
<1> USE DEF QueueInv
<1> DEFINE n == After(frontBlock)
<1>1. /\ consumer = "next" /\ consumer' = "advance"
      /\ UNCHANGED ringVars
      /\ shape' = shape /\ data' = data /\ front' = front /\ tail' = tail
      /\ frontBlock' = frontBlock /\ tailBlock' = tailBlock
      /\ UNCHANGED <<localFront, producer, result, sent, taken, had, found>>
      /\ localTail' = [localTail EXCEPT ![n] = tail[n]]
  BY DEF LookNext, ringVars, producerVars
<1>2. n \in Blocks /\ front[n] # tail[n]
  BY <1>1, BlockAhead DEF ConsumerInv
<1>3. BlocksInv' /\ DataInv' /\ CopyInv'
  BY <1>1, <1>2, LookingKeeps, TailCopied
<1>4. ProducerInv'
  BY <1>1, Frames DEF ProducerInv
<1>5. localTail'[n] = tail[n] /\ n' = n
  BY <1>1, <1>2 DEF TypeOK, After
<1>6. ConsumerInv'
  BY <1>1, <1>2, <1>5, Frames DEF ConsumerInv
<1> QED
  BY <1>3, <1>4, <1>6

LEMMA AdvanceFrontKeeps == QueueInv /\ TypeOK' /\ AdvanceFront => QueueInv'
<1> SUFFICES ASSUME QueueInv, TypeOK', AdvanceFront PROVE QueueInv'
  OBVIOUS
<1> USE DEF QueueInv
<1> DEFINE f == frontBlock
           n == After(frontBlock)
           b == tailBlock
<1>1. /\ consumer = "advance" /\ consumer' = "take" /\ frontBlock' = n
      /\ shape' = shape /\ data' = data /\ front' = front /\ tail' = tail
      /\ tailBlock' = tailBlock
      /\ UNCHANGED <<localFront, localTail, producer, result, sent, taken, had,
                     found>>
      /\ f \in Blocks /\ b \in Blocks /\ taken \in Nat
  BY DEF AdvanceFront, producerVars, TypeOK
<1>2. /\ f # b /\ Count(f) = 0 /\ front[n] # localTail[n]
      /\ n \in Blocks /\ n # f /\ InUse(n) /\ Dist(n) = 1 /\ Count(n) > 0
  BY <1>1, BlockAhead DEF ConsumerInv
<1>3. /\ Blocks' = Blocks /\ Slots' = Slots /\ FullCount' = FullCount
      /\ CapacityOf(shape)' = CapacityOf(shape)
      /\ \A c : Count(c)' = Count(c) /\ After(c)' = After(c) /\ Inc(c)' = Inc(c)
      /\ \A c, i : Off(c, i)' = Off(c, i)
  BY <1>1, Frames DEF Count, Off
<1>4. \A c \in Blocks : Dist(c)' = IF c = f THEN shape.blocks - 1
                                            ELSE Dist(c) - 1
  <2>1. \A c \in Blocks : Dist(c)' = Gap(n, c, shape.blocks)
    BY <1>1 DEF Dist
  <2> QED
    BY <2>1, NextBlock
<1>5. /\ \A c \in Blocks : Dist(c) \in Nat /\ Dist(c) < shape.blocks
      /\ Dist(f) = 0 /\ Dist(b) # 0 /\ shape.blocks \in Nat
      /\ \A c \in Blocks : c # f => Dist(c) # 0
      /\ \A c \in Blocks : c # n => Dist(c) # 1
  BY <1>1, <1>2, Distance, Shape DEF TypeOK
<1>6. \A c \in Blocks : InUse(c)' <=> InUse(c) /\ c # f
  <2>1. \A c \in Blocks : InUse(c)' <=> Dist(c)' <= Dist(b) - 1
    <3>1. Dist(tailBlock)' = Dist(b) - 1
      BY <1>1, <1>2, <1>4, <1>5 DEF Dist
    <3> QED
      BY <3>1 DEF InUse
  <2> QED
    BY <1>1, <1>4, <1>5, <2>1 DEF InUse
<1>7. After(b) # n
  <2>1. Dist(After(b)) = 1 => Dist(b) = 0 \/ After(b) = f
    BY <1>1, <1>5, NextBlock
  <2> QED
    BY <1>2, <1>5, <2>1
<1>8. BlocksInv'
  <2> SUFFICES ASSUME NEW c \in Blocks
               PROVE  /\ c # n /\ InUse(c)' => Count(c) > 0
                      /\ c # n /\ c # b /\ InUse(c)' => Count(c) = FullCount
                      /\ ~InUse(c)' =>
                           Count(c) = 0 \/ (producer = "advance" /\ c = After(b))
    BY <1>1, <1>3 DEF BlocksInv
  <2> QED
    BY <1>2, <1>6 DEF BlocksInv
<1>9. \A c \in Blocks : InUse(c) /\ c # f => First(c)' = First(c)
  <2> SUFFICES ASSUME NEW c \in Blocks, InUse(c), c # f
               PROVE  First(c)' = First(c)
    OBVIOUS
  <2> DEFINE m == FullCount
             d == Dist(c)
  <2>1. First(c) = taken + 1 + 0 + (d - 1) * m
    BY <1>2 DEF First
  <2>2. m \in Int /\ d \in Int /\ taken \in Int
    BY <1>1, <1>5, Shape DEF TypeOK
  <2>3. CASE c = n
    <3>1. First(c) = taken + 1 + 0 + 0 * m
      BY <1>2, <2>1, <2>3
    <3>2. First(c)' = taken + 1
      BY <1>1, <2>3 DEF First
    <3> QED
      BY <2>2, <3>1, <3>2
  <2>4. CASE c # n
    <3>1. n # b
      BY <1>2, <1>5, <2>4 DEF InUse
    <3>2. Count(n) = m
      BY <1>2, <3>1 DEF BlocksInv
    <3>3. Dist(c)' = d - 1
      BY <1>4
    <3>4. First(c)' = taken + 1 + m + ((d - 1) - 1) * m
      BY <1>1, <1>3, <2>4, <3>2, <3>3 DEF First
    <3>5. ((d - 1) - 1) * m + m = (d - 1) * m
          /\ ((d - 1) - 1) * m \in Int /\ (d - 1) * m \in Int
      BY <2>2, Distributed
    <3> HIDE DEF d, m
    <3> QED
      BY <2>1, <2>2, <3>4, <3>5
  <2> QED
    BY <2>3, <2>4
<1>10. DataInv'
  <2>1. First(tailBlock)' = First(b)
    <3>1. InUse(b)
      BY <1>1, <1>5 DEF InUse
    <3>2. First(tailBlock)' = First(b)'
      OBVIOUS
    <3>3. \A c \in Blocks : c = b => First(c)' = First(b)'
      BY <1>1 DEF First, Dist, Count, FullCount
    <3> QED
      BY <1>1, <1>2, <1>9, <3>1, <3>3
  <2>2. Count(tailBlock)' = Count(b)
    BY <1>1 DEF Count
  <2> QED
    BY <1>1, <1>3, <1>6, <1>9, <2>1, <2>2 DEF DataInv
<1>11. CopyInv'
  BY <1>1, CopiesKept
<1>12. ProducerInv'
  BY <1>1, <1>2, <1>3, <1>7 DEF ProducerInv, Count, After, Inc
<1>13. ConsumerInv'
  BY <1>1, <1>2, <1>3 DEF ConsumerInv, Count
<1> QED
  BY <1>8, <1>10, <1>11, <1>12, <1>13

LEMMA MoveOutKeeps == QueueInv /\ TypeOK' /\ MoveOut => QueueInv'
<1> SUFFICES ASSUME QueueInv, TypeOK', MoveOut PROVE QueueInv'
  OBVIOUS
<1> USE DEF QueueInv
<1> DEFINE f == frontBlock
<1>1. /\ consumer = "take" /\ consumer' = "release"
      /\ result' = data[f][front[f]]
      /\ UNCHANGED ringVars
      /\ shape' = shape /\ data' = data /\ front' = front /\ tail' = tail
      /\ frontBlock' = frontBlock /\ tailBlock' = tailBlock
      /\ UNCHANGED <<localFront, localTail, producer, sent, taken, had, found>>
      /\ f \in Blocks /\ tailBlock \in Blocks /\ taken \in Nat
  BY DEF MoveOut, ringVars, producerVars, TypeOK
<1>2. BlocksInv' /\ DataInv' /\ CopyInv'
  BY <1>1, LookingKeeps, CopiesKept
<1>3. ProducerInv'
  BY <1>1, Frames DEF ProducerInv
<1>4. result' = taken + 1
  <2>1. /\ front[f] \in Slots /\ Off(f, front[f]) = 0 /\ Count(f) > 0
        /\ Dist(f) = 0 /\ Dist(tailBlock) \in Nat
    BY <1>1, Indices, Offsets, Distance DEF ConsumerInv
  <2>2. data[f][front[f]] = First(f) + Off(f, front[f])
    BY <1>1, <2>1 DEF DataInv, InUse
  <2> QED
    BY <1>1, <2>1, <2>2 DEF First
<1>5. ConsumerInv'
  BY <1>1, <1>4, Frames DEF ConsumerInv
<1> QED
  BY <1>2, <1>3, <1>5

LEMMA ReturnSlotKeeps == QueueInv /\ TypeOK' /\ ReturnSlot => QueueInv'
<1> SUFFICES ASSUME QueueInv, TypeOK', ReturnSlot PROVE QueueInv'
  OBVIOUS
<1> USE DEF QueueInv
<1> DEFINE f == frontBlock
<1>1. /\ consumer = "release" /\ consumer' = "idle" /\ taken' = taken + 1
      /\ front' = [front EXCEPT ![f] = Inc(@)]
      /\ shape' = shape /\ data' = data /\ tail' = tail
      /\ frontBlock' = frontBlock /\ tailBlock' = tailBlock
      /\ UNCHANGED <<localFront, localTail, producer, result, sent, had, found>>
      /\ f \in Blocks /\ tailBlock \in Blocks /\ taken \in Nat /\ shape \in Shapes
  BY DEF ReturnSlot, producerVars, TypeOK
<1>2. front[f] # localTail[f]
  BY <1>1 DEF ConsumerInv
<1>3. /\ CopyInv' /\ Count(f)' = Count(f) - 1 /\ Count(f) > 0
      /\ front'[f] = Inc(front[f])
      /\ \A c \in Blocks : c # f => front'[c] = front[c] /\ Count(c)' = Count(c)
  BY <1>1, <1>2, FrontMoved
<1>4. /\ Blocks' = Blocks /\ Slots' = Slots /\ FullCount' = FullCount
      /\ \A c : Dist(c)' = Dist(c) /\ InUse(c)' = InUse(c)
      /\ \A c : After(c)' = After(c) /\ Inc(c)' = Inc(c)
  BY <1>1 DEF Blocks, Slots, FullCount, Dist, InUse, After, Inc
<1>5. /\ Count(f) \in Nat /\ Count(f) <= FullCount /\ FullCount \in Nat
      /\ front[f] \in Slots /\ tail[f] \in Slots
      /\ InUse(f)
  <2>1. Dist(f) = 0 /\ Dist(tailBlock) \in Nat
    BY <1>1, Distance
  <2> QED
    BY <1>1, <2>1, Indices, Shape DEF InUse
<1>6. BlocksInv'
  BY <1>1, <1>3, <1>4, <1>5 DEF BlocksInv
<1>7. ASSUME NEW c \in Blocks
      PROVE  First(c)' = IF c = f THEN First(c) + 1 ELSE First(c)
  <2>1. CASE c = f
    BY <1>1, <2>1 DEF First
  <2>2. CASE c # f
    <3> DEFINE m == (Dist(c) - 1) * FullCount
    <3>1. m \in Int
      BY <1>5, Distance, Distributed
    <3>2. First(c) = taken + 1 + Count(f) + m
      BY <2>2 DEF First
    <3>3. First(c)' = taken' + 1 + Count(f)' + m
      BY <1>1, <1>4, <2>2 DEF First, Count
    <3> HIDE DEF m
    <3> QED
      BY <1>1, <1>3, <1>5, <2>2, <3>1, <3>2, <3>3
  <2> QED
    BY <2>1, <2>2
<1>8. \A i \in Slots : /\ Off(f, i)' = IF i = front[f] THEN FullCount
                                                       ELSE Off(f, i) - 1
                       /\ Off(f, i) \in Nat
                       /\ i # front[f] => Off(f, i) # 0
  <2> SUFFICES ASSUME NEW i \in Slots
               PROVE  /\ Off(f, i)' = IF i = front[f] THEN FullCount
                                                      ELSE Off(f, i) - 1
                      /\ Off(f, i) \in Nat
                      /\ i # front[f] => Off(f, i) # 0
    OBVIOUS
  <2>1. Off(f, i)' = Gap(Inc(front[f]), i, shape.slots)
    BY <1>1, <1>3 DEF Off
  <2>2. /\ Off(f, i) \in Nat
        /\ i # front[f] => Off(f, i) # 0
    BY <1>1, <1>5, Offsets
  <2> QED
    BY <1>1, <1>5, <2>1, <2>2, NextSlot DEF Off
<1>9. \A c \in Blocks : c # f => \A i : Off(c, i)' = Off(c, i)
  BY <1>1, <1>3 DEF Off
<1>10. DataInv'
  <2>1. ASSUME NEW c \in Blocks, NEW i \in Slots, InUse(c),
               Off(c, i)' < Count(c)'
        PROVE  data[c][i] = First(c)' + Off(c, i)'
    <3>1. CASE c = f
      <4>1. /\ Count(c)' = Count(f) - 1 /\ First(c)' = First(f) + 1
            /\ Off(c, i)' = Off(f, i)'
        BY <1>1, <1>3, <1>7, <3>1 DEF Count, Off
      <4>2. i # front[f]
        BY <1>5, <1>8, <2>1, <3>1, <4>1
      <4>3. Off(c, i)' = Off(f, i) - 1 /\ Off(f, i) \in Nat
        BY <1>8, <4>1, <4>2
      <4>4. data[f][i] = First(f) + Off(f, i)
        BY <1>1, <1>5, <2>1, <4>1, <4>3 DEF DataInv
      <4>5. First(f) \in Int
        BY <1>1, FirstIs
      <4> QED
        BY <3>1, <4>1, <4>3, <4>4, <4>5
    <3>2. CASE c # f
      BY <1>3, <1>7, <1>9, <2>1, <3>2 DEF DataInv
    <3> QED
      BY <3>1, <3>2
  <2>2. First(tailBlock)' + Count(tailBlock)' = First(tailBlock) + Count(tailBlock)
    <3>1. First(tailBlock) \in Int /\ Count(tailBlock) \in Int
      BY <1>1, FirstIs, Indices
    <3>2. CASE tailBlock = f
      <4>1. Count(tailBlock)' = Count(f) - 1 /\ First(tailBlock)' = First(f) + 1
        BY <1>1, <1>3, <3>2 DEF First, Count
      <4> QED
        BY <1>5, <3>1, <3>2, <4>1
    <3>3. CASE tailBlock # f
      <4>1. ASSUME NEW c \in Blocks, c = tailBlock
            PROVE  /\ First(tailBlock)' = First(c)'
                   /\ Count(tailBlock)' = Count(c)'
        BY <1>1, <4>1 DEF First, Count, Dist, FullCount
      <4>2. ASSUME NEW c \in Blocks, c = tailBlock
            PROVE  First(c)' = First(c) /\ Count(c)' = Count(c)
        BY <1>3, <1>7, <3>3, <4>2
      <4> QED
        BY <1>1, <4>1, <4>2
    <3> QED
      BY <3>2, <3>3
  <2> QED
    BY <1>1, <1>4, <2>1, <2>2 DEF DataInv
<1>11. ProducerInv'
  <2>1. /\ Count(tailBlock)' = IF tailBlock = f THEN Count(f) - 1
                                               ELSE Count(tailBlock)
        /\ CapacityOf(shape)' = CapacityOf(shape)
    BY <1>1, <1>3, Frames DEF Count
  <2>2. After(tailBlock) # f => /\ front'[After(tailBlock)] = front[After(tailBlock)]
                                /\ Count(After(tailBlock))' = Count(After(tailBlock))
    <3>1. After(tailBlock) \in Blocks
      BY <1>1, NextBlock
    <3> QED
      BY <1>1, <1>3, <3>1 DEF Count, After
  <2> QED
    BY <1>1, <1>4, <2>1, <2>2 DEF ProducerInv
<1>12. ConsumerInv'
  BY <1>1 DEF ConsumerInv
<1> QED
  BY <1>3, <1>6, <1>10, <1>11, <1>12

-----------------------------------------------------------------------------
(* The queue starts as the invariant says, and every step keeps it.        *)
LEMMA QueueStarts == QueueInit => QueueInv
<1> SUFFICES ASSUME QueueInit PROVE QueueInv
  OBVIOUS
<1>1. /\ shape \in Shapes /\ sent = 0 /\ taken = 0
      /\ frontBlock = 0 /\ tailBlock = 0
      /\ producer = "idle" /\ consumer = "idle"
      /\ 0 \in Blocks /\ 0 \in Slots
      /\ Blocks = 0 .. shape.blocks - 1 /\ shape.blocks \in Nat \ {0}
      /\ shape.slots \in Nat \ {0, 1}
      /\ MaxSent \in Nat
  BY Shape, QueueAssumption DEF QueueInit
<1>2. TypeOK
  BY <1>1 DEF QueueInit, TypeOK
<1>3. \A b \in Blocks : /\ front[b] = 0 /\ tail[b] = 0
                        /\ localFront[b] = 0 /\ localTail[b] = 0
  BY DEF QueueInit
<1>4. Gap(0, 0, shape.slots) = 0
  BY DEF Gap
<1>5. \A b \in Blocks : Count(b) = 0
  BY <1>3, <1>4 DEF Count
<1>6. \A b \in Blocks : /\ Dist(b) \in Nat
                        /\ InUse(b) <=> b = frontBlock
  <2>1. Dist(tailBlock) = 0
    BY <1>1, <1>2, Distance
  <2> QED
    BY <1>1, <1>2, <2>1, Distance DEF InUse
<1>7. BlocksInv
  BY <1>1, <1>5, <1>6 DEF BlocksInv
<1>8. DataInv
  <2>1. \A b \in Blocks, i \in Slots : Off(b, i) \in Nat
    BY <1>2, Offsets
  <2>2. First(tailBlock) = 1 /\ Count(tailBlock) = 0
    BY <1>1, <1>5 DEF First
  <2> QED
    BY <1>1, <1>5, <2>1, <2>2 DEF DataInv
<1>9. CopyInv
  BY <1>3, <1>4, <1>5 DEF CopyInv
<1>10. ProducerInv /\ ConsumerInv
  BY <1>1 DEF ProducerInv, ConsumerInv
<1> QED
  BY <1>2, <1>7, <1>8, <1>9, <1>10 DEF QueueInv

LEMMA QueueStands == QueueInv /\ UNCHANGED queueVars => QueueInv'
<1> SUFFICES ASSUME QueueInv, UNCHANGED queueVars PROVE QueueInv'
  OBVIOUS
<1>1. /\ UNCHANGED ringVars
      /\ shape' = shape /\ data' = data /\ front' = front /\ tail' = tail
      /\ frontBlock' = frontBlock /\ tailBlock' = tailBlock
      /\ UNCHANGED <<localFront, localTail, producer, consumer, result, sent,
                     taken, had, found>>
  BY DEF queueVars, ringVars, producerVars, consumerVars
<1>2. BlocksInv' /\ DataInv' /\ CopyInv'
  BY <1>1, LookingKeeps, CopiesKept DEF QueueInv
<1>3. ProducerInv' /\ ConsumerInv'
  BY <1>1, Frames DEF ProducerInv, ConsumerInv, QueueInv
<1>4. TypeOK'
  BY QueueTypes DEF QueueInv
<1> QED
  BY <1>2, <1>3, <1>4 DEF QueueInv

LEMMA QueueStep == QueueInv /\ [QueueNext]_queueVars => QueueInv'
<1> SUFFICES ASSUME QueueInv, [QueueNext]_queueVars PROVE QueueInv'
  OBVIOUS
<1>1. TypeOK'
  BY QueueTypes DEF QueueInv
<1> QED
  BY <1>1, FindRoomKeeps, WriteKeeps, PublishKeeps, FindBlockKeeps,
     EnterBlockKeeps, WriteNextKeeps, PublishNextKeeps, AdvanceTailKeeps,
     LookKeeps, CompareKeeps, LookAgainKeeps, LookNextKeeps, AdvanceFrontKeeps,
     MoveOutKeeps, ReturnSlotKeeps, QueueStands
     DEF QueueNext, Enqueue, Dequeue

(* The invariant holds of every behaviour of the queue, whatever the ring  *)
(* and however the two threads interleave.                                 *)
THEOREM QueueInvariant == QueueSpec => []QueueInv
<1>1. QueueInit => QueueInv
  BY QueueStarts
<1>2. QueueInv /\ [QueueNext]_queueVars => QueueInv'
  BY QueueStep
<1> QED
  BY <1>1, <1>2, PTL DEF QueueSpec

-----------------------------------------------------------------------------
(* What the queue promises.                                                *)

(* The two threads are never at the same slot (readerwriterqueue.h:317-319 *)
(* and 560-564), in a ring of any shape.                                   *)
THEOREM SlotsStayExclusive == QueueSpec => []SlotsAreExclusive
<1>1. QueueInv => SlotsAreExclusive
  <2> SUFFICES ASSUME QueueInv, Filled \cap Emptied # {} PROVE FALSE
    BY DEF SlotsAreExclusive
  <2> USE DEF QueueInv
  <2>1. /\ consumer \in {"take", "release"}
        /\ <<frontBlock, front[frontBlock]>> \in Filled
    BY DEF Emptied
  <2>2. frontBlock \in Blocks /\ tailBlock \in Blocks
    BY DEF TypeOK
  <2>3. Count(frontBlock) # 0
    BY <2>1 DEF ConsumerInv
  <2>4. front[frontBlock] # tail[frontBlock]
    BY <2>2, <2>3, Indices
  <2>5. CASE producer \in {"write", "publish"}
    BY <2>1, <2>4, <2>5 DEF Filled
  <2>6. CASE producer \in {"writeNext", "publishNext"}
    <3>1. After(tailBlock) # frontBlock
      BY <2>6 DEF ProducerInv
    <3>2. Filled = {<<After(tailBlock), tail[After(tailBlock)]>>}
      BY <2>6 DEF Filled
    <3> QED
      BY <2>1, <3>1, <3>2
  <2>7. CASE producer \notin {"write", "publish", "writeNext", "publishNext"}
    <3>1. Filled = {}
      BY <2>7 DEF Filled
    <3> QED
      BY <2>1, <3>1
  <2> QED
    BY <2>5, <2>6, <2>7
<1> QED
  BY <1>1, QueueInvariant, PTL

(* The queue's assertions hold (readerwriterqueue.h:351 and 588).          *)
THEOREM AssertionsHold == QueueSpec => []BlocksAsAsserted
<1>1. QueueInv => BlocksAsAsserted
  <2> SUFFICES ASSUME QueueInv PROVE BlocksAsAsserted
    OBVIOUS
  <2> USE DEF QueueInv
  <2>1. consumer = "next" => front[After(frontBlock)] # tail[After(frontBlock)]
    BY BlockAhead DEF ConsumerInv
  <2>2. producer = "next" => front[After(tailBlock)] = tail[After(tailBlock)]
    <3> SUFFICES ASSUME producer = "next"
                 PROVE  front[After(tailBlock)] = tail[After(tailBlock)]
      OBVIOUS
    <3>1. After(tailBlock) \in Blocks /\ ~InUse(After(tailBlock))
      BY BlockBehind DEF ProducerInv
    <3>2. Count(After(tailBlock)) = 0
      BY <3>1 DEF BlocksInv
    <3> QED
      BY <3>1, <3>2, Indices
  <2> QED
    BY <2>1, <2>2 DEF BlocksAsAsserted
<1> QED
  BY <1>1, QueueInvariant, PTL

(* An element is refused only when the queue held the size it was built    *)
(* for, and try_dequeue fails only when it was empty, at the moment the    *)
(* call looked first (readerwriterqueue.h:101-102 and 298-306).            *)
THEOREM FailuresAreAtALimit == QueueSpec => FailsOnlyAtALimit
<1> DEFINE Step == /\ producer = "full" /\ producer' = "idle" => had >= shape.size
                   /\ consumer = "empty" /\ consumer' = "idle" => found = 0
<1>1. QueueInv /\ [QueueNext]_queueVars => Step
  <2> SUFFICES ASSUME QueueInv, [QueueNext]_queueVars PROVE Step
    OBVIOUS
  <2> USE DEF QueueInv
  <2>1. CASE UNCHANGED queueVars
    BY <2>1 DEF queueVars, producerVars, consumerVars
  <2>2. CASE Enqueue
    <3>1. /\ consumer' = consumer
          /\ producer = "full" /\ producer' = "idle" => FindBlock
      BY <2>2 DEF Enqueue, FindRoom, Write, Publish, FindBlock, EnterBlock,
                  WriteNext, PublishNext, AdvanceTail, consumerVars
    <3>2. FindBlock /\ producer' = "idle" => had >= CapacityOf(shape)
      BY DEF FindBlock, ProducerInv
    <3>3. /\ shape.size <= CapacityOf(shape) /\ shape.size \in Nat
          /\ CapacityOf(shape) \in Int /\ had \in Int
      <4>1. shape \in Shapes /\ had \in Int
        BY DEF TypeOK
      <4>2. /\ shape.blocks \in Nat /\ shape.slots \in Nat /\ shape.size \in Nat
            /\ shape.size <= CapacityOf(shape)
        BY <4>1, Shape
      <4> QED
        BY <4>1, <4>2 DEF CapacityOf
    <3> QED
      BY <3>1, <3>2, <3>3
  <2>3. CASE Dequeue
    <3>1. /\ producer' = producer
          /\ consumer = "empty" /\ consumer' = "idle" => Compare
      BY <2>3 DEF Dequeue, Look, Compare, LookAgain, LookNext, AdvanceFront,
                  MoveOut, ReturnSlot, producerVars
    <3>2. Compare /\ consumer' = "idle" => found = 0
      BY DEF Compare, ConsumerInv
    <3> QED
      BY <3>1, <3>2
  <2> QED
    BY <2>1, <2>2, <2>3 DEF QueueNext
<1>2. QueueInv /\ [QueueNext]_queueVars => [Step]_queueVars
  BY <1>1
<1> QED
  BY <1>2, QueueInvariant, PTL DEF QueueSpec, FailsOnlyAtALimit

-----------------------------------------------------------------------------
(* The queue implements the FIFO.                                          *)

LEMMA Product ==
  ASSUME NEW x \in Nat, NEW y \in Nat
  PROVE  x * y \in Nat
OBVIOUS

(* What is between the two ends of the queue.                              *)
LEMMA LengthIs ==
  ASSUME QueueInv
  PROVE  /\ Length \in Nat /\ sent = taken + Length
         /\ Length >= Count(frontBlock)
<1> USE DEF QueueInv
<1> DEFINE g == Count(frontBlock)
<1>1. /\ frontBlock \in Blocks /\ tailBlock \in Blocks /\ shape \in Shapes
      /\ sent \in Nat /\ taken \in Nat
  BY DEF TypeOK
<1>2. /\ Dist(tailBlock) \in Nat /\ FullCount \in Nat /\ g \in Nat
      /\ Count(tailBlock) \in Nat
      /\ Dist(tailBlock) = 0 <=> tailBlock = frontBlock
  BY <1>1, Distance, Indices, Shape
<1>3. sent + 1 = First(tailBlock) + Count(tailBlock)
  BY DEF DataInv
<1>4. CASE tailBlock = frontBlock
  BY <1>1, <1>2, <1>3, <1>4 DEF First, Length
<1>5. CASE tailBlock # frontBlock
  <2> DEFINE m == (Dist(tailBlock) - 1) * FullCount
  <2>1. m \in Nat
    BY <1>2, <1>5, Product
  <2>2. First(tailBlock) = taken + 1 + g + m
    BY <1>5 DEF First
  <2> HIDE DEF m, g
  <2>3. sent - taken = g + m + Count(tailBlock)
    BY <1>1, <1>2, <1>3, <2>1, <2>2
  <2> QED
    BY <1>1, <1>2, <2>1, <2>3 DEF Length, g
<1> QED
  BY <1>4, <1>5

(* A sequence of consecutive numbers: what is appended, taken and left.    *)
LEMMA Numbered ==
  ASSUME NEW a \in Nat, NEW n \in Nat, NEW s, s = [i \in 1 .. n |-> a + i]
  PROVE  /\ s \in Seq(Nat) /\ Len(s) = n
         /\ Append(s, a + n + 1) = [i \in 1 .. n + 1 |-> a + i]
         /\ \A k \in 0 .. n :
              /\ SubSeq(s, 1, k) = [i \in 1 .. k |-> a + i]
              /\ SubSeq(s, k + 1, n) = [i \in 1 .. n - k |-> a + k + i]
<1>1. s \in Seq(Nat) /\ Len(s) = n
  OBVIOUS
<1>2. Append(s, a + n + 1) = [i \in 1 .. n + 1 |-> a + i]
  <2> DEFINE t == Append(s, a + n + 1)
             u == [i \in 1 .. n + 1 |-> a + i]
  <2>1. u \in Seq(Nat) /\ Len(u) = n + 1
    OBVIOUS
  <2>2. t \in Seq(Nat) /\ Len(t) = n + 1
    BY <1>1
  <2>3. \A i \in 1 .. Len(t) : t[i] = u[i]
    BY <1>1, <2>2
  <2> HIDE DEF t, u
  <2>4. t = u
    BY <2>1, <2>2, <2>3, SeqEqual
  <2> QED
    BY <2>4 DEF t, u
<1>3. ASSUME NEW k \in 0 .. n
      PROVE  SubSeq(s, 1, k) = [i \in 1 .. k |-> a + i]
  <2> DEFINE t == SubSeq(s, 1, k)
             u == [i \in 1 .. k |-> a + i]
  <2>1. u \in Seq(Nat) /\ Len(u) = k
    OBVIOUS
  <2>2. /\ t \in Seq(Nat) /\ Len(t) = k
        /\ \A i \in 1 .. k : t[i] = s[i]
    BY <1>1, SubSeqProperties
  <2>3. \A i \in 1 .. Len(t) : t[i] = u[i]
    BY <2>2
  <2> HIDE DEF t, u
  <2>4. t = u
    BY <2>1, <2>2, <2>3, SeqEqual
  <2> QED
    BY <2>4 DEF t, u
<1>4. ASSUME NEW k \in 0 .. n
      PROVE  SubSeq(s, k + 1, n) = [i \in 1 .. n - k |-> a + k + i]
  <2> DEFINE t == SubSeq(s, k + 1, n)
             u == [i \in 1 .. n - k |-> a + k + i]
  <2>1. u \in Seq(Nat) /\ Len(u) = n - k
    OBVIOUS
  <2>2. /\ t \in Seq(Nat) /\ Len(t) = n - k
        /\ \A i \in 1 .. n - k : t[i] = s[k + i]
    BY <1>1, SubSeqProperties
  <2>3. \A i \in 1 .. Len(t) : t[i] = u[i]
    BY <2>2
  <2> HIDE DEF t, u
  <2>4. t = u
    BY <2>1, <2>2, <2>3, SeqEqual
  <2> QED
    BY <2>4 DEF t, u
<1> QED
  BY <1>1, <1>2, <1>3, <1>4

(* An accepted element goes behind the others.                             *)
LEMMA Accepted ==
  ASSUME QueueInv, sent < MaxSent, sent' = sent + 1, UNCHANGED <<taken, out>>
  PROVE  F!Next
<1>1. /\ Length \in Nat /\ sent = taken + Length /\ taken \in Nat
      /\ sent \in Nat /\ MaxSent \in Nat
  BY LengthIs, QueueAssumption DEF QueueInv, TypeOK
<1>2. Length' = Length + 1
  BY <1>1 DEF Length
<1>3. Items' = Append(Items, sent + 1)
  <2>1. Items' = [i \in 1 .. Length + 1 |-> taken + i]
    BY <1>2 DEF Items
  <2>2. Append(Items, taken + Length + 1) = [i \in 1 .. Length + 1 |-> taken + i]
    BY <1>1, Numbered DEF Items
  <2> QED
    BY <1>1, <2>1, <2>2
<1>4. F!Put(sent + 1)
  BY <1>3 DEF F!Put
<1>5. sent + 1 \in 1 .. MaxSent
  BY <1>1
<1> QED
  BY <1>4, <1>5 DEF F!Next

(* The element taken is the first one.                                     *)
LEMMA TakenOne ==
  ASSUME QueueInv, Count(frontBlock) > 0, taken' = taken + 1, sent' = sent,
         out' = <<taken + 1>>
  PROVE  F!Next
<1>1. /\ Length \in Nat /\ Length >= 1 /\ taken \in Nat /\ sent \in Nat
  <2>1. frontBlock \in Blocks /\ taken \in Nat /\ sent \in Nat
    BY DEF QueueInv, TypeOK
  <2>2. Count(frontBlock) \in Nat
    BY <2>1, Indices DEF QueueInv
  <2> QED
    BY <2>1, <2>2, LengthIs
<1>2. Length' = Length - 1
  BY <1>1 DEF Length
<1>3. /\ Items \in Seq(Nat) /\ Len(Items) = Length
      /\ SubSeq(Items, 1, 1) = [i \in 1 .. 1 |-> taken + i]
      /\ SubSeq(Items, 1 + 1, Length) = [i \in 1 .. Length - 1 |-> taken + 1 + i]
  BY <1>1, Numbered DEF Items
<1>4. out' = SubSeq(Items, 1, 1)
  BY <1>1, <1>3
<1>5. Items' = SubSeq(Items, 1 + 1, Len(Items))
  BY <1>1, <1>2, <1>3 DEF Items
<1>6. F!Take(1) /\ 1 \in 1 .. Len(Items)
  BY <1>1, <1>3, <1>4, <1>5 DEF F!Take
<1> QED
  BY <1>6 DEF F!Next

(* Elements come out once and in the order they went in: every step of the *)
(* two threads is a put, a take or invisible.                              *)
THEOREM QueueImplementsFifo == QueueSpec => QueueIsFifo
<1>1. QueueInit => F!Init
  <2> SUFFICES ASSUME QueueInit PROVE F!Init
    OBVIOUS
  <2>1. Length = 0 /\ out = <<>>
    BY DEF QueueInit, Length
  <2>2. Items = <<>>
    BY <2>1 DEF Items
  <2> QED
    BY <2>1, <2>2 DEF F!Init
<1>2. QueueInv /\ [QueueNext]_queueVars => [F!Next]_F!vars
  <2> SUFFICES ASSUME QueueInv, [QueueNext]_queueVars PROVE [F!Next]_F!vars
    OBVIOUS
  <2>1. CASE UNCHANGED <<sent, taken, out>>
    BY <2>1 DEF F!vars, Items, Length
  <2>2. CASE Publish \/ AdvanceTail
    <3>1. sent < MaxSent
      BY <2>2 DEF Publish, AdvanceTail, QueueInv, ProducerInv
    <3>2. sent' = sent + 1 /\ UNCHANGED <<taken, out>>
      BY <2>2 DEF Publish, AdvanceTail, consumerVars
    <3> QED
      BY <3>1, <3>2, Accepted
  <2>3. CASE ReturnSlot
    <3>1. Count(frontBlock) > 0 /\ result = taken + 1
      BY <2>3 DEF ReturnSlot, QueueInv, ConsumerInv
    <3>2. taken' = taken + 1 /\ sent' = sent /\ out' = <<result>>
      BY <2>3 DEF ReturnSlot, producerVars
    <3> QED
      BY <3>1, <3>2, TakenOne
  <2>4. UNCHANGED <<sent, taken, out>> \/ Publish \/ AdvanceTail \/ ReturnSlot
    BY DEF QueueNext, Enqueue, Dequeue, FindRoom, Write, FindBlock, EnterBlock,
           WriteNext, PublishNext, Look, Compare, LookAgain, LookNext,
           AdvanceFront, MoveOut, queueVars, ringVars, producerVars,
           consumerVars
  <2> QED
    BY <2>1, <2>2, <2>3, <2>4
<1> QED
  BY <1>1, <1>2, QueueInvariant, PTL DEF QueueSpec, QueueIsFifo, F!Spec

-----------------------------------------------------------------------------
(* The circular buffer.                                                    *)

(* The cell of the i-th sample from the front.                             *)
Cell(i) == (readIndex + i - 1) % MaxSize

RingInv ==
  /\ readIndex \in 0 .. MaxSize - 1 /\ writeIndex \in 0 .. MaxSize - 1
  /\ num \in 0 .. MaxSize
  /\ writeIndex = (readIndex + num) % MaxSize
  /\ v \in [Cells -> Sample]

Mod(x) == x % MaxSize

LEMMA Modulo ==
  ASSUME NEW n \in Nat \ {0}, NEW x \in 0 .. 2 * n - 1
  PROVE  x % n = IF x < n THEN x ELSE x - n
<1>1. CASE x < n
  BY <1>1
<1>2. CASE x >= n
  <2>1. x = n + (x - n) /\ x - n \in 0 .. n - 1
    BY <1>2
  <2> QED
    BY <1>2, <2>1
<1> QED
  BY <1>1, <1>2

LEMMA Wrap ==
  ASSUME NEW x \in 0 .. 2 * MaxSize - 1
  PROVE  /\ Mod(x) = IF x < MaxSize THEN x ELSE x - MaxSize
         /\ Mod(x) \in 0 .. MaxSize - 1
<1>1. MaxSize \in Nat \ {0}
  BY BufferAssumption
<1>2. Mod(x) = IF x < MaxSize THEN x ELSE x - MaxSize
  BY <1>1, Modulo DEF Mod
<1> QED
  BY <1>1, <1>2

LEMMA Sizes ==
  /\ MaxSize \in Nat \ {0} /\ MaxSize \in Int /\ MaxRead \in 1 .. MaxSize
  /\ Cells = 0 .. MaxSize + MaxRead - 2
  /\ 0 .. MaxSize - 1 \subseteq Cells
BY BufferAssumption DEF Cells, NumAllocated

(* The samples in the buffer and the free cell behind them are in cells of *)
(* their own.                                                              *)
LEMMA CellsDiffer ==
  ASSUME RingInv, NEW i \in 1 .. MaxSize
  PROVE  /\ Cell(i) \in 0 .. MaxSize - 1
         /\ Cell(i) = IF readIndex + i - 1 < MaxSize THEN readIndex + i - 1
                      ELSE readIndex + i - 1 - MaxSize
         /\ \A k \in 1 .. MaxSize : Cell(i) = Cell(k) => i = k
<1>1. \A k \in 1 .. MaxSize :
        /\ Cell(k) = IF readIndex + k - 1 < MaxSize THEN readIndex + k - 1
                     ELSE readIndex + k - 1 - MaxSize
        /\ Cell(k) \in 0 .. MaxSize - 1
  <2> SUFFICES ASSUME NEW k \in 1 .. MaxSize
               PROVE  Cell(k) = IF readIndex + k - 1 < MaxSize
                                  THEN readIndex + k - 1
                                  ELSE readIndex + k - 1 - MaxSize
    BY Sizes DEF RingInv
  <2>1. /\ readIndex + k - 1 \in 0 .. 2 * MaxSize - 1
        /\ readIndex \in Int /\ k \in Int
    BY Sizes DEF RingInv
  <2>2. Cell(k) = Mod(readIndex + k - 1)
    BY DEF Cell, Mod
  <2> QED
    BY <2>1, <2>2, Wrap, Sizes
<1>2. readIndex \in 0 .. MaxSize - 1
  BY DEF RingInv
<1> QED
  BY <1>1, <1>2, Sizes

LEMMA Pushing ==
  ASSUME RingInv, num < MaxSize, NEW x \in Sample, Push(x)
  PROVE  /\ RingInv' /\ num' = num + 1 /\ UNCHANGED <<readIndex, window, gone>>
         /\ \A i \in 1 .. num : v'[Cell(i)] = v[Cell(i)]
         /\ v'[Cell(num + 1)] = x
<1>1. /\ v' = [v EXCEPT ![writeIndex] = x]
      /\ writeIndex' = (writeIndex + 1) % MaxSize
      /\ num' = num + 1
      /\ UNCHANGED <<readIndex, window, gone>>
      /\ num \in Nat
  BY DEF Push, RingInv
<1>2. writeIndex = Cell(num + 1) /\ num + 1 \in 1 .. MaxSize
  BY Sizes DEF RingInv, Cell
<1>3. v' \in [Cells -> Sample] /\ v'[writeIndex] = x
      /\ \A c \in Cells : c # writeIndex => v'[c] = v[c]
  BY <1>1, Sizes DEF RingInv
<1>4. \A i \in 1 .. num : Cell(i) # writeIndex /\ Cell(i) \in Cells
  <2> SUFFICES ASSUME NEW i \in 1 .. num
               PROVE  Cell(i) # writeIndex /\ Cell(i) \in Cells
    OBVIOUS
  <2>1. i \in 1 .. MaxSize /\ i # num + 1
    BY <1>1, Sizes DEF RingInv
  <2> QED
    BY <1>2, <2>1, CellsDiffer, Sizes
<1>5. writeIndex' \in 0 .. MaxSize - 1 /\ writeIndex' = (readIndex + num + 1) % MaxSize
  <2>1. writeIndex + 1 \in 0 .. 2 * MaxSize - 1 /\ readIndex + num \in 0 .. 2 * MaxSize - 1
        /\ readIndex + num + 1 \in 0 .. 2 * MaxSize - 1
        /\ writeIndex \in Int /\ readIndex \in Int /\ num \in Int
    BY Sizes DEF RingInv
  <2>2. /\ writeIndex' = IF writeIndex + 1 < MaxSize THEN writeIndex + 1
                         ELSE writeIndex + 1 - MaxSize
        /\ (readIndex + num + 1) % MaxSize
             = IF readIndex + num + 1 < MaxSize THEN readIndex + num + 1
               ELSE readIndex + num + 1 - MaxSize
        /\ writeIndex = IF readIndex + num < MaxSize THEN readIndex + num
                        ELSE readIndex + num - MaxSize
    <3>1. /\ writeIndex' = Mod(writeIndex + 1)
          /\ (readIndex + num + 1) % MaxSize = Mod(readIndex + num + 1)
          /\ writeIndex = Mod(readIndex + num)
      BY <1>1 DEF Mod, RingInv
    <3> QED
      BY <2>1, <3>1, Wrap, Sizes, SMTT(30)
  <2>3. /\ writeIndex' \in 0 .. MaxSize - 1
        /\ readIndex \in 0 .. MaxSize - 1 /\ num \in 0 .. MaxSize
        /\ writeIndex \in 0 .. MaxSize - 1
    BY <1>1, <2>1, Wrap, Sizes DEF Mod, RingInv
  <2> QED
    BY <2>2, <2>3, Sizes
<1>6. RingInv'
  <2>1. /\ readIndex' \in 0 .. MaxSize - 1 /\ num' \in 0 .. MaxSize
        /\ readIndex' + num' = readIndex + num + 1
    BY <1>1, Sizes DEF RingInv
  <2>2. Cells' = Cells
    BY DEF Cells, NumAllocated
  <2> QED
    BY <1>3, <1>5, <2>1, <2>2 DEF RingInv
<1> QED
  BY <1>1, <1>2, <1>3, <1>4, <1>6

LEMMA Reading ==
  ASSUME RingInv, NEW n \in 1 .. MaxRead, n <= num, Read(n)
  PROVE  /\ RingInv' /\ UNCHANGED <<readIndex, num, gone>>
         /\ window' = [i \in 1 .. n |-> v[Cell(i)]]
         /\ \A i \in 1 .. num : v'[Cell(i)] = v[Cell(i)]
<1>1. Available(n) = n
  <2>1. \A k \in {n, num, MaxRead} :
          k <= n /\ k <= num /\ k <= MaxRead <=> k = n
    BY Sizes DEF RingInv
  <2> QED
    BY <2>1 DEF Available
<1>2. /\ v' = ArrayToRead(n)
      /\ window' = [i \in 1 .. n |-> v'[readIndex + i - 1]]
      /\ UNCHANGED <<readIndex, writeIndex, num, gone>>
  BY <1>1 DEF Read
<1>3. /\ v' \in [Cells -> Sample]
      /\ \A c \in 0 .. MaxSize - 1 : v'[c] = v[c]
      /\ n > MaxSize - readIndex =>
           \A c \in Cells : c >= MaxSize => v'[c] = v[c - MaxSize]
  <2>1. CASE n > MaxSize - readIndex
    <3>1. v' = [i \in Cells |-> IF i < MaxSize THEN v[i] ELSE v[i - MaxSize]]
      BY <1>2, <2>1 DEF ArrayToRead, Linearized
    <3>2. \A i \in Cells : i \in Int /\ (i >= MaxSize => i - MaxSize \in Cells)
      BY Sizes
    <3> QED
      BY <3>1, <3>2, Sizes DEF RingInv
  <2>2. CASE ~(n > MaxSize - readIndex)
    BY <1>2, <2>2 DEF ArrayToRead, RingInv
  <2> QED
    BY <2>1, <2>2
<1>4. \A i \in 1 .. MaxSize : v'[Cell(i)] = v[Cell(i)]
  BY <1>3, CellsDiffer
<1>5. ASSUME NEW i \in 1 .. n
      PROVE  v'[readIndex + i - 1] = v[Cell(i)]
  <2>1. /\ i \in 1 .. MaxSize /\ readIndex \in 0 .. MaxSize - 1 /\ i \in Int
        /\ n \in Int
    BY Sizes DEF RingInv
  <2>2. CASE readIndex + i - 1 < MaxSize
    BY <1>4, <2>1, <2>2, CellsDiffer
  <2>3. CASE readIndex + i - 1 >= MaxSize
    <3>1. n > MaxSize - readIndex /\ readIndex + i - 1 \in Cells
      BY <2>1, <2>3, Sizes
    <3>2. Cell(i) = readIndex + i - 1 - MaxSize
      BY <2>1, <2>3, CellsDiffer, Sizes
    <3>3. ASSUME NEW c \in Cells, c = readIndex + i - 1
          PROVE  v'[c] = v[Cell(i)]
      <4>1. c >= MaxSize /\ c - MaxSize = Cell(i)
        BY <2>1, <2>3, <3>2, <3>3, Sizes
      <4> QED
        BY <1>3, <3>1, <4>1
    <3> QED
      BY <3>1, <3>3
  <2> QED
    BY <2>1, <2>2, <2>3, Sizes
<1>6. window' = [i \in 1 .. n |-> v[Cell(i)]]
  BY <1>2, <1>5
<1>7. RingInv'
  BY <1>2, <1>3 DEF RingInv, Cells, NumAllocated
<1>8. \A i \in 1 .. num : i \in 1 .. MaxSize
  BY Sizes DEF RingInv
<1> QED
  BY <1>2, <1>4, <1>6, <1>7, <1>8

LEMMA Releasing ==
  ASSUME RingInv, NEW n \in 1 .. MaxSize, Release(n)
  PROVE  /\ RingInv' /\ num' = num - n /\ n <= num /\ v' = v
         /\ gone' = window /\ window' = <<>>
         /\ \A i \in 1 .. num - n : Cell(i)' = Cell(n + i)
<1>1. /\ n <= num
      /\ readIndex' = (readIndex + n) % MaxSize
      /\ num' = num - n
      /\ gone' = window /\ window' = <<>>
      /\ v' = v /\ writeIndex' = writeIndex
  BY DEF Release
<1>2. /\ readIndex \in 0 .. MaxSize - 1 /\ num \in 0 .. MaxSize
      /\ readIndex + n \in 0 .. 2 * MaxSize - 1
      /\ readIndex + num \in 0 .. 2 * MaxSize - 1
  BY Sizes DEF RingInv
<1>3. readIndex' = IF readIndex + n < MaxSize THEN readIndex + n
                   ELSE readIndex + n - MaxSize
  <2>1. readIndex' = Mod(readIndex + n) /\ readIndex \in Int /\ n \in Int
    BY <1>1, <1>2 DEF Mod
  <2> QED
    BY <1>2, <2>1, Wrap, Sizes
<1>4. readIndex' \in 0 .. MaxSize - 1 /\ num' \in 0 .. MaxSize
  BY <1>1, <1>2, <1>3, Sizes
<1>5. writeIndex = (readIndex' + num') % MaxSize
  <2>1. ASSUME NEW a \in 0 .. MaxSize - 1, NEW b \in 0 .. MaxSize
        PROVE  (a + b) % MaxSize = IF a + b < MaxSize THEN a + b
                                                      ELSE a + b - MaxSize
    <3>1. a + b \in 0 .. 2 * MaxSize - 1 /\ a \in Int /\ b \in Int
      BY Sizes
    <3>2. (a + b) % MaxSize = Mod(a + b)
      BY DEF Mod
    <3> QED
      BY <3>1, <3>2, Wrap, Sizes
  <2>2. (readIndex' + num') % MaxSize
          = IF readIndex' + num' < MaxSize THEN readIndex' + num'
            ELSE readIndex' + num' - MaxSize
    BY <1>4, <2>1
  <2>3. writeIndex = IF readIndex + num < MaxSize THEN readIndex + num
                     ELSE readIndex + num - MaxSize
    BY <1>2, <2>1 DEF RingInv
  <2>4. writeIndex \in 0 .. MaxSize - 1
    BY DEF RingInv
  <2> QED
    BY <1>1, <1>2, <1>3, <2>2, <2>3, <2>4, Sizes
<1>6. RingInv'
  BY <1>1, <1>4, <1>5 DEF RingInv, Cells, NumAllocated
<1>7. ASSUME NEW i \in 1 .. num - n
      PROVE  Cell(i)' = Cell(n + i)
  <2>1. ASSUME NEW a \in 0 .. MaxSize - 1, NEW b \in 1 .. MaxSize
        PROVE  (a + b - 1) % MaxSize = IF a + b - 1 < MaxSize THEN a + b - 1
                                       ELSE a + b - 1 - MaxSize
    <3>1. a + b - 1 \in 0 .. 2 * MaxSize - 1 /\ a \in Int /\ b \in Int
      BY Sizes
    <3>2. (a + b - 1) % MaxSize = Mod(a + b - 1)
      BY DEF Mod
    <3> QED
      BY <3>1, <3>2, Wrap, Sizes
  <2>2. i \in 1 .. MaxSize /\ n + i \in 1 .. MaxSize /\ i \in Int /\ n \in Int
    BY <1>1, <1>2, Sizes
  <2>3. Cell(i)' = IF readIndex' + i - 1 < MaxSize THEN readIndex' + i - 1
                   ELSE readIndex' + i - 1 - MaxSize
    BY <1>4, <2>1, <2>2 DEF Cell
  <2>4. Cell(n + i) = IF readIndex + (n + i) - 1 < MaxSize
                        THEN readIndex + (n + i) - 1
                        ELSE readIndex + (n + i) - 1 - MaxSize
    BY <1>2, <2>1, <2>2 DEF Cell
  <2> QED
    BY <1>1, <1>2, <1>3, <1>4, <2>2, <2>3, <2>4, Sizes
<1> QED
  BY <1>1, <1>6, <1>7

-----------------------------------------------------------------------------
(* The chain: what is in the buffer are the samples of the stream after    *)
(* those the reader had; all of the stream when no package is being pushed.*)
StreamIs ==
  /\ stream \in Seq(Nat)
  /\ \A i \in 1 .. Len(stream) : stream[i] <= PackSamples * taken
  /\ \A i, j \in 1 .. Len(stream) : i < j => stream[i] < stream[j]
  /\ \A i \in 1 .. Len(stream) :
       \E p \in Passing \cap 1 .. taken, k \in 1 .. PackSamples :
         stream[i] = SampleOf(p, k)
  /\ \A p \in Passing \cap 1 .. taken, k \in 1 .. PackSamples :
       \E i \in 1 .. Len(stream) : stream[i] = SampleOf(p, k)

Whole == Len(stream) - PackSamples

StreamInv ==
  /\ slot \in {"dequeue", "push", "drain", "process"}
  /\ pushed \in 0 .. PackSamples /\ read \in Nat
  /\ \A i \in 1 .. num : v[Cell(i)] = stream[read + i]
  /\ window = IF slot = "process" THEN [i \in 1 .. Block |-> stream[read + i]]
                                  ELSE <<>>
  /\ slot = "dequeue" => num < Block
  /\ slot = "push" =>
       /\ taken > 0 /\ out = <<taken>> /\ num < Block + pushed
       /\ read + num = Whole + pushed
       /\ \A k \in 1 .. PackSamples : stream[Whole + k] = SampleOf(taken, k)
  /\ slot = "process" => num >= Block
  /\ slot # "push" => pushed = 0 /\ read + num = Len(stream)

ChainInv == QueueInv /\ RingInv /\ StreamIs /\ StreamInv

LEMMA StreamSizes ==
  /\ PackSamples \in Nat \ {0} /\ Block \in 1 .. MaxRead /\ Block \in 1 .. MaxSize
  /\ MaxSize \in Nat /\ Block \in Nat /\ Block > 0
  /\ MaxSize >= Block - 1 + PackSamples
  /\ MaxSent \in Nat /\ 1 .. PackSamples * MaxSent \subseteq Sample
BY StreamAssumption, QueueAssumption, BufferAssumption

LEMMA DequeueTakes ==
  ASSUME QueueInv, Dequeue
  PROVE  \/ taken' = taken
         \/ taken' = taken + 1 /\ out' = <<taken + 1>>
<1>1. consumer = "release" => result = taken + 1
  BY DEF QueueInv, ConsumerInv
<1> QED
  BY <1>1 DEF Dequeue, Look, Compare, LookAgain, LookNext, AdvanceFront, MoveOut,
              ReturnSlot

LEMMA BufferStands == RingInv /\ UNCHANGED bufferVars => RingInv'
BY DEF RingInv, bufferVars, Cells, NumAllocated

LEMMA TimesNext ==
  ASSUME NEW a \in Nat, NEW b \in Int
  PROVE  a * (b + 1) = a * b + a /\ a * b \in Int /\ a * (b - 1) = a * b - a
OBVIOUS

LEMMA TimesNat ==
  ASSUME NEW a \in Nat, NEW b \in Nat
  PROVE  a * b \in Nat
OBVIOUS

LEMMA TimesMore ==
  ASSUME NEW a \in Nat, NEW b \in Int, NEW c \in Int, b <= c
  PROVE  a * b <= a * c
OBVIOUS

(* The stream of a package more.                                           *)
LEMMA Streaming ==
  ASSUME NEW n \in Nat, NEW st \in Seq(Nat)
  PROVE  LET s == st \o Samples(n + 1)
         IN  /\ s \in Seq(Nat) /\ Len(s) = Len(st) + PackSamples
             /\ \A i \in 1 .. Len(st) : s[i] = st[i]
             /\ \A k \in 1 .. PackSamples :
                  /\ s[Len(st) + k] = SampleOf(n + 1, k)
                  /\ SampleOf(n + 1, k) = PackSamples * n + k
<1> DEFINE s == st \o Samples(n + 1)
<1>1. /\ PackSamples * n \in Nat /\ PackSamples \in Nat
      /\ \A k : SampleOf(n + 1, k) = PackSamples * n + k
  <2>1. (n + 1) - 1 = n
    OBVIOUS
  <2> QED
    BY <2>1, StreamSizes DEF SampleOf
<1>2. Samples(n + 1) = [k \in 1 .. PackSamples |-> PackSamples * n + k]
  BY <1>1 DEF Samples
<1>3. /\ Samples(n + 1) \in Seq(Nat) /\ Len(Samples(n + 1)) = PackSamples
      /\ \A k \in 1 .. PackSamples : Samples(n + 1)[k] = PackSamples * n + k
  <2> DEFINE a == PackSamples * n
             u == Samples(n + 1)
  <2>1. u = [k \in 1 .. PackSamples |-> a + k] /\ a \in Nat
    BY <1>1, <1>2
  <2> HIDE DEF a, u
  <2>2. u \in Seq(Nat) /\ Len(u) = PackSamples
        /\ \A k \in 1 .. PackSamples : u[k] = a + k
    BY <1>1, <2>1
  <2> QED
    BY <2>2 DEF a, u
<1> HIDE DEF Samples
<1>4. /\ s \in Seq(Nat) /\ Len(s) = Len(st) + PackSamples
      /\ \A i \in 1 .. Len(st) : s[i] = st[i]
      /\ \A k \in 1 .. PackSamples : s[Len(st) + k] = Samples(n + 1)[k]
  <2> DEFINE u == Samples(n + 1)
  <2>1. u \in Seq(Nat) /\ Len(u) = PackSamples /\ PackSamples \in Nat
    BY <1>1, <1>3
  <2> HIDE DEF u
  <2>2. st \o u \in Seq(Nat) /\ Len(st \o u) = Len(st) + Len(u)
    BY <2>1
  <2>3. \A i \in 1 .. Len(st) : (st \o u)[i] = st[i]
    BY <2>1
  <2>4. \A k \in 1 .. PackSamples : (st \o u)[Len(st) + k] = u[k]
    BY <2>1
  <2> QED
    BY <2>1, <2>2, <2>3, <2>4 DEF u
<1> QED
  BY <1>1, <1>3, <1>4

LEMMA StreamGrows ==
  ASSUME StreamIs, taken \in Nat, taken' = taken + 1, taken + 1 \in Passing,
         stream' = stream \o Samples(taken + 1)
  PROVE  StreamIs'
<1>1. /\ stream' \in Seq(Nat) /\ Len(stream') = Len(stream) + PackSamples
      /\ \A i \in 1 .. Len(stream) : stream'[i] = stream[i]
      /\ \A k \in 1 .. PackSamples :
           /\ stream'[Len(stream) + k] = SampleOf(taken + 1, k)
           /\ SampleOf(taken + 1, k) = PackSamples * taken + k
  BY Streaming DEF StreamIs
<1> DEFINE a == PackSamples * taken
           l == Len(stream)
<1>2. /\ a \in Nat /\ l \in Nat /\ PackSamples \in Nat
      /\ \A i \in 1 .. l : stream[i] \in Nat /\ stream[i] <= a
  <2>1. a \in Nat /\ PackSamples \in Nat
    BY StreamSizes, TimesNat
  <2>2. l \in Nat /\ \A i \in 1 .. l : stream[i] \in Nat
    <3>1. stream \in Seq(Nat)
      BY Zenon DEF StreamIs
    <3> QED
      BY <3>1
  <2>3. \A i \in 1 .. l : stream[i] <= a
    BY Zenon DEF StreamIs
  <2> QED
    BY <2>1, <2>2, <2>3
<1>12. PackSamples * taken' = a + PackSamples
  BY StreamSizes, TimesNext
<1>3. /\ Len(stream') = l + PackSamples
      /\ \A i \in 1 .. l : stream'[i] = stream[i]
      /\ \A k \in 1 .. PackSamples : stream'[l + k] = a + k
  BY <1>1
<1>4. \A i \in 1 .. Len(stream') :
        i \in 1 .. l \/ \E k \in 1 .. PackSamples : i = l + k
  <2> SUFFICES ASSUME NEW i \in 1 .. Len(stream'), i \notin 1 .. l
               PROVE  \E k \in 1 .. PackSamples : i = l + k
    OBVIOUS
  <2> HIDE DEF l
  <2>1. i - l \in 1 .. PackSamples /\ i = l + (i - l)
    BY <1>2, <1>3
  <2> QED
    BY <2>1
<1>5. \A i \in 1 .. l : i \in 1 .. Len(stream')
  <2> HIDE DEF l
  <2> QED
    BY <1>2, <1>3
<1>6. \A k \in 1 .. PackSamples : l + k \in 1 .. Len(stream')
  <2> HIDE DEF l
  <2> QED
    BY <1>2, <1>3
<1>7. ASSUME NEW i \in 1 .. Len(stream')
      PROVE  \E p \in Passing \cap 1 .. taken + 1, k \in 1 .. PackSamples :
               stream'[i] = SampleOf(p, k)
  <2>1. CASE i \in 1 .. l
    <3>1. PICK p \in Passing \cap 1 .. taken, k \in 1 .. PackSamples :
            stream[i] = SampleOf(p, k)
      BY <2>1 DEF StreamIs
    <3>2. p \in Passing \cap 1 .. taken + 1 /\ stream'[i] = SampleOf(p, k)
      BY <1>3, <2>1, <3>1
    <3> QED
      BY <3>2
  <2>2. CASE \E k \in 1 .. PackSamples : i = l + k
    <3>1. PICK k \in 1 .. PackSamples : stream'[i] = SampleOf(taken + 1, k)
      BY <1>1, <2>2
    <3>2. taken + 1 \in Passing \cap 1 .. taken + 1
      OBVIOUS
    <3> QED
      BY <3>1, <3>2
  <2> QED
    BY <1>4, <2>1, <2>2
<1>8. ASSUME NEW p \in Passing \cap 1 .. taken + 1, NEW k \in 1 .. PackSamples
      PROVE  \E i \in 1 .. Len(stream') : stream'[i] = SampleOf(p, k)
  <2>1. CASE p = taken + 1
    BY <1>1, <1>6, <2>1
  <2>2. CASE p # taken + 1
    <3>1. p \in Passing \cap 1 .. taken
      BY <2>2
    <3>2. PICK i \in 1 .. l : stream[i] = SampleOf(p, k)
      BY <3>1 DEF StreamIs
    <3> QED
      BY <1>3, <1>5, <3>2
  <2> QED
    BY <2>1, <2>2
<1>9. ASSUME NEW i \in 1 .. Len(stream')
      PROVE  stream'[i] <= a + PackSamples
  <2> HIDE DEF a, l
  <2>1. CASE i \in 1 .. l
    BY <1>2, <1>3, <2>1
  <2>2. CASE \E k \in 1 .. PackSamples : i = l + k
    <3>1. PICK k \in 1 .. PackSamples : stream'[i] = a + k
      BY <1>3, <2>2
    <3> QED
      BY <1>2, <3>1
  <2> QED
    BY <1>4, <2>1, <2>2
<1>10. ASSUME NEW i \in 1 .. Len(stream'), NEW j \in 1 .. Len(stream'), i < j
       PROVE  stream'[i] < stream'[j]
  <2>1. CASE j \in 1 .. l
    <3>1. i \in 1 .. l
      BY <1>10, <2>1
    <3> QED
      BY <1>3, <1>10, <2>1, <3>1 DEF StreamIs
  <2>2. CASE \E k \in 1 .. PackSamples : j = l + k
    <3> HIDE DEF a, l
    <3>1. PICK k \in 1 .. PackSamples : j = l + k /\ stream'[j] = a + k
      BY <1>3, <2>2
    <3>2. CASE i \in 1 .. l
      BY <1>2, <1>3, <3>1, <3>2
    <3>3. CASE \E m \in 1 .. PackSamples : i = l + m
      <4>1. PICK m \in 1 .. PackSamples : i = l + m /\ stream'[i] = a + m
        BY <1>3, <3>3
      <4>2. m < k
        BY <1>2, <1>10, <3>1, <4>1
      <4> QED
        BY <1>2, <3>1, <4>1, <4>2
    <3> QED
      BY <1>4, <3>2, <3>3
  <2> QED
    BY <1>4, <2>1, <2>2
<1>11. \A i \in 1 .. Len(stream') : stream'[i] <= PackSamples * taken'
  BY <1>9, <1>12
<1> HIDE DEF a, l
<1> QED
  BY <1>1, <1>7, <1>8, <1>10, <1>11 DEF StreamIs

(* A package that is dropped adds nothing.                                 *)
LEMMA StreamStands ==
  ASSUME StreamIs, taken \in Nat, taken' = taken + 1, taken + 1 \notin Passing,
         stream' = stream
  PROVE  StreamIs'
<1>1. Passing \cap 1 .. taken + 1 = Passing \cap 1 .. taken
  OBVIOUS
<1>2. PackSamples * taken <= PackSamples * (taken + 1)
      /\ PackSamples * taken \in Int /\ PackSamples * (taken + 1) \in Int
  BY StreamSizes, TimesMore
<1>3. \A i \in 1 .. Len(stream) : stream[i] <= PackSamples * (taken + 1)
  <2> DEFINE a == PackSamples * taken
             b == PackSamples * (taken + 1)
  <2>1. /\ \A i \in 1 .. Len(stream) : stream[i] <= a
        /\ \A i \in 1 .. Len(stream) : stream[i] \in Nat
    <3>1. \A i \in 1 .. Len(stream) : stream[i] <= a
      BY Zenon DEF StreamIs
    <3>2. \A i \in 1 .. Len(stream) : stream[i] \in Nat
      <4>1. stream \in Seq(Nat)
        BY Zenon DEF StreamIs
      <4> QED
        BY <4>1
    <3> QED
      BY <3>1, <3>2
  <2>2. a <= b /\ a \in Int /\ b \in Int
    BY <1>2
  <2> HIDE DEF a, b
  <2>3. \A i \in 1 .. Len(stream) : stream[i] <= b
    BY <2>1, <2>2
  <2> QED
    BY <2>3 DEF b
<1> QED
  BY <1>1, <1>3 DEF StreamIs

(* The buffer's contents, and a sequence with one element more.            *)
LEMMA ContentsAre ==
  ASSUME RingInv
  PROVE  /\ Contents = [i \in 1 .. num |-> v[Cell(i)]]
         /\ Contents \in Seq(Sample) /\ Len(Contents) = num /\ num \in Nat
<1>1. Contents = [i \in 1 .. num |-> v[Cell(i)]]
  BY DEF Contents, Cell
<1>2. \A i \in 1 .. num : v[Cell(i)] \in Sample
  BY CellsDiffer, Sizes DEF RingInv
<1>3. num \in Nat
  BY Sizes DEF RingInv
<1> QED
  BY <1>1, <1>2, <1>3

LEMMA Appended ==
  ASSUME NEW S, NEW s \in Seq(S), NEW e \in S, NEW f,
         f = [i \in 1 .. Len(s) + 1 |-> f[i]],
         \A i \in 1 .. Len(s) + 1 : f[i] = IF i <= Len(s) THEN s[i] ELSE e
  PROVE  Append(s, e) = f
<1>1. /\ Append(s, e) \in Seq(S) /\ Len(Append(s, e)) = Len(s) + 1
      /\ Len(s) \in Nat
      /\ \A i \in 1 .. Len(s) + 1 :
           Append(s, e)[i] = IF i <= Len(s) THEN s[i] ELSE e
  OBVIOUS
<1>2. \A i \in 1 .. Len(s) + 1 : f[i] \in S
  OBVIOUS
<1>3. f \in Seq(S) /\ Len(f) = Len(s) + 1
  BY <1>1, <1>2
<1> QED
  BY <1>1, <1>3, SeqEqual

LEMMA ReceiveKeeps == ChainInv /\ Receive => ChainInv'
<1> SUFFICES ASSUME ChainInv, Receive PROVE ChainInv'
  OBVIOUS
<1> USE DEF ChainInv
<1>1. Enqueue /\ UNCHANGED bufferVars /\ UNCHANGED <<slot, pushed, read, stream>>
  BY DEF Receive, slotVars
<1>2. QueueInv' /\ RingInv'
  BY <1>1, QueueStep, BufferStands DEF QueueNext
<1>3. UNCHANGED <<taken, out>>
  BY <1>1 DEF Enqueue, FindRoom, Write, Publish, FindBlock, EnterBlock,
              WriteNext, PublishNext, AdvanceTail, consumerVars
<1>4. StreamInv' /\ StreamIs'
  BY <1>1, <1>3 DEF StreamInv, StreamIs, Whole, Cell, bufferVars
<1> QED
  BY <1>2, <1>4

LEMMA TakePackageKeeps == ChainInv /\ TakePackage => ChainInv'
<1> SUFFICES ASSUME ChainInv, TakePackage PROVE ChainInv'
  OBVIOUS
<1> USE DEF ChainInv
<1>1. /\ Dequeue /\ UNCHANGED bufferVars /\ UNCHANGED <<pushed, read>>
      /\ slot = "dequeue"
      /\ IF taken' # taken /\ out'[1] \in Passing
           THEN slot' = "push" /\ stream' = stream \o Samples(out'[1])
           ELSE UNCHANGED <<slot, stream>>
  BY DEF TakePackage
<1>2. QueueInv' /\ RingInv' /\ taken \in Nat
  BY <1>1, QueueStep, BufferStands DEF QueueNext, QueueInv, TypeOK
<1>3. /\ v' = v /\ readIndex' = readIndex /\ num' = num /\ window' = window
      /\ \A i : Cell(i)' = Cell(i)
  BY <1>1 DEF bufferVars, Cell
<1>4. ASSUME UNCHANGED <<slot, stream>> PROVE StreamInv'
  BY <1>1, <1>3, <1>4 DEF StreamInv
<1>5. CASE taken' = taken
  <2>1. UNCHANGED <<slot, stream>>
    BY <1>1, <1>5
  <2>2. StreamIs'
    BY <1>5, <2>1 DEF StreamIs
  <2> QED
    BY <1>2, <1>4, <2>1, <2>2
<1>6. CASE taken' = taken + 1 /\ out' = <<taken + 1>> /\ taken + 1 \notin Passing
  <2>1. UNCHANGED <<slot, stream>>
    BY <1>1, <1>6
  <2> QED
    BY <1>2, <1>4, <1>6, <2>1, StreamStands
<1>7. CASE taken' = taken + 1 /\ out' = <<taken + 1>> /\ taken + 1 \in Passing
  <2>1. slot' = "push" /\ stream' = stream \o Samples(taken + 1) /\ taken' > 0
    BY <1>1, <1>2, <1>7
  <2>2. StreamIs'
    BY <1>2, <1>7, <2>1, StreamGrows
  <2>3. /\ read + num = Len(stream) /\ pushed = 0 /\ num < Block
        /\ num \in Nat /\ read \in Nat /\ Block \in Nat /\ PackSamples \in Nat
    BY <1>1, StreamSizes DEF StreamInv, RingInv
  <2>4. /\ Len(stream') = Len(stream) + PackSamples
        /\ \A i \in 1 .. Len(stream) : stream'[i] = stream[i]
        /\ \A k \in 1 .. PackSamples :
             stream'[Len(stream) + k] = SampleOf(taken + 1, k)
    BY <1>2, <2>1, Streaming DEF StreamIs
  <2>5. Whole' = Len(stream) /\ Len(stream) \in Nat
    BY <2>3, <2>4 DEF Whole
  <2>6. \A i \in 1 .. num' : v'[Cell(i)'] = stream'[read' + i]
    <3> SUFFICES ASSUME NEW i \in 1 .. num PROVE v[Cell(i)] = stream'[read + i]
      BY <1>1, <1>3
    <3>1. read + i \in 1 .. Len(stream)
      BY <2>3, <2>5
    <3> QED
      BY <2>4, <3>1 DEF StreamInv
  <2>7. /\ pushed' \in 0 .. PackSamples /\ read' \in Nat /\ window' = <<>>
        /\ out' = <<taken'>> /\ num' < Block + pushed'
        /\ read' + num' = Whole' + pushed'
    <3>1. window = <<>> /\ pushed \in 0 .. PackSamples
      BY <1>1 DEF StreamInv
    <3>2. num < Block + 0 /\ read + num = Len(stream) + 0
      BY <2>3, <2>5
    <3> QED
      BY <1>1, <1>3, <1>7, <2>3, <2>5, <3>1, <3>2
  <2>8. \A k \in 1 .. PackSamples : stream'[Whole' + k] = SampleOf(taken', k)
    BY <1>7, <2>4, <2>5
  <2> QED
    BY <1>2, <1>7, <2>1, <2>2, <2>6, <2>7, <2>8 DEF StreamInv
<1> QED
  BY <1>1, <1>5, <1>6, <1>7, DequeueTakes

(* The stream and the queue stand still.                                   *)
LEMMA Standing ==
  ASSUME QueueInv, StreamIs, UNCHANGED queueVars, stream' = stream
  PROVE  QueueInv' /\ StreamIs' /\ Whole' = Whole /\ UNCHANGED <<taken, out>>
BY QueueStands DEF queueVars, consumerVars, StreamIs, Whole

LEMMA PushSampleKeeps == ChainInv /\ PushSample => ChainInv' /\ [B!Next]_B!vars
<1> SUFFICES ASSUME ChainInv, PushSample PROVE ChainInv' /\ [B!Next]_B!vars
  OBVIOUS
<1> USE DEF ChainInv
<1> DEFINE x == SampleOf(out[1], pushed + 1)
<1>1. /\ slot = "push" /\ pushed < PackSamples /\ pushed' = pushed + 1
      /\ Push(x) /\ UNCHANGED <<slot, read, stream>> /\ UNCHANGED queueVars
  BY DEF PushSample
<1>2. /\ taken > 0 /\ out = <<taken>> /\ num < Block + pushed
      /\ read + num = Whole + pushed
      /\ pushed \in Nat /\ read \in Nat /\ num \in Nat /\ taken \in Nat
      /\ Whole \in Int
  BY <1>1, StreamSizes DEF StreamInv, StreamIs, QueueInv, TypeOK, RingInv, Whole
<1>3. num < MaxSize
  BY <1>1, <1>2, StreamSizes
<1>4. x = SampleOf(taken, pushed + 1) /\ x = stream[read + num + 1]
  <2>1. pushed + 1 \in 1 .. PackSamples /\ Whole + (pushed + 1) = read + num + 1
    BY <1>1, <1>2, StreamSizes
  <2> QED
    BY <1>1, <1>2, <2>1 DEF StreamInv
<1>5. x \in Sample
  <2>1. taken <= MaxSent
    <3>1. /\ Length \in Nat /\ sent = taken + Length /\ sent <= MaxSent
          /\ sent \in Nat
      BY LengthIs DEF QueueInv, TypeOK, ProducerInv
    <3> QED
      BY <1>2, <3>1, StreamSizes
  <2>2. PackSamples * taken <= PackSamples * MaxSent
        /\ PackSamples * 0 <= PackSamples * (taken - 1)
        /\ PackSamples * 0 = 0
    BY <1>2, <2>1, StreamSizes, TimesMore
  <2>3. /\ PackSamples * (taken - 1) = PackSamples * taken - PackSamples
        /\ PackSamples * taken \in Int /\ PackSamples * MaxSent \in Int
        /\ PackSamples * (taken - 1) \in Int
    BY <1>2, StreamSizes, TimesNext
  <2>4. x = PackSamples * (taken - 1) + (pushed + 1)
    BY <1>4 DEF SampleOf
  <2>5. x \in 1 .. PackSamples * MaxSent
    <3> HIDE DEF x
    <3> QED
      BY <1>1, <1>2, <2>2, <2>3, <2>4, StreamSizes
  <2> QED
    BY <2>5, StreamSizes
<1>6. /\ RingInv' /\ num' = num + 1 /\ UNCHANGED <<readIndex, window, gone>>
      /\ \A i \in 1 .. num : v'[Cell(i)] = v[Cell(i)]
      /\ v'[Cell(num + 1)] = x
  BY <1>1, <1>3, <1>5, Pushing
<1>7. QueueInv' /\ StreamIs' /\ Whole' = Whole /\ UNCHANGED <<taken, out>>
  BY <1>1, Standing
<1> HIDE DEF x
<1>8. \A i \in 1 .. num + 1 : v'[Cell(i)'] = stream[read + i]
  <2> SUFFICES ASSUME NEW i \in 1 .. num + 1 PROVE v'[Cell(i)'] = stream[read + i]
    OBVIOUS
  <2>1. Cell(i)' = Cell(i)
    BY <1>6 DEF Cell
  <2>2. CASE i = num + 1
    <3>1. read + i = read + num + 1
      BY <1>2, <2>2
    <3> QED
      BY <1>4, <1>6, <2>1, <2>2, <3>1
  <2>3. CASE i \in 1 .. num
    BY <1>6, <2>1, <2>3 DEF StreamInv
  <2> QED
    BY <1>2, <2>2, <2>3
<1>9. StreamInv'
  <2>1. /\ pushed' \in 0 .. PackSamples /\ num' < Block + pushed'
        /\ read + num' = Whole + pushed'
    BY <1>1, <1>2, <1>6, StreamSizes
  <2>2. \A k \in 1 .. PackSamples : stream[Whole + k] = SampleOf(taken, k)
    BY <1>1 DEF StreamInv
  <2> QED
    BY <1>1, <1>2, <1>6, <1>7, <1>8, <2>1, <2>2 DEF StreamInv
<1>10. B!Put(x)
  <2>1. Contents \in Seq(Sample) /\ Len(Contents) = num
    BY <1>2, ContentsAre
  <2>2. Contents' = [i \in 1 .. num + 1 |-> v'[Cell(i)]]
    BY <1>6 DEF Contents, Cell
  <2>3. \A i \in 1 .. num + 1 :
          Contents'[i] = IF i <= num THEN Contents[i] ELSE x
    BY <1>2, <1>6, <2>2 DEF Contents, Cell
  <2>4. Append(Contents, x) = Contents'
    <3>1. /\ Len(Contents) + 1 = num + 1 /\ x \in Sample
          /\ Contents' = [i \in 1 .. Len(Contents) + 1 |-> Contents'[i]]
      BY <1>5, <2>1, <2>2
    <3> QED
      BY <2>1, <2>3, <3>1, Appended
  <2> QED
    BY <1>6, <2>4 DEF B!Put
<1> QED
  BY <1>5, <1>6, <1>7, <1>9, <1>10 DEF B!Next

LEMMA PushedAllKeeps == ChainInv /\ PushedAll => ChainInv'
<1> SUFFICES ASSUME ChainInv, PushedAll PROVE ChainInv'
  OBVIOUS
<1> USE DEF ChainInv
<1>1. /\ slot = "push" /\ pushed = PackSamples /\ slot' = "drain" /\ pushed' = 0
      /\ UNCHANGED <<read, stream>> /\ UNCHANGED queueVars /\ UNCHANGED bufferVars
  BY DEF PushedAll
<1>2. QueueInv' /\ RingInv' /\ StreamIs'
  BY <1>1, Standing, BufferStands
<1>3. read + num = Len(stream)
  BY <1>1, StreamSizes DEF StreamInv, StreamIs, Whole
<1>4. /\ v' = v /\ num' = num /\ window' = window /\ 0 \in 0 .. PackSamples
      /\ \A i : Cell(i)' = Cell(i)
  BY <1>1, StreamSizes DEF bufferVars, Cell
<1> QED
  BY <1>1, <1>2, <1>3, <1>4 DEF StreamInv

LEMMA ReadBlockKeeps == ChainInv /\ ReadBlock => ChainInv' /\ [B!Next]_B!vars
<1> SUFFICES ASSUME ChainInv, ReadBlock PROVE ChainInv' /\ [B!Next]_B!vars
  OBVIOUS
<1> USE DEF ChainInv
<1>1. /\ slot = "drain" /\ num >= Block /\ Read(Block) /\ slot' = "process"
      /\ UNCHANGED <<pushed, read, stream>> /\ UNCHANGED queueVars
  BY DEF ReadBlock
<1>2. QueueInv' /\ StreamIs'
  BY <1>1, Standing
<1>3. num \in Nat /\ Block \in Nat
  BY StreamSizes DEF RingInv
<1>4. /\ RingInv' /\ UNCHANGED <<readIndex, num, gone>>
      /\ window' = [i \in 1 .. Block |-> v[Cell(i)]]
      /\ \A i \in 1 .. num : v'[Cell(i)] = v[Cell(i)]
  BY <1>1, <1>3, Reading, StreamSizes
<1>5. window' = [i \in 1 .. Block |-> stream[read + i]]
  <2>1. \A i \in 1 .. Block : v[Cell(i)] = stream[read + i]
    BY <1>1, <1>3 DEF StreamInv
  <2> QED
    BY <1>4, <2>1
<1>6. \A i : Cell(i)' = Cell(i)
  BY <1>4 DEF Cell
<1>7. StreamInv'
  BY <1>1, <1>4, <1>5, <1>6 DEF StreamInv
<1>8. Contents' = Contents
  BY <1>4 DEF Contents, Cell
<1> QED
  BY <1>2, <1>4, <1>7, <1>8 DEF B!vars

LEMMA ReleaseBlockKeeps ==
  ChainInv /\ ReleaseBlock => ChainInv' /\ [B!Next]_B!vars
<1> SUFFICES ASSUME ChainInv, ReleaseBlock PROVE ChainInv' /\ [B!Next]_B!vars
  OBVIOUS
<1> USE DEF ChainInv
<1>1. /\ slot = "process" /\ Release(Block) /\ slot' = "drain"
      /\ read' = read + Len(window) /\ UNCHANGED <<pushed, stream>>
      /\ UNCHANGED queueVars
  BY DEF ReleaseBlock
<1>2. QueueInv' /\ StreamIs'
  BY <1>1, Standing
<1>3. /\ num \in Nat /\ Block \in Nat /\ Block > 0 /\ read \in Nat
      /\ num >= Block /\ read + num = Len(stream)
      /\ window = [i \in 1 .. Block |-> stream[read + i]]
  BY <1>1, StreamSizes DEF RingInv, StreamInv
<1>4. /\ RingInv' /\ num' = num - Block /\ v' = v
      /\ gone' = window /\ window' = <<>>
      /\ \A i \in 1 .. num - Block : Cell(i)' = Cell(Block + i)
  BY <1>1, Releasing, StreamSizes
<1>5. \A i \in 1 .. Block : window[i] = v[Cell(i)] /\ i \in 1 .. num
  BY <1>3 DEF StreamInv
<1>6. /\ Contents = [i \in 1 .. num |-> v[Cell(i)]]
      /\ Contents \in Seq(Sample) /\ Len(Contents) = num
  BY ContentsAre
<1>7. window \in Seq(Sample) /\ Len(window) = Block
  <2>1. \A i \in 1 .. Block : window[i] \in Sample
    BY <1>3, <1>5, <1>6
  <2> QED
    BY <1>3, <2>1
<1>8. \A i \in 1 .. num - Block : v'[Cell(i)'] = stream[read + Block + i]
  <2> SUFFICES ASSUME NEW i \in 1 .. num - Block
               PROVE  v'[Cell(i)'] = stream[read + Block + i]
    OBVIOUS
  <2>1. Block + i \in 1 .. num /\ read + (Block + i) = read + Block + i
    BY <1>3
  <2>2. v[Cell(Block + i)] = stream[read + (Block + i)]
    BY <2>1 DEF StreamInv
  <2> QED
    BY <1>4, <2>1, <2>2
<1>9. StreamInv'
  <2>1. read' = read + Block /\ read' + num' = Len(stream) /\ read' \in Nat
    BY <1>1, <1>3, <1>4, <1>7
  <2>2. \A i \in 1 .. num' : v'[Cell(i)'] = stream[read' + i]
    BY <1>4, <1>8, <2>1
  <2>3. slot' = "drain" /\ pushed' = pushed /\ pushed = 0 /\ stream' = stream
        /\ pushed \in 0 .. PackSamples
    BY <1>1 DEF StreamInv
  <2> QED
    BY <1>4, <2>1, <2>2, <2>3 DEF StreamInv
<1>10. B!Take(Block)
  <2>1. /\ SubSeq(Contents, 1, Block) \in Seq(Sample)
        /\ Len(SubSeq(Contents, 1, Block)) = Block
        /\ \A i \in 1 .. Block : SubSeq(Contents, 1, Block)[i] = Contents[i]
    BY <1>3, <1>6, SubSeqProperties
  <2>2. SubSeq(Contents, 1, Block) = window
    BY <1>5, <1>6, <1>7, <2>1, SeqEqual
  <2>3. /\ SubSeq(Contents, Block + 1, num) \in Seq(Sample)
        /\ Len(SubSeq(Contents, Block + 1, num)) = num - Block
        /\ \A i \in 1 .. num - Block :
             SubSeq(Contents, Block + 1, num)[i] = Contents[Block + i]
    BY <1>3, <1>6, SubSeqProperties
  <2>4. Contents' = [i \in 1 .. num - Block |-> v'[Cell(i)']]
    BY <1>4 DEF Contents, Cell
  <2>5. \A i \in 1 .. num - Block : Contents'[i] = Contents[Block + i]
    <3> SUFFICES ASSUME NEW i \in 1 .. num - Block
                 PROVE  Contents'[i] = Contents[Block + i]
      OBVIOUS
    <3>1. Block + i \in 1 .. num
      BY <1>3
    <3> QED
      BY <1>4, <1>6, <2>4, <3>1
  <2>6. Contents' \in Seq(Sample) /\ Len(Contents') = num - Block
    <3>1. ASSUME NEW i \in 1 .. num - Block PROVE Contents'[i] \in Sample
      <4>1. Block + i \in 1 .. num
        BY <1>3
      <4>2. Contents[Block + i] \in Sample
        <5>1. Contents \in Seq(Sample) /\ Len(Contents) = num
          BY <1>6
        <5> QED
          BY <4>1, <5>1
      <4> QED
        BY <2>5, <4>2
    <3> QED
      BY <1>3, <2>4, <3>1
  <2>7. Contents' = SubSeq(Contents, Block + 1, num)
    BY <2>3, <2>5, <2>6, SeqEqual
  <2> QED
    BY <1>4, <1>6, <2>2, <2>7 DEF B!Take
<1> QED
  BY <1>2, <1>3, <1>4, <1>6, <1>9, <1>10 DEF B!Next

LEMMA DrainedKeeps == ChainInv /\ Drained => ChainInv'
<1> SUFFICES ASSUME ChainInv, Drained PROVE ChainInv'
  OBVIOUS
<1> USE DEF ChainInv
<1>1. /\ slot = "drain" /\ num < Block /\ slot' = "dequeue"
      /\ UNCHANGED <<pushed, read, stream>>
      /\ UNCHANGED queueVars /\ UNCHANGED bufferVars
  BY DEF Drained
<1>2. QueueInv' /\ RingInv' /\ StreamIs'
  BY <1>1, Standing, BufferStands
<1>3. /\ v' = v /\ num' = num /\ window' = window
      /\ \A i : Cell(i)' = Cell(i)
  BY <1>1 DEF bufferVars, Cell
<1> QED
  BY <1>1, <1>2, <1>3 DEF StreamInv

LEMMA ChainStarts == Init => ChainInv
<1> SUFFICES ASSUME Init PROVE ChainInv
  OBVIOUS
<1>1. QueueInv
  BY QueueStarts DEF Init
<1>2. RingInv
  <2>1. /\ readIndex = 0 /\ writeIndex = 0 /\ num = 0
        /\ v = [i \in Cells |-> 0] /\ 0 \in Sample
    BY BufferAssumption DEF Init, BufferInit
  <2>2. (0 + 0) % MaxSize = 0
    BY Sizes
  <2> QED
    BY <2>1, <2>2, Sizes DEF RingInv
<1>3. StreamInv /\ StreamIs
  <2>1. /\ num = 0 /\ window = <<>> /\ slot = "dequeue" /\ pushed = 0
        /\ read = 0 /\ taken = 0 /\ stream = <<>>
    BY DEF Init, BufferInit, QueueInit
  <2>2. 0 < Block /\ 0 \in 0 .. PackSamples
    BY StreamSizes
  <2> QED
    BY <2>1, <2>2 DEF StreamInv, StreamIs
<1> QED
  BY <1>1, <1>2, <1>3 DEF ChainInv

LEMMA ChainStep == ChainInv /\ [Next]_vars => ChainInv'
<1> SUFFICES ASSUME ChainInv, [Next]_vars PROVE ChainInv'
  OBVIOUS
<1>1. CASE UNCHANGED vars
  <2>1. QueueInv' /\ RingInv'
    BY <1>1, QueueStands, BufferStands DEF ChainInv, vars
  <2>2. StreamInv' /\ StreamIs'
    BY <1>1 DEF ChainInv, StreamInv, StreamIs, Whole, vars, queueVars, consumerVars, bufferVars,
                slotVars, Cell
  <2> QED
    BY <2>1, <2>2 DEF ChainInv
<1> QED
  BY <1>1, ReceiveKeeps, TakePackageKeeps, PushSampleKeeps, PushedAllKeeps,
     ReadBlockKeeps, ReleaseBlockKeeps, DrainedKeeps DEF Next

THEOREM ChainInvariant == Spec => []ChainInv
<1>1. Init => ChainInv
  BY ChainStarts
<1>2. ChainInv /\ [Next]_vars => ChainInv'
  BY ChainStep
<1> QED
  BY <1>1, <1>2, PTL DEF Spec

(* The queue of the chain behaves as a queue: what is proved of the one    *)
(* holds of the other.                                                     *)
THEOREM ChainRunsQueue == Spec => QueueSpec
<1>1. Init => QueueInit
  BY DEF Init
<1>2. [Next]_vars => [QueueNext]_queueVars
  BY DEF Next, vars, Receive, TakePackage, PushSample, PushedAll, ReadBlock,
         ReleaseBlock, Drained, QueueNext
<1> QED
  BY <1>1, <1>2, PTL DEF Spec, QueueSpec

(* The reader gets whole blocks of the samples of all packages that were   *)
(* accepted and not dropped, in order, none twice and none left out, and   *)
(* less than a block stays behind at the end of a slot (vlfchannel.cpp:    *)
(* 183-203, 293, 329-345), for packages and blocks of any size, whichever  *)
(* packages are dropped.                                                   *)
THEOREM ReaderGetsTheStream == Spec => []BlocksAreTheStream
<1>1. ChainInv => BlocksAreTheStream
  <2> SUFFICES ASSUME ChainInv PROVE BlocksAreTheStream
    OBVIOUS
  <2>1. slot = "process" => read + Block <= Len(stream)
    <3>1. slot = "process" => num >= Block /\ read + num = Len(stream)
      BY DEF ChainInv, StreamInv
    <3>2. num \in Nat /\ read \in Nat /\ Block \in Nat
      BY StreamSizes DEF ChainInv, StreamInv, RingInv
    <3> QED
      BY <3>1, <3>2
  <2> QED
    BY <2>1 DEF ChainInv, StreamInv, StreamIs, BlocksAreTheStream
<1> QED
  BY <1>1, ChainInvariant, PTL

(* The indices and the copy of the ring's beginning implement the FIFO     *)
(* (cbuffer.proto.c:257-314).                                              *)
THEOREM BufferImplementsFifo == Spec => BufferIsFifo
<1>1. Init => B!Init
  <2> SUFFICES ASSUME Init PROVE B!Init
    OBVIOUS
  <2>1. num = 0 /\ gone = <<>>
    BY DEF Init, BufferInit
  <2>2. Contents = <<>>
    BY <2>1 DEF Contents
  <2> QED
    BY <2>1, <2>2 DEF B!Init
<1>2. ChainInv /\ [Next]_vars => [B!Next]_B!vars
  <2> SUFFICES ASSUME ChainInv, [Next]_vars PROVE [B!Next]_B!vars
    OBVIOUS
  <2>1. UNCHANGED bufferVars => UNCHANGED B!vars
    BY DEF bufferVars, B!vars, Contents
  <2>2. \/ UNCHANGED bufferVars
        \/ PushSample \/ ReadBlock \/ ReleaseBlock
    BY DEF Next, Receive, TakePackage, PushedAll, Drained, vars
  <2> QED
    BY <2>1, <2>2, PushSampleKeeps, ReadBlockKeeps, ReleaseBlockKeeps
<1> QED
  BY <1>1, <1>2, ChainInvariant, PTL DEF Spec, BufferIsFifo, B!Spec
=============================================================================
