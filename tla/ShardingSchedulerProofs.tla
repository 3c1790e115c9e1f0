---------------------- MODULE ShardingSchedulerProofs ----------------------
(***************************************************************************)
(* Proofs about what the table loops of a node share, for any number of    *)
(* loops and any sizes: the batch size stays in bounds in every            *)
(* configuration in which adjust_step is at most min_size (without that    *)
(* the subtraction of Shrink wraps around, the run BatchUnderflow); the    *)
(* ring of error events implements the window of the last events and its   *)
(* threshold is tested exactly; the sum of the response times is exact.    *)
(***************************************************************************)
EXTENDS ShardingScheduler, FiniteSetTheorems, WellFoundedInduction, TLAPS

(* The values of a ring buffer and of an adjuster whose size is in bounds. *)
BufType ==
    [buffer : [BufferSlots -> Int], count : Int, writePos : BufferSlots, sum : Int]

AdjType == [currSize : MinSize..MaxSize, recent : BOOLEAN, buf : BufType]

(* A size is adjusted under the adjuster's lock and stored later: the invariant follows
   it from the adjuster through the local variable of the loop to the shared size. *)
SizeInv ==
    /\ kind \in {"slide", "fixed"}
    /\ adjuster \in AdjType
    /\ pc \in [Workers -> Pcs]
    /\ sent \in [Workers -> [failed : BOOLEAN, respTime : Nat]]
    /\ newSize \in [Workers -> Nat]
    /\ \A w \in Workers : pc[w] \in {"write", "store"} => newSize[w] \in MinSize..MaxSize
    /\ BatchSizeInBounds

(* An unsigned value below 2^w is its own residue: where nothing wraps, the arithmetic
   of the adjusters is that of the integers. *)
LEMMA SmallMod ==
    ASSUME NEW x \in Nat, x < Word
    PROVE  x % Word = x
BY SizeAssumption

(* The write position of the ring buffer stays inside it, full or not. *)
LEMMA BufferAddType ==
    ASSUME NEW rb \in BufType, NEW d \in Nat
    PROVE  BufferAdd(rb, d) \in BufType
<1>1. (rb.writePos + 1) % BufferSize \in BufferSlots
  BY BufferAssumption DEF BufType, BufferSlots
<1>2. [rb.buffer EXCEPT ![rb.writePos] = d] \in [BufferSlots -> Int]
  BY DEF BufType
<1>3. (IF rb.count = BufferSize THEN rb.count ELSE rb.count + 1) \in Int
  BY BufferAssumption DEF BufType
<1>4. (d + (IF rb.count = BufferSize THEN rb.sum - rb.buffer[rb.writePos] ELSE rb.sum)) \in Int
  BY DEF BufType
<1> QED
  BY <1>1, <1>2, <1>3, <1>4 DEF BufferAdd, BufType

(* A faster batch enlarges the size by a step, up to the maximum. *)
LEMMA GrowBounds ==
    ASSUME NEW a \in AdjType
    PROVE  Grow(a) \in AdjType
<1>1. a.currSize \in MinSize..MaxSize
  BY DEF AdjType
<1>2. (a.currSize + AdjustStep) % Word = a.currSize + AdjustStep
  BY <1>1, SmallMod, SizeAssumption
<1>3. Smaller((a.currSize + AdjustStep) % Word, MaxSize) \in MinSize..MaxSize
  BY <1>1, <1>2, SizeAssumption DEF Smaller
<1> QED
  BY <1>3 DEF Grow, AdjType

(* A slower batch reduces it by a step, down to the minimum; here the step must not be
   larger than the minimum. *)
LEMMA ShrinkBounds ==
    ASSUME AdjustStep <= MinSize, NEW a \in AdjType
    PROVE  Shrink(a) \in AdjType
<1>1. CASE a.currSize > MinSize
  <2>1. a.currSize \in MinSize..MaxSize
    BY DEF AdjType
  <2>2. (a.currSize - AdjustStep) % Word = a.currSize - AdjustStep
    BY <1>1, <2>1, SmallMod, SizeAssumption
  <2>3. Larger((a.currSize - AdjustStep) % Word, MinSize) \in MinSize..MaxSize
    BY <2>1, <2>2, SizeAssumption DEF Larger
  <2> QED
    BY <1>1, <2>3 DEF Shrink, AdjType
<1>2. CASE ~(a.currSize > MinSize)
  BY <1>2 DEF Shrink
<1> QED
  BY <1>1, <1>2

(* Adjust of either implementation keeps the adjuster's size in bounds. *)
LEMMA AdjustBounds ==
    ASSUME AdjustStep <= MinSize, NEW a \in AdjType, NEW d \in Nat
    PROVE  SlideAdjust(a, d) \in AdjType /\ FixedAdjust(a, d) \in AdjType
<1>1. [a EXCEPT !.buf = BufferAdd(a.buf, d)] \in AdjType
  BY BufferAddType DEF AdjType
<1>2. SlideAdjust(a, d) \in AdjType
  BY <1>1, GrowBounds, ShrinkBounds DEF SlideAdjust
<1>3. FixedAdjust(a, d) \in AdjType
  BY GrowBounds, ShrinkBounds DEF FixedAdjust
<1> QED
  BY <1>2, <1>3

(* NewAdjuster clamps init_size. *)
LEMMA InitSizes == Init => SizeInv
<1> SUFFICES ASSUME Init PROVE SizeInv
  OBVIOUS
<1>1. NewTimeDurationRingBuffer \in BufType
  BY BufferAssumption DEF NewTimeDurationRingBuffer, BufType, BufferSlots
<1>2. Smaller(Larger(InitSize, MinSize), MaxSize) \in MinSize..MaxSize
  BY SizeAssumption DEF Smaller, Larger
<1>3. adjuster \in AdjType
  BY <1>1, <1>2 DEF Init, NewAdjuster, AdjType
<1> QED
  BY <1>3, InputAssumption DEF Init, SizeInv, Pcs, NoResult, BatchSizeInBounds

(* Every step of a loop, of the job around it and of time keeps SizeInv. *)
LEMMA SizeStep ==
    ASSUME AdjustStep <= MinSize, SizeInv, [Next]_vars
    PROVE  SizeInv'
<1> USE DEF SizeInv
<1>1. ASSUME NEW w \in Workers, batchSend(w) PROVE SizeInv'
  BY <1>1, InputAssumption DEF batchSend, Move, Pcs, BatchSizeInBounds
<1>2. ASSUME NEW w \in Workers, RecordEvent(w) PROVE SizeInv'
  BY <1>2 DEF RecordEvent, Move, Pcs, BatchSizeInBounds
<1>3. ASSUME NEW w \in Workers, CheckThreshold(w) PROVE SizeInv'
  <2>1. CASE ThresholdTriggering(errEvents)
    <3>1. NoResult \in [failed : BOOLEAN, respTime : Nat]
      BY DEF NoResult
    <3>2. sent' \in [Workers -> [failed : BOOLEAN, respTime : Nat]]
      BY <1>3, <2>1, <3>1 DEF CheckThreshold
    <3> QED
      BY <1>3, <2>1, <3>2 DEF CheckThreshold, Move, Pcs, BatchSizeInBounds
  <2>2. CASE ~ThresholdTriggering(errEvents)
    BY <1>3, <2>2 DEF CheckThreshold, Move, Pcs, BatchSizeInBounds
  <2> QED
    BY <2>1, <2>2
<1>4. ASSUME NEW w \in Workers, Adjust(w) PROVE SizeInv'
  <2>1. adjuster' \in AdjType
    BY <1>4, AdjustBounds DEF Adjust
  <2>2. adjuster'.currSize \in MinSize..MaxSize /\ adjuster'.currSize \in Nat
    BY <2>1, SizeAssumption DEF AdjType
  <2> QED
    BY <1>4, <2>1, <2>2 DEF Adjust, Move, Pcs, NoResult, BatchSizeInBounds
<1>5. ASSUME NEW w \in Workers, AdjustFixed(w) PROVE SizeInv'
  <2>1. FixedAdjust(adjuster, sent[w].respTime) \in AdjType
    BY AdjustBounds
  <2>2. FixedAdjust(adjuster, sent[w].respTime).currSize \in MinSize..MaxSize
    BY <2>1 DEF AdjType
  <2>3. NoResult \in [failed : BOOLEAN, respTime : Nat]
    BY DEF NoResult
  <2> QED
    BY <1>5, <2>2, <2>3, SizeAssumption DEF AdjustFixed, Move, Pcs, BatchSizeInBounds
<1>6. ASSUME NEW w \in Workers, WriteFixed(w) PROVE SizeInv'
  <2>1. newSize[w] \in MinSize..MaxSize
    BY <1>6 DEF WriteFixed, Move
  <2>2. adjuster' \in AdjType
    BY <1>6, <2>1 DEF WriteFixed, AdjType
  <2> QED
    BY <1>6, <2>2 DEF WriteFixed, Move, Pcs, BatchSizeInBounds
<1>7. ASSUME NEW w \in Workers, ReturnFixed(w) PROVE SizeInv'
  <2>1. adjuster.currSize \in MinSize..MaxSize /\ adjuster.currSize \in Nat
    BY SizeAssumption DEF AdjType
  <2> QED
    BY <1>7, <2>1 DEF ReturnFixed, Move, Pcs, BatchSizeInBounds
<1>8. ASSUME NEW w \in Workers, StoreBatchSize(w) PROVE SizeInv'
  BY <1>8 DEF StoreBatchSize, Move, Pcs, BatchSizeInBounds
<1>9. ASSUME NEW w \in Workers, NewPass(w) PROVE SizeInv'
  BY <1>9 DEF NewPass, Move, Pcs, BatchSizeInBounds
<1>10. ASSUME NEW w \in Workers, BizTimeout(w) PROVE SizeInv'
  BY <1>10 DEF BizTimeout, BatchSizeInBounds
<1>11. CASE Cancel
  BY <1>11 DEF Cancel, BatchSizeInBounds
<1>12. CASE AdjustIntervalPasses
  BY <1>12 DEF AdjustIntervalPasses, AdjType, BatchSizeInBounds
<1>13. CASE Stopped \/ UNCHANGED vars
  BY <1>13 DEF Stopped, vars, BatchSizeInBounds
<1> QED
  BY <1>1, <1>2, <1>3, <1>4, <1>5, <1>6, <1>7, <1>8, <1>9, <1>10, <1>11, <1>12, <1>13
     DEF Next, LoopStep

(* Whatever the response times and however many table loops adjust and store the size,
   FindReady is asked for the configured batch_size or for a number between min_size and
   max_size, provided adjust_step is at most min_size. *)
THEOREM BatchSizeCorrect ==
    ASSUME AdjustStep <= MinSize
    PROVE  Spec => []BatchSizeInBounds
<1>1. Init => SizeInv
  BY InitSizes
<1>2. SizeInv /\ [Next]_vars => SizeInv'
  BY SizeStep
<1>3. SizeInv => BatchSizeInBounds
  BY DEF SizeInv
<1> QED
  BY <1>1, <1>2, <1>3, PTL DEF Spec

-----------------------------------------------------------------------------
(* The shared ring of error events *)

RingType == [words : [Positions -> BOOLEAN], writePos : Positions, isFull : BOOLEAN, eventCount : Int]

(* The positions that hold an event: before the ring is full those from writePos on have
   not been written. *)
Bits(br) == {p \in Positions : br.words[p] /\ (br.isFull \/ p < br.writePos)}

RingOK(br) == br \in RingType /\ br.eventCount = Cardinality(Bits(br))

ResultsOK == sent \in [Workers -> [failed : BOOLEAN, respTime : RespTimes \cup {0}]]

RingInv == RingOK(errEvents) /\ ResultsOK

(* NewBitRing corrects its arguments: the window is not empty and consecutiveThreshold is
   between one and the window's size. *)
LEMMA Sizes ==
    /\ windowSize \in Nat /\ windowSize >= 1 /\ eventRateThreshold \in Nat
    /\ consecutiveThreshold \in Nat /\ 1 <= consecutiveThreshold /\ consecutiveThreshold <= windowSize
BY CfgAssumption DEF windowSize, defaultWindowSize, eventRateThreshold, AtMost, consecutiveThreshold,
   defaultMinConsecutive

LEMMA BitsFinite == \A br : IsFiniteSet(Bits(br)) /\ Cardinality(Bits(br)) \in Nat
<1>1. IsFiniteSet(Positions)
  BY Sizes, FS_Interval DEF Positions
<1> QED
  BY <1>1, FS_Subset, FS_CardinalityType DEF Bits

(* Add evicts the event it overwrites from the running count, if the ring is full, and
   counts the new one. *)
LEMMA AddExact ==
    ASSUME NEW br, RingOK(br), NEW e \in BOOLEAN
    PROVE  RingOK(Add(br, e))
<1> DEFINE br2 == Add(br, e)
           wp == br.writePos
           evicted == br.isFull /\ br.words[wp]
<1>1. /\ br.words \in [Positions -> BOOLEAN] /\ wp \in Positions /\ br.isFull \in BOOLEAN
      /\ br.eventCount \in Int /\ wp \in Nat /\ wp < windowSize /\ windowSize \in Nat
  BY Sizes DEF RingOK, RingType, Positions
<1>2. /\ br2.words = [br.words EXCEPT ![wp] = e]
      /\ br2.writePos = (IF wp + 1 >= windowSize THEN 0 ELSE wp + 1)
      /\ br2.isFull = (br.isFull \/ wp + 1 >= windowSize)
      /\ br2.eventCount = br.eventCount - (IF evicted THEN 1 ELSE 0) + (IF e THEN 1 ELSE 0)
  BY DEF Add
<1>3. br2 \in RingType
  <2>1. br2.writePos \in Positions /\ br2.words \in [Positions -> BOOLEAN]
        /\ br2.isFull \in BOOLEAN /\ br2.eventCount \in Int
    BY <1>1, <1>2 DEF Positions
  <2>2. br2 = [words |-> br2.words, writePos |-> br2.writePos, isFull |-> br2.isFull,
               eventCount |-> br2.eventCount]
    BY DEF Add
  <2> HIDE DEF br2
  <2> QED
    BY <2>1, <2>2 DEF RingType
<1> HIDE DEF br2
<1>4. \/ wp + 1 >= windowSize /\ br2.isFull = TRUE
      \/ wp + 1 < windowSize /\ br2.isFull = br.isFull /\ br2.writePos = wp + 1
  <2>1. CASE wp + 1 >= windowSize
    BY <1>2, <2>1
  <2>2. CASE ~(wp + 1 >= windowSize)
    <3>1. (wp + 1 >= windowSize) = FALSE /\ wp + 1 < windowSize
      BY <1>1, <2>2
    <3>2. (br.isFull \/ FALSE) = br.isFull
      BY <1>1
    <3> QED
      BY <1>2, <3>1, <3>2
  <2> QED
    BY <2>1, <2>2
<1>5. Bits(br2) = (Bits(br) \ {wp}) \cup (IF e THEN {wp} ELSE {})
  <2>1. ASSUME NEW p \in Positions, p # wp PROVE p \in Bits(br2) <=> p \in Bits(br)
    <3>1. p \in Nat /\ p < windowSize
      BY Sizes DEF Positions
    <3>2. br2.words[p] = br.words[p]
      BY <1>1, <1>2, <2>1
    <3>3. (br2.isFull \/ p < br2.writePos) <=> (br.isFull \/ p < wp)
      BY <1>1, <1>4, <2>1, <3>1
    <3> QED
      BY <3>2, <3>3 DEF Bits
  <2>2. wp \in Bits(br2) <=> e
    <3>1. br2.words[wp] = e
      BY <1>1, <1>2
    <3>2. br2.isFull \/ wp < br2.writePos
      BY <1>1, <1>4
    <3> QED
      BY <1>1, <3>1, <3>2 DEF Bits
  <2>3. Bits(br2) \subseteq Positions /\ Bits(br) \subseteq Positions
    BY DEF Bits
  <2> QED
    BY <1>1, <2>1, <2>2, <2>3
<1>6. wp \in Bits(br) <=> evicted
  BY <1>1 DEF Bits
<1>7. IsFiniteSet(Bits(br)) /\ Cardinality(Bits(br)) \in Nat /\ Cardinality(Bits(br)) = br.eventCount
  BY BitsFinite DEF RingOK
<1> DEFINE rest == Bits(br) \ {wp}
<1>8. IsFiniteSet(rest) /\ Cardinality(rest) = br.eventCount - (IF evicted THEN 1 ELSE 0)
  <2>1. CASE evicted
    BY <1>6, <1>7, <2>1, FS_RemoveElement
  <2>2. CASE ~evicted
    <3>1. rest = Bits(br)
      BY <1>6, <2>2
    <3> QED
      BY <1>7, <2>2, <3>1
  <2> QED
    BY <2>1, <2>2
<1>9. Cardinality(Bits(br2)) = Cardinality(rest) + (IF e THEN 1 ELSE 0)
  <2>1. wp \notin rest /\ Cardinality(rest) \in Nat
    BY <1>8, FS_CardinalityType
  <2>2. CASE e
    BY <1>5, <1>8, <2>1, <2>2, FS_AddElement
  <2>3. CASE ~e
    <3>1. Bits(br2) = rest
      BY <1>5, <2>3
    <3> QED
      BY <2>1, <2>3, <3>1
  <2> QED
    BY <2>2, <2>3
<1>10. Cardinality(Bits(br2)) = br2.eventCount
  BY <1>2, <1>8, <1>9
<1> QED
  BY <1>3, <1>10 DEF RingOK, br2

(* A position wraps at most once. *)
LEMMA Wrap ==
    ASSUME NEW x \in Nat, x < 2 * windowSize
    PROVE  x % windowSize = IF x < windowSize THEN x ELSE x - windowSize
BY Sizes

(* The events of a ring, oldest first. *)
WindowOf(br) ==
    LET size == currWindowSize(br) IN
    [i \in 1..size |-> br.words[(br.writePos + windowSize - size + i - 1) % windowSize]]

(* Where the i-th oldest event is. *)
Place(br, i) ==
    IF ~br.isFull THEN i - 1
    ELSE IF br.writePos + i - 1 < windowSize THEN br.writePos + i - 1
    ELSE br.writePos + i - 1 - windowSize

LEMMA WindowAt ==
    ASSUME NEW br, RingOK(br)
    PROVE  LET size == currWindowSize(br) IN
           /\ size \in Nat /\ size <= windowSize
           /\ WindowOf(br) = [i \in 1..size |-> br.words[Place(br, i)]]
           /\ \A i \in 1..size : Place(br, i) \in Positions
           /\ WindowOf(br) \in Seq(BOOLEAN) /\ Len(WindowOf(br)) = size
<1> DEFINE size == currWindowSize(br)
           wp == br.writePos
<1>1. /\ br.words \in [Positions -> BOOLEAN] /\ wp \in Positions /\ br.isFull \in BOOLEAN
      /\ wp \in Nat /\ wp < windowSize /\ windowSize \in Nat
  BY Sizes DEF RingOK, RingType, Positions
<1>2. size = IF br.isFull THEN windowSize ELSE wp
  BY DEF currWindowSize
<1>3. size \in Nat /\ size <= windowSize
  BY <1>1, <1>2
<1> HIDE DEF size
<1>4. ASSUME NEW i \in 1..size
      PROVE  (wp + windowSize - size + i - 1) % windowSize = Place(br, i) /\ Place(br, i) \in Positions
  <2> DEFINE x == wp + windowSize - size + i - 1
  <2>1. x = (IF br.isFull THEN wp ELSE windowSize) + i - 1
    BY <1>1, <1>2
  <2>2. x \in Nat /\ x < 2 * windowSize
    BY <1>1, <1>2, <1>3
  <2>3. x % windowSize = IF x < windowSize THEN x ELSE x - windowSize
    BY <2>2, Wrap
  <2> HIDE DEF x
  <2>4. x % windowSize = Place(br, i)
    BY <1>1, <1>2, <2>1, <2>3 DEF Place
  <2>5. Place(br, i) \in Positions
    BY <1>1, <1>2 DEF Place, Positions
  <2> QED
    BY <2>4, <2>5 DEF x
<1>5. WindowOf(br) = [i \in 1..size |-> br.words[(wp + windowSize - size + i - 1) % windowSize]]
  BY DEF WindowOf, size
<1>6. WindowOf(br) = [i \in 1..size |-> br.words[Place(br, i)]]
  BY <1>4, <1>5
<1>7. \A i \in 1..size : br.words[Place(br, i)] \in BOOLEAN
  BY <1>1, <1>4
<1>8. WindowOf(br) \in Seq(BOOLEAN) /\ Len(WindowOf(br)) = size
  BY <1>3, <1>6, <1>7
<1> QED
  BY <1>3, <1>4, <1>6, <1>8 DEF size

(* Adding an event appends it to the window and, when the ring is full, drops the oldest. *)
LEMMA AddWindow ==
    ASSUME NEW br, RingOK(br), NEW e \in BOOLEAN
    PROVE  WindowOf(Add(br, e)) = Abstract!Last(Append(WindowOf(br), e), windowSize)
<1> DEFINE br2 == Add(br, e)
           wp == br.writePos
           size == currWindowSize(br)
           size2 == currWindowSize(br2)
           w == WindowOf(br)
           w2 == WindowOf(br2)
<1>1. /\ br.words \in [Positions -> BOOLEAN] /\ wp \in Positions /\ br.isFull \in BOOLEAN
      /\ wp \in Nat /\ wp < windowSize /\ windowSize \in Nat
  BY Sizes DEF RingOK, RingType, Positions
<1>2. /\ br2.words = [br.words EXCEPT ![wp] = e]
      /\ br2.writePos = (IF wp + 1 >= windowSize THEN 0 ELSE wp + 1)
      /\ br2.isFull = (br.isFull \/ wp + 1 >= windowSize)
  BY DEF Add
<1>3. RingOK(br2)
  BY AddExact
<1>4. /\ size \in Nat /\ size <= windowSize /\ w \in Seq(BOOLEAN) /\ Len(w) = size
      /\ w = [i \in 1..size |-> br.words[Place(br, i)]]
      /\ \A i \in 1..size : Place(br, i) \in Positions
  BY WindowAt
<1>5. /\ size2 \in Nat /\ size2 <= windowSize
      /\ w2 = [i \in 1..size2 |-> br2.words[Place(br2, i)]]
      /\ \A i \in 1..size2 : Place(br2, i) \in Positions
  BY <1>3, WindowAt
<1>6. size = (IF br.isFull THEN windowSize ELSE wp)
      /\ size2 = (IF br2.isFull THEN windowSize ELSE br2.writePos)
  BY DEF currWindowSize
<1> HIDE DEF br2, size, size2, w, w2
<1>7. CASE br.isFull
  <2>1. size = windowSize /\ size2 = windowSize /\ br2.isFull
    BY <1>2, <1>6, <1>7
  <2>2. Abstract!Last(Append(w, e), windowSize) = SubSeq(Append(w, e), 2, windowSize + 1)
    BY <1>1, <1>4, <2>1 DEF Abstract!Last
  <2>3. SubSeq(Append(w, e), 2, windowSize + 1) = [i \in 1..windowSize |-> Append(w, e)[i + 1]]
    BY <1>1, <1>4, <2>1
  <2>4. ASSUME NEW i \in 1..windowSize PROVE Append(w, e)[i + 1] = br2.words[Place(br2, i)]
    <3>1. CASE i = windowSize
      <4>1. Append(w, e)[i + 1] = e
        BY <1>1, <1>4, <2>1, <3>1
      <4>2. Place(br2, i) = wp
        BY <1>1, <1>2, <2>1, <3>1 DEF Place
      <4> QED
        BY <1>1, <1>2, <4>1, <4>2
    <3>2. CASE i # windowSize
      <4>1. i + 1 \in 1..windowSize
        BY <1>1, <3>2
      <4>2. Append(w, e)[i + 1] = br.words[Place(br, i + 1)]
        BY <1>1, <1>4, <2>1, <4>1
      <4>3. Place(br2, i) = Place(br, i + 1)
        BY <1>1, <1>2, <1>7, <2>1, <4>1 DEF Place
      <4>4. Place(br, i + 1) # wp
        BY <1>1, <1>7, <3>2 DEF Place
      <4>5. Place(br, i + 1) \in Positions
        BY <1>4, <2>1, <4>1
      <4> QED
        BY <1>1, <1>2, <4>2, <4>3, <4>4, <4>5
    <3> QED
      BY <3>1, <3>2
  <2> QED
    BY <1>5, <2>1, <2>2, <2>3, <2>4 DEF w, w2, br2
<1>8. CASE ~br.isFull
  <2>1. size = wp
    BY <1>6, <1>8
  <2>2. size2 = wp + 1 /\ (br2.isFull => br2.writePos = 0)
    <3>1. CASE wp + 1 >= windowSize
      <4>1. (wp + 1 >= windowSize) = TRUE /\ wp + 1 = windowSize
        BY <1>1, <3>1
      <4>2. br2.isFull = TRUE
        BY <1>2, <4>1
      <4> QED
        BY <1>2, <1>6, <3>1, <4>1, <4>2
    <3>2. CASE ~(wp + 1 >= windowSize)
      <4>1. (wp + 1 >= windowSize) = FALSE /\ br.isFull = FALSE
        BY <1>1, <1>8, <3>2
      <4>2. br2.isFull = FALSE
        BY <1>2, <4>1
      <4> QED
        BY <1>2, <1>6, <3>2, <4>2
    <3> QED
      BY <3>1, <3>2
  <2>3. Abstract!Last(Append(w, e), windowSize) = Append(w, e)
    BY <1>1, <1>4, <2>1 DEF Abstract!Last
  <2>4. Append(w, e) = [i \in 1..(wp + 1) |-> Append(w, e)[i]]
    BY <1>1, <1>4, <2>1
  <2>5. ASSUME NEW i \in 1..(wp + 1) PROVE Append(w, e)[i] = br2.words[Place(br2, i)]
    <3>1. Place(br2, i) = i - 1
      BY <1>1, <2>2 DEF Place
    <3>2. CASE i = wp + 1
      BY <1>1, <1>2, <1>4, <2>1, <3>1, <3>2
    <3>3. CASE i # wp + 1
      <4>1. i \in 1..wp /\ i - 1 \in Positions /\ i - 1 # wp
        BY <1>1, <3>3 DEF Positions
      <4>2. Append(w, e)[i] = br.words[i - 1]
        BY <1>1, <1>4, <1>8, <2>1, <4>1 DEF Place
      <4> QED
        BY <1>1, <1>2, <3>1, <4>1, <4>2
    <3> QED
      BY <3>2, <3>3
  <2> QED
    BY <1>5, <2>2, <2>3, <2>4, <2>5 DEF w, w2, br2
<1> QED
  BY <1>7, <1>8

(* The events of the window are in as many places of the ring. *)
LEMMA HappenedBits ==
    ASSUME NEW br, RingOK(br)
    PROVE  Cardinality({i \in DOMAIN WindowOf(br) : WindowOf(br)[i]}) = Cardinality(Bits(br))
<1> DEFINE size == currWindowSize(br)
           wp == br.writePos
           H == {i \in DOMAIN WindowOf(br) : WindowOf(br)[i]}
           f == [i \in H |-> Place(br, i)]
<1>1. /\ br.words \in [Positions -> BOOLEAN] /\ wp \in Positions /\ br.isFull \in BOOLEAN
      /\ wp \in Nat /\ wp < windowSize /\ windowSize \in Nat
  BY Sizes DEF RingOK, RingType, Positions
<1>2. /\ size \in Nat /\ size <= windowSize /\ WindowOf(br) = [i \in 1..size |-> br.words[Place(br, i)]]
      /\ \A i \in 1..size : Place(br, i) \in Positions
  BY WindowAt
<1>3. size = IF br.isFull THEN windowSize ELSE wp
  BY DEF currWindowSize
<1> HIDE DEF size
<1>4. H = {i \in 1..size : br.words[Place(br, i)]}
  BY <1>2
<1> HIDE DEF H
<1>5. ASSUME NEW i \in 1..size PROVE br.isFull \/ Place(br, i) < wp
  BY <1>1, <1>3 DEF Place
<1>6. f \in [H -> Bits(br)]
  BY <1>2, <1>4, <1>5 DEF Bits
<1>7. ASSUME NEW i \in H, NEW j \in H, f[i] = f[j] PROVE i = j
  <2>1. i \in 1..size /\ j \in 1..size /\ Place(br, i) = Place(br, j)
    BY <1>4, <1>7
  <2> QED
    BY <1>1, <1>3, <2>1 DEF Place
<1>8. ASSUME NEW p \in Bits(br) PROVE \E i \in H : f[i] = p
  <2> DEFINE i == IF ~br.isFull THEN p + 1 ELSE IF p >= wp THEN p - wp + 1 ELSE p - wp + 1 + windowSize
  <2>1. p \in Nat /\ p < windowSize /\ br.words[p] /\ (br.isFull \/ p < wp)
    BY <1>1 DEF Bits, Positions
  <2>2. i \in 1..size
    BY <1>1, <1>3, <2>1
  <2>3. Place(br, i) = p
    BY <1>1, <2>1 DEF Place
  <2> HIDE DEF i
  <2>4. i \in H
    BY <1>4, <2>1, <2>2, <2>3
  <2> QED
    BY <2>3, <2>4
<1>9. f \in Bijection(H, Bits(br))
  BY <1>6, <1>7, <1>8 DEF Bijection, Injection, Surjection, IsInjective
<1>10. IsFiniteSet(H)
  BY <1>2, <1>4, FS_Interval, FS_Subset
<1> HIDE DEF f
<1>11. Cardinality(H) = Cardinality(Bits(br))
  BY <1>9, <1>10, FS_Bijection DEF ExistsBijection
<1> QED
  BY <1>11 DEF H

(* The two tests of ThresholdTriggering, and its test for an empty ring, agree with their
   definitions on the window. *)
LEMMA ThresholdOnWindow == RingOK(errEvents) => ThresholdExact
<1> SUFFICES ASSUME RingOK(errEvents) PROVE ThresholdExact
  OBVIOUS
<1> DEFINE br == errEvents
           size == currWindowSize(br)
           wp == br.writePos
<1>1. ErrWindow = WindowOf(errEvents)
  BY DEF ErrWindow, WindowOf
<1>2. size \in Nat /\ size <= windowSize /\ Len(ErrWindow) = size
  BY <1>1, WindowAt
<1>3. br.eventCount = Cardinality(Abstract!Happened) /\ br.eventCount \in Nat
  BY <1>1, HappenedBits, BitsFinite DEF RingOK, Abstract!Happened
<1>4. wp \in Nat /\ windowSize \in Nat
  BY Sizes DEF RingOK, RingType, Positions
<1>5. size >= consecutiveThreshold =>
        (LastEventsHappened(br) <=> \A i \in (size - consecutiveThreshold + 1)..size : ErrWindow[i])
  <2> SUFFICES ASSUME size >= consecutiveThreshold
               PROVE  LastEventsHappened(br) <=> \A i \in (size - consecutiveThreshold + 1)..size : ErrWindow[i]
    OBVIOUS
  <2>1. \A i \in 1..size : ErrWindow[i] = br.words[(wp + windowSize - size + i - 1) % windowSize]
    BY DEF ErrWindow
  <2> HIDE DEF br, size
  <2>2. ASSUME LastEventsHappened(br), NEW j \in (size - consecutiveThreshold + 1)..size PROVE ErrWindow[j]
    <3>1. (size - j + 1) \in 1..consecutiveThreshold /\ j \in 1..size
      BY <1>2, Sizes
    <3>2. br.words[(wp - (size - j + 1) + windowSize) % windowSize]
      BY <2>2, <3>1 DEF LastEventsHappened
    <3>3. wp - (size - j + 1) + windowSize = wp + windowSize - size + j - 1
      BY <1>2, <1>4
    <3> QED
      BY <2>1, <3>1, <3>2, <3>3
  <2>3. ASSUME \A j \in (size - consecutiveThreshold + 1)..size : ErrWindow[j],
               NEW i \in 1..consecutiveThreshold
        PROVE  br.words[(wp - i + windowSize) % windowSize]
    <3>1. (size - i + 1) \in (size - consecutiveThreshold + 1)..size /\ (size - i + 1) \in 1..size
      BY <1>2, Sizes
    <3>2. wp - i + windowSize = wp + windowSize - size + (size - i + 1) - 1
      BY <1>2, <1>4, Sizes
    <3> QED
      BY <2>1, <2>3, <3>1, <3>2
  <2> QED
    BY <2>2, <2>3 DEF LastEventsHappened
<1>6. ThresholdTriggering(br) <=>
        /\ size # 0
        /\ \/ size >= consecutiveThreshold /\ LastEventsHappened(br)
           \/ br.eventCount * 100 > eventRateThreshold * size
  BY DEF ThresholdTriggering
<1>7. Abstract!Cardinality(Abstract!Happened) = Cardinality(Abstract!Happened)
  BY DEF Abstract!Cardinality, Cardinality
<1>8. Abstract!Triggered <=>
        \/ /\ size >= consecutiveThreshold
           /\ \A i \in (size - consecutiveThreshold + 1)..size : ErrWindow[i]
        \/ br.eventCount * 100 > eventRateThreshold * size
  BY <1>2, <1>3, <1>7 DEF Abstract!Triggered
<1>9. size = 0 => ~(size >= consecutiveThreshold) /\ ~(br.eventCount * 100 > eventRateThreshold * size)
  <2> SUFFICES ASSUME size = 0
               PROVE  ~(size >= consecutiveThreshold) /\ ~(br.eventCount * 100 > eventRateThreshold * size)
    OBVIOUS
  <2>1. Abstract!Happened = {}
    BY <1>1, WindowAt DEF Abstract!Happened
  <2>2. br.eventCount = 0
    BY <1>3, <2>1, FS_EmptySet
  <2> QED
    BY <2>2, Sizes
<1> QED
  BY <1>3, <1>5, <1>6, <1>8, <1>9 DEF ThresholdExact

LEMMA InitRing == Init => RingInv
<1> SUFFICES ASSUME Init PROVE RingInv
  OBVIOUS
<1>1. errEvents = NewBitRing /\ NewBitRing \in RingType
  BY Sizes DEF Init, NewBitRing, RingType, Positions
<1>2. Bits(NewBitRing) = {}
  BY DEF Bits, NewBitRing
<1>3. RingOK(errEvents)
  BY <1>1, <1>2, FS_EmptySet DEF RingOK, NewBitRing
<1> QED
  BY <1>3 DEF Init, RingInv, ResultsOK, NoResult

(* A result waits in its loop until the loop adds it to the ring. *)
LEMMA ResultsStep ==
    ASSUME ResultsOK, [Next]_vars
    PROVE  ResultsOK'
<1>1. NoResult \in [failed : BOOLEAN, respTime : RespTimes \cup {0}]
  BY DEF NoResult
<1>2. ASSUME NEW w \in Workers, LoopStep(w) PROVE ResultsOK'
  <2>1. CASE batchSend(w)
    BY <2>1 DEF batchSend, ResultsOK
  <2>2. CASE CheckThreshold(w)
    BY <1>1, <2>2 DEF CheckThreshold, ResultsOK
  <2>3. CASE Adjust(w) \/ AdjustFixed(w)
    BY <1>1, <2>3 DEF Adjust, AdjustFixed, ResultsOK
  <2>4. CASE RecordEvent(w) \/ WriteFixed(w) \/ ReturnFixed(w) \/ StoreBatchSize(w)
    BY <2>4 DEF RecordEvent, WriteFixed, ReturnFixed, StoreBatchSize, ResultsOK
  <2> QED
    BY <1>2, <2>1, <2>2, <2>3, <2>4 DEF LoopStep
<1>3. CASE \/ \E w \in Workers : NewPass(w) \/ BizTimeout(w)
           \/ Cancel \/ AdjustIntervalPasses \/ Stopped \/ UNCHANGED vars
  BY <1>3 DEF NewPass, BizTimeout, Cancel, AdjustIntervalPasses, Stopped, vars, ResultsOK
<1> QED
  BY <1>2, <1>3 DEF Next

(* Only RecordEvent touches the ring, and it adds one event. *)
LEMMA RingSteps ==
    ASSUME ResultsOK, [Next]_vars
    PROVE  UNCHANGED errEvents \/ \E e \in BOOLEAN : errEvents' = Add(errEvents, e)
<1>1. ASSUME NEW w \in Workers, RecordEvent(w) PROVE \E e \in BOOLEAN : errEvents' = Add(errEvents, e)
  <2>1. sent[w].failed \in BOOLEAN
    BY DEF ResultsOK
  <2> QED
    BY <1>1, <2>1 DEF RecordEvent
<1>2. ASSUME NEW w \in Workers, LoopStep(w), ~RecordEvent(w) PROVE UNCHANGED errEvents
  BY <1>2 DEF LoopStep, batchSend, CheckThreshold, Adjust, AdjustFixed, WriteFixed, ReturnFixed,
       StoreBatchSize
<1> QED
  BY <1>1, <1>2 DEF Next, NewPass, BizTimeout, Cancel, AdjustIntervalPasses, Stopped, vars

LEMMA RingStep == RingInv /\ [Next]_vars => RingInv'
<1> SUFFICES ASSUME RingInv, [Next]_vars PROVE RingInv'
  OBVIOUS
<1>1. ResultsOK'
  BY ResultsStep DEF RingInv
<1>2. RingOK(errEvents)'
  <2>1. CASE UNCHANGED errEvents
    BY <2>1 DEF RingInv, RingOK, Bits
  <2>2. ASSUME NEW e \in BOOLEAN, errEvents' = Add(errEvents, e) PROVE RingOK(errEvents)'
    <3>1. RingOK(Add(errEvents, e))
      BY AddExact DEF RingInv
    <3> QED
      BY <2>2, <3>1 DEF RingOK, Bits
  <2> QED
    BY <2>1, <2>2, RingSteps DEF RingInv
<1> QED
  BY <1>1, <1>2 DEF RingInv

(* The error threshold is tested exactly: the running count and the two tests of
   ThresholdTriggering agree with their definitions on the last windowSize events, for any
   configuration NewBitRing accepts and corrects, and however many loops share the ring. *)
THEOREM ThresholdCorrect == Spec => []ThresholdExact
<1>1. RingInv => ThresholdExact
  BY ThresholdOnWindow DEF RingInv
<1> QED
  BY <1>1, InitRing, RingStep, PTL DEF Spec

(* The ring refines the window of the last windowSize events: no event is lost, kept too
   long or moved, whatever loops add events in between. *)
THEOREM RingImplementsWindow == Spec => RingIsWindow
<1>1. Init => Abstract!Init
  <2> SUFFICES ASSUME Init PROVE ErrWindow = <<>>
    BY DEF Abstract!Init
  <2>1. currWindowSize(errEvents) = 0
    BY DEF Init, NewBitRing, currWindowSize
  <2> QED
    BY <2>1 DEF ErrWindow
<1>2. RingInv /\ [Next]_vars => [Abstract!Next]_ErrWindow
  <2> SUFFICES ASSUME RingInv, [Next]_vars PROVE Abstract!Next \/ UNCHANGED ErrWindow
    OBVIOUS
  <2>1. CASE UNCHANGED errEvents
    BY <2>1 DEF ErrWindow, currWindowSize
  <2>2. ASSUME NEW e \in BOOLEAN, errEvents' = Add(errEvents, e) PROVE Abstract!Next
    <3>1. ErrWindow' = WindowOf(Add(errEvents, e)) /\ ErrWindow = WindowOf(errEvents)
      BY <2>2 DEF ErrWindow, WindowOf
    <3>2. ErrWindow' = Abstract!Last(Append(ErrWindow, e), windowSize)
      BY <3>1, AddWindow DEF RingInv
    <3> QED
      BY <3>2 DEF Abstract!Next, Abstract!Record
  <2> QED
    BY <2>1, <2>2, RingSteps DEF RingInv
<1> QED
  BY <1>1, <1>2, InitRing, RingStep, PTL DEF Spec, RingIsWindow, Abstract!Spec

-----------------------------------------------------------------------------
(* The ring buffer of response times *)

(* What slot p counts for: response times are written from slot 0 on. *)
Item(rb, p) == IF p < rb.count THEN rb.buffer[p] ELSE 0

(* T is the function of the running totals over the first slots. *)
Totals(rb, n, T) == T = [p \in -1..(n - 1) |-> IF p = -1 THEN 0 ELSE T[p - 1] + Item(rb, p)]

Total(rb) == CHOOSE T : Totals(rb, BufferSize, T)

BufOK(rb) ==
    /\ rb \in BufType
    /\ rb.count \in 0..BufferSize
    /\ rb.count < BufferSize => rb.writePos = rb.count
    /\ rb.sum = Total(rb)[BufferSize - 1]

LEMMA LeastOf ==
    ASSUME NEW S \in SUBSET Nat, S # {}
    PROVE  \E n \in S : \A m \in S : n <= m
<1>1. PICK n \in S : \A m \in S : ~(<<m, n>> \in OpToRel(<, Nat))
  BY NatLessThanWellFounded, WFMin
<1>2. ASSUME NEW m \in S PROVE n <= m
  <2>1. <<m, n>> \in OpToRel(<, Nat) <=> m < n
    BY DEF OpToRel
  <2>2. ~(m < n)
    BY <1>1, <2>1, Zenon
  <2> QED
    BY <2>2
<1> QED
  BY <1>2

(* The totals exist, over any number of slots: the least number without them cannot be. *)
LEMMA TotalsExist ==
    ASSUME NEW rb, NEW n \in Nat
    PROVE  \E T : Totals(rb, n, T)
<1> DEFINE Bad == {k \in Nat : ~\E T : Totals(rb, k, T)}
<1>1. ASSUME Bad # {} PROVE FALSE
  <2>1. PICK k \in Bad : \A m \in Bad : k <= m
    BY <1>1, LeastOf
  <2>2. CASE k = 0
    <3> DEFINE T == [p \in -1..(0 - 1) |-> 0]
    <3>1. Totals(rb, 0, T)
      BY DEF Totals
    <3> QED
      BY <2>2, <3>1
  <2>3. CASE k # 0
    <3>1. k - 1 \in Nat /\ k - 1 \notin Bad
      BY <2>1, <2>3
    <3>2. PICK T : Totals(rb, k - 1, T)
      BY <3>1
    <3> DEFINE U == [p \in -1..(k - 1) |-> IF p = -1 THEN 0 ELSE T[p - 1] + Item(rb, p)]
    <3>3. ASSUME NEW p \in -1..(k - 1 - 1) PROVE T[p] = U[p]
      BY <3>1, <3>2 DEF Totals
    <3>4. ASSUME NEW p \in -1..(k - 1), p # -1 PROVE U[p - 1] = T[p - 1]
      <4>1. p - 1 \in -1..(k - 1 - 1)
        BY <3>1, <3>4
      <4> QED
        BY <3>3, <4>1
    <3> DEFINE V == [p \in -1..(k - 1) |-> IF p = -1 THEN 0 ELSE U[p - 1] + Item(rb, p)]
    <3>5. U = V
      BY <3>4
    <3>6. Totals(rb, k, U)
      BY <3>5 DEF Totals
    <3> QED
      BY <3>6
  <2> QED
    BY <2>2, <2>3
<1> QED
  BY <1>1

(* The total over the slots up to p. *)
LEMMA TotalAt ==
    ASSUME NEW rb \in BufType
    PROVE  \A p \in -1..(BufferSize - 1) :
               /\ Total(rb)[p] = IF p = -1 THEN 0 ELSE Total(rb)[p - 1] + Item(rb, p)
               /\ Total(rb)[p] \in Int
<1> DEFINE T == Total(rb)
<1>1. \E f : Totals(rb, BufferSize, f)
  BY TotalsExist, BufferAssumption
<1>2. Totals(rb, BufferSize, T)
  BY <1>1 DEF Total
<1> HIDE DEF T
<1>3. \A p \in -1..(BufferSize - 1) : T[p] = IF p = -1 THEN 0 ELSE T[p - 1] + Item(rb, p)
  BY <1>2 DEF Totals
<1>4. \A p \in BufferSlots : Item(rb, p) \in Int
  BY DEF BufType, Item
<1> DEFINE Bad == {k \in Nat : k <= BufferSize /\ T[k - 1] \notin Int}
<1>5. ASSUME Bad # {} PROVE FALSE
  <2>1. PICK k \in Bad : \A m \in Bad : k <= m
    BY <1>5, LeastOf
  <2>2. CASE k = 0
    BY <1>3, <2>1, <2>2, BufferAssumption
  <2>3. CASE k # 0
    <3>1. k - 1 \in Nat /\ k - 1 <= BufferSize /\ k - 1 \notin Bad
      BY <2>1, <2>3, BufferAssumption
    <3>2. T[k - 1 - 1] \in Int
      BY <3>1
    <3>3. k - 1 \in BufferSlots /\ k - 1 \in -1..(BufferSize - 1) /\ k - 1 # -1
      BY <2>1, <3>1, BufferAssumption DEF BufferSlots
    <3>4. T[k - 1] = T[k - 1 - 1] + Item(rb, k - 1)
      BY <1>3, <3>3
    <3> QED
      BY <1>4, <2>1, <3>2, <3>3, <3>4
  <2> QED
    BY <2>2, <2>3
<1>6. ASSUME NEW p \in -1..(BufferSize - 1) PROVE T[p] \in Int
  <2>1. p + 1 \in Nat /\ p + 1 <= BufferSize /\ p + 1 - 1 = p
    BY BufferAssumption
  <2>2. p + 1 \notin Bad
    BY <1>5
  <2> QED
    BY <2>1, <2>2
<1> QED
  BY <1>3, <1>6 DEF T

(* Rewriting one slot changes the totals from there on by the difference. *)
LEMMA TotalChange ==
    ASSUME NEW rb \in BufType, NEW rb2 \in BufType, NEW k \in BufferSlots,
           \A p \in BufferSlots \ {k} : Item(rb2, p) = Item(rb, p)
    PROVE  Total(rb2)[BufferSize - 1] = Total(rb)[BufferSize - 1] + Item(rb2, k) - Item(rb, k)
<1> DEFINE T == Total(rb)
           T2 == Total(rb2)
           diff == Item(rb2, k) - Item(rb, k)
           Diff(p) == IF p >= k THEN diff ELSE 0
<1>1. \A p \in -1..(BufferSize - 1) :
          T[p] \in Int /\ T[p] = IF p = -1 THEN 0 ELSE T[p - 1] + Item(rb, p)
  BY TotalAt
<1>2. \A p \in -1..(BufferSize - 1) :
          T2[p] \in Int /\ T2[p] = IF p = -1 THEN 0 ELSE T2[p - 1] + Item(rb2, p)
  BY TotalAt
<1>3. \A p \in BufferSlots : Item(rb, p) \in Int /\ Item(rb2, p) \in Int
  BY DEF BufType, Item
<1>4. k \in Nat /\ k < BufferSize /\ diff \in Int
  BY <1>3, BufferAssumption DEF BufferSlots
<1> HIDE DEF T, T2
<1> DEFINE Bad == {n \in Nat : n <= BufferSize /\ T2[n - 1] # T[n - 1] + Diff(n - 1)}
<1>5. ASSUME Bad # {} PROVE FALSE
  <2>1. PICK n \in Bad : \A m \in Bad : n <= m
    BY <1>5, LeastOf
  <2>2. CASE n = 0
    <3>1. -1 \in -1..(BufferSize - 1)
      BY BufferAssumption
    <3>2. T[-1] = 0 /\ T2[-1] = 0 /\ Diff(-1) = 0 /\ n - 1 = -1
      BY <1>1, <1>2, <1>4, <2>2, <3>1
    <3> QED
      BY <2>1, <3>2
  <2>3. CASE n # 0
    <3> DEFINE q == n - 1
    <3>1. q \in Nat /\ q <= BufferSize /\ q \notin Bad
      BY <2>1, <2>3, BufferAssumption
    <3>2. T2[q - 1] = T[q - 1] + Diff(q - 1)
      BY <3>1
    <3>3. q \in BufferSlots /\ q \in -1..(BufferSize - 1) /\ q # -1 /\ q - 1 \in -1..(BufferSize - 1)
      BY <2>1, <3>1, BufferAssumption DEF BufferSlots
    <3>4. T[q] = T[q - 1] + Item(rb, q) /\ T2[q] = T2[q - 1] + Item(rb2, q) /\ T[q - 1] \in Int
      BY <1>1, <1>2, <3>3
    <3>5. T2[q] # T[q] + Diff(q)
      BY <2>1
    <3>6. Item(rb, q) \in Int /\ Item(rb2, q) \in Int
      BY <1>3, <3>3
    <3> HIDE DEF q
    <3>7. Diff(q) = Diff(q - 1) + Item(rb2, q) - Item(rb, q) /\ Diff(q - 1) \in Int
      <4>1. CASE q = k
        BY <1>4, <3>1, <3>6, <4>1
      <4>2. CASE q # k
        <5>1. Item(rb2, q) = Item(rb, q) /\ (q >= k <=> q - 1 >= k)
          BY <1>4, <3>1, <3>3, <4>2
        <5> HIDE DEF diff
        <5> QED
          BY <1>4, <3>6, <5>1
      <4> QED
        BY <4>1, <4>2
    <3> HIDE DEF Diff
    <3> QED
      BY <3>2, <3>4, <3>5, <3>6, <3>7
  <2> QED
    BY <2>2, <2>3
<1>6. BufferSize \in Nat /\ Diff(BufferSize - 1) = diff
  BY <1>4, BufferAssumption
<1>7. T2[BufferSize - 1] = T[BufferSize - 1] + diff
  <2>1. BufferSize \notin Bad
    BY <1>5
  <2> QED
    BY <1>6, <2>1
<1>8. T[BufferSize - 1] \in Int /\ Item(rb2, k) \in Int /\ Item(rb, k) \in Int
  BY <1>1, <1>3, BufferAssumption
<1> QED
  BY <1>7, <1>8 DEF T, T2

(* Add replaces the oldest response time in the sum once the buffer is full, and writes
   the next free slot before. *)
LEMMA BufferAddExact ==
    ASSUME NEW rb, BufOK(rb), NEW d \in Nat
    PROVE  BufOK(BufferAdd(rb, d))
<1> DEFINE rb2 == BufferAdd(rb, d)
           k == rb.writePos
<1>1. /\ rb \in BufType /\ k \in BufferSlots /\ k \in Nat /\ k < BufferSize
      /\ rb.count \in Nat /\ rb.count <= BufferSize /\ rb.sum \in Int
      /\ rb.buffer \in [BufferSlots -> Int] /\ BufferSize \in Nat
      /\ rb.count < BufferSize => k = rb.count
      /\ rb.sum = Total(rb)[BufferSize - 1]
  BY BufferAssumption DEF BufOK, BufType, BufferSlots
<1>2. /\ rb2.buffer = [rb.buffer EXCEPT ![k] = d]
      /\ rb2.count = (IF rb.count = BufferSize THEN rb.count ELSE rb.count + 1)
      /\ rb2.writePos = (k + 1) % BufferSize
      /\ rb2.sum = d + (IF rb.count = BufferSize THEN rb.sum - rb.buffer[k] ELSE rb.sum)
  BY DEF BufferAdd
<1>3. rb2 \in BufType
  BY <1>1, BufferAddType
<1> HIDE DEF rb2
<1>4. rb2.count \in 0..BufferSize
  BY <1>1, <1>2
<1>5. rb2.count < BufferSize => rb2.writePos = rb2.count
  <2> SUFFICES ASSUME rb2.count < BufferSize PROVE rb2.writePos = rb2.count
    OBVIOUS
  <2>1. rb.count < BufferSize /\ rb2.count = rb.count + 1 /\ k = rb.count /\ k + 1 < BufferSize
    BY <1>1, <1>2
  <2>2. (k + 1) % BufferSize = k + 1
    BY <1>1, <2>1
  <2> QED
    BY <1>2, <2>1, <2>2
<1>6. \A p \in BufferSlots \ {k} : Item(rb2, p) = Item(rb, p)
  <2> SUFFICES ASSUME NEW p \in BufferSlots, p # k PROVE Item(rb2, p) = Item(rb, p)
    OBVIOUS
  <2>1. rb2.buffer[p] = rb.buffer[p] /\ p \in Nat /\ p < BufferSize
    BY <1>1, <1>2 DEF BufferSlots
  <2>2. p < rb2.count <=> p < rb.count
    BY <1>1, <1>2, <2>1
  <2> QED
    BY <2>1, <2>2 DEF Item
<1>7. Item(rb2, k) = d
  BY <1>1, <1>2 DEF Item
<1>8. Item(rb, k) = IF rb.count = BufferSize THEN rb.buffer[k] ELSE 0
  BY <1>1 DEF Item
<1>9. Total(rb2)[BufferSize - 1] = Total(rb)[BufferSize - 1] + d - Item(rb, k)
  BY <1>1, <1>3, <1>6, <1>7, TotalChange
<1>10. rb2.sum = Total(rb2)[BufferSize - 1]
  BY <1>1, <1>2, <1>8, <1>9
<1> QED
  BY <1>3, <1>4, <1>5, <1>10 DEF BufOK, rb2

LEMMA InitBufOK == BufOK(NewTimeDurationRingBuffer)
<1> DEFINE rb == NewTimeDurationRingBuffer
<1>1. rb \in BufType /\ rb.count = 0 /\ rb.writePos = 0 /\ rb.sum = 0
  BY BufferAssumption DEF NewTimeDurationRingBuffer, BufType, BufferSlots
<1> HIDE DEF rb
<1>2. \A p \in -1..(BufferSize - 1) : Total(rb)[p] = IF p = -1 THEN 0 ELSE Total(rb)[p - 1] + Item(rb, p)
  BY <1>1, TotalAt
<1> DEFINE Bad == {n \in Nat : n <= BufferSize /\ Total(rb)[n - 1] # 0}
<1>3. ASSUME Bad # {} PROVE FALSE
  <2>1. PICK n \in Bad : \A m \in Bad : n <= m
    BY <1>3, LeastOf
  <2>2. CASE n = 0
    BY <1>2, <2>1, <2>2, BufferAssumption
  <2>3. CASE n # 0
    <3>1. n - 1 \in Nat /\ n - 1 <= BufferSize /\ n - 1 \notin Bad /\ n - 1 \in -1..(BufferSize - 1)
      BY <2>1, <2>3, BufferAssumption
    <3>2. Total(rb)[n - 1 - 1] = 0 /\ Item(rb, n - 1) = 0
      BY <1>1, <3>1 DEF Item
    <3> QED
      BY <1>2, <2>1, <3>1, <3>2
  <2> QED
    BY <2>2, <2>3
<1>4. BufferSize \in Nat /\ BufferSize \notin Bad
  <2>1. BufferSize \notin Bad
    BY <1>3
  <2> QED
    BY <2>1, BufferAssumption
<1>5. Total(rb)[BufferSize - 1] = 0
  BY <1>4
<1>6. 0 \in 0..BufferSize
  BY <1>4
<1> QED
  BY <1>1, <1>5, <1>6 DEF BufOK, rb

-----------------------------------------------------------------------------
(* The types of the scheduler, whatever adjust_step is: sizes are words. *)

Words == 0..(Word - 1)

AdjWord == [currSize : Words, recent : BOOLEAN, buf : BufType]

WordInv ==
    /\ kind \in Kinds /\ adjuster \in AdjWord /\ BufOK(adjuster.buf)
    /\ batchSize \in Words /\ cancelled \in BOOLEAN /\ expired \in [Workers -> BOOLEAN]
    /\ pc \in [Workers -> Pcs] /\ newSize \in [Workers -> Words]

LEMMA WordRange ==
    /\ Word \in Nat /\ 0 \in Words /\ MinSize \in Words /\ MaxSize \in Words
    /\ \A x \in Int : x % Word \in Words
BY SizeAssumption DEF Words

(* Growing and shrinking leave the response times alone. *)
LEMMA ResizeWord ==
    ASSUME NEW a \in AdjWord
    PROVE  /\ Grow(a) \in AdjWord /\ Grow(a).buf = a.buf
           /\ Shrink(a) \in AdjWord /\ Shrink(a).buf = a.buf
<1>1. a.currSize \in Int /\ a.currSize \in Words /\ AdjustStep \in Int
  BY SizeAssumption DEF AdjWord, Words
<1>2. (a.currSize + AdjustStep) % Word \in Words /\ (a.currSize - AdjustStep) % Word \in Words
  BY <1>1, WordRange
<1>3. /\ Smaller((a.currSize + AdjustStep) % Word, MaxSize) \in Words
      /\ Larger((a.currSize - AdjustStep) % Word, MinSize) \in Words
  BY <1>2, WordRange DEF Smaller, Larger
<1>4. Grow(a) \in AdjWord /\ Grow(a).buf = a.buf
  BY <1>3 DEF Grow, AdjWord
<1>5. Shrink(a) \in AdjWord /\ Shrink(a).buf = a.buf
  BY <1>3 DEF Shrink, AdjWord
<1> QED
  BY <1>4, <1>5

LEMMA AdjustWord ==
    ASSUME NEW a \in AdjWord, BufOK(a.buf), NEW d \in Nat
    PROVE  /\ SlideAdjust(a, d) \in AdjWord /\ BufOK(SlideAdjust(a, d).buf)
           /\ FixedAdjust(a, d) \in AdjWord
<1> DEFINE a2 == [a EXCEPT !.buf = BufferAdd(a.buf, d)]
<1>1. BufOK(BufferAdd(a.buf, d)) /\ BufferAdd(a.buf, d) \in BufType
  BY BufferAddExact DEF BufOK
<1>2. a2 \in AdjWord /\ a2.buf = BufferAdd(a.buf, d)
  BY <1>1 DEF AdjWord
<1>3. SlideAdjust(a, d) \in {a2, Grow(a2), Shrink(a2)}
  BY DEF SlideAdjust
<1> HIDE DEF a2
<1>4. SlideAdjust(a, d) \in AdjWord /\ SlideAdjust(a, d).buf = a2.buf
  BY <1>2, <1>3, ResizeWord
<1>5. FixedAdjust(a, d) \in AdjWord
  BY ResizeWord DEF FixedAdjust
<1> QED
  BY <1>1, <1>2, <1>4, <1>5

LEMMA InitWord == Init => WordInv
<1> SUFFICES ASSUME Init PROVE WordInv
  OBVIOUS
<1>1. Smaller(Larger(InitSize, MinSize), MaxSize) \in Words
  BY SizeAssumption DEF Words, Smaller, Larger
<1>2. NewTimeDurationRingBuffer \in BufType
  BY InitBufOK DEF BufOK
<1>3. adjuster \in AdjWord /\ adjuster.buf = NewTimeDurationRingBuffer
  BY <1>1, <1>2 DEF Init, NewAdjuster, AdjWord
<1> QED
  BY <1>3, InitBufOK, WordRange, BatchSizeAssumption DEF Init, WordInv, Pcs, Words

LEMMA WordStep ==
    ASSUME WordInv, ResultsOK, [Next]_vars
    PROVE  WordInv'
<1> USE DEF WordInv
<1>1. ASSUME NEW w \in Workers PROVE sent[w].respTime \in Nat
  <2>1. sent[w].respTime \in RespTimes \cup {0}
    BY DEF ResultsOK
  <2>2. \A d \in RespTimes \cup {0} : d \in Nat
    BY InputAssumption
  <2> QED
    BY <2>1, <2>2
<1>2. ASSUME NEW w \in Workers, Adjust(w) PROVE WordInv'
  <2>1. adjuster' \in AdjWord /\ BufOK(adjuster'.buf)
    BY <1>1, <1>2, AdjustWord DEF Adjust
  <2>2. adjuster'.currSize \in Words
    BY <2>1 DEF AdjWord
  <2>3. BufOK(adjuster.buf)'
    BY <2>1
  <2> QED
    BY <1>2, <2>1, <2>2, <2>3 DEF Adjust, Move, Pcs
<1>3. ASSUME NEW w \in Workers, AdjustFixed(w) PROVE WordInv'
  <2>1. FixedAdjust(adjuster, sent[w].respTime) \in AdjWord
    BY <1>1, AdjustWord
  <2>2. FixedAdjust(adjuster, sent[w].respTime).currSize \in Words
    BY <2>1 DEF AdjWord
  <2> QED
    BY <1>3, <2>2 DEF AdjustFixed, Move, Pcs
<1>4. ASSUME NEW w \in Workers, WriteFixed(w) PROVE WordInv'
  <2>1. adjuster' \in AdjWord /\ adjuster'.buf = adjuster.buf
    BY <1>4 DEF WriteFixed, AdjWord
  <2> QED
    BY <1>4, <2>1 DEF WriteFixed, Move, Pcs
<1>5. CASE AdjustIntervalPasses
  <2>1. adjuster' \in AdjWord /\ adjuster'.buf = adjuster.buf
    BY <1>5 DEF AdjustIntervalPasses, AdjWord
  <2> QED
    BY <1>5, <2>1 DEF AdjustIntervalPasses
<1>6. ASSUME NEW w \in Workers, ReturnFixed(w) \/ StoreBatchSize(w) PROVE WordInv'
  <2>1. adjuster.currSize \in Words
    BY DEF AdjWord
  <2> QED
    BY <1>6, <2>1, WordRange DEF ReturnFixed, StoreBatchSize, Move, Pcs
<1>7. ASSUME NEW w \in Workers, batchSend(w) \/ RecordEvent(w) \/ CheckThreshold(w) PROVE WordInv'
  BY <1>7 DEF batchSend, RecordEvent, CheckThreshold, Move, Pcs
<1>8. ASSUME NEW w \in Workers, NewPass(w) \/ BizTimeout(w) PROVE WordInv'
  BY <1>8 DEF NewPass, BizTimeout, Move, Pcs
<1>9. CASE Cancel
  BY <1>9 DEF Cancel
<1>10. CASE Stopped \/ UNCHANGED vars
  BY <1>10 DEF Stopped, vars
<1> QED
  BY <1>2, <1>3, <1>4, <1>5, <1>6, <1>7, <1>8, <1>9, <1>10 DEF Next, LoopStep

LEMMA SchedulerInvariant == Spec => [](RingInv /\ WordInv)
<1>1. RingInv => ResultsOK
  BY DEF RingInv
<1>2. WordInv /\ ResultsOK /\ [Next]_vars => WordInv'
  BY WordStep
<1> QED
  BY <1>1, <1>2, InitRing, InitWord, RingStep, PTL DEF Spec

(* Every variable keeps its type for any configuration, also when Shrink wraps: the ring's
   write position stays inside it and eventCount between zero and the window's size. *)
THEOREM SchedulerTypeOK == Spec => []TypeOK
<1>1. RingInv /\ WordInv => TypeOK
  <2> SUFFICES ASSUME RingInv, WordInv PROVE TypeOK
    OBVIOUS
  <2>1. errEvents.eventCount \in 0..windowSize
    <3>1. IsFiniteSet(Positions) /\ Cardinality(Positions) = windowSize
      BY Sizes, FS_Interval DEF Positions
    <3>2. Bits(errEvents) \subseteq Positions
      BY DEF Bits
    <3>3. Cardinality(Bits(errEvents)) <= windowSize
      BY <3>1, <3>2, FS_Subset
    <3> QED
      BY <3>3, BitsFinite, Sizes DEF RingInv, RingOK
  <2>2. errEvents \in [words : [Positions -> BOOLEAN], writePos : Positions,
                       isFull : BOOLEAN, eventCount : 0..windowSize]
    BY <2>1 DEF RingInv, RingOK, RingType
  <2>3. adjuster.currSize \in Words
    BY DEF WordInv, AdjWord
  <2> QED
    BY <2>2, <2>3 DEF TypeOK, RingInv, ResultsOK, WordInv, Words
<1> QED
  BY <1>1, SchedulerInvariant, PTL

(* The running sum of the response time buffer is the sum of what it holds, from the first
   response time on and after any number of overwrites, whatever the size of the buffer. *)
THEOREM SumCorrect == Spec => []SumExact
<1>1. WordInv => SumExact
  <2>1. adjuster.buf.sum = Total(adjuster.buf)[BufferSize - 1] => SumExact
    BY DEF SumExact, Total, Totals, Item
  <2> QED
    BY <2>1 DEF WordInv, BufOK
<1> QED
  BY <1>1, SchedulerInvariant, PTL
====
