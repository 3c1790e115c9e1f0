--------------------------- MODULE BatchAdjuster ---------------------------
(***************************************************************************)
(* The two implementations of batch.Adjuster, as operators on their state: *)
(* slidewindow.Adjuster compares a response time with the average of the   *)
(* last ones, which it keeps in a ringbuffer.TimeDurationRingBuffer, and   *)
(* fixed.Adjuster compares it with two thresholds.  Sizes are unsigned     *)
(* machine words: additions and subtractions wrap at Word (2^64 in Go).    *)
(* lastAdjustTime is reduced to whether the last adjustment is less than   *)
(* minAdjustInterval ago.                                                  *)
(***************************************************************************)
EXTENDS Integers

CONSTANTS
    Word,                   \* number of values of an unsigned word
    InitSize, MinSize, MaxSize, AdjustStep,
    BufferSize,             \* slots of the ring buffer
    FastThreshold, SlowThreshold

ASSUME SizeAssumption ==
    /\ Word \in Nat /\ InitSize \in Nat /\ AdjustStep \in Nat
    /\ MinSize \in Nat /\ MaxSize \in Nat
    /\ MinSize <= MaxSize /\ MaxSize + AdjustStep < Word

ASSUME BufferAssumption == BufferSize \in Nat \ {0}

Smaller(x, y) == IF x < y THEN x ELSE y
Larger(x, y)  == IF x > y THEN x ELSE y

---------------------------------------------------------------------------
(* The ring buffer. *)

BufferSlots == 0..(BufferSize - 1)

NewTimeDurationRingBuffer ==
    [buffer |-> [p \in BufferSlots |-> 0], count |-> 0, writePos |-> 0, sum |-> 0]

(* A bug: the overwritten response time stays in the sum. *)
BufferAddNoEvict(rb, d) ==
    [buffer   |-> [rb.buffer EXCEPT ![rb.writePos] = d],
     count    |-> Smaller(rb.count + 1, BufferSize),
     writePos |-> (rb.writePos + 1) % BufferSize,
     sum      |-> rb.sum + d]

BufferAdd(rb, d) ==
    [buffer   |-> [rb.buffer EXCEPT ![rb.writePos] = d],
     count    |-> IF rb.count = BufferSize THEN rb.count ELSE rb.count + 1,
     writePos |-> (rb.writePos + 1) % BufferSize,
     sum      |-> d + (IF rb.count = BufferSize THEN rb.sum - rb.buffer[rb.writePos]
                                                ELSE rb.sum)]

Avg(rb) == IF rb.count = 0 THEN 0 ELSE rb.sum \div rb.count

---------------------------------------------------------------------------
(* The adjusters: [currSize, recent, buf].  The fixed one has no use for buf. *)

NewAdjuster ==
    [currSize |-> Smaller(Larger(InitSize, MinSize), MaxSize),
     recent   |-> FALSE,
     buf      |-> NewTimeDurationRingBuffer]

Grow(a) ==
    IF a.currSize < MaxSize
    THEN [a EXCEPT !.currSize = Smaller((a.currSize + AdjustStep) % Word, MaxSize),
                   !.recent = TRUE]
    ELSE a

(* A bug: the minimum is checked before the step, not after it. *)
ShrinkPastMin(a) ==
    IF a.currSize > MinSize
    THEN [a EXCEPT !.currSize = (a.currSize - AdjustStep) % Word, !.recent = TRUE]
    ELSE a

Shrink(a) ==
    IF a.currSize > MinSize
    THEN [a EXCEPT !.currSize = Larger((a.currSize - AdjustStep) % Word, MinSize),
                   !.recent = TRUE]
    ELSE a

(* Nothing is adjusted before the buffer is full or too soon after the last time. *)
SlideAdjust(adj, respTime) ==
    LET a == [adj EXCEPT !.buf = BufferAdd(adj.buf, respTime)] IN
    IF a.buf.count < BufferSize \/ a.recent THEN a
    ELSE IF respTime < Avg(a.buf) THEN Grow(a)
    ELSE IF respTime > Avg(a.buf) THEN Shrink(a)
    ELSE a

FixedAdjust(adj, respTime) ==
    IF adj.recent THEN adj
    ELSE IF respTime < FastThreshold THEN Grow(adj)
    ELSE IF respTime > SlowThreshold THEN Shrink(adj)
    ELSE adj
====
