------------------------------ MODULE BitRing ------------------------------
(***************************************************************************)
(* internal/pkg/bitring: a ring of bits that records whether each of the   *)
(* last windowSize calls failed, as operators on the value of a BitRing.   *)
(* The words of 64 bits and the shifts and masks of bitAt and setBit are   *)
(* one function from positions to bits.  The event rate is a percentage.   *)
(***************************************************************************)
EXTENDS Integers

CONSTANTS
    CfgWindowSize,   \* bit_ring_size
    CfgConsecutive,  \* consecutive_threshold
    CfgRate          \* event_rate_threshold, in percent

ASSUME CfgAssumption ==
    CfgWindowSize \in Int /\ CfgConsecutive \in Int /\ CfgRate \in Nat

defaultWindowSize     == 128
defaultMinConsecutive == 3

AtMost(x, y) == IF x > y THEN y ELSE x

(* The corrections NewBitRing makes to its arguments. *)
windowSize == IF CfgWindowSize <= 0 THEN defaultWindowSize ELSE CfgWindowSize

consecutiveThreshold ==
    AtMost(IF CfgConsecutive <= 0 THEN defaultMinConsecutive ELSE CfgConsecutive, windowSize)

eventRateThreshold == AtMost(CfgRate, 100)

Positions == 0..(windowSize - 1)

NewBitRing ==
    [words |-> [p \in Positions |-> FALSE], writePos |-> 0, isFull |-> FALSE, eventCount |-> 0]

(* A bug: the overwritten event stays in the count. *)
AddNoEvict(br, eventHappened) ==
    LET pos == br.writePos + 1 IN
    [words      |-> [br.words EXCEPT ![br.writePos] = eventHappened],
     writePos   |-> IF pos >= windowSize THEN 0 ELSE pos,
     isFull     |-> br.isFull \/ pos >= windowSize,
     eventCount |-> br.eventCount + (IF eventHappened THEN 1 ELSE 0)]

(* A bug: the write position skips the first slot when it wraps. *)
AddSkipsSlot(br, eventHappened) ==
    LET evicted == br.isFull /\ br.words[br.writePos]
        pos     == br.writePos + 1 IN
    [words      |-> [br.words EXCEPT ![br.writePos] = eventHappened],
     writePos   |-> IF pos >= windowSize THEN 1 % windowSize ELSE pos,
     isFull     |-> br.isFull \/ pos >= windowSize,
     eventCount |-> br.eventCount - (IF evicted THEN 1 ELSE 0)
                                  + (IF eventHappened THEN 1 ELSE 0)]

Add(br, eventHappened) ==
    LET evicted == br.isFull /\ br.words[br.writePos]
        pos     == br.writePos + 1 IN
    [words      |-> [br.words EXCEPT ![br.writePos] = eventHappened],
     writePos   |-> IF pos >= windowSize THEN 0 ELSE pos,
     isFull     |-> br.isFull \/ pos >= windowSize,
     eventCount |-> br.eventCount - (IF evicted THEN 1 ELSE 0)
                                  + (IF eventHappened THEN 1 ELSE 0)]

currWindowSize(br) == IF br.isFull THEN windowSize ELSE br.writePos

LastEventsHappened(br) ==
    \A i \in 1..consecutiveThreshold :
        br.words[(br.writePos - i + windowSize) % windowSize]

ThresholdTriggering(br) ==
    LET currSize == currWindowSize(br) IN
    /\ currSize # 0
    /\ \/ currSize >= consecutiveThreshold /\ LastEventsHappened(br)
       \/ br.eventCount * 100 > eventRateThreshold * currSize
====
