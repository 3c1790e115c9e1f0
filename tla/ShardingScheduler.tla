------------------------- MODULE ShardingScheduler -------------------------
(***************************************************************************)
(* NotifShardingScheduler of one node: the business function `loop' that   *)
(* ShardingLoopJob runs once per locked table.  The goroutines of all      *)
(* tables of the node share one BitRing of error events, one batch         *)
(* adjuster and one atomic batch size.                                     *)
(*                                                                         *)
(* A pass of bizLoop calls `loop' with a context bizCtx that expires after *)
(* a minute.  `loop' never looks at this context itself: a done context    *)
(* only makes every batchSend fail, and `loop' returns only when the error *)
(* threshold of the shared ring is triggered.                              *)
(***************************************************************************)
EXTENDS BitRing, BatchAdjuster, Sequences, FiniteSets

CONSTANTS
    CfgBatchSize,  \* batch_size, configured apart from the adjuster's sizes
    Workers,    \* the table loops of the node
    RespTimes,  \* response times of a batch, in abstract units
    Kinds       \* implementations of batch.Adjuster: "slide" and "fixed"

ASSUME BatchSizeAssumption == CfgBatchSize \in 0..(Word - 1)

ASSUME InputAssumption == RespTimes \subseteq Nat /\ Kinds \subseteq {"slide", "fixed"}

VARIABLES
    errEvents,  \* the shared BitRing
    adjuster,   \* the shared batch.Adjuster
    kind,       \* its implementation
    batchSize,  \* the shared atomic batch size
    cancelled,  \* ctx of the node is done
    expired,    \* [Workers -> BOOLEAN] bizCtx of the current pass is done
    pc,         \* where each goroutine is
    sent,       \* [Workers -> [failed, respTime]] result of the last batchSend
    newSize     \* [Workers -> Nat] result of the last Adjust

vars == <<errEvents, adjuster, kind, batchSize, cancelled, expired, pc, sent, newSize>>

Pcs == {"send", "record", "check", "adjust", "write", "return", "store", "returned"}

NoResult == [failed |-> FALSE, respTime |-> 0]

TypeOK ==
    /\ errEvents \in [words : [Positions -> BOOLEAN], writePos : Positions,
                      isFull : BOOLEAN, eventCount : 0..windowSize]
    /\ kind \in Kinds
    /\ adjuster.currSize \in 0..(Word - 1)
    /\ batchSize \in 0..(Word - 1)
    /\ cancelled \in BOOLEAN
    /\ expired \in [Workers -> BOOLEAN]
    /\ pc \in [Workers -> Pcs]
    /\ sent \in [Workers -> [failed : BOOLEAN, respTime : RespTimes \cup {0}]]
    /\ newSize \in [Workers -> 0..(Word - 1)]

(* NewNotifShardingScheduler, and Start. *)
Init ==
    /\ errEvents = NewBitRing
    /\ adjuster = NewAdjuster
    /\ kind \in Kinds
    /\ batchSize = CfgBatchSize
    /\ cancelled = FALSE
    /\ expired = [w \in Workers |-> FALSE]
    /\ pc = [w \in Workers |-> "send"]
    /\ sent = [w \in Workers |-> NoResult]
    /\ newSize = [w \in Workers |-> 0]

CtxDone(w) == cancelled \/ expired[w]

Move(w, from, to) ==
    /\ pc[w] = from
    /\ pc' = [pc EXCEPT ![w] = to]

(* A bug: the batch is sent under a context of its own. *)
batchSendDetached(w) ==
    /\ Move(w, "send", "record")
    /\ \E failed \in BOOLEAN, d \in RespTimes :
          sent' = [sent EXCEPT ![w] = [failed |-> failed, respTime |-> d]]
    /\ UNCHANGED <<errEvents, adjuster, kind, batchSize, cancelled, expired, newSize>>

(* FindReady of at most batchSize notifications and BatchSend of them, within 3 s.
   Either may fail; FindReady does when ctx is done.  (FindReady is taken as the
   repository's interface declares it: its DAO implementation is still a stub.) *)
batchSend(w) ==
    /\ Move(w, "send", "record")
    /\ \E failed \in BOOLEAN, d \in RespTimes :
          /\ CtxDone(w) => failed
          /\ sent' = [sent EXCEPT ![w] = [failed |-> failed, respTime |-> d]]
    /\ UNCHANGED <<errEvents, adjuster, kind, batchSize, cancelled, expired, newSize>>

RecordEvent(w) ==
    /\ Move(w, "record", "check")
    /\ errEvents' = Add(errEvents, sent[w].failed)
    /\ UNCHANGED <<adjuster, kind, batchSize, cancelled, expired, sent, newSize>>

(* By now other loops may have added events of their own. *)
CheckThreshold(w) ==
    /\ IF ThresholdTriggering(errEvents)
       THEN /\ Move(w, "check", "returned")
            /\ sent' = [sent EXCEPT ![w] = NoResult]
       ELSE Move(w, "check", "adjust") /\ UNCHANGED sent
    /\ UNCHANGED <<errEvents, adjuster, kind, batchSize, cancelled, expired, newSize>>

(* The sliding window's Adjust, under its lock. *)
Adjust(w) ==
    /\ kind = "slide"
    /\ Move(w, "adjust", "store")
    /\ adjuster' = SlideAdjust(adjuster, sent[w].respTime)
    /\ newSize' = [newSize EXCEPT ![w] = adjuster'.currSize]
    /\ sent' = [sent EXCEPT ![w] = NoResult]
    /\ UNCHANGED <<errEvents, kind, batchSize, cancelled, expired>>

(* The fixed Adjust has no lock: it reads the size, writes the new one, if it changes, and
   reads it again for its result, and two loops may do so at the same time. *)
AdjustFixed(w) ==
    LET adjusted == FixedAdjust(adjuster, sent[w].respTime) IN
    /\ kind = "fixed"
    /\ Move(w, "adjust", IF adjusted = adjuster THEN "return" ELSE "write")
    /\ newSize' = [newSize EXCEPT ![w] = adjusted.currSize]
    /\ sent' = [sent EXCEPT ![w] = NoResult]
    /\ UNCHANGED <<errEvents, adjuster, kind, batchSize, cancelled, expired>>

WriteFixed(w) ==
    /\ Move(w, "write", "return")
    /\ adjuster' = [adjuster EXCEPT !.currSize = newSize[w], !.recent = TRUE]
    /\ UNCHANGED <<errEvents, kind, batchSize, cancelled, expired, sent, newSize>>

ReturnFixed(w) ==
    /\ Move(w, "return", "store")
    /\ newSize' = [newSize EXCEPT ![w] = adjuster.currSize]
    /\ UNCHANGED <<errEvents, adjuster, kind, batchSize, cancelled, expired, sent>>

(* The size is stored after the adjuster's lock was left: another loop may have adjusted
   and stored in between.  Then loop sleeps, if there was nothing to send, and goes on. *)
StoreBatchSize(w) ==
    /\ Move(w, "store", "send")
    /\ batchSize' = newSize[w]
    /\ newSize' = [newSize EXCEPT ![w] = 0]
    /\ UNCHANGED <<errEvents, adjuster, kind, cancelled, expired, sent>>

(* bizLoop of the job: unless ctx is done it refreshes the lock and starts a new pass
   with a new bizCtx; ErrEventThresholdExceeded is only logged.  When the refresh fails
   the goroutine ends and its place is taken by the one of another table. *)
NewPass(w) ==
    /\ ~cancelled
    /\ Move(w, "returned", "send")
    /\ expired' = [expired EXCEPT ![w] = FALSE]
    /\ UNCHANGED <<errEvents, adjuster, kind, batchSize, cancelled, sent, newSize>>

BizTimeout(w) ==
    /\ pc[w] # "returned" /\ ~expired[w]
    /\ expired' = [expired EXCEPT ![w] = TRUE]
    /\ UNCHANGED <<errEvents, adjuster, kind, batchSize, cancelled, pc, sent, newSize>>

Cancel ==
    /\ ~cancelled
    /\ cancelled' = TRUE
    /\ UNCHANGED <<errEvents, adjuster, kind, batchSize, expired, pc, sent, newSize>>

(* minAdjustInterval has passed since lastAdjustTime. *)
AdjustIntervalPasses ==
    /\ adjuster.recent
    /\ adjuster' = [adjuster EXCEPT !.recent = FALSE]
    /\ UNCHANGED <<errEvents, kind, batchSize, cancelled, expired, pc, sent, newSize>>

LoopStep(w) ==
    \/ batchSend(w)
    \/ RecordEvent(w)
    \/ CheckThreshold(w)
    \/ Adjust(w)
    \/ AdjustFixed(w) \/ WriteFixed(w) \/ ReturnFixed(w)
    \/ StoreBatchSize(w)

Stopped ==
    /\ cancelled
    /\ \A w \in Workers : pc[w] = "returned"
    /\ UNCHANGED vars

Next ==
    \/ \E w \in Workers : LoopStep(w) \/ NewPass(w) \/ BizTimeout(w)
    \/ Cancel
    \/ AdjustIntervalPasses
    \/ Stopped

Spec == Init /\ [][Next]_vars

(* Every goroutine that can run is run, and the minute of a pass passes.  Nothing makes a
   node shut down. *)
Fairness ==
    \A w \in Workers : WF_vars(LoopStep(w)) /\ WF_vars(NewPass(w)) /\ WF_vars(BizTimeout(w))

FairSpec == Spec /\ Fairness

---------------------------------------------------------------------------
(* The events the ring holds, oldest first. *)
ErrWindow ==
    LET size == currWindowSize(errEvents) IN
    [i \in 1..size |->
        errEvents.words[(errEvents.writePos + windowSize - size + i - 1) % windowSize]]

Abstract == INSTANCE EventWindow WITH
    window <- ErrWindow, Size <- windowSize,
    Consecutive <- consecutiveThreshold, Rate <- eventRateThreshold

(* The shared ring implements the window of the last windowSize events, in the order in
   which the loops of all tables added them: no event is lost, kept too long or moved. *)
RingIsWindow == Abstract!Spec

(* The running eventCount and the two tests of ThresholdTriggering say the same as their
   definitions on that window: before the ring is full, when it has just become full and
   after it wrapped. *)
ThresholdExact ==
    /\ errEvents.eventCount = Cardinality(Abstract!Happened)
    /\ ThresholdTriggering(errEvents) <=> Abstract!Triggered

(* The batch size handed to FindReady is the configured batch_size or stays within the
   adjuster's minimum and maximum, also when the loops of two tables adjust and store it
   in any order, the fixed adjuster without a lock. *)
BatchSizeInBounds == batchSize \in (MinSize..MaxSize) \cup {CfgBatchSize}

(* The ring buffer's running sum is the sum of the response times it holds, so that the
   average SlideAdjust compares with is the average of the last BufferSize ones. *)
SumExact ==
    LET rb == adjuster.buf
        Total[p \in -1..(BufferSize - 1)] ==
            IF p = -1 THEN 0 ELSE Total[p - 1] + (IF p < rb.count THEN rb.buffer[p] ELSE 0)
    IN  rb.sum = Total[BufferSize - 1]

(* Cancelling the node's ctx ends every pass although loop never checks it: from then on
   every batchSend fails and the ring can only fill with errors. *)
CancelReturns == \A w \in Workers : cancelled ~> pc[w] = "returned"

====
