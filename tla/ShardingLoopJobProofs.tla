----------------------- MODULE ShardingLoopJobProofs -----------------------
(***************************************************************************)
(* Proofs about ShardingLoopJob, for any number of nodes and tables, any   *)
(* limits and any time to live.                                            *)
(***************************************************************************)
EXTENDS ShardingLoopJob, FiniteSetTheorems, TLAPS

(* The loops of a node are finitely many and so are the busy ones. *)
LEMMA BusyFinite ==
    ASSUME NEW n \in Nodes
    PROVE  IsFiniteSet(Busy(n)) /\ Cardinality(Busy(n)) \in Nat
<1>1. IsFiniteSet(Slots)
  BY CntAssumption, FS_Interval DEF Slots
<1>2. IsFiniteSet({n})
  BY FS_Singleton
<1>3. IsFiniteSet(LoopsOf(n))
  BY <1>1, <1>2, FS_Product DEF LoopsOf
<1>4. Busy(n) \in SUBSET LoopsOf(n)
  BY DEF Busy
<1> QED
  BY <1>3, <1>4, FS_Subset, FS_CardinalityType

(* A goroutine is started in an idle slot: its node has one busy loop more. *)
LEMMA BusyStart ==
    ASSUME loopPc \in [Loops -> LoopPcs],
           NEW n \in Nodes, NEW s \in Slots, NEW pc \in LoopPcs \ {"idle"},
           loopPc[<<n, s>>] = "idle",
           loopPc' = [loopPc EXCEPT ![<<n, s>>] = pc]
    PROVE  /\ Cardinality(Busy(n)') = Cardinality(Busy(n)) + 1
           /\ \A m \in Nodes \ {n} : Busy(m)' = Busy(m)
<1>1. Busy(n)' = Busy(n) \cup {<<n, s>>}
  BY DEF Busy, LoopsOf, Loops
<1>2. <<n, s>> \notin Busy(n)
  BY DEF Busy
<1>3. Cardinality(Busy(n)') = Cardinality(Busy(n)) + 1
  BY <1>1, <1>2, BusyFinite, FS_AddElement
<1>4. \A m \in Nodes \ {n} : Busy(m)' = Busy(m)
  BY DEF Busy, LoopsOf, Loops
<1> QED
  BY <1>3, <1>4

(* A goroutine ends: its node has one busy loop fewer. *)
LEMMA BusyEnd ==
    ASSUME loopPc \in [Loops -> LoopPcs],
           NEW n \in Nodes, NEW s \in Slots,
           loopPc[<<n, s>>] # "idle",
           loopPc' = [loopPc EXCEPT ![<<n, s>>] = "idle"]
    PROVE  /\ Cardinality(Busy(n)') = Cardinality(Busy(n)) - 1
           /\ \A m \in Nodes \ {n} : Busy(m)' = Busy(m)
<1>1. Busy(n)' = Busy(n) \ {<<n, s>>}
  BY DEF Busy, LoopsOf, Loops
<1>2. <<n, s>> \in Busy(n)
  BY DEF Busy, LoopsOf
<1>3. Cardinality(Busy(n)') = Cardinality(Busy(n)) - 1
  BY <1>1, <1>2, BusyFinite, FS_RemoveElement
<1>4. \A m \in Nodes \ {n} : Busy(m)' = Busy(m)
  BY DEF Busy, LoopsOf, Loops
<1> QED
  BY <1>3, <1>4

(* A step of a goroutine that neither starts nor ends leaves the busy loops alone. *)
LEMMA BusyMove ==
    ASSUME loopPc \in [Loops -> LoopPcs],
           NEW l \in Loops, NEW pc \in LoopPcs \ {"idle"},
           loopPc[l] # "idle",
           loopPc' = [loopPc EXCEPT ![l] = pc]
    PROVE  \A m \in Nodes : Busy(m)' = Busy(m)
BY DEF Busy, LoopsOf, Loops

(* Freshly started nodes satisfy the inductive invariant. *)
LEMMA InitInd == Init => IndInv
<1> SUFFICES ASSUME Init PROVE IndInv
  OBVIOUS
<1> USE TTLAssumption, CntAssumption, TablesAssumption, OwnerAssumption
<1>1. TypeOK
  BY DEF Init, TypeOK, RunPcs, LoopPcs, Tables
<1>2. \A n \in Nodes : Busy(n) = {}
  BY DEF Init, Busy, LoopsOf, Loops
<1>3. PermitsAccounted
  <2> SUFFICES ASSUME NEW n \in Nodes
               PROVE  currCnt[n] = Cardinality(Busy(n)) + RunHolds(n)
    BY DEF PermitsAccounted
  <2>1. Cardinality(Busy(n)) = 0
    BY <1>2, FS_EmptySet, Zenon
  <2>2. currCnt[n] = 0 /\ RunHolds(n) = 0
    BY DEF Init, RunHolds
  <2> QED
    BY <2>1, <2>2
<1>4. OwnerLive /\ LeaseBacked /\ KeyExpires
  BY DEF Init, OwnerLive, LeaseBacked, KeyExpires, Loops, Slots
<1>5. DownIsEmpty
  BY <1>2 DEF DownIsEmpty
<1> QED
  BY <1>1, <1>3, <1>4, <1>5 DEF IndInv

(* Accounting: from the way the counter, Run and the busy loops of one node move. *)
LEMMA AccountSame ==
    ASSUME PermitsAccounted,
           \A n \in Nodes : Busy(n)' = Busy(n),
           \A n \in Nodes : currCnt'[n] = currCnt[n] /\ RunHolds(n)' = RunHolds(n)
    PROVE  PermitsAccounted'
BY DEF PermitsAccounted

(* The same when one node moves: its counter changes by as much as its busy loops and
   the permit of Run together. *)
LEMMA AccountStep ==
    ASSUME PermitsAccounted, TypeOK, NEW n \in Nodes,
           currCnt'[n] - currCnt[n] =
               (Cardinality(Busy(n)') - Cardinality(Busy(n))) + (RunHolds(n)' - RunHolds(n)),
           currCnt'[n] \in Int, Cardinality(Busy(n)') \in Int,
           \A m \in Nodes \ {n} :
               Busy(m)' = Busy(m) /\ RunHolds(m)' = RunHolds(m) /\ currCnt'[m] = currCnt[m]
    PROVE  PermitsAccounted'
<1>1. currCnt'[n] = Cardinality(Busy(n)') + RunHolds(n)'
  <2>1. currCnt[n] = Cardinality(Busy(n)) + RunHolds(n)
    BY DEF PermitsAccounted
  <2>2. currCnt[n] \in Int /\ Cardinality(Busy(n)) \in Nat
    BY BusyFinite DEF TypeOK
  <2>3. RunHolds(n) \in Int /\ RunHolds(n)' \in Int
    BY DEF RunHolds
  <2> QED
    BY <2>1, <2>2, <2>3
<1>2. ASSUME NEW m \in Nodes \ {n}
      PROVE  currCnt'[m] = Cardinality(Busy(m)') + RunHolds(m)'
  BY <1>2 DEF PermitsAccounted
<1> QED
  BY <1>1, <1>2 DEF PermitsAccounted

---------------------------------------------------------------------------
(* The steps, one by one. *)

(* A permit that is being given back is counted. *)
LEMMA PermitCounted ==
    ASSUME IndInv, NEW n \in Nodes,
           runPc[n] = "release" \/ \E l \in LoopsOf(n) : loopPc[l] # "idle"
    PROVE  currCnt[n] >= 1
<1>1. currCnt[n] = Cardinality(Busy(n)) + RunHolds(n)
  BY DEF IndInv, PermitsAccounted
<1>2. Cardinality(Busy(n)) \in Nat
  BY BusyFinite
<1>3. CASE runPc[n] = "release"
  <2>1. RunHolds(n) = 1
    BY <1>3 DEF RunHolds
  <2> QED
    BY <1>1, <1>2, <2>1
<1>4. CASE \E l \in LoopsOf(n) : loopPc[l] # "idle"
  <2>1. Busy(n) # {}
    BY <1>4 DEF Busy
  <2>2. Cardinality(Busy(n)) # 0
    BY <2>1, BusyFinite, FS_EmptySet
  <2>3. RunHolds(n) \in {0, 1}
    BY DEF RunHolds
  <2> QED
    BY <1>1, <1>2, <2>2, <2>3
<1> QED
  BY <1>3, <1>4

(* Run goes from a table to a table, and from the last one to the first. *)
LEMMA NextTableType ==
    ASSUME runPos \in [Nodes -> Tables], NEW n \in Nodes, NextTable(n)
    PROVE  runPos' \in [Nodes -> Tables]
<1>1. (runPos[n] % NTables) + 1 \in Tables
  BY TablesAssumption DEF Tables
<1> QED
  BY <1>1 DEF NextTable

(* What the redis commands do to the types of the keys. *)
LocksOK ==
    /\ lockOwner \in [Tables -> Loops \cup {Free, Orphan}]
    /\ lockTtl \in [Tables -> 0..TTL]

(* Every command of the redis lock leaves keys with a known owner and a time to live
   of at most TTL. *)
LEMMA CommandType ==
    ASSUME LocksOK, NEW t \in Tables, NEW l \in Loops \cup {Orphan},
           Grant(t, l) \/ Prolong(t, l) \/ Delete(t, l) \/ Abandon(t, l) \/ UNCHANGED locks
    PROVE  LocksOK'
<1> USE TTLAssumption DEF LocksOK
<1>1. CASE Grant(t, l)
  BY <1>1 DEF Grant
<1>2. CASE Prolong(t, l)
  BY <1>2 DEF Prolong
<1>3. CASE Delete(t, l)
  BY <1>3 DEF Delete
<1>4. CASE Abandon(t, l)
  BY <1>4 DEF Abandon
<1>5. CASE UNCHANGED locks
  BY <1>5 DEF locks
<1> QED
  BY <1>1, <1>2, <1>3, <1>4, <1>5

(* Every step keeps the types; that the counter stays within 0..MaxCap needs the
   accounting of the permits. *)
LEMMA TypeStep ==
    ASSUME IndInv, [Next]_vars
    PROVE  TypeOK'
<1> USE TTLAssumption, CntAssumption
<1>0. TypeOK /\ LocksOK
  BY DEF IndInv, TypeOK, LocksOK
<1> USE <1>0
<1> USE DEF TypeOK, RunPcs, LoopPcs, semaphore, runner, loops, locks
<1>1. ASSUME NEW n \in Nodes, RunAcquire(n) PROVE TypeOK'
  BY <1>1 DEF RunAcquire, SemAcquire
<1>2. ASSUME NEW n \in Nodes, RunExceedLimit(n) PROVE TypeOK'
  BY <1>2, NextTableType DEF RunExceedLimit
<1>3. ASSUME NEW n \in Nodes, RunLockFails(n) PROVE TypeOK'
  <2>1. LocksOK'
    BY <1>3, CommandType DEF RunLockFails
  <2> QED
    BY <1>3, <2>1 DEF RunLockFails, LocksOK
<1>4. ASSUME NEW n \in Nodes, RunRelease(n) PROVE TypeOK'
  <2>1. currCnt[n] >= 1
    BY <1>4, PermitCounted DEF RunRelease
  <2>2. runPos' \in [Nodes -> Tables]
    BY <1>4, NextTableType DEF RunRelease
  <2>3. currCnt' \in [Nodes -> 0..MaxCap]
    BY <1>4, <2>1 DEF RunRelease, SemRelease
  <2> QED
    BY <1>4, <2>2, <2>3 DEF RunRelease, SemRelease
<1>5. ASSUME NEW n \in Nodes, NEW cnt \in 0..MaxCap, UpdateMaxCnt(n, cnt) PROVE TypeOK'
  BY <1>5 DEF UpdateMaxCnt
<1>6. ASSUME NEW n \in Nodes, Cancel(n) PROVE TypeOK'
  BY <1>6 DEF Cancel
<1>7. ASSUME NEW n \in Nodes, Crash(n) PROVE TypeOK'
  BY <1>7, TablesAssumption DEF Crash, Tables
<1>8. ASSUME NEW n \in Nodes, Restart(n) PROVE TypeOK'
  BY <1>8 DEF Restart
<1>9. ASSUME NEW l \in Loops, RunTryLock(l) PROVE TypeOK'
  <2>1. l[1] \in Nodes
    BY DEF Loops
  <2>2. runPos[l[1]] \in Tables
    BY <2>1
  <2>3. LocksOK'
    BY <1>9, <2>2, CommandType DEF RunTryLock
  <2>4. runPos' \in [Nodes -> Tables]
    BY <1>9, <2>1, NextTableType DEF RunTryLock
  <2>5. loopPc' \in [Loops -> LoopPcs] /\ loopTable' \in [Loops -> Tables]
    BY <1>9, <2>2 DEF RunTryLock
  <2>6. lease' \in [Loops -> 0..TTL] /\ runPc' \in [Nodes -> RunPcs]
    BY <1>9, <2>1 DEF RunTryLock
  <2>7. UNCHANGED <<maxCnt, currCnt, cancelled>>
    BY <1>9 DEF RunTryLock
  <2> QED
    BY <2>3, <2>4, <2>5, <2>6, <2>7 DEF LocksOK
<1>10. ASSUME NEW l \in Loops, BizReturn(l) PROVE TypeOK'
  BY <1>10 DEF BizReturn, MoveLoop
<1>11. ASSUME NEW l \in Loops, Refresh(l) PROVE TypeOK'
  <2>1. LocksOK'
    BY <1>11, CommandType DEF Refresh
  <2> QED
    BY <1>11, <2>1 DEF Refresh, MoveLoop, LocksOK
<1>12. ASSUME NEW l \in Loops, RefreshFails(l) PROVE TypeOK'
  <2>1. LocksOK'
    BY <1>12, CommandType DEF RefreshFails
  <2> QED
    BY <1>12, <2>1 DEF RefreshFails, MoveLoop, LocksOK
<1>13. ASSUME NEW l \in Loops, Unlock(l) PROVE TypeOK'
  <2>1. LocksOK'
    BY <1>13, CommandType DEF Unlock
  <2> QED
    BY <1>13, <2>1 DEF Unlock, MoveLoop, LocksOK
<1>14. ASSUME NEW l \in Loops, Exit(l) PROVE TypeOK'
  <2>1. l[1] \in Nodes /\ l \in LoopsOf(l[1])
    BY DEF Loops, LoopsOf
  <2>2. currCnt[l[1]] >= 1
    BY <1>14, <2>1, PermitCounted DEF Exit, MoveLoop
  <2>3. currCnt' \in [Nodes -> 0..MaxCap]
    BY <1>14, <2>1, <2>2 DEF Exit, SemRelease
  <2>4. loopTable' \in [Loops -> Tables]
    BY <1>14, TablesAssumption DEF Exit, Tables
  <2> QED
    BY <1>14, <2>3, <2>4 DEF Exit, MoveLoop, SemRelease
<1>15. ASSUME Tick PROVE TypeOK'
  BY <1>15 DEF Tick
<1>16. ASSUME UNCHANGED vars PROVE TypeOK'
  BY <1>16 DEF vars
<1> QED
  BY <1>1, <1>2, <1>3, <1>4, <1>5, <1>6, <1>7, <1>8, <1>9, <1>10, <1>11, <1>12, <1>13,
     <1>14, <1>15, <1>16
     DEF Next, RunStep, NodeStep, LoopStep

(* RunHolds follows runPc. *)
LEMMA HoldsMove ==
    ASSUME runPc \in [Nodes -> RunPcs], NEW n \in Nodes, NEW pc \in RunPcs,
           runPc' = [runPc EXCEPT ![n] = pc]
    PROVE  /\ RunHolds(n)' = IF pc \in {"lock", "release"} THEN 1 ELSE 0
           /\ \A m \in Nodes \ {n} : RunHolds(m)' = RunHolds(m)
BY DEF RunHolds

(* Steps that leave runPc alone leave the permit of Run alone. *)
LEMMA HoldsSame ==
    ASSUME runPc' = runPc
    PROVE  \A n \in Nodes : RunHolds(n)' = RunHolds(n)
BY DEF RunHolds

(* Steps that leave the goroutines alone leave the busy ones alone. *)
LEMMA BusySame ==
    ASSUME loopPc' = loopPc
    PROVE  \A n \in Nodes : Busy(n)' = Busy(n)
BY DEF Busy

(* Every step keeps the accounting: Acquire, Release, the start and the end of a
   tableLoop, and a crash are the steps that move permits. *)
LEMMA PermitStep ==
    ASSUME IndInv, [Next]_vars
    PROVE  PermitsAccounted'
<1>0. TypeOK /\ PermitsAccounted
  BY DEF IndInv
<1>t. /\ loopPc \in [Loops -> LoopPcs]
      /\ runPc \in [Nodes -> RunPcs]
      /\ currCnt \in [Nodes -> 0..MaxCap]
  BY <1>0 DEF TypeOK
<1> USE DEF semaphore, runner, loops, locks
<1>a. ASSUME UNCHANGED <<loopPc, runPc, currCnt>> PROVE PermitsAccounted'
  BY <1>a, <1>0, BusySame, HoldsSame, AccountSame
<1>b. ASSUME NEW l \in Loops, NEW pc \in LoopPcs \ {"idle"}, loopPc[l] # "idle",
             loopPc' = [loopPc EXCEPT ![l] = pc], UNCHANGED <<runPc, currCnt>>
      PROVE  PermitsAccounted'
  <2>1. \A m \in Nodes : Busy(m)' = Busy(m)
    BY <1>b, <1>t, BusyMove
  <2> QED
    BY <1>b, <1>0, <2>1, HoldsSame, AccountSame
<1>1. ASSUME NEW n \in Nodes, RunAcquire(n) PROVE PermitsAccounted'
  <2>1. RunHolds(n) = 0
    BY <1>1 DEF RunAcquire, RunHolds
  <2>2. /\ RunHolds(n)' = 1
        /\ \A m \in Nodes \ {n} : RunHolds(m)' = RunHolds(m)
    BY <1>1, <1>t, HoldsMove DEF RunAcquire, RunPcs
  <2>3. \A m \in Nodes : Busy(m)' = Busy(m)
    BY <1>1, BusySame DEF RunAcquire
  <2>4. currCnt' = [currCnt EXCEPT ![n] = @ + 1]
    BY <1>1 DEF RunAcquire, SemAcquire
  <2> QED
    BY <1>0, <1>t, <2>1, <2>2, <2>3, <2>4, BusyFinite, AccountStep
<1>2. ASSUME NEW n \in Nodes, RunExceedLimit(n) PROVE PermitsAccounted'
  BY <1>2, <1>a DEF RunExceedLimit
<1>3. ASSUME NEW n \in Nodes, RunLockFails(n) PROVE PermitsAccounted'
  <2>1. RunHolds(n) = 1
    BY <1>3 DEF RunLockFails, RunHolds
  <2>2. \A m \in Nodes : RunHolds(m)' = RunHolds(m)
    BY <1>3, <1>t, <2>1, HoldsMove DEF RunLockFails, RunPcs
  <2>3. \A m \in Nodes : Busy(m)' = Busy(m)
    BY <1>3, BusySame DEF RunLockFails
  <2> QED
    BY <1>0, <1>3, <2>2, <2>3, AccountSame DEF RunLockFails
<1>4. ASSUME NEW n \in Nodes, RunRelease(n) PROVE PermitsAccounted'
  <2>1. RunHolds(n) = 1
    BY <1>4 DEF RunRelease, RunHolds
  <2>2. /\ RunHolds(n)' = 0
        /\ \A m \in Nodes \ {n} : RunHolds(m)' = RunHolds(m)
    BY <1>4, <1>t, HoldsMove DEF RunRelease, RunPcs
  <2>3. \A m \in Nodes : Busy(m)' = Busy(m)
    BY <1>4, BusySame DEF RunRelease
  <2>4. currCnt' = [currCnt EXCEPT ![n] = @ - 1]
    BY <1>4 DEF RunRelease, SemRelease
  <2> QED
    BY <1>0, <1>t, <2>1, <2>2, <2>3, <2>4, BusyFinite, AccountStep
<1>5. ASSUME NEW n \in Nodes, NEW cnt \in 0..MaxCap, UpdateMaxCnt(n, cnt)
      PROVE  PermitsAccounted'
  BY <1>5, <1>a DEF UpdateMaxCnt
<1>6. ASSUME NEW n \in Nodes, Cancel(n) PROVE PermitsAccounted'
  BY <1>6, <1>a DEF Cancel
<1>7. ASSUME NEW n \in Nodes, Crash(n) PROVE PermitsAccounted'
  <2>1. Busy(n)' = {}
    BY <1>7 DEF Crash, Busy, LoopsOf, Loops
  <2>2. \A m \in Nodes \ {n} : Busy(m)' = Busy(m)
    BY <1>7 DEF Crash, Busy, LoopsOf, Loops
  <2>3. /\ RunHolds(n)' = 0
        /\ \A m \in Nodes \ {n} : RunHolds(m)' = RunHolds(m)
    BY <1>7, <1>t, HoldsMove DEF Crash, RunPcs
  <2>4. currCnt'[n] = 0 /\ \A m \in Nodes \ {n} : currCnt'[m] = currCnt[m]
    BY <1>7, <1>t DEF Crash
  <2>5. Cardinality(Busy(n)') = 0
    BY <2>1, FS_EmptySet, Zenon
  <2>6. currCnt'[n] = Cardinality(Busy(n)') + RunHolds(n)'
    BY <2>3, <2>4, <2>5
  <2> QED
    BY <1>0, <2>2, <2>3, <2>4, <2>6 DEF PermitsAccounted
<1>8. ASSUME NEW n \in Nodes, Restart(n) PROVE PermitsAccounted'
  <2>1. RunHolds(n) = 0
    BY <1>8 DEF Restart, RunHolds
  <2>2. \A m \in Nodes : RunHolds(m)' = RunHolds(m)
    BY <1>8, <1>t, <2>1, HoldsMove DEF Restart, RunPcs
  <2>3. \A m \in Nodes : Busy(m)' = Busy(m)
    BY <1>8, BusySame DEF Restart
  <2> QED
    BY <1>0, <1>8, <2>2, <2>3, AccountSame DEF Restart
<1>9. ASSUME NEW l \in Loops, RunTryLock(l) PROVE PermitsAccounted'
  <2> PICK n \in Nodes, s \in Slots : l = <<n, s>>
    BY DEF Loops
  <2>0. /\ runPc[n] = "lock"
        /\ runPc' = [runPc EXCEPT ![n] = "acquire"]
        /\ loopPc[<<n, s>>] = "idle"
        /\ loopPc' = [loopPc EXCEPT ![<<n, s>>] = "biz"]
        /\ currCnt' = currCnt
    BY <1>9 DEF RunTryLock
  <2>1. RunHolds(n) = 1
    BY <2>0 DEF RunHolds
  <2>2. /\ RunHolds(n)' = 0
        /\ \A m \in Nodes \ {n} : RunHolds(m)' = RunHolds(m)
    BY <2>0, <1>t, HoldsMove DEF RunPcs
  <2>3. /\ Cardinality(Busy(n)') = Cardinality(Busy(n)) + 1
        /\ \A m \in Nodes \ {n} : Busy(m)' = Busy(m)
    BY <2>0, <1>t, BusyStart DEF LoopPcs
  <2> QED
    BY <1>0, <1>t, <2>0, <2>1, <2>2, <2>3, BusyFinite, AccountStep
<1>10. ASSUME NEW l \in Loops, BizReturn(l) PROVE PermitsAccounted'
  BY <1>10, <1>b DEF BizReturn, MoveLoop, LoopPcs
<1>11. ASSUME NEW l \in Loops, Refresh(l) PROVE PermitsAccounted'
  BY <1>11, <1>b DEF Refresh, MoveLoop, LoopPcs
<1>12. ASSUME NEW l \in Loops, RefreshFails(l) PROVE PermitsAccounted'
  BY <1>12, <1>b DEF RefreshFails, MoveLoop, LoopPcs
<1>13. ASSUME NEW l \in Loops, Unlock(l) PROVE PermitsAccounted'
  BY <1>13, <1>b DEF Unlock, MoveLoop, LoopPcs
<1>14. ASSUME NEW l \in Loops, Exit(l) PROVE PermitsAccounted'
  <2> PICK n \in Nodes, s \in Slots : l = <<n, s>>
    BY DEF Loops
  <2>0. /\ runPc' = runPc
        /\ loopPc[<<n, s>>] # "idle"
        /\ loopPc' = [loopPc EXCEPT ![<<n, s>>] = "idle"]
        /\ currCnt' = [currCnt EXCEPT ![n] = @ - 1]
    BY <1>14 DEF Exit, MoveLoop, SemRelease
  <2>1. \A m \in Nodes : RunHolds(m)' = RunHolds(m) /\ RunHolds(m) \in Int
    BY <2>0 DEF RunHolds
  <2>2. /\ Cardinality(Busy(n)') = Cardinality(Busy(n)) - 1
        /\ \A m \in Nodes \ {n} : Busy(m)' = Busy(m)
    BY <2>0, <1>t, BusyEnd
  <2> QED
    BY <1>0, <1>t, <2>0, <2>1, <2>2, BusyFinite, AccountStep
<1>15. ASSUME Tick PROVE PermitsAccounted'
  BY <1>15, <1>a DEF Tick
<1>16. ASSUME UNCHANGED vars PROVE PermitsAccounted'
  BY <1>16, <1>a DEF vars
<1> QED
  BY <1>1, <1>2, <1>3, <1>4, <1>5, <1>6, <1>7, <1>8, <1>9, <1>10, <1>11, <1>12, <1>13,
     <1>14, <1>15, <1>16
     DEF Next, RunStep, NodeStep, LoopStep

(* What protects a lease: OwnerLive, LeaseBacked and KeyExpires, together. *)
Keys == OwnerLive /\ LeaseBacked /\ KeyExpires

(* Every step keeps what protects a lease: only the token that set a key renews or
   deletes it, and time runs no faster for the key than for the lease. *)
LEMMA KeysStep ==
    ASSUME IndInv, [Next]_vars
    PROVE  Keys'
<1> USE TTLAssumption, OwnerAssumption
<1>0. TypeOK /\ Keys
  BY DEF IndInv, Keys
<1>t. /\ loopPc \in [Loops -> LoopPcs]
      /\ loopTable \in [Loops -> Tables]
      /\ lease \in [Loops -> 0..TTL]
      /\ lockOwner \in [Tables -> Loops \cup {Free, Orphan}]
      /\ lockTtl \in [Tables -> 0..TTL]
      /\ runPos \in [Nodes -> Tables]
      /\ Free \notin Loops /\ Orphan \notin Loops
  BY <1>0 DEF TypeOK, Loops, Slots
<1> USE DEF Keys, OwnerLive, LeaseBacked, KeyExpires, loops, locks
<1>a. ASSUME UNCHANGED <<loops, locks>> PROVE Keys'
  BY <1>a, <1>0
<1>1. ASSUME NEW n \in Nodes, RunAcquire(n) PROVE Keys'
  BY <1>1, <1>a DEF RunAcquire
<1>2. ASSUME NEW n \in Nodes, RunExceedLimit(n) PROVE Keys'
  BY <1>2, <1>a DEF RunExceedLimit
<1>3. ASSUME NEW n \in Nodes, RunLockFails(n) PROVE Keys'
  <2>1. CASE UNCHANGED locks
    BY <1>3, <1>a, <2>1 DEF RunLockFails
  <2>2. CASE Grant(runPos[n], Orphan)
    <3>1. runPos[n] \in Tables
      BY <1>t
    <3> QED
      BY <1>0, <1>t, <1>3, <2>2, <3>1 DEF RunLockFails, Grant
  <2> QED
    BY <1>3, <2>1, <2>2 DEF RunLockFails
<1>4. ASSUME NEW n \in Nodes, RunRelease(n) PROVE Keys'
  BY <1>4, <1>a DEF RunRelease
<1>5. ASSUME NEW n \in Nodes, NEW cnt \in 0..MaxCap, UpdateMaxCnt(n, cnt) PROVE Keys'
  BY <1>5, <1>a DEF UpdateMaxCnt
<1>6. ASSUME NEW n \in Nodes, Cancel(n) PROVE Keys'
  BY <1>6, <1>a DEF Cancel
<1>7. ASSUME NEW n \in Nodes, Crash(n) PROVE Keys'
  <2>1. \A l \in Loops : l \in LoopsOf(n) <=> l[1] = n
    BY DEF Loops, LoopsOf
  <2>2. \A l \in LoopsOf(n) : l \in Loops
    BY DEF Loops, LoopsOf
  <2>3. OwnerLive'
    BY <1>0, <1>t, <1>7, <2>1, <2>2 DEF Crash
  <2>4. LeaseBacked'
    BY <1>0, <1>t, <1>7, <2>1, <2>2 DEF Crash
  <2>5. KeyExpires'
    BY <1>0, <1>t, <1>7, <2>2 DEF Crash
  <2> QED
    BY <2>3, <2>4, <2>5
<1>8. ASSUME NEW n \in Nodes, Restart(n) PROVE Keys'
  BY <1>8, <1>a DEF Restart
<1>9. ASSUME NEW l \in Loops, RunTryLock(l) PROVE Keys'
  <2> DEFINE t == runPos[l[1]]
  <2>1. t \in Tables
    BY <1>t DEF Loops
  <2>2. /\ lockOwner[t] = Free
        /\ lockOwner' = [lockOwner EXCEPT ![t] = l]
        /\ lockTtl' = [lockTtl EXCEPT ![t] = TTL]
        /\ loopPc[l] = "idle"
        /\ loopPc' = [loopPc EXCEPT ![l] = "biz"]
        /\ loopTable' = [loopTable EXCEPT ![l] = t]
        /\ lease' = [lease EXCEPT ![l] = TTL]
    BY <1>9 DEF RunTryLock, Grant
  <2> HIDE DEF t
  <2>3. OwnerLive'
    BY <1>0, <1>t, <2>1, <2>2
  <2>4. LeaseBacked'
    BY <1>0, <1>t, <2>1, <2>2
  <2>5. KeyExpires'
    BY <1>0, <1>t, <2>1, <2>2
  <2> QED
    BY <2>3, <2>4, <2>5
<1>10. ASSUME NEW l \in Loops, BizReturn(l) PROVE Keys'
  BY <1>0, <1>t, <1>10 DEF BizReturn, MoveLoop
<1>11. ASSUME NEW l \in Loops, Refresh(l) PROVE Keys'
  <2>1. OwnerLive'
    BY <1>0, <1>t, <1>11 DEF Refresh, MoveLoop, Prolong
  <2>2. LeaseBacked'
    BY <1>0, <1>t, <1>11 DEF Refresh, MoveLoop, Prolong
  <2>3. KeyExpires'
    BY <1>0, <1>t, <1>11 DEF Refresh, MoveLoop, Prolong
  <2> QED
    BY <2>1, <2>2, <2>3
<1>12. ASSUME NEW l \in Loops, RefreshFails(l) PROVE Keys'
  <2>1. CASE UNCHANGED locks
    BY <1>0, <1>t, <1>12, <2>1 DEF RefreshFails, MoveLoop
  <2>2. CASE Prolong(loopTable[l], l)
    BY <1>0, <1>t, <1>12, <2>2 DEF RefreshFails, MoveLoop, Prolong
  <2> QED
    BY <1>12, <2>1, <2>2 DEF RefreshFails
<1>13. ASSUME NEW l \in Loops, Unlock(l) PROVE Keys'
  <2>1. CASE Delete(loopTable[l], l)
    BY <1>0, <1>t, <1>13, <2>1 DEF Unlock, MoveLoop, Delete
  <2>2. CASE Abandon(loopTable[l], l)
    BY <1>0, <1>t, <1>13, <2>2 DEF Unlock, MoveLoop, Abandon
  <2> QED
    BY <1>13, <2>1, <2>2 DEF Unlock
<1>14. ASSUME NEW l \in Loops, Exit(l) PROVE Keys'
  <2>1. \A t \in Tables : lockOwner[t] # l
    BY <1>0, <1>t, <1>14 DEF Exit, MoveLoop
  <2>2. lease[l] = 0
    BY <1>0, <1>t, <2>1
  <2> QED
    BY <1>0, <1>t, <1>14, <2>1, <2>2 DEF Exit, MoveLoop
<1>15. ASSUME Tick PROVE Keys'
  <2>1. OwnerLive'
    BY <1>0, <1>t, <1>15 DEF Tick
  <2>2. LeaseBacked'
    BY <1>0, <1>t, <1>15 DEF Tick
  <2>3. KeyExpires'
    BY <1>0, <1>t, <1>15 DEF Tick
  <2> QED
    BY <2>1, <2>2, <2>3
<1>16. ASSUME UNCHANGED vars PROVE Keys'
  BY <1>16, <1>a DEF vars
<1> QED
  BY <1>1, <1>2, <1>3, <1>4, <1>5, <1>6, <1>7, <1>8, <1>9, <1>10, <1>11, <1>12, <1>13,
     <1>14, <1>15, <1>16
     DEF Next, RunStep, NodeStep, LoopStep

(* No goroutine is started by a process that is down. *)
LEMMA DownStep ==
    ASSUME IndInv, [Next]_vars
    PROVE  DownIsEmpty'
<1> USE DEF DownIsEmpty, semaphore, runner, loops, locks
<1>0. /\ DownIsEmpty
      /\ loopPc \in [Loops -> LoopPcs]
      /\ runPc \in [Nodes -> RunPcs]
  BY DEF IndInv, TypeOK
<1>b. ASSUME NEW l \in Loops, NEW pc \in LoopPcs \ {"idle"}, loopPc[l] # "idle",
             loopPc' = [loopPc EXCEPT ![l] = pc], UNCHANGED runPc
      PROVE  DownIsEmpty'
  BY <1>0, <1>b, BusyMove
<1>c. ASSUME NEW n \in Nodes, NEW pc \in RunPcs \ {"down"},
             runPc' = [runPc EXCEPT ![n] = pc], UNCHANGED loopPc
      PROVE  DownIsEmpty'
  BY <1>0, <1>c, BusySame
<1>1. ASSUME NEW n \in Nodes, RunStep(n) PROVE DownIsEmpty'
  <2>1. CASE UNCHANGED runPc /\ UNCHANGED loopPc
    BY <1>0, <2>1, BusySame
  <2> QED
    BY <1>1, <1>c, <2>1
       DEF RunStep, RunAcquire, RunExceedLimit, RunLockFails, RunRelease, RunPcs
<1>2. ASSUME NEW n \in Nodes, NodeStep(n) PROVE DownIsEmpty'
  <2>1. CASE UNCHANGED runPc /\ UNCHANGED loopPc
    BY <1>0, <2>1, BusySame
  <2>2. CASE Crash(n)
    <3>1. Busy(n)' = {}
      BY <2>2 DEF Crash, Busy, LoopsOf, Loops
    <3>2. \A m \in Nodes \ {n} : Busy(m)' = Busy(m)
      BY <2>2 DEF Crash, Busy, LoopsOf, Loops
    <3> QED
      BY <1>0, <2>2, <3>1, <3>2 DEF Crash
  <2>3. CASE Restart(n)
    BY <1>c, <2>3 DEF Restart, RunPcs
  <2> QED
    BY <1>2, <2>1, <2>2, <2>3 DEF NodeStep, UpdateMaxCnt, Cancel
<1>3. ASSUME NEW l \in Loops, RunTryLock(l) PROVE DownIsEmpty'
  <2> PICK n \in Nodes, s \in Slots : l = <<n, s>>
    BY DEF Loops
  <2>1. /\ runPc' = [runPc EXCEPT ![n] = "acquire"]
        /\ loopPc[<<n, s>>] = "idle"
        /\ loopPc' = [loopPc EXCEPT ![<<n, s>>] = "biz"]
    BY <1>3 DEF RunTryLock
  <2>2. \A m \in Nodes \ {n} : Busy(m)' = Busy(m)
    BY <1>0, <2>1, BusyStart DEF LoopPcs
  <2> QED
    BY <1>0, <2>1, <2>2
<1>4. ASSUME NEW l \in Loops, BizReturn(l) \/ Refresh(l) \/ RefreshFails(l) \/ Unlock(l)
      PROVE  DownIsEmpty'
  BY <1>4, <1>b DEF BizReturn, Refresh, RefreshFails, Unlock, MoveLoop, LoopPcs
<1>5. ASSUME NEW l \in Loops, Exit(l) PROVE DownIsEmpty'
  <2>1. \A m \in Nodes : Busy(m)' \subseteq Busy(m)
    BY <1>0, <1>5 DEF Exit, MoveLoop, Busy, LoopsOf, Loops
  <2> QED
    BY <1>0, <1>5, <2>1 DEF Exit
<1>6. ASSUME Tick \/ UNCHANGED vars PROVE DownIsEmpty'
  BY <1>0, <1>6, BusySame DEF Tick, vars
<1> QED
  BY <1>1, <1>2, <1>3, <1>4, <1>5, <1>6 DEF Next, LoopStep

---------------------------------------------------------------------------
(* IndInv is an inductive invariant of the job. *)
THEOREM Inductive == Spec => []IndInv
<1>1. IndInv /\ [Next]_vars => IndInv'
  BY TypeStep, PermitStep, KeysStep, DownStep DEF IndInv, Keys
<1> QED
  BY InitInd, <1>1, PTL DEF Spec

(* The state of the job is always well typed; in particular a semaphore never counts
   fewer than zero or more than MaxCap permits. *)
THEOREM TypeCorrect == Spec => []TypeOK
<1>1. IndInv => TypeOK
  BY DEF IndInv
<1> QED
  BY Inductive, <1>1, PTL

(* The semaphore of every node counts exactly the permits that are held, on every path
   through Run, tableLoop and bizLoop, through crashes and changes of the limit. *)
THEOREM PermitsCorrect == Spec => []PermitsAccounted
<1>1. IndInv => PermitsAccounted
  BY DEF IndInv
<1> QED
  BY Inductive, <1>1, PTL

(* For every number of nodes and tables, two loops never hold a lease on the same table
   at the same time. *)
THEOREM LeaseCorrect == Spec => []LeaseExclusive
<1>1. IndInv => LeaseExclusive
  BY DEF IndInv, LeaseBacked, LeaseExclusive
<1> QED
  BY Inductive, <1>1, PTL

(* Run always finds a free slot for the goroutine it starts. *)
SlotAvailable ==
    \A n \in Nodes : runPc[n] = "lock" => \E l \in LoopsOf(n) : loopPc[l] = "idle"

(* The MaxCap slots of the model leave out no behaviour of the code: the semaphore never
   lets Run start more goroutines than there are slots. *)
THEOREM SlotsSuffice == Spec => []SlotAvailable
<1>1. IndInv => SlotAvailable
  <2> SUFFICES ASSUME IndInv, NEW n \in Nodes, runPc[n] = "lock",
                      \A l \in LoopsOf(n) : loopPc[l] # "idle"
               PROVE  FALSE
    BY DEF SlotAvailable
  <2>1. Busy(n) = LoopsOf(n)
    BY DEF Busy
  <2>2. IsFiniteSet(Slots) /\ Cardinality(Slots) = MaxCap
    BY CntAssumption, FS_Interval DEF Slots
  <2>3. IsFiniteSet({n}) /\ Cardinality({n}) = 1
    BY FS_Singleton
  <2>4. Cardinality(LoopsOf(n)) = 1 * MaxCap
    BY <2>2, <2>3, FS_Product DEF LoopsOf
  <2>5. currCnt[n] = MaxCap + 1
    BY <2>1, <2>4, CntAssumption DEF IndInv, PermitsAccounted, RunHolds
  <2> QED
    BY <2>5, CntAssumption DEF IndInv, TypeOK
<1> QED
  BY Inductive, <1>1, PTL
====
