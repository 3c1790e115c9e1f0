-------------------------- MODULE ShardingLoopJob --------------------------
(***************************************************************************)
(* The sharding loop job of internal/pkg/job: every node runs Run, which   *)
(* walks over the sharded tables for ever, takes one permit of the node's  *)
(* MaxCntResourceSemaphore per table, tries the table's distributed lock   *)
(* and, when it gets it, starts a tableLoop goroutine that runs the        *)
(* business function and refreshes the lock until a refresh fails.         *)
(*                                                                         *)
(* The distributed lock is the redis lock of github.com/JrMarcco/dlock: a  *)
(* key with a time to live whose value is the token of the goroutine that  *)
(* set it; Refresh and Unlock compare the token.  A token is identified    *)
(* with the loop that holds it.  When the loop gives up its token (or its  *)
(* node crashes) while the key is still in redis, the key becomes Orphan:  *)
(* no client can refresh or delete it any more, it can only expire.        *)
(*                                                                         *)
(* Any redis call may fail, with or without having taken effect (lockCtx,  *)
(* refreshCtx and unlockCtx time out on a late answer), and a call made    *)
(* under a cancelled context never succeeds.                               *)
(***************************************************************************)
EXTENDS Integers, FiniteSets

CONSTANTS
    Nodes,     \* the processes that run the scheduler
    NTables,   \* number of sharded tables; BroadCast() lists them in order 1..NTables
    MaxCap,    \* no value of max_locked_table_cnt is larger than this
    InitCnt,   \* max_locked_table_cnt in the configuration file
    TTL,       \* time to live of a lock key (retryInterval), in ticks
    Free,      \* the lock key does not exist
    Orphan     \* the lock key exists and no loop holds its token

ASSUME TTLAssumption == TTL \in Nat \ {0}

ASSUME CntAssumption == MaxCap \in Nat /\ InitCnt \in 0..MaxCap

ASSUME TablesAssumption == NTables \in Nat \ {0}

ASSUME OwnerAssumption ==
    /\ Free # Orphan
    /\ Free \notin Nodes \X (1..MaxCap)
    /\ Orphan \notin Nodes \X (1..MaxCap)

VARIABLES
    maxCnt,     \* [Nodes -> Int]    the semaphore's limit
    currCnt,    \* [Nodes -> Int]    the permits the semaphore counts as taken
    cancelled,  \* [Nodes -> BOOLEAN] ctx of Run is done
    runPc,      \* where Run is; "down": the process is not running
    runPos,     \* the table Run is at
    loopPc,     \* where each tableLoop goroutine is; "idle": the slot has none
    loopTable,  \* the table of the goroutine (meaningless when idle)
    lease,      \* ticks for which the last TryLock or Refresh still protects it
    lockOwner,  \* redis: whose token the table's lock key holds
    lockTtl     \* redis: remaining time to live of the key, in ticks

semaphore == <<maxCnt, currCnt>>
runner    == <<runPc, runPos>>
loops     == <<loopPc, loopTable, lease>>
locks     == <<lockOwner, lockTtl>>
vars      == <<semaphore, cancelled, runner, loops, locks>>

Tables == 1..NTables

(* A goroutine holds a permit and a permit is only given below the limit, so MaxCap
   slots are enough for the goroutines of a node (PermitsAccounted). *)
Slots == 1..MaxCap
Loops == Nodes \X Slots
LoopsOf(n) == {n} \X Slots

RunPcs  == {"acquire", "lock", "release", "down"}
LoopPcs == {"idle", "biz", "refresh", "unlock", "exit"}

TypeOK ==
    /\ maxCnt \in [Nodes -> 0..MaxCap]
    /\ currCnt \in [Nodes -> 0..MaxCap]
    /\ cancelled \in [Nodes -> BOOLEAN]
    /\ runPc \in [Nodes -> RunPcs]
    /\ runPos \in [Nodes -> Tables]
    /\ loopPc \in [Loops -> LoopPcs]
    /\ loopTable \in [Loops -> Tables]
    /\ lease \in [Loops -> 0..TTL]
    /\ lockOwner \in [Tables -> Loops \cup {Free, Orphan}]
    /\ lockTtl \in [Tables -> 0..TTL]

(* NewMaxCntResourceSemaphore, NewShardingLoopJob and Start on every node. *)
Init ==
    /\ maxCnt = [n \in Nodes |-> InitCnt]
    /\ currCnt = [n \in Nodes |-> 0]
    /\ cancelled = [n \in Nodes |-> FALSE]
    /\ runPc = [n \in Nodes |-> "acquire"]
    /\ runPos = [n \in Nodes |-> 1]
    /\ loopPc = [l \in Loops |-> "idle"]
    /\ loopTable = [l \in Loops |-> 1]
    /\ lease = [l \in Loops |-> 0]
    /\ lockOwner = [t \in Tables |-> Free]
    /\ lockTtl = [t \in Tables |-> 0]

---------------------------------------------------------------------------
(* The semaphore. *)

(* A bug: the limit itself is still granted. *)
SemAcquireOffByOne(n) ==
    /\ currCnt[n] <= maxCnt[n]
    /\ currCnt' = [currCnt EXCEPT ![n] = @ + 1]
    /\ UNCHANGED maxCnt

SemAcquire(n) ==
    /\ currCnt[n] < maxCnt[n]
    /\ currCnt' = [currCnt EXCEPT ![n] = @ + 1]
    /\ UNCHANGED maxCnt

SemRelease(n) ==
    /\ currCnt' = [currCnt EXCEPT ![n] = @ - 1]
    /\ UNCHANGED maxCnt

(* The etcd watch of max_locked_table_cnt_key; the new limit may be lower than the
   number of permits already taken.  An unreadable value counts as 0, and so does a
   negative one. *)
UpdateMaxCnt(n, cnt) ==
    /\ runPc[n] # "down"
    /\ maxCnt' = [maxCnt EXCEPT ![n] = cnt]
    /\ UNCHANGED <<currCnt, cancelled, runner, loops, locks>>

---------------------------------------------------------------------------
(* The commands of the redis lock, on the key of table t with the token of l. *)

Grant(t, l) ==
    /\ lockOwner[t] = Free
    /\ lockOwner' = [lockOwner EXCEPT ![t] = l]
    /\ lockTtl' = [lockTtl EXCEPT ![t] = TTL]

Prolong(t, l) ==
    /\ lockOwner[t] = l
    /\ lockTtl' = [lockTtl EXCEPT ![t] = TTL]
    /\ UNCHANGED lockOwner

(* A bug: the token is not compared. *)
DeleteAnyToken(t, l) ==
    /\ lockOwner[t] # Free
    /\ lockOwner' = [lockOwner EXCEPT ![t] = Free]
    /\ lockTtl' = [lockTtl EXCEPT ![t] = 0]

Delete(t, l) ==
    /\ lockOwner[t] = l
    /\ lockOwner' = [lockOwner EXCEPT ![t] = Free]
    /\ lockTtl' = [lockTtl EXCEPT ![t] = 0]

(* l forgets its token and the key, if it still has this token, stays. *)
Abandon(t, l) ==
    /\ lockOwner' = [lockOwner EXCEPT ![t] = IF @ = l THEN Orphan ELSE @]
    /\ UNCHANGED lockTtl

---------------------------------------------------------------------------
(* Run: the loop over BroadCast(). *)

NextTable(n) == runPos' = [runPos EXCEPT ![n] = (@ % NTables) + 1]

RunAcquire(n) ==
    /\ runPc[n] = "acquire"
    /\ SemAcquire(n)
    /\ runPc' = [runPc EXCEPT ![n] = "lock"]
    /\ UNCHANGED <<runPos, cancelled, loops, locks>>

(* ErrAcquireExceedLimit: sleep for retryInterval and go on with the next table. *)
RunExceedLimit(n) ==
    /\ runPc[n] = "acquire"
    /\ currCnt[n] >= maxCnt[n]
    /\ NextTable(n)
    /\ UNCHANGED <<runPc, semaphore, cancelled, loops, locks>>

(* NewDlock and TryLock succeed: go tableLoop, and on with the next table. *)
RunTryLock(l) ==
    LET n == l[1]
        t == runPos[n] IN
    /\ runPc[n] = "lock"
    /\ ~cancelled[n]
    /\ loopPc[l] = "idle"
    /\ Grant(t, l)
    /\ loopPc' = [loopPc EXCEPT ![l] = "biz"]
    /\ loopTable' = [loopTable EXCEPT ![l] = t]
    /\ lease' = [lease EXCEPT ![l] = TTL]
    /\ runPc' = [runPc EXCEPT ![n] = "acquire"]
    /\ NextTable(n)
    /\ UNCHANGED <<semaphore, cancelled>>

(* A bug: the permit is not given back when the lock is not obtained. *)
RunLockFailsKeepsPermit(n) ==
    /\ runPc[n] = "lock"
    /\ runPc' = [runPc EXCEPT ![n] = "acquire"]
    /\ NextTable(n)
    /\ UNCHANGED <<semaphore, cancelled, loops, locks>>

(* NewDlock fails, or TryLock does: the key exists, redis does not answer, ctx is
   done.  A TryLock that times out may have set the key. *)
RunLockFails(n) ==
    /\ runPc[n] = "lock"
    /\ runPc' = [runPc EXCEPT ![n] = "release"]
    /\ Grant(runPos[n], Orphan) \/ UNCHANGED locks
    /\ UNCHANGED <<runPos, semaphore, cancelled, loops>>

RunRelease(n) ==
    /\ runPc[n] = "release"
    /\ SemRelease(n)
    /\ runPc' = [runPc EXCEPT ![n] = "acquire"]
    /\ NextTable(n)
    /\ UNCHANGED <<cancelled, loops, locks>>

---------------------------------------------------------------------------
(* tableLoop and bizLoop. *)

MoveLoop(l, from, to) ==
    /\ loopPc[l] = from
    /\ loopPc' = [loopPc EXCEPT ![l] = to]

(* bizFunc returns; its error is only logged.  A done ctx ends bizLoop. *)
BizReturn(l) ==
    /\ MoveLoop(l, "biz", IF cancelled[l[1]] THEN "unlock" ELSE "refresh")
    /\ UNCHANGED <<loopTable, lease, semaphore, cancelled, runner, locks>>

Refresh(l) ==
    /\ MoveLoop(l, "refresh", "biz")
    /\ ~cancelled[l[1]]
    /\ Prolong(loopTable[l], l)
    /\ lease' = [lease EXCEPT ![l] = TTL]
    /\ UNCHANGED <<loopTable, semaphore, cancelled, runner>>

(* The key expired or is somebody else's, redis does not answer (and may have
   prolonged the key), or ctx is done: bizLoop returns the error. *)
RefreshFails(l) ==
    /\ MoveLoop(l, "refresh", "unlock")
    /\ Prolong(loopTable[l], l) \/ UNCHANGED locks
    /\ UNCHANGED <<loopTable, lease, semaphore, cancelled, runner>>

(* A bug: tableLoop insists on a successful Unlock. *)
UnlockUntilSuccess(l) ==
    /\ MoveLoop(l, "unlock", "exit")
    /\ ~cancelled[l[1]]
    /\ lease' = [lease EXCEPT ![l] = 0]
    /\ Delete(loopTable[l], l)
    /\ UNCHANGED <<loopTable, semaphore, cancelled, runner>>

(* Whatever Unlock answers, tableLoop goes on and never uses its token again.  A
   success needs a live ctx; a failure may or may not have deleted the key. *)
Unlock(l) ==
    /\ MoveLoop(l, "unlock", "exit")
    /\ lease' = [lease EXCEPT ![l] = 0]
    /\ Delete(loopTable[l], l) \/ Abandon(loopTable[l], l)
    /\ UNCHANGED <<loopTable, semaphore, cancelled, runner>>

(* A bug: the deferred Release is lost. *)
ExitKeepsPermit(l) ==
    /\ MoveLoop(l, "exit", "idle")
    /\ UNCHANGED <<loopTable, lease, semaphore, cancelled, runner, locks>>

(* Unless ctx is done, tableLoop first sleeps for retryInterval with its permit
   (bizLoop never returns nil); then the deferred Release runs. *)
Exit(l) ==
    /\ MoveLoop(l, "exit", "idle")
    /\ SemRelease(l[1])
    /\ loopTable' = [loopTable EXCEPT ![l] = 1]
    /\ UNCHANGED <<lease, cancelled, runner, locks>>

---------------------------------------------------------------------------
(* The environment. *)

Cancel(n) ==
    /\ runPc[n] # "down"
    /\ ~cancelled[n]
    /\ cancelled' = [cancelled EXCEPT ![n] = TRUE]
    /\ UNCHANGED <<semaphore, runner, loops, locks>>

(* The process dies with its goroutines, its semaphore and its tokens; the keys it
   set stay in redis. *)
Crash(n) ==
    /\ runPc[n] # "down"
    /\ runPc' = [runPc EXCEPT ![n] = "down"]
    /\ runPos' = [runPos EXCEPT ![n] = 1]
    /\ maxCnt' = [maxCnt EXCEPT ![n] = InitCnt]
    /\ currCnt' = [currCnt EXCEPT ![n] = 0]
    /\ cancelled' = [cancelled EXCEPT ![n] = FALSE]
    /\ loopPc' = [l \in Loops |-> IF l[1] = n THEN "idle" ELSE loopPc[l]]
    /\ loopTable' = [l \in Loops |-> IF l[1] = n THEN 1 ELSE loopTable[l]]
    /\ lease' = [l \in Loops |-> IF l[1] = n THEN 0 ELSE lease[l]]
    /\ lockOwner' = [t \in Tables |->
                       IF lockOwner[t] \in LoopsOf(n) THEN Orphan ELSE lockOwner[t]]
    /\ UNCHANGED lockTtl

Restart(n) ==
    /\ runPc[n] = "down"
    /\ runPc' = [runPc EXCEPT ![n] = "acquire"]
    /\ UNCHANGED <<runPos, semaphore, cancelled, loops, locks>>

(* Time passes: redis drops the keys that reach the end of their time to live. *)
Tick ==
    /\ \E t \in Tables : lockTtl[t] > 0
    /\ lockTtl' = [t \in Tables |-> IF lockTtl[t] > 0 THEN lockTtl[t] - 1 ELSE 0]
    /\ lockOwner' = [t \in Tables |-> IF lockTtl[t] <= 1 THEN Free ELSE lockOwner[t]]
    /\ lease' = [l \in Loops |-> IF lease[l] > 0 THEN lease[l] - 1 ELSE 0]
    /\ UNCHANGED <<loopPc, loopTable, semaphore, cancelled, runner>>

RunStep(n) ==
    \/ RunAcquire(n)
    \/ RunExceedLimit(n)
    \/ RunLockFails(n)
    \/ RunRelease(n)

LoopStep(l) ==
    \/ RunTryLock(l)
    \/ BizReturn(l)
    \/ Refresh(l)
    \/ RefreshFails(l)
    \/ Unlock(l)
    \/ Exit(l)

NodeStep(n) ==
    \/ \E cnt \in 0..MaxCap : UpdateMaxCnt(n, cnt)
    \/ Cancel(n)
    \/ Crash(n)
    \/ Restart(n)

Next ==
    \/ \E n \in Nodes : RunStep(n) \/ NodeStep(n)
    \/ \E l \in Loops : LoopStep(l)
    \/ Tick

Spec == Init /\ [][Next]_vars

(* Scheduling the code relies on: a goroutine that can run is run, bizFunc returns,
   time passes, and redis does not refuse every attempt at a free key for ever. *)
Fairness ==
    /\ \A n \in Nodes : WF_vars(RunStep(n) \/ \E l \in LoopsOf(n) : RunTryLock(l))
    /\ \A l \in Loops :
          WF_vars(BizReturn(l) \/ Refresh(l) \/ RefreshFails(l) \/ Unlock(l) \/ Exit(l))
    /\ WF_vars(Tick)
    /\ \A t \in Tables : SF_vars(\E l \in Loops : runPos[l[1]] = t /\ RunTryLock(l))

FairSpec == Spec /\ Fairness

---------------------------------------------------------------------------
(* Properties. *)

Busy(n) == {l \in LoopsOf(n) : loopPc[l] # "idle"}

RunHolds(n) == IF runPc[n] \in {"lock", "release"} THEN 1 ELSE 0

(* Every error path of Run, tableLoop and bizLoop gives its permit back exactly once:
   at any moment the semaphore counts one permit for each table loop that has not
   ended and one for Run between Acquire and Release or the start of the loop.  No
   path leaks a permit and none releases twice, whatever the limit is changed to. *)
PermitsAccounted ==
    \A n \in Nodes : currCnt[n] = Cardinality(Busy(n)) + RunHolds(n)

(* What the distributed lock gives the loops: no two loops, of one node or of two, that
   both obtained or refreshed the lock of the same table less than TTL ago and still
   use it.  A loop that outlives its lock can overlap with the next owner only after
   its own lease has run out, and it can neither refresh nor delete the new owner's key. *)
LeaseExclusive ==
    \A l1, l2 \in Loops :
        l1 # l2 /\ lease[l1] > 0 /\ lease[l2] > 0 => loopTable[l1] # loopTable[l2]

(* The parts of the inductive invariant that the two properties above rest on.  A key
   with a live token belongs to a running loop of that very table; *)
OwnerLive ==
    \A t \in Tables : lockOwner[t] \in Loops =>
        /\ loopTable[lockOwner[t]] = t
        /\ loopPc[lockOwner[t]] \in {"biz", "refresh", "unlock"}

(* a lease is backed by the key in redis, for at least as long; *)
LeaseBacked ==
    \A l \in Loops : lease[l] > 0 =>
        /\ lockOwner[loopTable[l]] = l
        /\ lease[l] <= lockTtl[loopTable[l]]

(* a key exists exactly as long as it has time to live; *)
KeyExpires == \A t \in Tables : lockOwner[t] = Free <=> lockTtl[t] = 0

(* a process that is down has no goroutine. *)
DownIsEmpty == \A n \in Nodes : runPc[n] = "down" => Busy(n) = {}

IndInv ==
    /\ TypeOK
    /\ PermitsAccounted
    /\ OwnerLive
    /\ LeaseBacked
    /\ KeyExpires
    /\ DownIsEmpty

(* Cancelling ctx ends every table loop of the node and returns their permits, although
   Run itself goes on trying (it has no exit). *)
Drains ==
    \A n \in Nodes : cancelled[n] ~> Busy(n) = {}

Serving(n) == runPc[n] # "down" /\ ~cancelled[n] /\ maxCnt[n] > 0

LostGrant == \E t \in Tables : lockOwner[t] = Free /\ lockOwner'[t] = Orphan

(* Failover: as long as one node stays up with a positive limit, the table has a running
   business loop again and again, whichever other nodes crash, restart or are cancelled
   and whichever locks expire.  It assumes that a TryLock whose key is set and whose
   answer is lost does not happen for ever: each one blocks the table for TTL. *)
TableServed ==
    (\E n \in Nodes : <>[]Serving(n)) /\ <>[][~LostGrant]_vars =>
        \A t \in Tables : []<>(\E l \in Loops : loopPc[l] = "biz" /\ loopTable[l] = t)

====
