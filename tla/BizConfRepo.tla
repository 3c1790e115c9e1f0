---------------------------- MODULE BizConfRepo -----------------------------
(***************************************************************************)
(* DefaultBizConfRepo.GetById for the configuration of one business: a     *)
(* local cache in each process, redis for all of them, then MySQL.  Both   *)
(* caches keep what they are given for DefaultExpires.  A configuration is *)
(* its version; somebody else changes it once, from version 1 to 2, and    *)
(* tells no cache.                                                         *)
(*                                                                         *)
(* Time is counted in ticks.  A GetById takes at most MaxGet of them: its  *)
(* caller waits for redis and MySQL under a context with a deadline.       *)
(***************************************************************************)
EXTENDS Integers

CONSTANTS
    Procs,    \* processes of the platform
    Threads,  \* goroutines that call GetById
    ProcOf,   \* [Threads -> Procs]
    TTL,      \* DefaultExpires in ticks
    MaxGet    \* bound: ticks a GetById takes at most

ASSUME BizConfAssumption ==
    /\ ProcOf \in [Threads -> Procs]
    /\ TTL \in Nat \ {0} /\ MaxGet \in Nat

VARIABLES
    version,  \* MySQL: the version of the configuration
    age,      \* ticks since it changed, up to MaxAge
    local,    \* [Procs -> Entry] the local caches
    redis,    \* Entry
    get,      \* the GetById of each thread: where it is, what it has read, since when
    ctxDone   \* the thread's context is done

confVars == <<version, age, local, redis, get, ctxDone>>

Versions == 1..2
Entry    == [ver : Versions, ttl : 0..TTL]
Absent   == [ver |-> 1, ttl |-> 0]
Fresh(v) == [ver |-> v, ttl |-> TTL]

(* The worst a read may be late, see StaleBounded, and where the count stops.  An entry can
   be read for the last time in the tick before its life is over. *)
MaxStale == 2 * (TTL - 1 + MaxGet)
MaxAge   == MaxStale + 1

Idle == [at |-> "idle", ver |-> 1, life |-> 0]

ConfInit ==
    /\ version = 1 /\ age = 0
    /\ local = [p \in Procs |-> Absent] /\ redis = Absent
    /\ get = [t \in Threads |-> Idle] /\ ctxDone = [t \in Threads |-> FALSE]

-----------------------------------------------------------------------------
At(t, a)   == get' = [get EXCEPT ![t].at = a]
Has(t, a, v) == get' = [get EXCEPT ![t].at = a, ![t].ver = v]

Call(t) ==
    /\ get[t].at = "idle" /\ At(t, "local")
    /\ UNCHANGED <<version, age, local, redis, ctxDone>>

(* A bug: a hit renews the life of the entry. *)
LocalGetRenews(t) ==
    LET e == local[ProcOf[t]] IN
    /\ get[t].at = "local"
    /\ IF e.ttl > 0 THEN Has(t, "done", e.ver) ELSE At(t, "redis")
    /\ local' = IF e.ttl > 0 THEN [local EXCEPT ![ProcOf[t]] = Fresh(e.ver)] ELSE local
    /\ UNCHANGED <<version, age, redis, ctxDone>>

LocalGet(t) ==
    LET e == local[ProcOf[t]] IN
    /\ get[t].at = "local"
    /\ IF e.ttl > 0 THEN Has(t, "done", e.ver) ELSE At(t, "redis")
    /\ local' = local
    /\ UNCHANGED <<version, age, redis, ctxDone>>

(* A miss and an error of redis go to MySQL alike. *)
RedisGet(t) ==
    /\ get[t].at = "redis"
    /\ \/ redis.ttl > 0 /\ ~ctxDone[t] /\ Has(t, "refresh", redis.ver)
       \/ At(t, "dao")
    /\ UNCHANGED <<version, age, local, redis, ctxDone>>

DaoGet(t) ==
    /\ get[t].at = "dao"
    /\ \/ ~ctxDone[t] /\ Has(t, "fill", version)
       \/ At(t, "error")
    /\ UNCHANGED <<version, age, local, redis, ctxDone>>

(* What redis had, or MySQL, goes to the local cache with a full life. *)
LocalSet(t) ==
    /\ get[t].at \in {"refresh", "fill"}
    /\ local' = [local EXCEPT ![ProcOf[t]] = Fresh(get[t].ver)]
    /\ At(t, IF get[t].at = "fill" THEN "redisSet" ELSE "done")
    /\ UNCHANGED <<version, age, redis, ctxDone>>

(* An error of redis is logged, whether it has stored the entry or not. *)
RedisSet(t) ==
    /\ get[t].at = "redisSet" /\ At(t, "done")
    /\ \/ ~ctxDone[t] /\ redis' = Fresh(get[t].ver)
       \/ redis' = redis
    /\ UNCHANGED <<version, age, local, ctxDone>>

(* The caller has the answer. *)
Taken(t) == get' = [get EXCEPT ![t] = Idle]

GetStep(t) == LocalGet(t) \/ RedisGet(t) \/ DaoGet(t) \/ LocalSet(t) \/ RedisSet(t)

Answered(t) == get[t].at \in {"done", "error"}
Busy(t)     == get[t].at # "idle"

ChangeConf ==
    /\ version = 1 /\ version' = 2
    /\ UNCHANGED <<age, local, redis, get, ctxDone>>

Older(e) == [e EXCEPT !.ttl = IF @ > 0 THEN @ - 1 ELSE 0]

(* Time passes, but not while an answer is on its way to the caller. *)
Tick ==
    /\ \A t \in Threads : ~Answered(t) /\ (Busy(t) => get[t].life < MaxGet)
    /\ age' = IF version = 2 /\ age < MaxAge THEN age + 1 ELSE age
    /\ local' = [p \in Procs |-> Older(local[p])] /\ redis' = Older(redis)
    /\ get' = [t \in Threads |-> IF Busy(t) THEN [get[t] EXCEPT !.life = @ + 1] ELSE get[t]]
    /\ UNCHANGED <<version, ctxDone>>

CancelCtx(t) ==
    /\ ~ctxDone[t] /\ ctxDone' = [ctxDone EXCEPT ![t] = TRUE]
    /\ UNCHANGED <<version, age, local, redis, get>>

-----------------------------------------------------------------------------
ConfTypeOK ==
    /\ version \in Versions /\ age \in 0..MaxAge
    /\ local \in [Procs -> Entry] /\ redis \in Entry
    /\ get \in [Threads ->
          [at : {"idle", "local", "redis", "dao", "refresh", "fill", "redisSet", "done", "error"},
           ver : Versions, life : 0..MaxGet]]
    /\ ctxDone \in [Threads -> BOOLEAN]

(* A configuration that was replaced is still given out after it left redis, because the
   local cache is filled from redis with a life of its own; but never for longer than two
   lives and the two GetById that carried it (biz_conf.go:33-40). *)
StaleBounded ==
    \A t \in Threads : get[t].at = "done" /\ get[t].ver # version => age <= MaxStale
=============================================================================
