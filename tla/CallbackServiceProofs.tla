------------------------ MODULE CallbackServiceProofs ------------------------
(***************************************************************************)
(* Proofs about the callbacks and the configuration they use, for any      *)
(* number of processes, threads and logs, any batch size and any life of a *)
(* cache entry: how stale a configuration can be, and what one call may do *)
(* to the logs and to the business it calls.                               *)
(***************************************************************************)
EXTENDS CallbackService, FiniteSetTheorems, TLAPS

(* A version that has been replaced. *)
Stale(v) == version = 2 /\ v = 1

(* An entry of redis was read from MySQL by a GetById that began before the change, or that
   is not over; so its life ends at most a GetById and a life after the change.  A local
   entry may have been taken from redis in its last tick. *)
RedisLimit == Stale(redis.ver) /\ redis.ttl > 0 => age + redis.ttl <= TTL + MaxGet

LocalLimit(p) ==
    Stale(local[p].ver) /\ local[p].ttl > 0 => age + local[p].ttl <= 2 * TTL - 1 + 2 * MaxGet

(* What a GetById has read from MySQL was replaced after it began; what it has read from
   redis was still alive then. *)
GetLimit(t) ==
    Stale(get[t].ver) =>
        /\ get[t].at \in {"fill", "redisSet"} => age <= get[t].life
        /\ get[t].at = "refresh" => age <= TTL - 1 + MaxGet + get[t].life
        /\ get[t].at = "done" => age <= MaxStale

ConfInv ==
    /\ ConfTypeOK
    /\ version = 1 => age = 0
    /\ RedisLimit
    /\ \A p \in Procs : LocalLimit(p)
    /\ \A t \in Threads : GetLimit(t)

(* The steps of the callbacks and of the clock, as the caches see them: a caller takes an
   answer, or its process dies. *)
Dropped ==
    /\ UNCHANGED <<version, age, local, redis, ctxDone>>
    /\ get' \in [Threads -> {get[t] : t \in Threads} \cup {Idle}]
    /\ \A t \in Threads : get'[t] \in {get[t], Idle}

ConfMove ==
    \/ UNCHANGED confVars \/ Dropped \/ ChangeConf \/ Tick
    \/ \E t \in Threads : Call(t) \/ GetStep(t) \/ CancelCtx(t)

Ats == {"idle", "local", "redis", "dao", "refresh", "fill", "redisSet", "done", "error"}

Gets == [at : Ats, ver : Versions, life : 0..MaxGet]

LEMMA InitConf == ConfInit => ConfInv
<1> SUFFICES ASSUME ConfInit PROVE ConfInv
  OBVIOUS
<1>1. 0 \in 0..MaxAge /\ Absent \in Entry /\ Idle \in Gets
  BY BizConfAssumption DEF MaxAge, MaxStale, Absent, Entry, Versions, Idle, Gets, Ats
<1>2. ConfTypeOK
  BY <1>1 DEF ConfInit, ConfTypeOK, Gets, Ats, Versions
<1> QED
  BY <1>2 DEF ConfInit, ConfInv, RedisLimit, LocalLimit, GetLimit, Stale

(* A step of one GetById. *)
LEMMA OneGet ==
    ASSUME ConfInv, NEW t \in Threads, UNCHANGED <<version, age, ctxDone>>,
           NEW g \in Gets, get' = [get EXCEPT ![t] = g], GetLimit(t)',
           redis' \in Entry, RedisLimit', local' \in [Procs -> Entry], \A p \in Procs : LocalLimit(p)'
    PROVE  ConfInv'
<1> USE DEF ConfInv
<1>1. ConfTypeOK'
  BY DEF ConfTypeOK, Gets, Ats
<1>2. ASSUME NEW u \in Threads, u # t PROVE GetLimit(u)'
  <2>1. get'[u] = get[u]
    BY <1>2 DEF ConfTypeOK
  <2> QED
    BY <2>1 DEF GetLimit, Stale
<1> QED
  BY <1>1, <1>2

(* A GetById moves on with what it has, or with a version it has read. *)
LEMMA Moved ==
    ASSUME ConfTypeOK, NEW t \in Threads, NEW a \in Ats, NEW v \in Versions
    PROVE  LET to(w) == [at |-> a, ver |-> w, life |-> get[t].life] IN
           /\ At(t, a) => get' = [get EXCEPT ![t] = to(get[t].ver)]
           /\ Has(t, a, v) => get' = [get EXCEPT ![t] = to(v)]
           /\ to(get[t].ver) \in Gets /\ to(v) \in Gets
<1> DEFINE to(w) == [at |-> a, ver |-> w, life |-> get[t].life]
<1>1. get \in [Threads -> Gets] /\ get[t] \in Gets
  BY DEF ConfTypeOK, Gets, Ats
<1>2. [get[t] EXCEPT !.at = a] = to(get[t].ver) /\ to(get[t].ver) \in Gets /\ to(v) \in Gets
  BY <1>1 DEF Gets
<1>3. [[get[t] EXCEPT !.at = a] EXCEPT !.ver = v] = to(v)
  <2> DEFINE x == [get[t] EXCEPT !.at = a]
  <2>1. x \in Gets /\ x.at = a /\ x.life = get[t].life
    BY <1>1 DEF Gets
  <2> HIDE DEF x
  <2>2. [x EXCEPT !.ver = v] = [at |-> x.at, ver |-> v, life |-> x.life]
    BY <2>1 DEF Gets
  <2> QED
    BY <2>1, <2>2 DEF x
<1>4. ASSUME At(t, a) PROVE get' = [get EXCEPT ![t] = to(get[t].ver)]
  BY <1>2, <1>4 DEF At
<1>5. ASSUME Has(t, a, v) PROVE get' = [get EXCEPT ![t] = to(v)]
  <2>1. get' = [[get EXCEPT ![t].at = a] EXCEPT ![t].ver = v]
    BY <1>5 DEF Has
  <2> QED
    BY <1>1, <1>3, <2>1
<1> QED
  BY <1>2, <1>4, <1>5

(* What an answer has, and where the GetById is after it. *)
LEMMA GetMoves ==
    ASSUME ConfInv, NEW t \in Threads, GetStep(t)
    PROVE  ConfInv'
<1> USE DEF ConfInv
<1>1. /\ get \in [Threads -> Gets] /\ get[t] \in Gets /\ get[t].ver \in Versions /\ get[t].life \in 0..MaxGet
      /\ version \in Versions /\ age \in Nat /\ ProcOf[t] \in Procs
      /\ local \in [Procs -> Entry] /\ redis \in Entry /\ local[ProcOf[t]] \in Entry
      /\ TTL \in Nat /\ TTL >= 1 /\ MaxGet \in Nat
  BY BizConfAssumption DEF ConfTypeOK, Gets, Ats, MaxAge, MaxStale
<1>2. MaxStale = 2 * (TTL - 1 + MaxGet)
  BY DEF MaxStale
<1> DEFINE e == local[ProcOf[t]]
<1>3. e.ver \in Versions /\ e.ttl \in Nat /\ redis.ver \in Versions /\ redis.ttl \in Nat
  BY <1>1 DEF Entry
<1>4. get[t].life \in Nat /\ get[t].life <= MaxGet
  BY <1>1
<1> DEFINE to(a, v) == [at |-> a, ver |-> v, life |-> get[t].life]
<1>5. ASSUME NEW a \in Ats, NEW v \in Versions
      PROVE  /\ At(t, a) => get' = [get EXCEPT ![t] = to(a, get[t].ver)]
             /\ Has(t, a, v) => get' = [get EXCEPT ![t] = to(a, v)]
             /\ to(a, get[t].ver) \in Gets /\ to(a, v) \in Gets
  BY Moved
<1> DEFINE Limit(g) ==
             Stale(g.ver) =>
                 /\ g.at \in {"fill", "redisSet"} => age <= g.life
                 /\ g.at = "refresh" => age <= TTL - 1 + MaxGet + g.life
                 /\ g.at = "done" => age <= MaxStale
<1>6. ASSUME NEW g \in Gets, get' = [get EXCEPT ![t] = g], Limit(g), UNCHANGED <<version, age>>
      PROVE  GetLimit(t)'
  <2>1. get'[t] = g
    BY <1>1, <1>6
  <2> QED
    BY <1>6, <2>1 DEF GetLimit, Stale
<1>7. RedisLimit /\ LocalLimit(ProcOf[t]) /\ GetLimit(t) /\ \A p \in Procs : LocalLimit(p)
  BY <1>1
<1>8. ASSUME UNCHANGED <<version, age, local, redis, ctxDone>>, NEW g \in Gets,
             get' = [get EXCEPT ![t] = g], Limit(g)
      PROVE  ConfInv'
  <2>1. RedisLimit' /\ \A p \in Procs : LocalLimit(p)'
    BY <1>7, <1>8 DEF RedisLimit, LocalLimit, Stale
  <2> QED
    BY <1>1, <1>6, <1>8, <2>1, OneGet
<1>9. CASE LocalGet(t)
  <2>1. CASE e.ttl > 0
    <3>1. Has(t, "done", e.ver)
      BY <1>9, <2>1 DEF LocalGet
    <3>2. Limit(to("done", e.ver))
      BY <1>1, <1>2, <1>3, <1>7, <2>1 DEF LocalLimit, Stale
    <3> QED
      BY <1>3, <1>5, <1>8, <1>9, <3>1, <3>2 DEF Ats, LocalGet
  <2>2. CASE ~(e.ttl > 0)
    <3>1. At(t, "redis")
      BY <1>9, <2>2 DEF LocalGet
    <3>2. Limit(to("redis", get[t].ver))
      OBVIOUS
    <3> QED
      BY <1>1, <1>5, <1>8, <1>9, <3>1, <3>2 DEF Ats, LocalGet
  <2> QED
    BY <2>1, <2>2
<1>10. CASE RedisGet(t)
  <2>1. CASE redis.ttl > 0 /\ Has(t, "refresh", redis.ver)
    <3>1. Limit(to("refresh", redis.ver))
      BY <1>1, <1>3, <1>4, <1>7, <2>1 DEF RedisLimit, Stale
    <3> QED
      BY <1>3, <1>5, <1>8, <1>10, <2>1, <3>1 DEF Ats, RedisGet
  <2>2. CASE At(t, "dao")
    <3>1. Limit(to("dao", get[t].ver))
      OBVIOUS
    <3> QED
      BY <1>1, <1>5, <1>8, <1>10, <2>2, <3>1 DEF Ats, RedisGet
  <2> QED
    BY <1>10, <2>1, <2>2 DEF RedisGet
<1>11. CASE DaoGet(t)
  <2>1. CASE Has(t, "fill", version)
    <3>1. Limit(to("fill", version))
      BY DEF Stale
    <3> QED
      BY <1>1, <1>5, <1>8, <1>11, <2>1, <3>1 DEF Ats, DaoGet
  <2>2. CASE At(t, "error")
    <3>1. Limit(to("error", get[t].ver))
      OBVIOUS
    <3> QED
      BY <1>1, <1>5, <1>8, <1>11, <2>2, <3>1 DEF Ats, DaoGet
  <2> QED
    BY <1>11, <2>1, <2>2 DEF DaoGet
<1>12. Fresh(get[t].ver) \in Entry
  BY <1>1 DEF Fresh, Entry
<1>13. CASE LocalSet(t)
  <2> DEFINE a == IF get[t].at = "fill" THEN "redisSet" ELSE "done"
             p == ProcOf[t]
  <2>1. /\ get[t].at \in {"refresh", "fill"} /\ At(t, a) /\ a \in Ats
        /\ local' = [local EXCEPT ![p] = Fresh(get[t].ver)]
        /\ UNCHANGED <<version, age, redis, ctxDone>>
    BY <1>13 DEF LocalSet, Ats
  <2>2. Limit(to(a, get[t].ver))
    BY <1>1, <1>2, <1>4, <1>7, <2>1 DEF GetLimit, Stale
  <2>3. RedisLimit'
    BY <1>7, <2>1 DEF RedisLimit, Stale
  <2>4. local' \in [Procs -> Entry]
    BY <1>1, <1>12, <2>1
  <2>5. ASSUME NEW q \in Procs PROVE LocalLimit(q)'
    <3>1. CASE q = p
      <4>1. local'[q] = Fresh(get[t].ver)
        BY <1>1, <2>1, <3>1
      <4>2. Stale(get[t].ver) => age <= TTL - 1 + 2 * MaxGet
        BY <1>1, <1>4, <1>7, <2>1 DEF GetLimit
      <4> QED
        BY <1>1, <2>1, <4>1, <4>2 DEF LocalLimit, Stale, Fresh
    <3>2. CASE q # p
      <4>1. local'[q] = local[q]
        BY <1>1, <2>1, <3>2
      <4> QED
        BY <1>7, <2>1, <4>1 DEF LocalLimit, Stale
    <3> QED
      BY <3>1, <3>2
  <2>6. get' = [get EXCEPT ![t] = to(a, get[t].ver)] /\ to(a, get[t].ver) \in Gets
    BY <1>1, <1>5, <2>1
  <2>7. GetLimit(t)'
    BY <1>6, <2>1, <2>2, <2>6
  <2>8. redis' \in Entry
    BY <1>1, <2>1
  <2> QED
    BY <2>1, <2>3, <2>4, <2>5, <2>6, <2>7, <2>8, OneGet
<1>14. CASE RedisSet(t)
  <2>1. /\ get[t].at = "redisSet" /\ At(t, "done") /\ redis' \in {Fresh(get[t].ver), redis}
        /\ UNCHANGED <<version, age, local, ctxDone>>
    BY <1>14 DEF RedisSet
  <2>2. Stale(get[t].ver) => age <= MaxGet
    BY <1>1, <1>4, <1>7, <2>1 DEF GetLimit
  <2>3. Limit(to("done", get[t].ver))
    BY <1>1, <1>2, <2>2
  <2>4. RedisLimit' /\ redis' \in Entry
    <3>1. CASE redis' = redis
      BY <1>1, <1>7, <2>1, <3>1 DEF RedisLimit, Stale
    <3>2. CASE redis' = Fresh(get[t].ver)
      BY <1>1, <1>12, <2>1, <2>2, <3>2 DEF RedisLimit, Stale, Fresh
    <3> QED
      BY <2>1, <3>1, <3>2
  <2>5. \A p \in Procs : LocalLimit(p)'
    BY <1>7, <2>1 DEF LocalLimit, Stale
  <2>6. get' = [get EXCEPT ![t] = to("done", get[t].ver)] /\ to("done", get[t].ver) \in Gets
    BY <1>1, <1>5, <2>1 DEF Ats
  <2>7. GetLimit(t)'
    BY <1>6, <2>1, <2>3, <2>6
  <2>8. local' \in [Procs -> Entry]
    BY <1>1, <2>1
  <2> QED
    BY <2>1, <2>4, <2>5, <2>6, <2>7, <2>8, OneGet
<1> QED
  BY <1>9, <1>10, <1>11, <1>13, <1>14 DEF GetStep

(* A tick takes as much from every life as it adds to the age of the change. *)
LEMMA TickConf ==
    ASSUME ConfInv, Tick
    PROVE  ConfInv'
<1> USE DEF ConfInv
<1>1. /\ get \in [Threads -> Gets] /\ version \in Versions /\ age \in Nat /\ age <= MaxAge
      /\ local \in [Procs -> Entry] /\ redis \in Entry
      /\ TTL \in Nat /\ TTL >= 1 /\ MaxGet \in Nat /\ MaxAge \in Nat
  BY BizConfAssumption DEF ConfTypeOK, Gets, Ats, MaxAge, MaxStale
<1>2. /\ \A t \in Threads : ~Answered(t) /\ (Busy(t) => get[t].life < MaxGet)
      /\ age' = IF version = 2 /\ age < MaxAge THEN age + 1 ELSE age
      /\ local' = [p \in Procs |-> Older(local[p])] /\ redis' = Older(redis)
      /\ get' = [t \in Threads |-> IF Busy(t) THEN [get[t] EXCEPT !.life = @ + 1] ELSE get[t]]
      /\ version' = version /\ ctxDone' = ctxDone
  BY DEF Tick
<1>3. age' \in 0..MaxAge /\ age' <= age + 1 /\ (version = 1 => age' = age)
  BY <1>1, <1>2
<1>4. ASSUME NEW e \in Entry
      PROVE  Older(e) \in Entry /\ Older(e).ver = e.ver
             /\ Older(e).ttl = IF e.ttl > 0 THEN e.ttl - 1 ELSE 0
  BY <1>1 DEF Older, Entry
<1>5. ASSUME NEW t \in Threads
      PROVE  /\ get'[t] \in Gets /\ get'[t].at = get[t].at /\ get'[t].ver = get[t].ver
             /\ get[t].at # "idle" => get'[t].life = get[t].life + 1
             /\ get[t].at # "done" /\ get[t].life \in Nat
  <2>1. get[t] \in Gets
    BY <1>1
  <2>2. Busy(t) => get[t].life < MaxGet
    BY <1>2
  <2>3. get'[t] = IF Busy(t) THEN [get[t] EXCEPT !.life = @ + 1] ELSE get[t]
    BY <1>2
  <2>4. CASE Busy(t)
    BY <1>1, <1>2, <2>1, <2>2, <2>3, <2>4 DEF Gets, Busy, Answered
  <2>5. CASE ~Busy(t)
    BY <1>2, <2>1, <2>3, <2>5 DEF Gets, Busy, Answered
  <2> QED
    BY <2>4, <2>5
<1>6. ConfTypeOK'
  <2>1. local' \in [Procs -> Entry] /\ redis' \in Entry
    BY <1>1, <1>2, <1>4
  <2>2. get' \in [Threads -> Gets]
    BY <1>2, <1>5
  <2> QED
    BY <1>2, <1>3, <2>1, <2>2 DEF ConfTypeOK, Gets, Ats
<1>7. RedisLimit'
  <2>1. redis.ttl \in Nat
    BY <1>1 DEF Entry
  <2> QED
    BY <1>1, <1>2, <1>3, <1>4, <2>1 DEF RedisLimit, Stale
<1>8. ASSUME NEW p \in Procs PROVE LocalLimit(p)'
  <2>1. local[p] \in Entry /\ local[p].ttl \in Nat /\ local'[p] = Older(local[p])
    BY <1>1, <1>2 DEF Entry
  <2>2. LocalLimit(p)
    OBVIOUS
  <2> QED
    BY <1>1, <1>2, <1>3, <1>4, <2>1, <2>2 DEF LocalLimit, Stale
<1>9. ASSUME NEW t \in Threads PROVE GetLimit(t)'
  <2>1. GetLimit(t)
    OBVIOUS
  <2>2. /\ get'[t].at = get[t].at /\ get'[t].ver = get[t].ver
        /\ get[t].at # "idle" => get'[t].life = get[t].life + 1
        /\ get[t].at # "done" /\ get[t].life \in Nat
    BY <1>5
  <2>3. version' = version /\ age \in Nat /\ age' \in Nat /\ age' <= age + 1
    BY <1>1, <1>2, <1>3
  <2> QED
    BY <1>1, <2>1, <2>2, <2>3 DEF GetLimit, Stale
<1> QED
  BY <1>2, <1>3, <1>6, <1>7, <1>8, <1>9

LEMMA ConfMoves ==
    ASSUME ConfInv, ConfMove
    PROVE  ConfInv'
<1> USE DEF ConfInv
<1>1. /\ get \in [Threads -> Gets] /\ version \in Versions /\ age \in Nat
      /\ local \in [Procs -> Entry] /\ redis \in Entry
      /\ TTL \in Nat /\ TTL >= 1 /\ MaxGet \in Nat
  BY BizConfAssumption DEF ConfTypeOK, Gets, Ats, MaxAge, MaxStale
<1>2. CASE UNCHANGED confVars
  BY <1>2 DEF confVars, ConfTypeOK, RedisLimit, LocalLimit, GetLimit, Stale
<1>3. CASE Dropped
  <2>1. Idle \in Gets
    BY <1>1 DEF Idle, Gets, Ats, Versions
  <2>2. get' \in [Threads -> Gets]
    BY <1>1, <1>3, <2>1 DEF Dropped
  <2>3. ConfTypeOK'
    BY <1>3, <2>2 DEF Dropped, ConfTypeOK, Gets, Ats
  <2>4. RedisLimit' /\ \A p \in Procs : LocalLimit(p)'
    BY <1>3 DEF Dropped, RedisLimit, LocalLimit, Stale
  <2>5. ASSUME NEW t \in Threads PROVE GetLimit(t)'
    <3>1. GetLimit(t) /\ get'[t] \in {get[t], Idle} /\ version' = version /\ age' = age
      BY <1>3 DEF Dropped
    <3> QED
      BY <3>1 DEF GetLimit, Stale, Idle
  <2> QED
    BY <1>3, <2>3, <2>4, <2>5 DEF Dropped
<1>4. CASE ChangeConf
  <2>1. /\ version' = 2 /\ age' = age /\ age = 0
        /\ local' = local /\ redis' = redis /\ get' = get /\ ctxDone' = ctxDone
    BY <1>4 DEF ChangeConf
  <2>2. ConfTypeOK'
    BY <2>1 DEF ConfTypeOK, Versions
  <2>3. RedisLimit'
    BY <1>1, <2>1 DEF RedisLimit, Entry
  <2>4. ASSUME NEW p \in Procs PROVE LocalLimit(p)'
    <3>1. local[p].ttl \in 0..TTL
      BY <1>1 DEF Entry
    <3> QED
      BY <1>1, <2>1, <3>1 DEF LocalLimit
  <2>5. ASSUME NEW t \in Threads PROVE GetLimit(t)'
    <3>1. get[t].life \in Nat /\ MaxStale >= 0
      BY <1>1 DEF Gets, MaxStale
    <3> QED
      BY <1>1, <2>1, <3>1 DEF GetLimit
  <2> QED
    BY <2>1, <2>2, <2>3, <2>4, <2>5
<1>5. ASSUME NEW t \in Threads, Call(t) PROVE ConfInv'
  <2> DEFINE g == [at |-> "local", ver |-> get[t].ver, life |-> get[t].life]
  <2>1. g \in Gets /\ get' = [get EXCEPT ![t] = g]
    <3>1. get[t].ver \in Versions
      BY <1>1 DEF Gets
    <3> QED
      BY <1>5, <3>1, Moved DEF Call, Ats
  <2>2. get'[t].at = "local"
    BY <1>1, <2>1
  <2>3. GetLimit(t)'
    BY <2>2 DEF GetLimit
  <2>4. RedisLimit' /\ (\A p \in Procs : LocalLimit(p)') /\ redis' \in Entry /\ local' \in [Procs -> Entry]
    BY <1>1, <1>5 DEF Call, RedisLimit, LocalLimit, Stale
  <2> QED
    BY <1>5, <2>1, <2>3, <2>4, OneGet DEF Call
<1>6. ASSUME NEW t \in Threads, CancelCtx(t) PROVE ConfInv'
  BY <1>6 DEF CancelCtx, ConfTypeOK, RedisLimit, LocalLimit, GetLimit, Stale
<1> QED
  BY <1>2, <1>3, <1>4, <1>5, <1>6, GetMoves, TickConf DEF ConfMove

-----------------------------------------------------------------------------
(* The calls *)

Sending == {"conf", "wait", "client", "dial", "store", "call"}

Pcs == Sending \cup {"idle", "find", "update", "done", "dead"}

CallShape ==
    /\ env \in Scenarios
    /\ pc \in [Threads -> Pcs] /\ cursor \in [Threads -> Nat] /\ batch \in [Threads -> Seq(LogIds)]
    /\ changed \in [Threads -> BOOLEAN] /\ reply \in [Threads -> {"none", "nil", "error"}]
    /\ confMap \in [Procs -> Versions \cup {0}] /\ client \in [Procs -> BOOLEAN]
    /\ answers \in [Threads -> SUBSET LogIds]

(* The logs still to be sent are different ones, and the call has no answer for any; while
   nothing is to be updated it has no answer at all. *)
Unanswered(t) ==
    /\ \A i, j \in DOMAIN batch[t] : i # j => batch[t][i] # batch[t][j]
    /\ pc[t] \in Sending => batch[t] # <<>> /\ \A i \in DOMAIN batch[t] : batch[t][i] \notin answers[t]
    /\ pc[t] = "find" => answers[t] = {}
    /\ pc[t] \in Sending \cup {"update"} /\ ~changed[t] => answers[t] = {}

(* A thread calls the business with what its process keeps. *)
Connected(t) ==
    /\ pc[t] \in {"client", "dial", "store", "call"} => confMap[ProcOf[t]] # 0
    /\ pc[t] = "call" => client[ProcOf[t]]

(* Only a call that has ended has told anything, and nil only without an answer to record. *)
Told(t) ==
    /\ reply[t] # "none" => pc[t] \in {"done", "dead"}
    /\ reply[t] = "nil" => answers[t] = {}

CallInv(t) == Unanswered(t) /\ Connected(t) /\ Told(t)

CallsInv == CallShape /\ \A t \in Threads : CallInv(t)

LEMMA EnvFacts ==
    ASSUME CallShape
    PROVE  /\ N \in Nat /\ N >= 1 /\ Batch \in Nat /\ Batch >= 1
           /\ \A l \in LogIds : env.nid[l] \in Nat
           /\ env.callback \subseteq Versions /\ env.due \in 0..N
           /\ \A t \in Threads : ProcOf[t] \in Procs
BY ScenarioAssumption, BizConfAssumption DEF CallShape, LogIds

(* Find returns the next due logs, all different. *)
LEMMA FoundOK ==
    ASSUME CallShape, NEW c \in Nat
    PROVE  LET k == IF Batch <= env.due - c THEN Batch ELSE IF c < env.due THEN env.due - c ELSE 0 IN
           /\ Found(c) \in Seq(LogIds) /\ Len(Found(c)) = k /\ k \in Nat
           /\ \A i, j \in DOMAIN Found(c) : i # j => Found(c)[i] # Found(c)[j]
<1> DEFINE k == IF Batch <= env.due - c THEN Batch ELSE IF c < env.due THEN env.due - c ELSE 0
           m == Min({Batch, env.due - c})
<1>1. N \in Nat /\ N >= 1 /\ Batch \in Nat /\ Batch >= 1 /\ env.due \in 0..N
  BY EnvFacts
<1>2. m = IF Batch <= env.due - c THEN Batch ELSE env.due - c
  BY <1>1 DEF Min
<1> HIDE DEF m
<1>3. 1..m = 1..k /\ k \in Nat
  BY <1>1, <1>2
<1> HIDE DEF k
<1>4. Found(c) = [i \in 1..k |-> c + i]
  BY <1>3 DEF Found, m
<1>5. \A i \in 1..k : c + i \in LogIds
  BY <1>1 DEF LogIds, k
<1>6. Found(c) \in Seq(LogIds) /\ Len(Found(c)) = k
  BY <1>3, <1>4, <1>5
<1>7. \A i, j \in DOMAIN Found(c) : i # j => Found(c)[i] # Found(c)[j]
  BY <1>3, <1>4
<1> QED
  BY <1>3, <1>6, <1>7 DEF k

LEMMA NextOK ==
    ASSUME CallShape, NEW c \in Nat
    PROVE  NextStartId(Found(c)) \in Nat
<1>1. CASE Len(Found(c)) < Batch
  BY <1>1 DEF NextStartId
<1>2. CASE ~(Len(Found(c)) < Batch)
  <2>1. Found(c) \in Seq(LogIds) /\ Len(Found(c)) \in Nat /\ Len(Found(c)) # 0
    BY <1>2, FoundOK, EnvFacts
  <2>2. Last(Found(c)) \in LogIds
    BY <2>1 DEF Last
  <2> QED
    BY <1>2, <2>2, EnvFacts DEF NextStartId
<1> QED
  BY <1>1, <1>2

-----------------------------------------------------------------------------
(* What a step leaves alone *)

Same(u) ==
    /\ pc'[u] = pc[u] /\ cursor'[u] = cursor[u] /\ batch'[u] = batch[u]
    /\ changed'[u] = changed[u] /\ reply'[u] = reply[u] /\ answers'[u] = answers[u]

(* A process never forgets a configuration or a client. *)
Grown ==
    /\ env' = env
    /\ \A p \in Procs : (confMap[p] # 0 => confMap'[p] # 0) /\ (client[p] => client'[p])

LEMMA Frame ==
    ASSUME CallShape, NEW u \in Threads, CallInv(u), Same(u), Grown
    PROVE  CallInv(u)'
<1>1. ProcOf[u] \in Procs
  BY EnvFacts
<1>2. Unanswered(u)'
  BY DEF CallInv, Unanswered, Same
<1>3. Connected(u)'
  BY <1>1 DEF CallInv, Connected, Same, Grown
<1>4. Told(u)'
  BY DEF CallInv, Told, Same, Grown
<1> QED
  BY <1>2, <1>3, <1>4 DEF CallInv

(* A step of one thread. *)
LEMMA OneCall ==
    ASSUME CallsInv, NEW t \in Threads, CallShape', Grown, CallInv(t)',
           \A u \in Threads \ {t} : Same(u)
    PROVE  CallsInv'
<1>1. ASSUME NEW u \in Threads, u # t PROVE CallInv(u)'
  BY <1>1, Frame DEF CallsInv
<1> QED
  BY <1>1 DEF CallsInv

LEMMA NoCall ==
    ASSUME CallsInv, UNCHANGED callVars
    PROVE  CallsInv'
<1>1. CallShape' /\ Grown /\ \A u \in Threads : Same(u)
  BY DEF CallsInv, CallShape, callVars, Same, Grown
<1> QED
  BY <1>1, Frame DEF CallsInv

LEMMA InitCalls == Init => CallsInv
<1> SUFFICES ASSUME Init PROVE CallsInv
  OBVIOUS
<1>1. \A t \in Threads : pc[t] \in {"idle", "find"}
  BY DEF Init
<1>2. CallShape
  BY <1>1 DEF Init, CallShape, Pcs, Sending, Versions
<1>3. ASSUME NEW t \in Threads PROVE CallInv(t)
  <2>1. /\ cursor[t] = 0 /\ batch[t] = <<>> /\ changed[t] = FALSE /\ reply[t] = "none"
        /\ answers[t] = {}
    BY DEF Init
  <2>2. pc[t] \in {"idle", "find"} /\ N \in Nat
    BY <1>1, <1>2, EnvFacts
  <2>3. Unanswered(t)
    BY <2>1, <2>2 DEF Unanswered, Sending
  <2>4. Connected(t)
    BY <2>1, <2>2 DEF Connected
  <2>5. Told(t)
    BY <2>1, <2>2 DEF Told, LogIds
  <2> QED
    BY <2>3, <2>4, <2>5 DEF CallInv
<1> QED
  BY <1>2, <1>3 DEF CallsInv

-----------------------------------------------------------------------------
(* The steps of a call *)

LEMMA FindErrorOK ==
    ASSUME CallsInv, NEW t \in Threads, FindError(t)
    PROVE  CallsInv'
<1> USE DEF CallsInv, CallShape
<1>1. /\ pc' = [pc EXCEPT ![t] = "done"] /\ reply' = [reply EXCEPT ![t] = "error"]
      /\ UNCHANGED <<env, cursor, batch, changed, confMap, client, answers>>
      /\ pc[t] = "find"
  BY DEF FindError, Return, Goto
<1>2. pc'[t] = "done" /\ reply'[t] = "error"
  BY <1>1
<1>3. CallShape' /\ Grown /\ \A u \in Threads \ {t} : Same(u)
  BY <1>1 DEF Pcs, Grown, Same
<1>4. CallInv(t)
  OBVIOUS
<1>5. Unanswered(t)'
  BY <1>1, <1>2, <1>4 DEF CallInv, Unanswered, Sending
<1>6. Connected(t)'
  BY <1>1, <1>2, <1>4 DEF CallInv, Connected
<1>7. Told(t)'
  BY <1>1, <1>2, <1>4 DEF CallInv, Told
<1> QED
  BY <1>3, <1>5, <1>6, <1>7, OneCall DEF CallInv

LEMMA FindOK ==
    ASSUME CallsInv, NEW t \in Threads, Find(t)
    PROVE  CallsInv'
<1> USE DEF CallsInv, CallShape
<1> DEFINE ls == Found(cursor[t])
<1>1. /\ pc[t] = "find" /\ changed' = [changed EXCEPT ![t] = FALSE]
      /\ env.prog[t] = "Send"
      /\ UNCHANGED <<env, confMap, client, answers>>
  BY DEF Find
<1>2. CallInv(t) /\ cursor[t] \in Nat /\ changed'[t] = FALSE
  BY <1>1
<1>3. /\ ls \in Seq(LogIds)
      /\ \A i, j \in DOMAIN ls : i # j => ls[i] # ls[j]
  BY <1>2, FoundOK, Zenon
<1> DEFINE next == NextStartId(ls)
<1>5. next \in Nat
  BY <1>2, NextOK
<1>6. CASE ls = <<>>
  <2>1. /\ pc' = [pc EXCEPT ![t] = "done"] /\ reply' = [reply EXCEPT ![t] = "nil"]
        /\ UNCHANGED <<cursor, batch>>
    BY <1>6 DEF Find, Return, Goto
  <2>2. pc'[t] = "done" /\ reply'[t] = "nil"
    BY <2>1
  <2>3. CallShape' /\ Grown /\ \A u \in Threads \ {t} : Same(u)
    BY <1>1, <2>1 DEF Pcs, Grown, Same
  <2>4. Unanswered(t)'
    BY <1>1, <1>2, <2>1, <2>2 DEF CallInv, Unanswered, Sending
  <2>5. Connected(t)'
    BY <1>1, <1>2, <2>1, <2>2 DEF CallInv, Connected
  <2>6. Told(t)'
    BY <1>1, <1>2, <2>1, <2>2 DEF CallInv, Told, Unanswered
  <2> QED
    BY <2>3, <2>4, <2>5, <2>6, OneCall DEF CallInv
<1>7. CASE ls # <<>>
  <2>1. /\ pc' = [pc EXCEPT ![t] = "conf"] /\ batch' = [batch EXCEPT ![t] = ls]
        /\ cursor' = [cursor EXCEPT ![t] = next] /\ reply' = reply
    BY <1>7 DEF Find, Goto
  <2> HIDE DEF next, ls
  <2>2. pc'[t] = "conf" /\ batch'[t] = ls /\ cursor'[t] = next
    BY <2>1
  <2>3. CallShape' /\ Grown /\ \A u \in Threads \ {t} : Same(u)
    BY <1>1, <1>3, <1>5, <2>1 DEF Pcs, Sending, Grown, Same
  <2>4. answers'[t] = {}
    BY <1>1, <1>2 DEF CallInv, Unanswered
  <2>5. Unanswered(t)'
    BY <1>3, <1>7, <2>2, <2>4 DEF Unanswered, Sending
  <2>6. Connected(t)'
    BY <1>1, <1>2, <2>2 DEF CallInv, Connected
  <2>7. reply'[t] = "none"
    BY <1>1, <1>2, <2>1 DEF CallInv, Told
  <2>9. Told(t)'
    BY <2>7 DEF Told
  <2> QED
    BY <2>3, <2>5, <2>6, <2>9, OneCall DEF CallInv
<1> QED
  BY <1>6, <1>7

(* The logs of some notifications, in whatever order, are different ones. *)
LEMMA LogsOfOK ==
    ASSUME CallShape, NEW ns, NEW ls \in LogsOf(ns)
    PROVE  ls \in Seq(LogIds) /\ \A i, j \in DOMAIN ls : i # j => ls[i] # ls[j]
<1> DEFINE S == {l \in LogIds : env.nid[l] \in ns}
<1>1. IsFiniteSet(LogIds)
  BY EnvFacts, FS_Interval DEF LogIds
<1>2. S \subseteq LogIds
  OBVIOUS
<1>3. IsFiniteSet(S)
  BY <1>1, <1>2, FS_Subset
<1>4. Cardinality(S) \in Nat
  BY <1>3, FS_CardinalityType
<1>5. ls \in {f \in [1..Cardinality(S) -> S] :
                  \A i, j \in 1..Cardinality(S) : i # j => f[i] # f[j]}
  BY DEF LogsOf, SetToSeqs
<1> HIDE DEF S
<1>6. ls \in [1..Cardinality(S) -> S]
  BY <1>5
<1>7. ls \in Seq(S)
  BY <1>4, <1>6
<1>8. ls \in Seq(LogIds)
  BY <1>2, <1>7
<1> QED
  BY <1>5, <1>6, <1>8

LEMMA FindByNotificationIdsOK ==
    ASSUME CallsInv, NEW t \in Threads, FindByNotificationIds(t)
    PROVE  CallsInv'
<1> USE DEF CallsInv, CallShape
<1>1. /\ pc[t] = "find" /\ env.prog[t] # "Send"
      /\ UNCHANGED <<env, cursor, reply, confMap, client, answers>>
  BY DEF FindByNotificationIds
<1>2. PICK ls \in LogsOf(env.ns) :
          LET sent == env.prog[t] = "ByNotification" \/ Len(ls) = Cardinality(env.ns) IN
          /\ batch' = [batch EXCEPT ![t] = IF sent THEN ls ELSE <<>>]
          /\ changed' = [changed EXCEPT ![t] = ~sent /\ ls # <<>>]
          /\ pc' = [pc EXCEPT ![t] = IF sent /\ ls # <<>> THEN "conf" ELSE "update"]
  BY DEF FindByNotificationIds, Goto
<1>3. ls \in Seq(LogIds) /\ \A i, j \in DOMAIN ls : i # j => ls[i] # ls[j]
  BY LogsOfOK
<1> DEFINE sent == env.prog[t] = "ByNotification" \/ Len(ls) = Cardinality(env.ns)
           b == IF sent THEN ls ELSE <<>>
           c == ~sent /\ ls # <<>>
           q == IF sent /\ ls # <<>> THEN "conf" ELSE "update"
<1>4. /\ batch' = [batch EXCEPT ![t] = b] /\ changed' = [changed EXCEPT ![t] = c]
      /\ pc' = [pc EXCEPT ![t] = q]
  BY <1>2
<1>5. /\ b \in Seq(LogIds) /\ \A i, j \in DOMAIN b : i # j => b[i] # b[j]
      /\ c \in BOOLEAN /\ q \in {"conf", "update"} /\ (q = "conf" => b # <<>>)
  BY <1>3
<1> HIDE DEF b, c, q
<1>6. batch'[t] = b /\ changed'[t] = c /\ pc'[t] = q
  BY <1>4
<1>7. CallInv(t) /\ answers'[t] = {}
  BY <1>1 DEF CallInv, Unanswered
<1>8. CallShape' /\ Grown /\ \A u \in Threads \ {t} : Same(u)
  BY <1>1, <1>4, <1>5 DEF Pcs, Sending, Grown, Same
<1>9. Unanswered(t)'
  BY <1>5, <1>6, <1>7 DEF Unanswered, Sending
<1>10. Connected(t)'
  BY <1>1, <1>5, <1>6, <1>7 DEF CallInv, Connected
<1>11. Told(t)'
  BY <1>1, <1>5, <1>6, <1>7 DEF CallInv, Told
<1> QED
  BY <1>8, <1>9, <1>10, <1>11, OneCall DEF CallInv

(* The first log of the batch is done with; the others are different from it. *)
LEMMA Advanced ==
    ASSUME CallsInv, NEW t \in Threads, pc[t] \in Sending, Advance(t)
    PROVE  /\ batch' \in [Threads -> Seq(LogIds)] /\ pc' \in [Threads -> Pcs]
           /\ \A u \in Threads \ {t} : batch'[u] = batch[u] /\ pc'[u] = pc[u]
           /\ pc'[t] \in {"conf", "update"} /\ (pc'[t] = "conf" => batch'[t] # <<>>)
           /\ Head(batch[t]) \in LogIds
           /\ \A i \in DOMAIN batch'[t] : batch'[t][i] # Head(batch[t]) /\ batch'[t][i] \notin answers[t]
           /\ \A i, j \in DOMAIN batch'[t] : i # j => batch'[t][i] # batch'[t][j]
<1> DEFINE b == batch[t]
<1>1. /\ b \in Seq(LogIds) /\ b # <<>>
      /\ \A i \in DOMAIN b : b[i] \notin answers[t]
      /\ \A i, j \in DOMAIN b : i # j => b[i] # b[j]
  BY DEF CallsInv, CallShape, CallInv, Unanswered
<1>2. /\ batch \in [Threads -> Seq(LogIds)] /\ pc \in [Threads -> Pcs]
      /\ batch' = [batch EXCEPT ![t] = Tail(b)]
      /\ pc' = [pc EXCEPT ![t] = IF Len(b) = 1 THEN "update" ELSE "conf"]
  BY DEF CallsInv, CallShape, Advance, Goto
<1> HIDE DEF b
<1>3. /\ Tail(b) \in Seq(LogIds) /\ Len(b) \in Nat /\ Len(b) >= 1 /\ Len(Tail(b)) = Len(b) - 1
      /\ Head(b) = b[1] /\ 1 \in DOMAIN b /\ Head(b) \in LogIds
      /\ \A i \in DOMAIN Tail(b) : i \in Nat /\ i >= 1 /\ i + 1 \in DOMAIN b /\ Tail(b)[i] = b[i + 1]
  BY <1>1
<1>4. \A i \in DOMAIN Tail(b) : Tail(b)[i] # Head(b) /\ Tail(b)[i] \notin answers[t]
  BY <1>1, <1>3
<1>5. \A i, j \in DOMAIN Tail(b) : i # j => Tail(b)[i] # Tail(b)[j]
  <2>1. ASSUME NEW i \in DOMAIN Tail(b), NEW j \in DOMAIN Tail(b), i # j PROVE Tail(b)[i] # Tail(b)[j]
    <3>1. i + 1 # j + 1
      BY <1>3, <2>1
    <3> QED
      BY <1>1, <1>3, <3>1
  <2> QED
    BY <2>1
<1>6. ASSUME Len(b) # 1 PROVE Tail(b) # <<>>
  <2>1. Len(Tail(b)) # 0
    BY <1>3, <1>6
  <2>2. Len(<<>>) = 0
    OBVIOUS
  <2> QED
    BY <2>1, <2>2, Zenon
<1>7. batch'[t] = Tail(b) /\ pc'[t] = IF Len(b) = 1 THEN "update" ELSE "conf"
  BY <1>2
<1>8. batch' \in [Threads -> Seq(LogIds)] /\ pc' \in [Threads -> Pcs]
  BY <1>2, <1>3 DEF Pcs, Sending
<1> QED
  BY <1>2, <1>3, <1>4, <1>5, <1>6, <1>7, <1>8 DEF b

(* A log for which the business was not called, or did not answer. *)
LEMMA AdvanceOK ==
    ASSUME CallsInv, NEW t \in Threads, pc[t] \in {"conf", "wait", "call"}, Advance(t),
           UNCHANGED <<env, cursor, changed, reply, confMap, client, answers>>
    PROVE  CallsInv'
<1>1. pc[t] \in Sending
  BY DEF Sending
<1>2. /\ batch' \in [Threads -> Seq(LogIds)] /\ pc' \in [Threads -> Pcs]
      /\ \A u \in Threads \ {t} : batch'[u] = batch[u] /\ pc'[u] = pc[u]
      /\ pc'[t] \in {"conf", "update"} /\ (pc'[t] = "conf" => batch'[t] # <<>>)
      /\ \A i \in DOMAIN batch'[t] : batch'[t][i] \notin answers[t]
      /\ \A i, j \in DOMAIN batch'[t] : i # j => batch'[t][i] # batch'[t][j]
  BY <1>1, Advanced
<1>3. CallShape' /\ Grown /\ \A u \in Threads \ {t} : Same(u)
  BY <1>2 DEF CallsInv, CallShape, Grown, Same
<1>4. CallInv(t)
  BY DEF CallsInv
<1>5. Unanswered(t)'
  <2>1. ~changed[t] => answers[t] = {}
    BY <1>1, <1>4 DEF CallInv, Unanswered
  <2> QED
    BY <1>2, <2>1 DEF Unanswered, Sending
<1>6. Connected(t)'
  BY <1>2, <1>4 DEF CallInv, Connected
<1>7. Told(t)'
  BY <1>2, <1>4 DEF CallInv, Told
<1> QED
  BY <1>3, <1>5, <1>6, <1>7, OneCall DEF CallInv

(* A step on the way to the call. *)
LEMMA OnTheWay ==
    ASSUME CallsInv, NEW t \in Threads, pc[t] \in Sending, NEW q \in Sending, Goto(t, q),
           UNCHANGED <<env, cursor, batch, changed, reply, answers>>,
           confMap' \in [Procs -> Versions \cup {0}], client' \in [Procs -> BOOLEAN], Grown,
           Connected(t)'
    PROVE  CallsInv'
<1>1. pc' = [pc EXCEPT ![t] = q] /\ pc \in [Threads -> Pcs] /\ q \in Pcs
  BY DEF Goto, CallsInv, CallShape, Pcs
<1>2. pc'[t] = q /\ pc' \in [Threads -> Pcs] /\ \A u \in Threads \ {t} : pc'[u] = pc[u]
  BY <1>1
<1>3. CallShape' /\ \A u \in Threads \ {t} : Same(u)
  BY <1>2 DEF CallsInv, CallShape, Same
<1>4. CallInv(t) /\ q # "find"
  BY DEF CallsInv, Sending
<1>5. Unanswered(t)'
  BY <1>2, <1>4 DEF CallInv, Unanswered
<1>6. Told(t)'
  BY <1>2, <1>4 DEF CallInv, Told, Sending
<1> QED
  BY <1>3, <1>5, <1>6, OneCall DEF CallInv

LEMMA GetConfOK ==
    ASSUME CallsInv, NEW t \in Threads, GetConf(t)
    PROVE  CallsInv'
<1> DEFINE q == IF confMap[ProcOf[t]] # 0 THEN "client" ELSE "wait"
<1>1. /\ pc[t] = "conf" /\ Goto(t, q) /\ q \in Sending /\ pc[t] \in Sending
      /\ UNCHANGED <<env, cursor, batch, changed, reply, confMap, client, answers>>
  BY DEF GetConf, Sending
<1>2. pc'[t] = q
  BY <1>1 DEF Goto, CallsInv, CallShape
<1>3. Connected(t)
  BY DEF CallsInv, CallInv
<1>4. Connected(t)'
  BY <1>1, <1>2, <1>3 DEF Connected
<1>5. /\ confMap' \in [Procs -> Versions \cup {0}] /\ client' \in [Procs -> BOOLEAN] /\ Grown
  BY <1>1 DEF CallsInv, CallShape, Grown
<1> HIDE DEF q
<1> QED
  BY <1>1, <1>4, <1>5, OnTheWay

LEMMA GotConfOK ==
    ASSUME CallsInv, ConfTypeOK, NEW t \in Threads, GotConf(t)
    PROVE  CallsInv'
<1> DEFINE ok == get[t].at = "done" /\ get[t].ver \in env.callback
           p == ProcOf[t]
<1>1. /\ pc[t] = "wait" /\ pc[t] \in Sending
      /\ UNCHANGED <<env, cursor, changed, reply, client, answers>>
  BY DEF GotConf, Sending
<1>2. CASE ~ok
  <2>1. confMap' = confMap /\ Advance(t)
    BY <1>2 DEF GotConf
  <2> QED
    BY <1>1, <2>1, AdvanceOK
<1>3. CASE ok
  <2>1. confMap' = [confMap EXCEPT ![p] = get[t].ver] /\ Goto(t, "client") /\ batch' = batch
    BY <1>3 DEF GotConf
  <2>2. p \in Procs /\ get[t].ver \in Versions /\ get[t].ver # 0
    BY EnvFacts DEF CallsInv, ConfTypeOK, Versions
  <2>3. /\ confMap \in [Procs -> Versions \cup {0}] /\ client \in [Procs -> BOOLEAN]
        /\ pc \in [Threads -> Pcs]
    BY DEF CallsInv, CallShape
  <2>4. confMap'[p] = get[t].ver /\ pc'[t] = "client"
    BY <2>1, <2>2, <2>3 DEF Goto
  <2>5. Connected(t)
    BY DEF CallsInv, CallInv
  <2>6. Connected(t)'
    BY <1>1, <2>2, <2>4, <2>5 DEF Connected
  <2>7. confMap' \in [Procs -> Versions \cup {0}]
    BY <2>1, <2>2, <2>3
  <2>8. Grown
    BY <1>1, <2>1, <2>2, <2>3 DEF Grown
  <2>9. "client" \in Sending
    BY DEF Sending
  <2> QED
    BY <1>1, <2>1, <2>3, <2>6, <2>7, <2>8, <2>9, OnTheWay
<1> QED
  BY <1>2, <1>3

LEMMA ClientsLoadOK ==
    ASSUME CallsInv, NEW t \in Threads, ClientsLoad(t)
    PROVE  CallsInv'
<1> DEFINE q == IF client[ProcOf[t]] THEN "call" ELSE "dial"
<1>1. /\ pc[t] = "client" /\ Goto(t, q) /\ q \in Sending /\ pc[t] \in Sending
      /\ UNCHANGED <<env, cursor, batch, changed, reply, confMap, client, answers>>
  BY DEF ClientsLoad, Sending
<1>2. pc'[t] = q
  BY <1>1 DEF Goto, CallsInv, CallShape
<1>3. Connected(t)
  BY DEF CallsInv, CallInv, CallShape
<1>4. Connected(t)'
  <2>1. CASE client[ProcOf[t]]
    BY <1>1, <1>2, <1>3, <2>1 DEF Connected
  <2>2. CASE ~client[ProcOf[t]]
    BY <1>1, <1>2, <1>3, <2>2 DEF Connected
  <2> QED
    BY <2>1, <2>2
<1>5. /\ confMap' \in [Procs -> Versions \cup {0}] /\ client' \in [Procs -> BOOLEAN] /\ Grown
  BY <1>1 DEF CallsInv, CallShape, Grown
<1> HIDE DEF q
<1> QED
  BY <1>1, <1>4, <1>5, OnTheWay

LEMMA DialIsOK ==
    ASSUME CallsInv, NEW t \in Threads, Dial(t)
    PROVE  CallsInv'
<1>1. /\ pc[t] = "dial" /\ Goto(t, "store") /\ "store" \in Sending /\ pc[t] \in Sending
      /\ UNCHANGED <<env, cursor, batch, changed, reply, confMap, client, answers>>
  BY DEF Dial, Sending
<1>2. pc'[t] = "store"
  BY <1>1 DEF Goto, CallsInv, CallShape
<1>3. Connected(t)
  BY DEF CallsInv, CallInv, CallShape
<1>4. Connected(t)'
  BY <1>1, <1>2, <1>3 DEF Connected
<1>5. confMap' \in [Procs -> Versions \cup {0}] /\ client' \in [Procs -> BOOLEAN] /\ Grown
  BY <1>1 DEF CallsInv, CallShape, Grown
<1> QED
  BY <1>1, <1>4, <1>5, OnTheWay

LEMMA ClientsStoreOK ==
    ASSUME CallsInv, NEW t \in Threads, ClientsStore(t)
    PROVE  CallsInv'
<1>1. /\ pc[t] = "store" /\ Goto(t, "call") /\ "call" \in Sending /\ pc[t] \in Sending
      /\ client' = [client EXCEPT ![ProcOf[t]] = TRUE]
      /\ UNCHANGED <<env, cursor, batch, changed, reply, confMap, answers>>
  BY DEF ClientsStore, Sending
<1>2. pc'[t] = "call" /\ ProcOf[t] \in Procs
  BY <1>1, EnvFacts DEF Goto, CallsInv, CallShape
<1>3. Connected(t) /\ client \in [Procs -> BOOLEAN]
  BY DEF CallsInv, CallInv, CallShape
<1>4. client'[ProcOf[t]] = TRUE /\ client' \in [Procs -> BOOLEAN]
  BY <1>1, <1>2, <1>3
<1>5. Connected(t)'
  BY <1>1, <1>2, <1>3, <1>4 DEF Connected
<1>6. Grown
  BY <1>1, <1>2, <1>3 DEF Grown
<1>7. confMap' \in [Procs -> Versions \cup {0}]
  BY <1>1 DEF CallsInv, CallShape
<1> QED
  BY <1>1, <1>4, <1>5, <1>6, <1>7, OnTheWay

(* The log that was answered is not among those still to be sent. *)
LEMMA AnswerOK ==
    ASSUME CallsInv, NEW t \in Threads, Answer(t)
    PROVE  CallsInv'
<1> DEFINE h == Head(batch[t])
<1>1. /\ pc[t] = "call" /\ pc[t] \in Sending /\ Advance(t)
      /\ \/ changed' = [changed EXCEPT ![t] = TRUE]
         \/ UNCHANGED changed
      /\ answers' = [answers EXCEPT ![t] = IF changed'[t] THEN @ \cup {h} ELSE @]
      /\ UNCHANGED <<env, cursor, reply, confMap, client>>
  BY DEF Answer, Sending
<1>2. /\ batch' \in [Threads -> Seq(LogIds)] /\ pc' \in [Threads -> Pcs]
      /\ \A u \in Threads \ {t} : batch'[u] = batch[u] /\ pc'[u] = pc[u]
      /\ pc'[t] \in {"conf", "update"} /\ (pc'[t] = "conf" => batch'[t] # <<>>)
      /\ h \in LogIds
      /\ \A i \in DOMAIN batch'[t] : batch'[t][i] # h /\ batch'[t][i] \notin answers[t]
      /\ \A i, j \in DOMAIN batch'[t] : i # j => batch'[t][i] # batch'[t][j]
  BY <1>1, Advanced
<1>3. changed \in [Threads -> BOOLEAN] /\ answers \in [Threads -> SUBSET LogIds] /\ CallInv(t)
  BY DEF CallsInv, CallShape
<1> HIDE DEF h
<1>4. changed' \in [Threads -> BOOLEAN] /\ \A u \in Threads \ {t} : changed'[u] = changed[u]
  BY <1>1, <1>3
<1>5. changed'[t] = TRUE \/ changed' = changed
  BY <1>1, <1>3
<1>6. answers'[t] = (IF changed'[t] THEN answers[t] \cup {h} ELSE answers[t])
  BY <1>1, <1>3
<1>7. answers' \in [Threads -> SUBSET LogIds] /\ \A u \in Threads \ {t} : answers'[u] = answers[u]
  BY <1>1, <1>2, <1>3
<1>8. CallShape' /\ Grown /\ \A u \in Threads \ {t} : Same(u)
  BY <1>1, <1>2, <1>4, <1>7 DEF CallsInv, CallShape, Grown, Same
<1>9. \A i \in DOMAIN batch'[t] : batch'[t][i] \notin answers'[t]
  BY <1>2, <1>6
<1>10. ASSUME ~changed'[t] PROVE answers'[t] = {}
  BY <1>1, <1>3, <1>5, <1>6, <1>10 DEF CallInv, Unanswered
<1>11. Unanswered(t)'
  BY <1>2, <1>9, <1>10 DEF Unanswered, Sending
<1>12. Connected(t)'
  BY <1>1, <1>2, <1>3 DEF CallInv, Connected
<1>13. Told(t)'
  BY <1>1, <1>2, <1>3 DEF CallInv, Told, Sending
<1> QED
  BY <1>8, <1>11, <1>12, <1>13, OneCall DEF CallInv

LEMMA UpdateOK ==
    ASSUME CallsInv, NEW t \in Threads, Update(t)
    PROVE  CallsInv'
<1>1. /\ pc[t] = "update"
      /\ UNCHANGED <<env, cursor, batch, changed, confMap, client, answers>>
  BY DEF Update
<1>2. CallInv(t) /\ pc \in [Threads -> Pcs] /\ reply \in [Threads -> {"none", "nil", "error"}]
  BY DEF CallsInv, CallShape
<1>3. CASE env.prog[t] = "Send" /\ ~changed[t]
  <2>1. pc' = [pc EXCEPT ![t] = "find"] /\ reply' = reply
    BY <1>3 DEF Update, Goto
  <2>2. pc'[t] = "find" /\ answers[t] = {}
    BY <1>1, <1>2, <1>3, <2>1 DEF CallInv, Unanswered
  <2>3. CallShape' /\ Grown /\ \A u \in Threads \ {t} : Same(u)
    BY <1>1, <2>1 DEF CallsInv, CallShape, Pcs, Grown, Same
  <2>4. Unanswered(t)'
    BY <1>1, <1>2, <2>2 DEF CallInv, Unanswered, Sending
  <2>5. Connected(t)'
    BY <1>1, <1>2, <2>2 DEF CallInv, Connected
  <2>6. Told(t)'
    BY <1>1, <1>2, <2>1, <2>2 DEF CallInv, Told
  <2> QED
    BY <2>3, <2>4, <2>5, <2>6, OneCall DEF CallInv
<1>4. CASE ~(env.prog[t] = "Send" /\ ~changed[t])
  <2> DEFINE r == Updated(changed[t])
  <2>1. /\ pc' = [pc EXCEPT ![t] = "done"] /\ reply' = [reply EXCEPT ![t] = r]
        /\ r \in {"nil", "error"} /\ (r = "nil" => ~changed[t])
    BY <1>4 DEF Update, Return, Goto, Updated
  <2> HIDE DEF r
  <2>2. pc'[t] = "done" /\ reply'[t] = r
    BY <1>2, <2>1
  <2>3. CallShape' /\ Grown /\ \A u \in Threads \ {t} : Same(u)
    BY <1>1, <2>1 DEF CallsInv, CallShape, Pcs, Grown, Same
  <2>4. Unanswered(t)'
    BY <1>1, <1>2, <2>2 DEF CallInv, Unanswered, Sending
  <2>5. Connected(t)'
    BY <1>1, <1>2, <2>2 DEF CallInv, Connected
  <2>6. r = "nil" => answers[t] = {}
    BY <1>1, <1>2, <2>1 DEF CallInv, Unanswered
  <2>7. Told(t)'
    BY <1>1, <1>2, <2>2, <2>6 DEF CallInv, Told
  <2> QED
    BY <2>3, <2>4, <2>5, <2>7, OneCall DEF CallInv
<1> QED
  BY <1>3, <1>4

(* A process that ends takes all its calls with it. *)
LEMMA PanicOK ==
    ASSUME CallsInv, NEW t \in Threads, Panic(t)
    PROVE  CallsInv'
<1>1. /\ pc' = [u \in Threads |-> IF ProcOf[u] = ProcOf[t] THEN "dead" ELSE pc[u]]
      /\ UNCHANGED <<env, cursor, batch, changed, reply, confMap, client, answers>>
  BY DEF Panic
<1>2. CallShape' /\ Grown
  BY <1>1 DEF CallsInv, CallShape, Pcs, Grown
<1>3. ASSUME NEW u \in Threads PROVE CallInv(u)'
  <2>1. CallShape /\ CallInv(u)
    BY DEF CallsInv
  <2>2. CASE pc'[u] = pc[u]
    BY <1>1, <1>2, <2>1, <2>2, Frame DEF Same
  <2>3. CASE pc'[u] = "dead"
    <3>1. Unanswered(u)'
      BY <1>1, <2>1, <2>3 DEF CallInv, Unanswered, Sending
    <3>2. Connected(u)'
      BY <1>1, <2>1, <2>3 DEF CallInv, Connected
    <3>3. Told(u)'
      BY <1>1, <2>1, <2>3 DEF CallInv, Told
    <3> QED
      BY <3>1, <3>2, <3>3 DEF CallInv
  <2> QED
    BY <1>1, <2>2, <2>3
<1> QED
  BY <1>2, <1>3 DEF CallsInv

-----------------------------------------------------------------------------
IndInv == ConfInv /\ CallsInv

(* An answer that is taken, and a GetById that dies with its process. *)
LEMMA DroppedOK ==
    ASSUME ConfTypeOK, UNCHANGED <<version, age, local, redis, ctxDone>>,
           NEW D \in SUBSET Threads, get' = [u \in Threads |-> IF u \in D THEN Idle ELSE get[u]]
    PROVE  ConfMove
BY DEF ConfMove, Dropped

LEMMA NextConf ==
    ASSUME ConfTypeOK, Next
    PROVE  ConfMove
<1>1. ASSUME NEW t \in Threads, Taken(t), UNCHANGED <<version, age, local, redis, ctxDone>>
      PROVE  ConfMove
  <2>1. get' = [u \in Threads |-> IF u \in {t} THEN Idle ELSE get[u]]
    BY <1>1 DEF Taken, ConfTypeOK
  <2> QED
    BY <1>1, <2>1, DroppedOK
<1>2. ASSUME NEW t \in Threads, Panic(t) PROVE ConfMove
  <2> DEFINE D == {u \in Threads : ProcOf[u] = ProcOf[t]}
  <2>1. get' = [u \in Threads |-> IF u \in D THEN Idle ELSE get[u]]
    BY <1>2 DEF Panic
  <2>2. D \in SUBSET Threads /\ UNCHANGED <<version, age, local, redis, ctxDone>>
    BY <1>2 DEF Panic
  <2> HIDE DEF D
  <2> QED
    BY <2>1, <2>2, DroppedOK
<1>3. ASSUME NEW t \in Threads, Step(t) PROVE ConfMove
  <2>1. CASE \/ Find(t) \/ FindError(t) \/ FindByNotificationIds(t) \/ Unreadable(t) \/ ClientsLoad(t)
             \/ Dial(t) \/ ClientsStore(t) \/ CallFails(t) \/ Answer(t) \/ Update(t)
    <3>1. UNCHANGED confVars
      BY <2>1 DEF Find, FindError, FindByNotificationIds, Unreadable, ClientsLoad, Dial, ClientsStore,
                  CallFails, Answer, Update
    <3> QED
      BY <3>1 DEF ConfMove
  <2>2. CASE GetConf(t)
    BY <2>2 DEF GetConf, ConfMove
  <2>3. CASE GotConf(t)
    BY <1>1, <2>3 DEF GotConf
  <2>4. CASE GetStep(t)
    BY <2>4 DEF ConfMove
  <2> QED
    BY <1>2, <1>3, <2>1, <2>2, <2>3, <2>4 DEF Step
<1>4. ASSUME NEW t \in Threads, Ask(t) \/ Take(t) PROVE ConfMove
  BY <1>1, <1>4 DEF Ask, Take, ConfMove
<1> QED
  BY <1>3, <1>4 DEF Next, ConfMove

LEMMA NextCalls ==
    ASSUME CallsInv, ConfTypeOK, Next
    PROVE  CallsInv'
<1>1. ASSUME NEW t \in Threads, Step(t) PROVE CallsInv'
  <2>1. CASE Unreadable(t) \/ CallFails(t)
    BY <2>1, AdvanceOK DEF Unreadable, CallFails
  <2>2. CASE GetStep(t) /\ UNCHANGED callVars
    BY <2>2, NoCall
  <2> QED
    BY <1>1, <2>1, <2>2, FindOK, FindErrorOK, FindByNotificationIdsOK, GetConfOK, GotConfOK,
       ClientsLoadOK, DialIsOK, ClientsStoreOK, AnswerOK, PanicOK, UpdateOK DEF Step
<1>2. CASE UNCHANGED callVars
  BY <1>2, NoCall
<1> QED
  BY <1>1, <1>2 DEF Next, Ask, Take, callVars

(* The caches and the calls keep their invariants whatever the threads, the clock and the
   business do (biz_conf.go:27-58, callback.go:38-199, clients.go:25-34). *)
THEOREM CallbackInvariant == Spec => []IndInv
<1>1. Init => IndInv
  BY InitConf, InitCalls DEF Init, IndInv
<1>2. ASSUME IndInv, [Next]_vars PROVE IndInv'
  <2>1. ConfTypeOK
    BY <1>2 DEF IndInv, ConfInv
  <2>2. CASE Next
    BY <1>2, <2>1, <2>2, NextConf, NextCalls, ConfMoves DEF IndInv
  <2>3. CASE UNCHANGED vars
    <3>1. UNCHANGED confVars /\ UNCHANGED callVars
      BY <2>3 DEF vars
    <3>2. ConfMove
      BY <3>1 DEF ConfMove
    <3> QED
      BY <1>2, <3>1, <3>2, ConfMoves, NoCall DEF IndInv
  <2> QED
    BY <1>2, <2>2, <2>3
<1> QED
  BY <1>1, <1>2, PTL DEF Spec

(* The variables keep their types, and the business is only called with a configuration and
   a client (callback.go:117-149). *)
THEOREM CallbackTypeOK == Spec => []TypeOK
<1>1. IndInv => TypeOK
  BY DEF IndInv, ConfInv, CallsInv, CallShape, CallInv, Connected, TypeOK, Pcs, Sending
<1> QED
  BY <1>1, CallbackInvariant, PTL

(* For any life of an entry and any time a GetById may take, a configuration that was
   replaced is given out for at most two lives and two GetById (biz_conf.go:27-58). *)
THEOREM StaleConfBounded == Spec => []StaleBounded
<1>1. IndInv => StaleBounded
  <2> SUFFICES ASSUME IndInv, NEW t \in Threads, get[t].at = "done", get[t].ver # version
               PROVE  age <= MaxStale
    BY DEF StaleBounded
  <2>1. get[t].ver \in 1..2 /\ version \in 1..2 /\ age \in Nat /\ GetLimit(t) /\ (version = 1 => age = 0)
    BY BizConfAssumption DEF IndInv, ConfInv, ConfTypeOK, Versions, MaxAge, MaxStale
  <2>2. MaxStale \in Nat
    BY BizConfAssumption DEF MaxStale
  <2>3. CASE version = 1
    BY <2>1, <2>2, <2>3
  <2>4. CASE version = 2
    BY <2>1, <2>4 DEF GetLimit, Stale
  <2> QED
    BY <2>1, <2>3, <2>4
<1> QED
  BY <1>1, CallbackInvariant, PTL

(* No call calls the business twice for a log whose answer it has (callback.go:38-61). *)
THEOREM AnsweredAtMostOnce == Spec => []AnsweredOnce
<1>1. IndInv => AnsweredOnce
  <2> SUFFICES ASSUME IndInv, NEW t \in Threads, pc[t] = "call"
               PROVE  Head(batch[t]) \notin answers[t]
    BY DEF AnsweredOnce
  <2>1. /\ batch[t] \in Seq(LogIds) /\ batch[t] # <<>>
        /\ \A i \in DOMAIN batch[t] : batch[t][i] \notin answers[t]
    BY DEF IndInv, CallsInv, CallShape, CallInv, Unanswered, Sending
  <2>2. Head(batch[t]) = batch[t][1] /\ 1 \in DOMAIN batch[t]
    BY <2>1
  <2> QED
    BY <2>1, <2>2
<1> QED
  BY <1>1, CallbackInvariant, PTL

(* For any logs, batches and interleavings, a call that had an answer to record and could not
   record it does not return nil (callback.go:69-84). *)
THEOREM NoLossInSilence == Spec => []NoSilentLoss
<1>1. IndInv => NoSilentLoss
  BY DEF IndInv, CallsInv, CallInv, Told, NoSilentLoss
<1> QED
  BY <1>1, CallbackInvariant, PTL
====
