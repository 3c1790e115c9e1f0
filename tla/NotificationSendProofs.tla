----------------------- MODULE NotificationSendProofs -----------------------
(***************************************************************************)
(* Proofs about the send path, for any requests, channels, databases and   *)
(* quotas, and whatever redis, MySQL and the network lose.                 *)
(***************************************************************************)
EXTENDS NotificationSend, FiniteSetTheorems, TLAPS

(* The variables of the requests are functions of the requests. *)
Shape ==
    /\ call \in [Requests -> Calls] /\ pc \in [Requests -> Pcs]
    /\ ctxDone \in [Requests -> BOOLEAN] /\ quota \in [Channels -> Int]
    /\ rows \in [Requests -> SUBSET Nat] /\ logs \in [Requests -> SUBSET Nat]
    /\ todo \in [Requests -> SUBSET Dbs] /\ failed \in [Requests -> BOOLEAN]
    /\ reply \in [Requests -> {"none", "ok", "error"}]
    /\ charged \in [Requests -> SUBSET Nat] /\ unearned \in [Channels -> Nat]
    /\ lossy \in [Requests -> BOOLEAN]

(* What is stored and charged belongs to the request, a log is stored after its
   notification, and a request is charged for all its notifications or for none. *)
Belongs(r) ==
    /\ rows[r] \subseteq Items(r) /\ logs[r] \subseteq rows[r]
    /\ charged[r] \in {{}, Items(r)}

(* Before the creation nothing has happened; a single creation is all or nothing. *)
Creating(r) ==
    /\ pc[r] = "decr" => rows[r] = {} /\ charged[r] = {}
    /\ pc[r] = "create" => rows[r] = {} /\ ~call[r].batch
    /\ pc[r] \in {"create", "insert", "refund"} => charged[r] = Items(r)
    /\ pc[r] \in {"decr", "create"} => ~failed[r]
    /\ pc[r] = "refund" => failed[r] /\ (~call[r].batch /\ ~lossy[r] => rows[r] = {})

(* A notification that was not stored with its callback log. *)
Missing(r, i) == i \notin rows[r] \/ (call[r].callback /\ i \notin logs[r])

(* A batch between its databases: nothing of a database that has not returned is stored,
   the others are complete unless one failed, and then something is missing there. *)
Inserting(r) ==
    pc[r] = "insert" =>
        /\ call[r].batch
        /\ \A i \in Items(r) : DbOf[i] \in todo[r] => i \notin rows[r]
        /\ ~failed[r] => \A i \in Items(r) : DbOf[i] \notin todo[r] => ~Missing(r, i)
        /\ failed[r] /\ ~lossy[r] => \E i \in Items(r) : DbOf[i] \notin todo[r] /\ Missing(r, i)

(* The quota is settled from the creation on. *)
Settled(r) ==
    /\ pc[r] = "refund" /\ ~lossy[r] => ~Complete(r)
    /\ pc[r] \in {"send", "markFailure", "giveBack", "fetch", "done"} /\ ~lossy[r] =>
          charged[r] = (IF Complete(r) THEN Items(r) ELSE {})
    /\ pc[r] \in {"send", "markFailure", "giveBack"} /\ ~call[r].batch =>
          call[r].immediate /\ (~lossy[r] => ~Complete(r))
    /\ pc[r] \in {"markFailure", "giveBack"} => ~call[r].batch
    /\ pc[r] = "fetch" => call[r].batch

(* The answer of a Send of the default strategy. *)
Answered(r) ==
    /\ pc[r] # "done" => reply[r] = "none"
    /\ ~call[r].batch /\ ~call[r].immediate =>
          /\ reply[r] = "ok" => rows[r] = Items(r) /\ charged[r] = Items(r)
          /\ reply[r] = "error" /\ ~lossy[r] => rows[r] = {} /\ charged[r] = {}

RequestInv(r) == Belongs(r) /\ Creating(r) /\ Inserting(r) /\ Settled(r) /\ Answered(r)

IndInv == Shape /\ (\A r \in Requests : RequestInv(r)) /\ QuotaConserved

-----------------------------------------------------------------------------
(* Counting what is charged *)

Pairs == UNION {{r} \X Items(r) : r \in Requests}

HeldIn(ch, c) == {x \in Pairs : x[2] \in ch[x[1]] /\ Key(x[1], x[2]) = c}

HeldOf(ch, r, c) == {i \in Items(r) : i \in ch[r] /\ Key(r, i) = c}

(* A call names finitely many notifications. *)
LEMMA ItemsFinite ==
    ASSUME Shape, NEW r \in Requests
    PROVE  /\ IsFiniteSet(Items(r)) /\ Items(r) # {} /\ Items(r) \subseteq Nat
           /\ \A i \in Items(r) : Key(r, i) \in Channels /\ DbOf[i] \in Dbs
           /\ ~call[r].batch => Items(r) = {1}
<1>1. call[r] \in Calls
  BY DEF Shape
<1> DEFINE s == call[r].items
<1>2. s \in Seq(Channels) /\ s # <<>> /\ (~call[r].batch => Len(s) = 1)
      /\ \A i \in 1..Len(s) : DbOf[i] \in Dbs
  BY <1>1, CallAssumption
<1> HIDE DEF s
<1>3. DOMAIN s = 1..Len(s) /\ Len(s) \in Nat /\ Len(s) # 0
  BY <1>2
<1>4. IsFiniteSet(1..Len(s))
  BY <1>3, FS_Interval
<1>5. \A i \in 1..Len(s) : s[i] \in Channels
  BY <1>2, <1>3
<1>6. Items(r) = 1..Len(s) /\ \A i : Key(r, i) = s[i]
  BY <1>3 DEF Items, Key, s
<1> QED
  BY <1>2, <1>3, <1>4, <1>5, <1>6

(* All pairs of requests and notifications are finitely many. *)
LEMMA PairsFinite ==
    ASSUME Shape
    PROVE  IsFiniteSet(Pairs)
<1>1. ASSUME NEW r \in Requests PROVE IsFiniteSet({r} \X Items(r))
  BY ItemsFinite, FS_Singleton, FS_Product
<1> DEFINE f == [r \in Requests |-> {r} \X Items(r)]
           All == {{r} \X Items(r) : r \in Requests}
<1>2. f \in Surjection(Requests, All)
  BY DEF Surjection
<1>3. IsFiniteSet(All)
  BY <1>2, CallAssumption, FS_Surjection
<1> QED
  BY <1>1, <1>3, FS_UNION DEF Pairs

(* What is held for a channel splits into what is held for one request and the rest. *)
LEMMA HeldSplit ==
    ASSUME Shape, NEW ch, NEW r \in Requests, NEW c
    PROVE  LET rest == {x \in HeldIn(ch, c) : x[1] # r} IN
           /\ Cardinality(HeldIn(ch, c)) = Cardinality(rest) + Cardinality(HeldOf(ch, r, c))
           /\ Cardinality(rest) \in Nat /\ Cardinality(HeldOf(ch, r, c)) \in Nat
<1> DEFINE rest == {x \in HeldIn(ch, c) : x[1] # r}
           own  == HeldOf(ch, r, c)
           both == {r} \X own
<1>1. IsFiniteSet(HeldIn(ch, c)) /\ IsFiniteSet(rest)
  BY PairsFinite, FS_Subset DEF HeldIn
<1>2. IsFiniteSet(own)
  BY ItemsFinite, FS_Subset DEF HeldOf
<1>3. IsFiniteSet(both) /\ Cardinality(both) = Cardinality(own)
  <2>1. Cardinality({r}) = 1 /\ IsFiniteSet({r})
    BY FS_Singleton
  <2>2. Cardinality(own) \in Nat
    BY <1>2, FS_CardinalityType
  <2>3. IsFiniteSet(both) /\ Cardinality(both) = Cardinality({r}) * Cardinality(own)
    BY <1>2, <2>1, FS_Product
  <2> QED
    BY <2>1, <2>2, <2>3
<1>4. HeldIn(ch, c) = rest \cup both
  <2>1. ASSUME NEW x \in HeldIn(ch, c), x[1] = r PROVE x \in both
    <3>1. PICK q \in Requests : x \in {q} \X Items(q)
      BY DEF HeldIn, Pairs
    <3> QED
      BY <2>1, <3>1 DEF HeldIn, HeldOf
  <2>2. ASSUME NEW x \in both PROVE x \in HeldIn(ch, c)
    <3>1. x \in {r} \X Items(r) /\ x[1] = r /\ x[2] \in own
      BY DEF HeldOf
    <3> QED
      BY <3>1 DEF HeldIn, HeldOf, Pairs
  <2> QED
    BY <2>1, <2>2
<1>5. rest \cap both = {}
  OBVIOUS
<1>6. Cardinality(rest \cup both) = Cardinality(rest) + Cardinality(both) - Cardinality(rest \cap both)
  BY <1>1, <1>3, FS_Union
<1>7. Cardinality(rest) \in Nat /\ Cardinality(own) \in Nat
  BY <1>1, <1>2, FS_CardinalityType
<1>8. Cardinality(rest \cap both) = 0
  BY <1>5, FS_EmptySet
<1> HIDE DEF rest, own, both
<1>9. Cardinality(HeldIn(ch, c)) = Cardinality(rest) + Cardinality(own)
  BY <1>3, <1>4, <1>6, <1>7, <1>8
<1> QED
  BY <1>7, <1>9 DEF rest, own

(* The quota of one request: all of it or nothing. *)
LEMMA HeldOfAll ==
    ASSUME Shape, NEW ch, NEW r \in Requests, NEW c, ch[r] \in {{}, Items(r)}
    PROVE  Cardinality(HeldOf(ch, r, c)) = IF ch[r] = {} THEN 0 ELSE Need(r, c)
<1>1. CASE ch[r] = {}
  <2>1. HeldOf(ch, r, c) = {}
    BY <1>1 DEF HeldOf
  <2> QED
    BY <1>1, <2>1, FS_EmptySet
<1>2. CASE ch[r] # {}
  <2>1. HeldOf(ch, r, c) = {i \in Items(r) : Key(r, i) = c}
    BY <1>2 DEF HeldOf
  <2> QED
    BY <1>2, <2>1 DEF Need
<1> QED
  BY <1>1, <1>2

LEMMA NeedType ==
    ASSUME Shape, NEW r \in Requests, NEW c
    PROVE  Need(r, c) \in Nat
<1>1. IsFiniteSet({i \in Items(r) : Key(r, i) = c})
  BY ItemsFinite, FS_Subset
<1> QED
  BY <1>1, FS_CardinalityType DEF Need

LEMMA HeldIsHeldIn == \A c : Held(c) = HeldIn(charged, c)
BY DEF Held, HeldIn, Pairs

(* A step that charges a request, or returns what it was charged, changes what is held by
   what the request needs. *)
LEMMA HeldStep ==
    ASSUME Shape, NEW r \in Requests, NEW X \in {{}, Items(r)}, charged[r] \in {{}, Items(r)},
           call' = call, charged' = [charged EXCEPT ![r] = X], NEW c
    PROVE  /\ Cardinality(Held(c)) \in Nat
           /\ Cardinality(Held(c))' = Cardinality(Held(c))
                  - (IF charged[r] = {} THEN 0 ELSE Need(r, c))
                  + (IF X = {} THEN 0 ELSE Need(r, c))
<1> DEFINE ch == charged'
           Rest(f) == {x \in HeldIn(f, c) : x[1] # r}
<1>1. Held(c)' = HeldIn(ch, c)
  BY DEF Held, HeldIn, Pairs, Items, Key
<1>2. Held(c) = HeldIn(charged, c)
  BY HeldIsHeldIn
<1>3. ch[r] = X
  BY DEF Shape
<1>4. Rest(ch) = Rest(charged)
  <2>1. ASSUME NEW x \in Pairs, x[1] # r PROVE ch[x[1]] = charged[x[1]]
    <3>1. x[1] \in Requests
      BY DEF Pairs
    <3> QED
      BY <2>1, <3>1 DEF Shape
  <2> QED
    BY <2>1 DEF HeldIn
<1> HIDE DEF ch
<1>5. /\ Cardinality(HeldIn(ch, c)) = Cardinality(Rest(ch)) + Cardinality(HeldOf(ch, r, c))
      /\ Cardinality(Rest(ch)) \in Nat /\ Cardinality(HeldOf(ch, r, c)) \in Nat
  BY HeldSplit
<1>6. /\ Cardinality(HeldIn(charged, c)) = Cardinality(Rest(charged)) + Cardinality(HeldOf(charged, r, c))
      /\ Cardinality(HeldOf(charged, r, c)) \in Nat
  BY HeldSplit
<1>7. Cardinality(HeldOf(ch, r, c)) = IF X = {} THEN 0 ELSE Need(r, c)
  BY <1>3, HeldOfAll
<1>8. Cardinality(HeldOf(charged, r, c)) = IF charged[r] = {} THEN 0 ELSE Need(r, c)
  BY HeldOfAll
<1>9. Cardinality(Held(c))' = Cardinality(HeldIn(ch, c))
  BY <1>1
<1> HIDE DEF Rest
<1> QED
  BY <1>2, <1>4, <1>5, <1>6, <1>7, <1>8, <1>9

-----------------------------------------------------------------------------
(* What the redis scripts do to the quota that is left *)

(* A single notification needs one unit of its channel. *)
LEMMA NeedSingle ==
    ASSUME Shape, NEW r \in Requests, ~call[r].batch, NEW c
    PROVE  Need(r, c) = IF c = Key(r, 1) THEN 1 ELSE 0
<1>1. Items(r) = {1}
  BY ItemsFinite
<1>2. CASE c = Key(r, 1)
  <2>1. {i \in Items(r) : Key(r, i) = c} = {1}
    BY <1>1, <1>2
  <2> QED
    BY <1>2, <2>1, FS_Singleton DEF Need
<1>3. CASE c # Key(r, 1)
  <2>1. {i \in Items(r) : Key(r, i) = c} = {}
    BY <1>1, <1>3
  <2> QED
    BY <1>3, <2>1, FS_EmptySet DEF Need
<1> QED
  BY <1>2, <1>3

(* A granted decrement takes what the request needs from what is left, and a refused one,
   which may drive a counter below zero, takes nothing. *)
LEMMA TakeQuotaLeft ==
    ASSUME Shape, NEW r \in Requests
    PROVE  /\ TakeQuota(r).q \in [Channels -> Int]
           /\ \A c \in Channels :
                 Positive(TakeQuota(r).q[c]) =
                     Positive(quota[c]) - (IF TakeQuota(r).ok THEN Need(r, c) ELSE 0)
<1>1. quota \in [Channels -> Int] /\ call[r].batch \in BOOLEAN
  BY CallAssumption DEF Shape
<1>2. \A c \in Channels : Need(r, c) \in Nat
  BY NeedType
<1>3. CASE call[r].batch
  <2>1. CASE \A c \in Channels : Need(r, c) > 0 => quota[c] >= Need(r, c)
    <3>1. /\ TakeQuota(r).ok = TRUE
          /\ TakeQuota(r).q = [c \in Channels |-> quota[c] - Need(r, c)]
      BY <1>3, <2>1 DEF TakeQuota, BatchDecr, NeedOf
    <3> QED
      BY <1>1, <1>2, <2>1, <3>1 DEF Positive
  <2>2. CASE ~\A c \in Channels : Need(r, c) > 0 => quota[c] >= Need(r, c)
    <3>1. TakeQuota(r).ok = FALSE /\ TakeQuota(r).q = quota
      BY <1>3, <2>2 DEF TakeQuota, BatchDecr, NeedOf
    <3> QED
      BY <1>1, <3>1 DEF Positive
  <2> QED
    BY <2>1, <2>2
<1>4. CASE ~call[r].batch
  <2> DEFINE k == Key(r, 1)
  <2>1. k \in Channels
    BY <1>4, ItemsFinite
  <2>2. \A c : Need(r, c) = IF c = k THEN 1 ELSE 0
    BY <1>4, NeedSingle
  <2>3. TakeQuota(r).ok = (quota[k] >= 1) /\ TakeQuota(r).q = [quota EXCEPT ![k] = @ - 1]
    BY <1>4 DEF TakeQuota, Decr
  <2> HIDE DEF k
  <2>4. CASE quota[k] >= 1
    <3>1. TakeQuota(r).ok = TRUE
      BY <2>3, <2>4
    <3> QED
      BY <1>1, <2>1, <2>2, <2>3, <2>4, <3>1 DEF Positive
  <2>5. CASE ~(quota[k] >= 1)
    <3>1. (quota[k] >= 1) = FALSE
      BY <2>5
    <3>2. TakeQuota(r).ok = FALSE
      BY <2>3, <3>1
    <3> QED
      BY <1>1, <2>1, <2>2, <2>3, <2>5, <3>2 DEF Positive
  <2> QED
    BY <2>4, <2>5
<1> QED
  BY <1>1, <1>3, <1>4

(* Giving back what a request needs adds it to what is left, whether the counter was below
   zero or not. *)
LEMMA IncrLeft ==
    ASSUME Shape, NEW r \in Requests
    PROVE  /\ Incr(quota, NeedOf(r)) \in [Channels -> Int]
           /\ \A c \in Channels :
                 Positive(Incr(quota, NeedOf(r))[c]) = Positive(quota[c]) + Need(r, c)
<1>1. quota \in [Channels -> Int] /\ \A c \in Channels : Need(r, c) \in Nat
  BY NeedType DEF Shape
<1>2. Incr(quota, NeedOf(r)) =
        [c \in Channels |-> IF Need(r, c) = 0 THEN quota[c]
                            ELSE (IF quota[c] < 0 THEN 0 ELSE quota[c]) + Need(r, c)]
  BY DEF Incr, NeedOf
<1> QED
  BY <1>1, <1>2 DEF Positive

(* Steps that touch no counter and charge nobody. *)
LEMMA QuotaUntouched ==
    ASSUME QuotaConserved, UNCHANGED <<call, quota, charged, unearned>>
    PROVE  QuotaConserved'
BY DEF QuotaConserved, Held, Items, Key, Positive

LEMMA Balance ==
    ASSUME NEW left \in Int, NEW left2 \in Int, NEW held \in Int, NEW given \in Int,
           NEW extra \in Int, NEW extra2 \in Int, NEW before \in Int, NEW after \in Int,
           left + held = given + extra, left2 - left = before - after + extra2 - extra
    PROVE  left2 + (held - before + after) = given + extra2
OBVIOUS

(* Steps that move quota between what is left, what is charged and what was never owed. *)
LEMMA QuotaMoves ==
    ASSUME Shape, QuotaConserved, NEW r \in Requests, NEW X \in {{}, Items(r)},
           charged[r] \in {{}, Items(r)},
           call' = call, charged' = [charged EXCEPT ![r] = X],
           quota' \in [Channels -> Int], unearned' \in [Channels -> Nat],
           \A c \in Channels :
               Positive(quota'[c]) - Positive(quota[c]) =
                   (IF charged[r] = {} THEN 0 ELSE Need(r, c)) - (IF X = {} THEN 0 ELSE Need(r, c))
                   + unearned'[c] - unearned[c]
    PROVE  QuotaConserved'
<1> SUFFICES ASSUME NEW c \in Channels
             PROVE  Positive(quota'[c]) + Cardinality(Held(c))' = Q0[c] + unearned'[c]
  BY DEF QuotaConserved, Positive
<1>1. Positive(quota[c]) + Cardinality(Held(c)) = Q0[c] + unearned[c]
  BY DEF QuotaConserved
<1>2. /\ Cardinality(Held(c)) \in Nat
      /\ Cardinality(Held(c))' = Cardinality(Held(c))
             - (IF charged[r] = {} THEN 0 ELSE Need(r, c)) + (IF X = {} THEN 0 ELSE Need(r, c))
  BY HeldStep
<1>3. Need(r, c) \in Nat /\ Q0[c] \in Nat /\ unearned[c] \in Nat /\ unearned'[c] \in Nat
  BY NeedType, CallAssumption DEF Shape
<1>4. Positive(quota[c]) \in Int /\ Positive(quota'[c]) \in Int
  BY DEF Shape, Positive
<1> DEFINE before == IF charged[r] = {} THEN 0 ELSE Need(r, c)
           after == IF X = {} THEN 0 ELSE Need(r, c)
<1>5. before \in Nat /\ after \in Nat
  BY <1>3
<1>6. Positive(quota'[c]) - Positive(quota[c]) = before - after + unearned'[c] - unearned[c]
  OBVIOUS
<1>7. Cardinality(Held(c))' = Cardinality(Held(c)) - before + after
  BY <1>2
<1> HIDE DEF before, after
<1>8. Positive(quota'[c]) + (Cardinality(Held(c)) - before + after) = Q0[c] + unearned'[c]
  BY <1>1, <1>2, <1>3, <1>4, <1>5, <1>6, Balance
<1> QED
  BY <1>7, <1>8

-----------------------------------------------------------------------------
(* The steps *)

(* Nothing of the request changed. *)
Same(r) ==
    /\ call[r]' = call[r] /\ pc[r]' = pc[r] /\ rows[r]' = rows[r] /\ logs[r]' = logs[r]
    /\ todo[r]' = todo[r] /\ failed[r]' = failed[r]
    /\ reply[r]' = reply[r] /\ charged[r]' = charged[r] /\ lossy[r]' = lossy[r]

LEMMA Frame ==
    ASSUME NEW r \in Requests, RequestInv(r), Same(r)
    PROVE  RequestInv(r)'
BY DEF Same, RequestInv, Belongs, Creating, Inserting, Settled, Answered, Missing, Complete, Items

(* A step of one request leaves the others alone. *)
LEMMA OneRequest ==
    ASSUME IndInv, Shape', NEW r \in Requests, \A q \in Requests \ {r} : Same(q),
           RequestInv(r)', QuotaConserved'
    PROVE  IndInv'
<1>1. \A q \in Requests \ {r} : RequestInv(q)'
  BY Frame DEF IndInv
<1> QED
  BY <1>1 DEF IndInv

LEMMA InitInv == Init => IndInv
<1> SUFFICES ASSUME Init PROVE IndInv
  OBVIOUS
<1>1. Shape
  BY CallAssumption DEF Init, Shape, Pcs
<1>2. \A r \in Requests : RequestInv(r)
  BY DEF Init, RequestInv, Belongs, Creating, Inserting, Settled, Answered
<1>3. ASSUME NEW c \in Channels PROVE Positive(quota[c]) + Cardinality(Held(c)) = Q0[c] + unearned[c]
  <2>1. Held(c) = {}
    <3>1. \A r \in Requests : charged[r] = {}
      BY DEF Init
    <3>2. HeldIn(charged, c) = {}
      BY <3>1 DEF HeldIn, Pairs
    <3> QED
      BY <3>2, HeldIsHeldIn
  <2>2. Cardinality(Held(c)) = 0
    BY <2>1, FS_EmptySet
  <2> QED
    BY <2>2, CallAssumption DEF Init, Positive
<1> QED
  BY <1>1, <1>2, <1>3 DEF IndInv, QuotaConserved

(* A decrement, answered or not, conserves quota when the request is charged for what it
   took. *)
LEMMA TakeConserves ==
    ASSUME Shape, QuotaConserved, NEW r \in Requests, charged[r] = {}, UNCHANGED <<call, unearned>>,
           quota' = TakeQuota(r).q,
           charged' = [charged EXCEPT ![r] = IF TakeQuota(r).ok THEN Items(r) ELSE {}]
    PROVE  QuotaConserved'
<1> DEFINE X == IF TakeQuota(r).ok THEN Items(r) ELSE {}
<1>1. X \in {{}, Items(r)} /\ charged' = [charged EXCEPT ![r] = X]
  OBVIOUS
<1>2. quota' \in [Channels -> Int] /\ unearned' \in [Channels -> Nat]
  BY TakeQuotaLeft DEF Shape
<1>3. ASSUME NEW c \in Channels
      PROVE  Positive(quota'[c]) - Positive(quota[c]) =
                 (IF charged[r] = {} THEN 0 ELSE Need(r, c)) - (IF X = {} THEN 0 ELSE Need(r, c))
                 + unearned'[c] - unearned[c]
  <2>1. /\ Positive(quota'[c]) = Positive(quota[c]) - (IF TakeQuota(r).ok THEN Need(r, c) ELSE 0)
        /\ Need(r, c) \in Nat /\ unearned[c] \in Nat /\ unearned'[c] = unearned[c]
        /\ Positive(quota[c]) \in Int
    BY TakeQuotaLeft, NeedType DEF Shape, Positive
  <2>2. CASE TakeQuota(r).ok
    <3>1. Items(r) # {}
      BY ItemsFinite
    <3> QED
      BY <2>1, <2>2, <3>1
  <2>3. CASE ~TakeQuota(r).ok
    BY <2>1, <2>3
  <2> QED
    BY <2>2, <2>3
<1> HIDE DEF X
<1> QED
  BY <1>1, <1>2, <1>3, QuotaMoves

(* The quota of a request is taken, or refused. *)
LEMMA DecrStep ==
    ASSUME IndInv, NEW r \in Requests, DecrGranted(r) \/ DecrRefused(r) \/ DecrFails(r)
    PROVE  IndInv'
<1> USE DEF IndInv
<1>1. /\ call[r] \in Calls /\ call[r].batch \in BOOLEAN /\ call[r].immediate \in BOOLEAN
      /\ Items(r) # {} /\ Items(r) \subseteq Nat /\ {DbOf[i] : i \in Items(r)} \subseteq Dbs
  BY CallAssumption, ItemsFinite DEF Shape
<1>2. pc[r] = "decr" /\ charged[r] = {} /\ rows[r] = {} /\ logs[r] = {} /\ RequestInv(r)
  BY DEF DecrGranted, DecrRefused, DecrFails, RequestInv, Creating, Belongs
<1>3. TakeQuota(r).q \in [Channels -> Int]
  BY TakeQuotaLeft
<1>4. CASE DecrGranted(r)
  <2>1. Shape'
    BY <1>1, <1>3, <1>4 DEF DecrGranted, Goto, Shape, Pcs
  <2>2. \A q \in Requests \ {r} : Same(q)
    BY <1>4 DEF DecrGranted, Goto, Shape, Same
  <2>3. RequestInv(r)'
    BY <1>1, <1>2, <1>4 DEF DecrGranted, Goto, Shape, Pcs, RequestInv, Belongs, Creating, Inserting,
         Settled, Answered, Missing, Items
  <2>4. QuotaConserved'
    BY <1>2, <1>4, TakeConserves DEF DecrGranted
  <2> QED
    BY <2>1, <2>2, <2>3, <2>4, OneRequest
<1>5. CASE DecrRefused(r)
  <2>1. Shape'
    BY <1>1, <1>3, <1>5 DEF DecrRefused, CreateFailed, Reply, Goto, Shape, Pcs, ghost
  <2>2. \A q \in Requests \ {r} : Same(q)
    BY <1>5 DEF DecrRefused, CreateFailed, Reply, Goto, Shape, Same, ghost
  <2>3. RequestInv(r)'
    BY <1>1, <1>2, <1>5 DEF DecrRefused, CreateFailed, Reply, Goto, Shape, Pcs, ghost, RequestInv,
         Belongs, Creating, Inserting, Settled, Answered, Complete, Items
  <2>4. QuotaConserved'
    <3>1. charged' = [charged EXCEPT ![r] = IF TakeQuota(r).ok THEN Items(r) ELSE {}]
      BY <1>2, <1>5 DEF DecrRefused, ghost, Shape
    <3> QED
      BY <1>2, <1>5, <3>1, TakeConserves DEF DecrRefused, ghost
  <2> QED
    BY <2>1, <2>2, <2>3, <2>4, OneRequest
<1>6. CASE DecrFails(r)
  <2> DEFINE nothing == UNCHANGED <<quota, charged, lossy>>
             taken == /\ quota' = TakeQuota(r).q /\ Lossy(r)
                      /\ charged' = [charged EXCEPT ![r] = IF TakeQuota(r).ok THEN Items(r) ELSE {}]
  <2>1. nothing \/ taken
    BY <1>6 DEF DecrFails
  <2>2. /\ CreateFailed(r) /\ UNCHANGED <<call, ctxDone, rows, logs, todo, failed, unearned>>
    BY <1>6 DEF DecrFails
  <2>3. \A q \in Requests \ {r} : Same(q)
    BY <2>1, <2>2 DEF CreateFailed, Reply, Goto, Shape, Same, Lossy
  <2>4. CASE nothing
    <3>1. Shape'
      BY <2>2, <2>4 DEF CreateFailed, Reply, Goto, Shape, Pcs
    <3>2. RequestInv(r)'
      BY <1>1, <1>2, <2>2, <2>4 DEF CreateFailed, Reply, Goto, Shape, Pcs, RequestInv,
           Belongs, Creating, Inserting, Settled, Answered, Complete, Items
    <3> QED
      BY <2>2, <2>3, <2>4, <3>1, <3>2, OneRequest, QuotaUntouched
  <2>5. CASE taken
    <3>1. charged' \in [Requests -> SUBSET Nat]
      BY <1>1, <2>5 DEF Shape
    <3>2. Shape'
      BY <1>1, <1>3, <2>2, <2>5, <3>1 DEF CreateFailed, Reply, Goto, Shape, Pcs, Lossy
    <3>3. RequestInv(r)'
      BY <1>1, <1>2, <2>2, <2>5 DEF CreateFailed, Reply, Goto, Shape, Pcs, Lossy, RequestInv,
           Belongs, Creating, Inserting, Settled, Answered, Complete, Items
    <3>4. QuotaConserved'
      BY <1>2, <2>2, <2>5, TakeConserves
    <3> QED
      BY <2>3, <3>2, <3>3, <3>4, OneRequest
  <2> QED
    BY <2>1, <2>4, <2>5
<1> QED
  BY <1>4, <1>5, <1>6

(* One transaction stores the notification and its log, or neither. *)
LEMMA CreateStep ==
    ASSUME IndInv, NEW r \in Requests, Create(r) \/ CreateFails(r)
    PROVE  IndInv'
<1> USE DEF IndInv
<1>1. /\ call[r] \in Calls /\ call[r].batch = FALSE /\ call[r].immediate \in BOOLEAN
      /\ call[r].callback \in BOOLEAN /\ Items(r) # {} /\ Items(r) \subseteq Nat
  <2>1. ~call[r].batch
    BY DEF Create, CreateFails, RequestInv, Creating
  <2> QED
    BY <2>1, CallAssumption, ItemsFinite DEF Shape
<1>2. /\ pc[r] = "create" /\ charged[r] = Items(r) /\ rows[r] = {} /\ logs[r] = {} /\ RequestInv(r)
      /\ failed[r] = FALSE
  BY DEF Create, CreateFails, RequestInv, Creating, Belongs, Shape
<1>3. QuotaConserved'
  BY QuotaUntouched DEF Create, CreateFails, ghost
<1>4. CASE Create(r)
  <2>1. Shape'
    BY <1>1, <1>4 DEF Create, StoreOne, CreatedAnswer, Reply, Goto, Shape, Pcs, ghost
  <2>2. \A q \in Requests \ {r} : Same(q)
    BY <1>4 DEF Create, StoreOne, Reply, Goto, Shape, Same, ghost
  <2>3. /\ call' = call /\ pc'[r] = "done" /\ rows'[r] = Items(r) /\ charged'[r] = Items(r)
        /\ logs'[r] = (IF call[r].callback THEN Items(r) ELSE {})
        /\ reply'[r] = CreatedAnswer(r) /\ lossy' = lossy
    BY <1>2, <1>4 DEF Create, StoreOne, Reply, Goto, Shape, ghost
  <2>4. RequestInv(r)'
    BY <1>1, <1>2, <2>3 DEF CreatedAnswer, RequestInv, Belongs, Creating, Inserting,
         Settled, Answered, Complete, Items
  <2> QED
    BY <1>3, <2>1, <2>2, <2>4, OneRequest
<1>5. CASE CreateFails(r)
  <2> DEFINE nothing == UNCHANGED <<rows, logs, lossy>>
             stored == StoreOne(r) /\ Lossy(r)
  <2>1. nothing \/ stored
    BY <1>5 DEF CreateFails
  <2>2. /\ Goto(r, "refund") /\ failed' = [failed EXCEPT ![r] = TRUE]
        /\ UNCHANGED <<call, ctxDone, quota, todo, reply, charged, unearned>>
    BY <1>5 DEF CreateFails
  <2>3. \A q \in Requests \ {r} : Same(q)
    BY <2>1, <2>2 DEF StoreOne, Goto, Shape, Same, Lossy
  <2>4. CASE nothing
    <3>1. Shape'
      BY <2>2, <2>4 DEF Goto, Shape, Pcs
    <3>2. RequestInv(r)'
      BY <1>1, <1>2, <2>2, <2>4 DEF Goto, Shape, Pcs, RequestInv,
           Belongs, Creating, Inserting, Settled, Answered, Complete, Items
    <3> QED
      BY <1>3, <2>3, <3>1, <3>2, OneRequest
  <2>5. CASE stored
    <3>1. Shape'
      BY <1>1, <2>2, <2>5 DEF StoreOne, Lossy, Goto, Shape, Pcs
    <3>2. RequestInv(r)'
      BY <1>1, <1>2, <2>2, <2>5 DEF StoreOne, Lossy, Goto, Shape, Pcs, RequestInv,
           Belongs, Creating, Inserting, Settled, Answered, Complete, Items
    <3> QED
      BY <1>3, <2>3, <3>1, <3>2, OneRequest
  <2> QED
    BY <2>1, <2>4, <2>5
<1> QED
  BY <1>4, <1>5

(* The statements a database executed: those of its group, `done' with their callback logs
   and `half' without. *)
LEMMA ExecStep ==
    ASSUME Shape, NEW r \in Requests, NEW d, NEW done, NEW half, RequestInv(r),
           done \subseteq Group(r, d), half \subseteq Group(r, d), pc[r] = "insert", d \in todo[r],
           Exec(r, d, done, half), todo' = [todo EXCEPT ![r] = @ \ {d}],
           UNCHANGED <<call, pc, reply, charged>>,
           failed' \in [Requests -> BOOLEAN], lossy' \in [Requests -> BOOLEAN],
           lossy[r] => lossy'[r], failed[r] => failed'[r],
           ~failed'[r] => done = Group(r, d),
           failed'[r] /\ ~failed[r] /\ ~lossy'[r] => \E i \in Group(r, d) : Missing(r, i)'
    PROVE  /\ RequestInv(r)'
           /\ rows' \in [Requests -> SUBSET Nat] /\ logs' \in [Requests -> SUBSET Nat]
           /\ todo' \in [Requests -> SUBSET Dbs]
           /\ \A q \in Requests \ {r} : rows'[q] = rows[q] /\ logs'[q] = logs[q] /\ todo'[q] = todo[q]
<1>1. /\ call[r] \in Calls /\ call[r].batch \in BOOLEAN /\ call[r].callback \in BOOLEAN
      /\ Items(r) # {} /\ Items(r) \subseteq Nat
  BY CallAssumption, ItemsFinite DEF Shape
<1> DEFINE logged == IF call[r].callback THEN done ELSE {}
<1>2. Group(r, d) \subseteq Items(r) /\ \A i \in Group(r, d) : DbOf[i] = d
  BY DEF Group
<1>3. /\ rows' \in [Requests -> SUBSET Nat] /\ logs' \in [Requests -> SUBSET Nat]
      /\ todo' \in [Requests -> SUBSET Dbs]
      /\ \A q \in Requests \ {r} : rows'[q] = rows[q] /\ logs'[q] = logs[q] /\ todo'[q] = todo[q]
  BY <1>1, <1>2 DEF Exec, Shape
<1>4. /\ rows'[r] = rows[r] \cup done \cup half /\ logs'[r] = logs[r] \cup logged
      /\ todo'[r] = todo[r] \ {d} /\ Items(r)' = Items(r)
      /\ failed[r] \in BOOLEAN /\ lossy[r] \in BOOLEAN /\ failed'[r] \in BOOLEAN /\ lossy'[r] \in BOOLEAN
  BY DEF Exec, Shape, Items
<1>5. /\ logs[r] \subseteq rows[r] /\ rows[r] \subseteq Items(r) /\ call[r].batch
      /\ charged[r] = Items(r) /\ reply[r] = "none"
      /\ \A i \in Items(r) : DbOf[i] \in todo[r] => i \notin rows[r]
      /\ ~failed[r] => \A i \in Items(r) : DbOf[i] \notin todo[r] => ~Missing(r, i)
      /\ failed[r] /\ ~lossy[r] => \E i \in Items(r) : DbOf[i] \notin todo[r] /\ Missing(r, i)
  BY DEF RequestInv, Belongs, Inserting, Creating, Answered
<1>6. Belongs(r)'
  BY <1>2, <1>4, <1>5 DEF RequestInv, Belongs
<1>7. Creating(r)' /\ Settled(r)' /\ Answered(r)'
  BY <1>4, <1>5 DEF Creating, Settled, Answered
<1>8. \A i \in Items(r) : DbOf[i] \in todo'[r] => i \notin rows'[r]
  BY <1>2, <1>4, <1>5
<1>9. ASSUME ~failed'[r], NEW i \in Items(r), DbOf[i] \notin todo'[r] PROVE ~Missing(r, i)'
  <2>1. CASE DbOf[i] = d
    <3>1. i \in done
      BY <1>9, <2>1 DEF Group
    <3> QED
      BY <1>4, <3>1 DEF Missing
  <2>2. CASE DbOf[i] # d
    <3>1. ~Missing(r, i)
      BY <1>4, <1>5, <1>9, <2>2
    <3> QED
      BY <1>4, <3>1 DEF Missing
  <2> QED
    BY <2>1, <2>2
<1>10. ASSUME failed'[r], ~lossy'[r] PROVE \E i \in Items(r) : DbOf[i] \notin todo'[r] /\ Missing(r, i)'
  <2>1. CASE failed[r]
    <3>1. PICK i \in Items(r) : DbOf[i] \notin todo[r] /\ Missing(r, i)
      BY <1>5, <1>10, <2>1
    <3>2. i \notin done /\ i \notin half
      BY <1>2, <3>1
    <3>3. Missing(r, i)'
      BY <1>4, <3>1, <3>2 DEF Missing
    <3> QED
      BY <1>4, <3>1, <3>3
  <2>2. CASE ~failed[r]
    <3>1. PICK i \in Group(r, d) : Missing(r, i)'
      BY <1>10, <2>2
    <3> QED
      BY <1>2, <1>4, <3>1
  <2> QED
    BY <2>1, <2>2
<1>11. Inserting(r)'
  BY <1>4, <1>5, <1>8, <1>9, <1>10 DEF Inserting
<1> QED
  BY <1>3, <1>6, <1>7, <1>11 DEF RequestInv

(* A database returns: all of its group is stored, or it breaks off, or its last answer is
   lost. *)
LEMMA InsertStep ==
    ASSUME IndInv, NEW r \in Requests, NEW d,
           InsertDb(r, d) \/ InsertDbFails(r, d) \/ InsertDbLost(r, d)
    PROVE  IndInv'
<1> USE DEF IndInv
<1>1. /\ pc[r] = "insert" /\ d \in todo[r] /\ RequestInv(r) /\ Shape
      /\ UNCHANGED <<call, pc, ctxDone, quota, reply, charged, unearned>>
      /\ todo' = [todo EXCEPT ![r] = @ \ {d}]
  BY DEF InsertDb, InsertDbFails, InsertDbLost, ghost
<1>2. QuotaConserved'
  BY <1>1, QuotaUntouched
<1>3. SUFFICES /\ failed' \in [Requests -> BOOLEAN] /\ lossy' \in [Requests -> BOOLEAN]
               /\ \A q \in Requests \ {r} : failed'[q] = failed[q] /\ lossy'[q] = lossy[q]
               /\ lossy[r] => lossy'[r]
               /\ failed[r] => failed'[r]
               /\ \E done, half \in SUBSET Group(r, d) :
                     /\ Exec(r, d, done, half)
                     /\ ~failed'[r] => done = Group(r, d)
                     /\ failed'[r] /\ ~failed[r] /\ ~lossy'[r] =>
                           \E i \in Group(r, d) : Missing(r, i)'
  <2>1. PICK done \in SUBSET Group(r, d), half \in SUBSET Group(r, d) :
                     /\ Exec(r, d, done, half)
                     /\ ~failed'[r] => done = Group(r, d)
                     /\ failed'[r] /\ ~failed[r] /\ ~lossy'[r] =>
                           \E i \in Group(r, d) : Missing(r, i)'
    BY <1>3
  <2>2. /\ RequestInv(r)'
        /\ rows' \in [Requests -> SUBSET Nat] /\ logs' \in [Requests -> SUBSET Nat]
        /\ todo' \in [Requests -> SUBSET Dbs]
        /\ \A q \in Requests \ {r} : rows'[q] = rows[q] /\ logs'[q] = logs[q] /\ todo'[q] = todo[q]
    BY <1>1, <1>3, <2>1, ExecStep
  <2>3. Shape'
    BY <1>1, <1>3, <2>2 DEF Shape
  <2>4. \A q \in Requests \ {r} : Same(q)
    BY <1>1, <1>3, <2>2 DEF Same
  <2> QED
    BY <1>2, <2>2, <2>3, <2>4, OneRequest
<1>4. CASE InsertDb(r, d)
  <2>1. Exec(r, d, Group(r, d), {}) /\ failed' = failed /\ lossy' = lossy
    BY <1>4 DEF InsertDb, ghost
  <2>2. {} \in SUBSET Group(r, d) /\ Group(r, d) \in SUBSET Group(r, d)
    OBVIOUS
  <2> QED
    BY <1>1, <2>1, <2>2 DEF Shape
<1>5. CASE InsertDbFails(r, d)
  <2>1. /\ failed' \in [Requests -> BOOLEAN] /\ lossy' = lossy /\ lossy \in [Requests -> BOOLEAN]
        /\ failed'[r] = TRUE /\ \A q \in Requests \ {r} : failed'[q] = failed[q]
    BY <1>1, <1>5 DEF InsertDbFails, ghost, Shape
  <2>2. PICK at \in Group(r, d) :
          \E half \in {{}, IF call[r].callback THEN {at} ELSE {}} :
              Exec(r, d, {i \in Group(r, d) : i < at}, half)
    BY <1>5 DEF InsertDbFails
  <2> DEFINE done == {i \in Group(r, d) : i < at}
  <2>3. PICK half \in {{}, IF call[r].callback THEN {at} ELSE {}} : Exec(r, d, done, half)
    BY <2>2
  <2>4. at \in Items(r) /\ DbOf[at] = d /\ at \in Nat
    BY <1>1, ItemsFinite DEF Group
  <2>5. at \notin done /\ at \notin rows[r] /\ at \notin logs[r] /\ done \subseteq Group(r, d)
    BY <1>1, <2>4 DEF RequestInv, Inserting, Belongs
  <2>6. half = {} \/ (call[r].callback /\ half = {at})
    BY <2>3
  <2> HIDE DEF done
  <2>7. /\ rows'[r] = rows[r] \cup done \cup half
        /\ logs'[r] = logs[r] \cup (IF call[r].callback THEN done ELSE {}) /\ call' = call
    BY <1>1, <2>3 DEF Exec, Shape
  <2>8. Missing(r, at)'
    BY <2>5, <2>6, <2>7 DEF Missing
  <2>9. done \in SUBSET Group(r, d) /\ half \in SUBSET Group(r, d)
    BY <2>5, <2>6
  <2> QED
    BY <2>1, <2>3, <2>8, <2>9
<1>6. CASE InsertDbLost(r, d)
  <2>1. Exec(r, d, Group(r, d), {}) /\ failed' = [failed EXCEPT ![r] = TRUE] /\ Lossy(r)
    BY <1>6 DEF InsertDbLost
  <2>2. {} \in SUBSET Group(r, d) /\ Group(r, d) \in SUBSET Group(r, d)
    OBVIOUS
  <2>3. failed' \in [Requests -> BOOLEAN] /\ lossy' \in [Requests -> BOOLEAN] /\ lossy'[r] = TRUE
        /\ failed'[r] = TRUE
        /\ \A q \in Requests \ {r} : failed'[q] = failed[q] /\ lossy'[q] = lossy[q]
    BY <1>1, <2>1 DEF Lossy, Shape
  <2> QED
    BY <2>1, <2>2, <2>3
<1> QED
  BY <1>4, <1>5, <1>6

(* All databases have returned: the batch is complete, or a failure was seen. *)
LEMMA WaitStep ==
    ASSUME IndInv, NEW r \in Requests, InsertWait(r)
    PROVE  IndInv'
<1> USE DEF IndInv
<1>1. /\ pc[r] = "insert" /\ todo[r] = {} /\ RequestInv(r) /\ Shape
      /\ UNCHANGED <<call, ctxDone, store, todo, failed, ghost>>
      /\ IF failed[r] THEN Goto(r, "refund") /\ UNCHANGED reply ELSE BatchCreated(r)
  BY DEF InsertWait
<1>2. QuotaConserved'
  BY <1>1, QuotaUntouched DEF store, ghost
<1>3. Shape'
  BY <1>1 DEF BatchCreated, Reply, Goto, Shape, Pcs, store, ghost
<1>4. \A q \in Requests \ {r} : Same(q)
  BY <1>1 DEF BatchCreated, Reply, Goto, Shape, Same, store, ghost
<1>5. /\ call[r].batch /\ charged[r] = Items(r) /\ reply[r] = "none"
      /\ ~failed[r] => \A i \in Items(r) : ~Missing(r, i)
      /\ failed[r] /\ ~lossy[r] => \E i \in Items(r) : Missing(r, i)
      /\ rows[r] \subseteq Items(r) /\ logs[r] \subseteq rows[r]
  BY <1>1 DEF RequestInv, Inserting, Creating, Answered, Belongs
<1>6. (~failed[r] => Complete(r)) /\ (failed[r] /\ ~lossy[r] => ~Complete(r))
  BY <1>5 DEF Complete, Missing
<1>7. /\ Items(r)' = Items(r) /\ (Complete(r)' <=> Complete(r)) /\ charged' = charged /\ rows' = rows
      /\ logs' = logs /\ lossy' = lossy /\ failed' = failed /\ call' = call
  BY <1>1 DEF Items, Complete, store, ghost
<1>8. CASE failed[r]
  <2>1. pc'[r] = "refund" /\ reply' = reply
    BY <1>1, <1>8 DEF Goto, Shape
  <2>2. RequestInv(r)'
    BY <1>1, <1>5, <1>6, <1>7, <1>8, <2>1
       DEF RequestInv, Belongs, Creating, Inserting, Settled, Answered
  <2> QED
    BY <1>2, <1>3, <1>4, <2>2, OneRequest
<1>9. CASE ~failed[r]
  <2>1. \/ pc'[r] = "send" /\ reply'[r] = "none"
        \/ pc'[r] = "done" /\ reply'[r] = "ok"
    BY <1>1, <1>5, <1>9 DEF BatchCreated, Reply, Goto, Shape
  <2>2. RequestInv(r)'
    BY <1>1, <1>5, <1>6, <1>7, <1>9, <2>1
       DEF RequestInv, Belongs, Creating, Inserting, Settled, Answered
  <2> QED
    BY <1>2, <1>3, <1>4, <2>2, OneRequest
<1> QED
  BY <1>8, <1>9

(* What a request was charged is given back in full. *)
LEMMA RefundConserves ==
    ASSUME Shape, QuotaConserved, NEW r \in Requests, charged[r] = Items(r),
           UNCHANGED <<call, unearned>>, quota' = Incr(quota, NeedOf(r)),
           charged' = [charged EXCEPT ![r] = {}]
    PROVE  QuotaConserved'
<1>1. quota' \in [Channels -> Int] /\ unearned' \in [Channels -> Nat] /\ Items(r) # {}
  BY IncrLeft, ItemsFinite DEF Shape
<1>2. ASSUME NEW c \in Channels
      PROVE  Positive(quota'[c]) - Positive(quota[c]) =
                 (IF charged[r] = {} THEN 0 ELSE Need(r, c)) - (IF {} = {} THEN 0 ELSE Need(r, c))
                 + unearned'[c] - unearned[c]
  <2>1. /\ Positive(quota'[c]) = Positive(quota[c]) + Need(r, c)
        /\ Need(r, c) \in Nat /\ unearned[c] \in Nat /\ unearned'[c] = unearned[c]
        /\ Positive(quota[c]) \in Int
    BY IncrLeft, NeedType DEF Shape, Positive
  <2> QED
    BY <1>1, <2>1
<1> QED
  BY <1>1, <1>2, QuotaMoves

(* The refund of a failed creation, and its loss. *)
LEMMA RefundStep ==
    ASSUME IndInv, NEW r \in Requests, Refund(r) \/ RefundFails(r)
    PROVE  IndInv'
<1> USE DEF IndInv
<1> DEFINE back == quota' = Incr(quota, NeedOf(r)) /\ charged' = [charged EXCEPT ![r] = {}] /\ lossy' = lossy
           lost == Lossy(r) /\ UNCHANGED <<quota, charged>>
<1>1. /\ pc[r] = "refund" /\ RequestInv(r) /\ Shape /\ AfterRefund(r)
      /\ UNCHANGED <<call, ctxDone, rows, logs, todo, failed, unearned>>
  BY DEF Refund, RefundFails
<1>2. back \/ lost
  BY DEF Refund, RefundFails
<1>3. /\ call[r] \in Calls /\ call[r].batch \in BOOLEAN /\ call[r].immediate \in BOOLEAN
  BY CallAssumption DEF Shape
<1>4. \/ pc' = [pc EXCEPT ![r] = "send"] /\ reply' = reply /\ call[r].immediate
      \/ /\ pc' = [pc EXCEPT ![r] = "done"] /\ reply' = [reply EXCEPT ![r] = "ok"]
         /\ call[r].batch
      \/ /\ pc' = [pc EXCEPT ![r] = "done"] /\ reply' = [reply EXCEPT ![r] = "error"]
         /\ ~call[r].batch /\ ~call[r].immediate
  BY <1>1 DEF AfterRefund, BatchCreated, CreateFailed, Reply, Goto
<1>5. \A q \in Requests \ {r} : Same(q)
  BY <1>1, <1>2, <1>4 DEF Shape, Same, Lossy
<1>6. /\ charged[r] = Items(r) /\ failed[r] /\ reply[r] = "none" /\ Belongs(r)
      /\ ~call[r].batch /\ ~lossy[r] => rows[r] = {}
      /\ ~lossy[r] => ~Complete(r)
  BY <1>1 DEF RequestInv, Creating, Settled, Answered
<1>7. /\ Items(r)' = Items(r) /\ (Complete(r)' <=> Complete(r)) /\ rows' = rows /\ call' = call
      /\ logs' = logs /\ failed' = failed
  BY <1>1 DEF Items, Complete
<1>8. CASE back
  <2>1. Shape'
    <3>1. quota' \in [Channels -> Int]
      BY <1>1, <1>8, IncrLeft
    <3> QED
      BY <1>1, <1>4, <1>8, <3>1 DEF Shape, Pcs
  <2>2. charged'[r] = {}
    BY <1>1, <1>8 DEF Shape
  <2>3. RequestInv(r)'
    BY <1>1, <1>3, <1>4, <1>6, <1>7, <1>8, <2>2
       DEF Shape, RequestInv, Belongs, Creating, Inserting, Settled, Answered
  <2>4. QuotaConserved'
    BY <1>1, <1>6, <1>8, RefundConserves
  <2> QED
    BY <1>5, <2>1, <2>3, <2>4, OneRequest
<1>9. CASE lost
  <2>1. Shape'
    BY <1>1, <1>4, <1>9 DEF Shape, Pcs, Lossy
  <2>2. lossy'[r] = TRUE
    BY <1>1, <1>9 DEF Shape, Lossy
  <2>3. RequestInv(r)'
    BY <1>1, <1>3, <1>4, <1>6, <1>7, <1>9, <2>2
       DEF Shape, RequestInv, Belongs, Creating, Inserting, Settled, Answered
  <2>4. QuotaConserved'
    BY <1>1, <1>9, QuotaUntouched
  <2> QED
    BY <1>5, <2>1, <2>3, <2>4, OneRequest
<1> QED
  BY <1>2, <1>8, <1>9

(* The deliveries, the marking and the answers after them: the quota is not touched. *)
LEMMA SendStep ==
    ASSUME IndInv, NEW r \in Requests,
           \/ Send(r) \/ BatchSend(r) \/ Fetch(r) \/ MarkFailure(r)
           \/ GiveBackFails(r) \/ CtxEnds(r)
    PROVE  IndInv'
<1> USE DEF IndInv
<1>1. /\ RequestInv(r) /\ Shape /\ call' = call /\ rows' = rows /\ logs' = logs /\ quota' = quota
      /\ todo' = todo /\ failed' = failed /\ charged' = charged /\ unearned' = unearned /\ lossy' = lossy
  BY DEF Send, BatchSend, Fetch, MarkFailure, GiveBackFails, CtxEnds, store, ghost
<1>2. QuotaConserved'
  BY <1>1, QuotaUntouched
<1>3. /\ call[r] \in Calls /\ call[r].batch \in BOOLEAN /\ call[r].immediate \in BOOLEAN
      /\ Items(r) \subseteq Nat
  BY <1>1, CallAssumption, ItemsFinite DEF Shape
<1>4. /\ Items(r)' = Items(r) /\ (Complete(r)' <=> Complete(r))
  BY <1>1 DEF Items, Complete
<1>5. CASE CtxEnds(r)
  <2>1. Shape'
    BY <1>1, <1>5 DEF CtxEnds, Shape, store, ghost
  <2>2. \A q \in Requests : Same(q)
    BY <1>1, <1>5 DEF CtxEnds, Same
  <2> QED
    BY <1>2, <2>1, <2>2, Frame, OneRequest
<1>6. CASE Send(r) \/ BatchSend(r)
  <2>1. PICK to \in {"markFailure", "fetch"} :
          /\ pc[r] = "send" /\ ctxDone' = ctxDone /\ reply' = reply
          /\ pc' = [pc EXCEPT ![r] = to] /\ (call[r].batch <=> to = "fetch")
    BY <1>6 DEF Send, BatchSend, Goto
  <2>2. Shape'
    BY <1>1, <1>3, <2>1 DEF Shape, Pcs
  <2>3. \A q \in Requests \ {r} : Same(q)
    BY <1>1, <2>1 DEF Shape, Same
  <2>4. RequestInv(r)'
    BY <1>1, <1>3, <1>4, <2>1
       DEF Shape, RequestInv, Belongs, Creating, Inserting, Settled, Answered
  <2> QED
    BY <1>2, <2>2, <2>3, <2>4, OneRequest
<1>7. CASE Fetch(r) \/ MarkFailure(r) \/ GiveBackFails(r)
  <2>1. /\ pc[r] \in {"fetch", "markFailure", "giveBack"}
        /\ ctxDone' = ctxDone
        /\ \/ /\ pc' = [pc EXCEPT ![r] = "done"]
              /\ \E answer \in {"ok", "error"} : reply' = [reply EXCEPT ![r] = answer]
           \/ pc[r] = "markFailure" /\ pc' = [pc EXCEPT ![r] = "giveBack"] /\ reply' = reply
    BY <1>7 DEF Fetch, MarkFailure, GiveBackFails, Reply, Goto
  <2>2. Shape'
    BY <1>1, <1>3, <2>1 DEF Shape, Pcs
  <2>3. \A q \in Requests \ {r} : Same(q)
    BY <1>1, <2>1 DEF Shape, Same
  <2>4. RequestInv(r)'
    BY <1>1, <1>3, <1>4, <2>1
       DEF Shape, RequestInv, Belongs, Creating, Inserting, Settled, Answered
  <2> QED
    BY <1>2, <2>2, <2>3, <2>4, OneRequest
<1> QED
  BY <1>5, <1>6, <1>7

(* The sender gives a unit back for a notification it could not deliver, charged or not. *)
LEMMA GiveBackStep ==
    ASSUME IndInv, NEW r \in Requests, GiveBack(r)
    PROVE  IndInv'
<1> USE DEF IndInv
<1> DEFINE k == Key(r, 1)
<1>1. /\ RequestInv(r) /\ Shape /\ pc[r] = "giveBack"
      /\ quota' = Incr(quota, NeedOf(r)) /\ charged' = [charged EXCEPT ![r] = {}]
      /\ unearned' = [unearned EXCEPT ![k] = IF charged[r] = {} THEN @ + 1 ELSE @]
      /\ UNCHANGED <<call, ctxDone, rows, logs, todo, failed, lossy>>
      /\ pc' = [pc EXCEPT ![r] = "done"]
      /\ \E answer \in {"ok", "error"} : reply' = [reply EXCEPT ![r] = answer]
  BY DEF GiveBack, Reply, Goto
<1>2. ~call[r].batch /\ call[r].immediate /\ (~lossy[r] => ~Complete(r)) /\ charged[r] \in {{}, Items(r)}
  BY <1>1 DEF RequestInv, Settled, Belongs
<1>3. k \in Channels /\ Items(r) # {} /\ \A c : Need(r, c) = IF c = k THEN 1 ELSE 0
  BY <1>1, <1>2, ItemsFinite, NeedSingle
<1>4. quota' \in [Channels -> Int] /\ \A c \in Channels : Positive(quota'[c]) = Positive(quota[c]) + Need(r, c)
  BY <1>1, IncrLeft
<1> HIDE DEF k
<1>5. /\ unearned \in [Channels -> Nat] /\ unearned' \in [Channels -> Nat]
      /\ \A c \in Channels : unearned'[c] = unearned[c] + (IF c = k /\ charged[r] = {} THEN 1 ELSE 0)
  BY <1>1, <1>3 DEF Shape
<1>6. QuotaConserved'
  <2>1. ASSUME NEW c \in Channels
        PROVE  Positive(quota'[c]) - Positive(quota[c]) =
                   (IF charged[r] = {} THEN 0 ELSE Need(r, c)) - (IF {} = {} THEN 0 ELSE Need(r, c))
                   + unearned'[c] - unearned[c]
    <3>1. Positive(quota[c]) \in Int /\ unearned[c] \in Nat /\ Need(r, c) = IF c = k THEN 1 ELSE 0
      BY <1>1, <1>3, <1>5 DEF Shape, Positive
    <3>2. /\ Positive(quota'[c]) = Positive(quota[c]) + Need(r, c)
          /\ unearned'[c] = unearned[c] + (IF c = k /\ charged[r] = {} THEN 1 ELSE 0)
      BY <1>4, <1>5
    <3> QED
      BY <3>1, <3>2
  <2> QED
    BY <1>1, <1>2, <1>4, <1>5, <2>1, QuotaMoves
<1>7. Shape'
  BY <1>1, <1>4, <1>5 DEF Shape, Pcs
<1>8. \A q \in Requests \ {r} : Same(q)
  BY <1>1 DEF Shape, Same
<1>9. /\ Items(r)' = Items(r) /\ (Complete(r)' <=> Complete(r)) /\ charged'[r] = {}
  BY <1>1 DEF Items, Complete, Shape
<1>10. RequestInv(r)'
  BY <1>1, <1>2, <1>9
     DEF Shape, RequestInv, Belongs, Creating, Inserting, Settled, Answered
<1> QED
  BY <1>6, <1>7, <1>8, <1>10, OneRequest

(* The process dies: its requests are left as they are, without an answer. *)
LEMMA DieStep ==
    ASSUME IndInv, Die, UNCHANGED <<call, ctxDone, store, todo, failed, reply, ghost>>
    PROVE  IndInv'
<1> USE DEF IndInv
<1>1. QuotaConserved'
  BY QuotaUntouched DEF store, ghost
<1>2. Shape'
  BY DEF Die, Shape, Pcs, store, ghost
<1>3. ASSUME NEW r \in Requests PROVE RequestInv(r)'
  <2>1. /\ RequestInv(r) /\ call' = call /\ Items(r)' = Items(r) /\ (Complete(r)' <=> Complete(r))
        /\ rows' = rows /\ logs' = logs /\ charged' = charged /\ lossy' = lossy /\ reply' = reply
    BY DEF Items, Complete, store, ghost
  <2>2. pc'[r] = "dead" \/ (pc'[r] = "done" /\ pc[r] = "done")
    BY DEF Die, Active, Shape
  <2>3. pc'[r] # "done" => reply[r] = "none"
    BY <2>1, <2>2 DEF Die, Active, RequestInv, Answered
  <2> QED
    BY <2>1, <2>2, <2>3
       DEF RequestInv, Belongs, Creating, Inserting, Settled, Answered
<1> QED
  BY <1>1, <1>2, <1>3

(* The invariant is inductive. *)
LEMMA NextInv == IndInv /\ [Next]_vars => IndInv'
<1> SUFFICES ASSUME IndInv, [Next]_vars PROVE IndInv'
  OBVIOUS
<1> USE DEF IndInv
<1>1. CASE UNCHANGED vars
  <2>1. QuotaConserved' /\ Shape'
    BY <1>1, QuotaUntouched DEF vars, store, ghost, Shape
  <2>2. \A r \in Requests : Same(r)
    BY <1>1 DEF vars, store, ghost, Same
  <2> QED
    BY <2>1, <2>2, Frame
<1>2. ASSUME NEW r \in Requests, Step(r) \/ CtxEnds(r) PROVE IndInv'
  BY <1>2, DecrStep, CreateStep, InsertStep, WaitStep, RefundStep, SendStep, GiveBackStep DEF Step
<1>3. ASSUME NEW r \in Requests, GetTemplatePanics(r) \/ ProviderPanics(r) PROVE IndInv'
  BY <1>3, DieStep DEF GetTemplatePanics, ProviderPanics
<1>4. CASE Crash
  BY <1>4, DieStep DEF Crash
<1> QED
  BY <1>1, <1>2, <1>3, <1>4 DEF Next, Finished

-----------------------------------------------------------------------------
(* What holds of every run of the send path, however many requests run at the same time,
   whatever fails, loses its answer or dies. *)

(* The invariant: every request is in a consistent state of its own, and all of them
   together have taken from the counters what they are charged for. *)
THEOREM SendInvariant == Spec => []IndInv
BY InitInv, NextInv, PTL DEF Spec

(* Every variable keeps its type; what is stored and charged for a request is
   part of the request. *)
THEOREM SendTypeOK == Spec => []TypeOK
<1>1. IndInv => TypeOK
  BY DEF IndInv, Shape, RequestInv, Belongs, TypeOK
<1> QED
  BY <1>1, SendInvariant, PTL

(* Decrements, refunds and unearned refunds conserve the quota of every channel: what is
   left and what is charged add up to what the business had, plus what MarkFailure gave
   back for notifications that were never charged. *)
THEOREM SendQuotaConserved == Spec => []QuotaConserved
<1>1. IndInv => QuotaConserved
  BY DEF IndInv
<1> QED
  BY <1>1, SendInvariant, PTL

(* The answer of the default strategy's Send says whether the notification is stored and
   charged. *)
THEOREM SendAnswerReliable == Spec => []AnswerReliable
<1>1. IndInv => AnswerReliable
  BY DEF IndInv, RequestInv, Answered, AnswerReliable
<1> QED
  BY <1>1, SendInvariant, PTL

(* When a request ends, tryBatchInsert and the refund after it have settled its quota: all
   of it for a request that is stored completely, none for any other. *)
THEOREM SendChargedIffCreated == Spec => []ChargedIffCreated
<1>1. IndInv => ChargedIffCreated
  BY DEF IndInv, RequestInv, Settled, ChargedIffCreated
<1> QED
  BY <1>1, SendInvariant, PTL

(* The DAO stores no callback log before its notification. *)
THEOREM SendLogHasNotification == Spec => []LogHasNotification
<1>1. IndInv => LogHasNotification
  BY DEF IndInv, RequestInv, Belongs, LogHasNotification
<1> QED
  BY <1>1, SendInvariant, PTL
====
