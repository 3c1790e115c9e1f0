-------------------------- MODULE NotificationSend --------------------------
(***************************************************************************)
(* The send path of one business: DefaultSendService hands a request to    *)
(* the strategy of its (first) notification, the strategy stores the       *)
(* notifications through DefaultNotifRepo, which takes their quota in      *)
(* redis first and gives it back when the DAO fails, and the immediate     *)
(* strategy then hands them to DefaultSender.  Requests run concurrently   *)
(* and share the quota counters, one per channel.                          *)
(*                                                                         *)
(* Every call to redis or MySQL may fail; a failed call may have taken     *)
(* effect when its answer is lost (RedisLoses, DbLoses).  All calls of a   *)
(* request use the context of the request: once it is done they fail.      *)
(*                                                                         *)
(* No provider ever delivers: the one that is wired has no repository to   *)
(* find itself in, and panics or fails, and when all have failed a nil one *)
(* is called.  Only a channel that is not registered is answered with an   *)
(* error, so MarkSuccess is never reached.  No row ever changes its        *)
(* status: MarkFailure is given the id the service generated while the     *)
(* row, if there is one, was stored under an id of the DAO's own, and      *)
(* batchUpdateStatus is empty.  The immediate strategy stores no callback  *)
(* log, so SendByNotification(s) finds none.  Both only succeed or fail.   *)
(***************************************************************************)
EXTENDS Integers, Sequences, FiniteSets

CONSTANTS
    Requests,    \* the requests a run makes
    Channels,    \* the channels notifications may name; one quota key each
    Registered,  \* the channels of InitChannelMap
    Q0,          \* [Channels -> Nat] the quota of the business at the start
    Calls,       \* the requests to choose from, see CallAssumption
    Dbs,         \* the databases
    DbOf,        \* [Nat -> Dbs] the database of the i-th notification of a batch
    RedisLoses,  \* redis may fail, with or without effect, under a live context
    DbLoses      \* a MySQL commit may take effect although the call fails

(* A call: BatchSend or Send, the strategy chosen for its first notification, whether
   needCallbackLog answers TRUE (FALSE also when the business has no readable
   configuration), and the channel of each notification.  AsyncSend is a Send of the
   default strategy, BatchAsyncSend one BatchSend per strategy, at the same time. *)
ASSUME CallAssumption ==
    /\ IsFiniteSet(Requests)
    /\ Registered \subseteq Channels
    /\ Q0 \in [Channels -> Nat]
    /\ \A c \in Calls :
          /\ c.batch \in BOOLEAN /\ c.immediate \in BOOLEAN /\ c.callback \in BOOLEAN
          /\ c.items \in Seq(Channels) /\ c.items # <<>>
          /\ ~c.batch => Len(c.items) = 1
          /\ c.immediate => ~c.callback
          /\ \A i \in 1..Len(c.items) : DbOf[i] \in Dbs
    /\ RedisLoses \in BOOLEAN /\ DbLoses \in BOOLEAN

VARIABLES
    call,       \* [Requests -> Calls]
    pc,         \* where the handler of each request is
    ctxDone,    \* the request's context timed out or was cancelled
    quota,      \* redis: [Channels -> Int], the counters
    rows,       \* MySQL: the notifications of the request that are stored
    logs,       \* MySQL: the notifications that have a callback log
    todo,       \* databases whose insert of the batch has not returned
    failed,     \* an insert of the request failed
    reply,      \* what the client was told: "none", "ok", "error"
    charged,    \* history: the notifications quota was taken for and not returned
    unearned,   \* history: units given back that were not charged, by channel
    lossy       \* history: an answer to the request, or its refund, was lost

store == <<quota, rows, logs>>
ghost == <<charged, unearned, lossy>>
vars  == <<call, pc, ctxDone, store, todo, failed, reply, ghost>>

Items(r)   == DOMAIN call[r].items
Key(r, i)  == call[r].items[i]
Need(r, c) == Cardinality({i \in Items(r) : Key(r, i) = c})

(* A bug: notifications of other requests are in the group. *)
GroupOfAll(r, d) == {i \in DOMAIN DbOf : DbOf[i] = d}

(* tryBatchInsert's map m: the notifications of a batch that go to database d. *)
Group(r, d) == {i \in Items(r) : DbOf[i] = d}

Pcs == {"decr", "create", "insert", "refund", "send", "markFailure",
        "giveBack", "fetch", "done", "dead"}

TypeOK ==
    /\ call \in [Requests -> Calls]
    /\ pc \in [Requests -> Pcs]
    /\ ctxDone \in [Requests -> BOOLEAN]
    /\ quota \in [Channels -> Int]
    /\ \A r \in Requests :
          /\ rows[r] \subseteq Items(r)
          /\ logs[r] \subseteq Items(r)
          /\ todo[r] \subseteq Dbs
          /\ charged[r] \subseteq Items(r)
    /\ failed \in [Requests -> BOOLEAN]
    /\ reply \in [Requests -> {"none", "ok", "error"}]
    /\ unearned \in [Channels -> Nat]
    /\ lossy \in [Requests -> BOOLEAN]

(* Valid requests: Validate has accepted them and NextId has numbered them. *)
Init ==
    /\ call \in [Requests -> Calls]
    /\ pc = [r \in Requests |-> "decr"]
    /\ ctxDone = [r \in Requests |-> FALSE]
    /\ quota = Q0
    /\ rows = [r \in Requests |-> {}]
    /\ logs = [r \in Requests |-> {}]
    /\ todo = [r \in Requests |-> {}]
    /\ failed = [r \in Requests |-> FALSE]
    /\ reply = [r \in Requests |-> "none"]
    /\ charged = [r \in Requests |-> {}]
    /\ unearned = [c \in Channels |-> 0]
    /\ lossy = [r \in Requests |-> FALSE]

Goto(r, to) == pc' = [pc EXCEPT ![r] = to]

Reply(r, answer) ==
    /\ Goto(r, "done")
    /\ reply' = [reply EXCEPT ![r] = answer]

Lossy(r) == lossy' = [lossy EXCEPT ![r] = TRUE]

---------------------------------------------------------------------------
(* The redis scripts, on the counters q. *)

(* quota_bach_decr.lua: nothing is taken unless every key of the batch has enough. *)
BatchDecr(q, need) ==
    IF \A c \in Channels : need[c] > 0 => q[c] >= need[c]
    THEN [ok |-> TRUE, q |-> [c \in Channels |-> q[c] - need[c]]]
    ELSE [ok |-> FALSE, q |-> q]

(* DECRBY key 1: below zero is refused, and not undone. *)
Decr(q, c) == [ok |-> q[c] >= 1, q |-> [q EXCEPT ![c] = @ - 1]]

(* A bug: a negative counter is not reset first. *)
IncrPlain(q, need) == [c \in Channels |-> q[c] + need[c]]

(* quota_incr.lua and quota_bach_incr.lua: a negative counter is set, not increased. *)
Incr(q, need) ==
    [c \in Channels |-> IF need[c] = 0 THEN q[c] ELSE (IF q[c] < 0 THEN 0 ELSE q[c]) + need[c]]

NeedOf(r) == [c \in Channels |-> Need(r, c)]

---------------------------------------------------------------------------
(* Create, CreateWithCallback, BatchCreate, BatchCreateWithCallback of the repository. *)

TakeQuota(r) ==
    IF call[r].batch THEN BatchDecr(quota, NeedOf(r)) ELSE Decr(quota, Key(r, 1))

(* What the strategy does when the repository returns an error: the immediate Send
   calls the sender, every other method returns the error. *)
CreateFailed(r) ==
    IF call[r].immediate /\ ~call[r].batch
    THEN Goto(r, "send") /\ UNCHANGED reply
    ELSE Reply(r, "error")

DecrGranted(r) ==
    /\ pc[r] = "decr"
    /\ ~ctxDone[r]
    /\ TakeQuota(r).ok
    /\ quota' = TakeQuota(r).q
    /\ charged' = [charged EXCEPT ![r] = Items(r)]
    /\ Goto(r, IF call[r].batch THEN "insert" ELSE "create")
    /\ todo' = [todo EXCEPT ![r] = IF call[r].batch THEN {DbOf[i] : i \in Items(r)} ELSE {}]
    /\ UNCHANGED <<call, ctxDone, rows, logs, failed, reply, unearned, lossy>>

DecrRefused(r) ==
    /\ pc[r] = "decr"
    /\ ~ctxDone[r]
    /\ ~TakeQuota(r).ok
    /\ quota' = TakeQuota(r).q
    /\ CreateFailed(r)
    /\ UNCHANGED <<call, ctxDone, rows, logs, todo, failed, ghost>>

(* redis does not answer, or ctx is done; the quota may have been taken. *)
DecrFails(r) ==
    /\ pc[r] = "decr"
    /\ CreateFailed(r)
    /\ \/ /\ ctxDone[r] \/ RedisLoses
          /\ UNCHANGED <<quota, charged, lossy>>
       \/ /\ RedisLoses
          /\ quota' = TakeQuota(r).q
          /\ charged' = [charged EXCEPT ![r] = IF TakeQuota(r).ok THEN Items(r) ELSE {}]
          /\ Lossy(r)
    /\ UNCHANGED <<call, ctxDone, rows, logs, todo, failed, unearned>>

(* The DAO's create: the notification and its callback log in one transaction. *)
StoreOne(r) ==
    /\ rows' = [rows EXCEPT ![r] = Items(r)]
    /\ logs' = [logs EXCEPT ![r] = IF call[r].callback THEN Items(r) ELSE {}]

(* A bug: the insert is not rolled back when the callback log cannot be stored. *)
CreateFailsHalf(r) ==
    /\ pc[r] = "create"
    /\ Goto(r, "refund")
    /\ failed' = [failed EXCEPT ![r] = TRUE]
    /\ rows' = [rows EXCEPT ![r] = Items(r)]
    /\ UNCHANGED <<call, ctxDone, quota, logs, todo, reply, ghost>>

(* The immediate strategy tests the error the wrong way round: a stored notification is
   answered with an error and never sent, and what follows that test is never reached. *)
CreatedAnswer(r) == IF call[r].immediate THEN "error" ELSE "ok"

Create(r) ==
    /\ pc[r] = "create"
    /\ ~ctxDone[r]
    /\ StoreOne(r)
    /\ Reply(r, CreatedAnswer(r))
    /\ UNCHANGED <<call, ctxDone, quota, todo, failed, ghost>>

CreateFails(r) ==
    /\ pc[r] = "create"
    /\ Goto(r, "refund")
    /\ failed' = [failed EXCEPT ![r] = TRUE]
    /\ \/ UNCHANGED <<rows, logs, lossy>>
       \/ DbLoses /\ StoreOne(r) /\ Lossy(r)
    /\ UNCHANGED <<call, ctxDone, quota, todo, reply, charged, unearned>>

(* A bug: the callback log is inserted before its notification. *)
ExecLogFirst(r, d, done, half) ==
    /\ rows' = [rows EXCEPT ![r] = @ \cup done]
    /\ logs' = [logs EXCEPT ![r] = @ \cup (IF call[r].callback THEN done \cup half ELSE {})]

(* tryBatchInsert on one database: a list of INSERT statements, each committed by itself,
   the callback log of a notification after the notification.  The statements for `done'
   were executed, and of those for `half' only the notification's. *)
Exec(r, d, done, half) ==
    /\ rows' = [rows EXCEPT ![r] = @ \cup done \cup half]
    /\ logs' = [logs EXCEPT ![r] = @ \cup (IF call[r].callback THEN done ELSE {})]

InsertDb(r, d) ==
    /\ pc[r] = "insert" /\ d \in todo[r]
    /\ ~ctxDone[r]
    /\ Exec(r, d, Group(r, d), {})
    /\ todo' = [todo EXCEPT ![r] = @ \ {d}]
    /\ UNCHANGED <<call, pc, ctxDone, quota, failed, reply, ghost>>

(* The list breaks off before notification `at', or between it and its callback log; the
   statements before stay executed. *)
InsertDbFails(r, d) ==
    /\ pc[r] = "insert" /\ d \in todo[r]
    /\ \E at \in Group(r, d) :
          LET done == {i \in Group(r, d) : i < at} IN
          \E half \in {{}, IF call[r].callback THEN {at} ELSE {}} :
              Exec(r, d, done, half)
    /\ todo' = [todo EXCEPT ![r] = @ \ {d}]
    /\ failed' = [failed EXCEPT ![r] = TRUE]
    /\ UNCHANGED <<call, pc, ctxDone, quota, reply, ghost>>

(* The answer to the last statement is lost. *)
InsertDbLost(r, d) ==
    /\ DbLoses
    /\ pc[r] = "insert" /\ d \in todo[r]
    /\ Exec(r, d, Group(r, d), {})
    /\ todo' = [todo EXCEPT ![r] = @ \ {d}]
    /\ failed' = [failed EXCEPT ![r] = TRUE]
    /\ Lossy(r)
    /\ UNCHANGED <<call, pc, ctxDone, quota, reply, charged, unearned>>

(* BatchCreate returns no error whatever the DAO said: the default strategy answers with
   the notifications, the immediate one sends them. *)
BatchCreated(r) ==
    IF call[r].immediate
    THEN Goto(r, "send") /\ UNCHANGED reply
    ELSE Reply(r, "ok")

InsertWait(r) ==
    /\ pc[r] = "insert"
    /\ todo[r] = {}
    /\ IF failed[r] THEN Goto(r, "refund") /\ UNCHANGED reply ELSE BatchCreated(r)
    /\ UNCHANGED <<call, ctxDone, store, todo, failed, ghost>>

AfterRefund(r) == IF call[r].batch THEN BatchCreated(r) ELSE CreateFailed(r)

(* A bug: the quota of a failed creation is kept. *)
RefundSkipped(r) ==
    /\ pc[r] = "refund"
    /\ AfterRefund(r)
    /\ UNCHANGED <<call, ctxDone, store, todo, failed, ghost>>

Refund(r) ==
    /\ pc[r] = "refund"
    /\ ~ctxDone[r]
    /\ quota' = Incr(quota, NeedOf(r))
    /\ charged' = [charged EXCEPT ![r] = {}]
    /\ AfterRefund(r)
    /\ UNCHANGED <<call, ctxDone, rows, logs, todo, failed, unearned, lossy>>

(* The error of the refund is only logged. *)
RefundFails(r) ==
    /\ pc[r] = "refund"
    /\ AfterRefund(r)
    /\ \/ ctxDone[r] \/ RedisLoses
    /\ \/ Lossy(r) /\ UNCHANGED <<quota, charged>>
       \/ /\ RedisLoses
          /\ quota' = Incr(quota, NeedOf(r))
          /\ charged' = [charged EXCEPT ![r] = {}]
          /\ UNCHANGED lossy
    /\ UNCHANGED <<call, ctxDone, rows, logs, todo, failed, unearned>>

---------------------------------------------------------------------------
(* DefaultSender and the channel. *)

Deliverable(r) == {i \in Items(r) : Key(r, i) \in Registered}

(* Send: the channel of the notification is not registered. *)
Send(r) ==
    /\ pc[r] = "send" /\ ~call[r].batch
    /\ Deliverable(r) = {}
    /\ Goto(r, "markFailure")
    /\ UNCHANGED <<call, ctxDone, store, todo, failed, reply, ghost>>

BatchSend(r) ==
    /\ pc[r] = "send" /\ call[r].batch
    /\ Deliverable(r) = {}
    /\ Goto(r, "fetch")
    /\ UNCHANGED <<call, ctxDone, store, todo, failed, reply, ghost>>

(* GetMapByIds, and the callbacks; no status is written and no quota given back. *)
Fetch(r) ==
    /\ pc[r] = "fetch"
    /\ \E answer \in {"ok", "error"} : (ctxDone[r] => answer = "error") /\ Reply(r, answer)
    /\ UNCHANGED <<call, ctxDone, store, todo, failed, ghost>>

MarkFailure(r) ==
    /\ pc[r] = "markFailure"
    /\ \/ ~ctxDone[r] /\ Goto(r, "giveBack") /\ UNCHANGED reply
       \/ Reply(r, "error")
    /\ UNCHANGED <<call, ctxDone, store, todo, failed, ghost>>

(* MarkFailure's Incr, whatever was charged. *)
GiveBack(r) ==
    LET c == Key(r, 1) IN
    /\ pc[r] = "giveBack"
    /\ \/ /\ ~ctxDone[r]
          /\ Reply(r, "ok")
       \/ /\ RedisLoses
          /\ Reply(r, "error")
    /\ quota' = Incr(quota, NeedOf(r))
    /\ charged' = [charged EXCEPT ![r] = {}]
    /\ unearned' = [unearned EXCEPT ![c] = IF charged[r] = {} THEN @ + 1 ELSE @]
    /\ UNCHANGED <<call, ctxDone, rows, logs, todo, failed, lossy>>

GiveBackFails(r) ==
    /\ pc[r] = "giveBack"
    /\ ctxDone[r] \/ RedisLoses
    /\ Reply(r, "error")
    /\ UNCHANGED <<call, ctxDone, store, todo, failed, ghost>>

---------------------------------------------------------------------------
Active(r) == pc[r] \notin {"done", "dead"}

CtxEnds(r) ==
    /\ Active(r) /\ ~ctxDone[r]
    /\ ctxDone' = [ctxDone EXCEPT ![r] = TRUE]
    /\ UNCHANGED <<call, pc, store, todo, failed, reply, ghost>>

(* The process ends and its requests with it. *)
Die == pc' = [r \in Requests |-> IF Active(r) THEN "dead" ELSE pc[r]]

(* NewProvider drops the repository of the providers: once the template and its version are
   found, getTemplate calls a nil interface. *)
GetTemplatePanics(r) ==
    /\ pc[r] = "send" /\ ~ctxDone[r]
    /\ Deliverable(r) # {}
    /\ Die
    /\ UNCHANGED <<call, ctxDone, store, todo, failed, reply, ghost>>

(* No provider is left, each one having failed to find the template: baseChannel.Send looks
   at the wrong error variable and calls the nil provider. *)
ProviderPanics(r) ==
    /\ pc[r] = "send"
    /\ Deliverable(r) # {}
    /\ Die
    /\ UNCHANGED <<call, ctxDone, store, todo, failed, reply, ghost>>

Crash ==
    /\ \E r \in Requests : Active(r)
    /\ Die
    /\ UNCHANGED <<call, ctxDone, store, todo, failed, reply, ghost>>

Finished ==
    /\ \A r \in Requests : ~Active(r)
    /\ UNCHANGED vars

Step(r) ==
    \/ DecrGranted(r) \/ DecrRefused(r) \/ DecrFails(r)
    \/ Create(r) \/ CreateFails(r)
    \/ \E d \in Dbs : InsertDb(r, d) \/ InsertDbFails(r, d) \/ InsertDbLost(r, d)
    \/ InsertWait(r)
    \/ Refund(r) \/ RefundFails(r)
    \/ Send(r) \/ BatchSend(r) \/ Fetch(r)
    \/ MarkFailure(r) \/ GiveBack(r) \/ GiveBackFails(r)

Next ==
    \/ \E r \in Requests : Step(r) \/ CtxEnds(r) \/ GetTemplatePanics(r) \/ ProviderPanics(r)
    \/ Crash
    \/ Finished

Spec == Init /\ [][Next]_vars

---------------------------------------------------------------------------
Held(c) == {x \in UNION {{r} \X Items(r) : r \in Requests} :
               x[2] \in charged[x[1]] /\ Key(x[1], x[2]) = c}

Positive(n) == IF n > 0 THEN n ELSE 0

(* Quota is conserved: what is left of a channel's quota and what is charged for its
   notifications add up to what the business was given, plus what the sender gave back
   without having been charged.  Refused decrements drive a counter below zero, refunds
   meet such a counter, batches take several counters at once, and answers are lost. *)
QuotaConserved ==
    \A c \in Channels :
        Positive(quota[c]) + Cardinality(Held(c)) = Q0[c] + unearned[c]

(* The client of the default strategy's Send can rely on the answer: "ok" means that the
   notification is stored and charged, an error (unless an answer or the refund was lost)
   that it is neither and that the request may be made again. *)
AnswerReliable ==
    \A r \in Requests : ~call[r].batch /\ ~call[r].immediate =>
        /\ reply[r] = "ok" => rows[r] = Items(r) /\ charged[r] = Items(r)
        /\ reply[r] = "error" /\ ~lossy[r] => rows[r] = {} /\ charged[r] = {}

(* A callback log never exists without its notification, also when a batch breaks off in
   one of its databases or the process dies: the callback scan finds what it looks up. *)
LogHasNotification == \A r \in Requests : logs[r] \subseteq rows[r]

Complete(r) == rows[r] = Items(r) /\ (call[r].callback => logs[r] = Items(r))

(* Every strategy and every batch settles its quota: unless an answer or the refund was
   lost, a request that ends is charged for all its notifications when all of them (and
   their callback logs) were stored, and for none when one insert failed in any of the
   databases. *)
ChargedIffCreated ==
    \A r \in Requests : pc[r] = "done" /\ ~lossy[r] =>
        charged[r] = (IF Complete(r) THEN Items(r) ELSE {})

(* immediate.go:29 says that a creation that fails for another reason than a duplicate id
   returns the error at once: the sender is never called for a notification that is not
   stored.  (No creation reports a duplicate id, gorm is not told to translate errors.) *)
CreateErrorReturned ==
    \A r \in Requests : call[r].immediate /\ ~call[r].batch /\ pc[r] = "send" =>
        rows[r] # {}

(* The repository says that the quota is given back when a notification cannot be
   created: a Send of the default strategy that answered with an error charges nothing. *)
FailedCreateRefunded ==
    \A r \in Requests : ~call[r].batch /\ ~call[r].immediate /\ reply[r] = "error" =>
        charged[r] = {}

====
