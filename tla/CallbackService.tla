-------------------------- MODULE CallbackService ---------------------------
(***************************************************************************)
(* DefaultService of the callbacks: Send scans the callback logs that are  *)
(* due, SendByNotification(s) looks up those of the notifications it is    *)
(* given, and each calls the business back for the logs it found, with the *)
(* configuration of getConf (BizConfRepo behind a map that keeps it) and   *)
(* the client of Clients.Get, and then updates the logs.                   *)
(*                                                                         *)
(* Two things of the code shape this model.  sendAndSetChangeFields works  *)
(* on a copy of the log, so the update writes back what was read; and the  *)
(* update names no row, because CallbackLog has no primary key, so gorm    *)
(* refuses it: Update is nil for no logs and an error for any.  No log     *)
(* ever changes.  All logs here are of one business.                       *)
(***************************************************************************)
EXTENDS BizConfRepo, Sequences, SequencesExt, FiniteSetsExt

CONSTANTS
    N,          \* callback logs, in the order of the column id, which is 1..N
    Batch,      \* batchSize
    Scenarios   \* what a run may look like, see ScenarioAssumption

(* prog: what each thread runs: Send, SendByNotification(s) of `ns`, a bare GetById now and
   again (the default strategy), or nothing.  nid: the notification of each log; ns: the
   notifications asked for, which need not all have a log.  due: the logs 1..due are pending
   and due.  callback: the versions of the configuration with a callback section, policy: the
   kind of its retry policy.  opts: the configuration of Clients.  timed: the clock runs. *)
ASSUME ScenarioAssumption ==
    /\ N \in Nat \ {0} /\ Batch \in Nat \ {0}
    /\ \A e \in Scenarios :
          /\ e.prog \in [Threads -> {"Send", "ByNotification", "ByNotifications", "GetById", "none"}]
          /\ e.nid \in [1..N -> Nat \ {0}] /\ e.ns \subseteq Nat /\ IsFiniteSet(e.ns) /\ e.due \in 0..N
          /\ e.callback \subseteq Versions /\ e.policy \in {"valid", "unknown", "nil"}
          /\ e.opts \in [insecure : BOOLEAN, bb : BOOLEAN] /\ e.timed \in BOOLEAN

VARIABLES
    env,      \* the scenario
    pc,       \* where the call of each thread is
    cursor,   \* nextStartId
    batch,    \* the logs of the batch that are still to be sent
    changed,  \* updateParams is not empty
    reply,    \* what the call returned: "none", "nil", "error"
    confMap,  \* [Procs -> Versions \cup {0}] the configuration kept, 0 for none
    client,   \* [Procs -> BOOLEAN] clientMap has a client of the business
    answers   \* history: the logs of this call whose answer asks for an update

callVars == <<env, pc, cursor, batch, changed, reply, confMap, client, answers>>
vars     == <<confVars, callVars>>

LogIds == 1..N

Init ==
    /\ ConfInit /\ env \in Scenarios
    /\ pc = [t \in Threads |->
               CASE env.prog[t] \in {"GetById", "none"} -> "idle" [] OTHER -> "find"]
    /\ cursor = [t \in Threads |-> 0] /\ batch = [t \in Threads |-> <<>>]
    /\ changed = [t \in Threads |-> FALSE] /\ reply = [t \in Threads |-> "none"]
    /\ confMap = [p \in Procs |-> 0] /\ client = [p \in Procs |-> FALSE]
    /\ answers = [t \in Threads |-> {}]

Goto(t, l)   == pc' = [pc EXCEPT ![t] = l]
Return(t, r) == Goto(t, "done") /\ reply' = [reply EXCEPT ![t] = r]

-----------------------------------------------------------------------------
(* Finding the logs *)

(* DefaultCallbackLogDAO.Find: at most Batch of the due logs c + 1, c + 2, ..., in order. *)
Found(c) == [i \in 1..Min({Batch, env.due - c}) |-> c + i]

(* The id of a notification where the scan compares ids of logs; a short batch starts the
   scan again. *)
NextStartId(ls) == IF Len(ls) < Batch THEN 0 ELSE env.nid[Last(ls)]

(* A bug: an error of Find is tried again. *)
FindErrorRetried(t) ==
    /\ env.prog[t] = "Send" /\ pc[t] = "find"
    /\ Goto(t, "find") /\ reply' = reply
    /\ UNCHANGED <<confVars, env, cursor, batch, changed, confMap, client, answers>>

FindError(t) ==
    /\ env.prog[t] \in {"Send", "ByNotification", "ByNotifications"} /\ pc[t] = "find"
    /\ Return(t, "error")
    /\ UNCHANGED <<confVars, env, cursor, batch, changed, confMap, client, answers>>

Find(t) ==
    LET ls == Found(cursor[t]) IN
    /\ env.prog[t] = "Send" /\ pc[t] = "find" /\ ~ctxDone[t]
    /\ IF ls = <<>> THEN Return(t, "nil") /\ UNCHANGED <<cursor, batch>>
       ELSE /\ Goto(t, "conf") /\ batch' = [batch EXCEPT ![t] = ls]
            /\ cursor' = [cursor EXCEPT ![t] = NextStartId(ls)]
            /\ UNCHANGED reply
    /\ changed' = [changed EXCEPT ![t] = FALSE]
    /\ UNCHANGED <<confVars, env, confMap, client, answers>>

(* The logs of notifications, as the repository finds them: in no particular order. *)
LogsOf(ns) == SetToSeqs({l \in LogIds : env.nid[l] \in ns})

(* SendByNotifications sends for the logs it found when every notification has one.  When
   some have none it empties its own map of them, so nothing is sent, and hands the logs it
   did find to Update. *)
FindByNotificationIds(t) ==
    /\ env.prog[t] \in {"ByNotification", "ByNotifications"} /\ pc[t] = "find" /\ ~ctxDone[t]
    /\ \E ls \in LogsOf(env.ns) :
          LET sent == env.prog[t] = "ByNotification" \/ Len(ls) = Cardinality(env.ns) IN
          /\ batch' = [batch EXCEPT ![t] = IF sent THEN ls ELSE <<>>]
          /\ changed' = [changed EXCEPT ![t] = ~sent /\ ls # <<>>]
          /\ Goto(t, IF sent /\ ls # <<>> THEN "conf" ELSE "update")
    /\ UNCHANGED <<confVars, env, cursor, reply, confMap, client, answers>>

-----------------------------------------------------------------------------
(* One log: sendCallback, and what becomes of its answer *)

(* The log is done with: on to the next one, or to the update. *)
Advance(t) ==
    /\ batch' = [batch EXCEPT ![t] = Tail(@)]
    /\ Goto(t, IF Len(batch[t]) = 1 THEN "update" ELSE "conf")

(* The notification of the log could not be read: its business is 0, which has none. *)
Unreadable(t) ==
    /\ pc[t] = "conf" /\ Advance(t)
    /\ UNCHANGED <<confVars, env, cursor, changed, reply, confMap, client, answers>>

(* getConf: the map first, then the repository. *)
GetConf(t) ==
    /\ pc[t] = "conf"
    /\ IF confMap[ProcOf[t]] # 0 THEN Goto(t, "client") /\ UNCHANGED confVars
       ELSE Goto(t, "wait") /\ Call(t)
    /\ UNCHANGED <<env, cursor, batch, changed, reply, confMap, client, answers>>

GotConf(t) ==
    LET ok == get[t].at = "done" /\ get[t].ver \in env.callback IN
    /\ pc[t] = "wait" /\ Answered(t) /\ Taken(t)
    /\ confMap' = IF ok THEN [confMap EXCEPT ![ProcOf[t]] = get[t].ver] ELSE confMap
    /\ IF ok THEN Goto(t, "client") /\ UNCHANGED batch ELSE Advance(t)
    /\ UNCHANGED <<version, age, local, redis, ctxDone, env, cursor, changed, reply, client, answers>>

ClientsLoad(t) ==
    /\ pc[t] = "client"
    /\ Goto(t, IF client[ProcOf[t]] THEN "call" ELSE "dial")
    /\ UNCHANGED <<confVars, env, cursor, batch, changed, reply, confMap, client, answers>>

(* grpc.NewClient refuses a configuration without transport credentials, and the service
   configuration dial writes for a balancer, which is not JSON. *)
DialOk == env.opts.insecure /\ ~env.opts.bb

Dial(t) ==
    /\ pc[t] = "dial" /\ DialOk /\ Goto(t, "store")
    /\ UNCHANGED <<confVars, env, cursor, batch, changed, reply, confMap, client, answers>>

(* A bug: the client is used and not kept. *)
ClientsStoreNothing(t) ==
    /\ pc[t] = "store" /\ Goto(t, "call") /\ client' = client
    /\ UNCHANGED <<confVars, env, cursor, batch, changed, reply, confMap, answers>>

ClientsStore(t) ==
    /\ pc[t] = "store" /\ Goto(t, "call")
    /\ client' = [client EXCEPT ![ProcOf[t]] = TRUE]
    /\ UNCHANGED <<confVars, env, cursor, batch, changed, reply, confMap, answers>>

CallFails(t) ==
    /\ pc[t] = "call" /\ Advance(t)
    /\ UNCHANGED <<confVars, env, cursor, changed, reply, confMap, client, answers>>

(* NewRetryStrategy refuses the policy. *)
NoStrategy == env.policy = "unknown"

(* A bug: what the last log asks for decides for the batch. *)
AnswerLast(t) ==
    /\ pc[t] = "call" /\ ~ctxDone[t] /\ Advance(t)
    /\ \/ changed' = [changed EXCEPT ![t] = TRUE]
       \/ NoStrategy /\ changed' = [changed EXCEPT ![t] = FALSE]
    /\ answers' = [answers EXCEPT ![t] = IF changed'[t] THEN @ \cup {Head(batch[t])} ELSE @]
    /\ UNCHANGED <<confVars, env, cursor, reply, confMap, client>>

(* An answer changes the log when it is a success, or a failure and there is a strategy
   that says when to try again or to give up.  The change is made to a copy. *)
Answer(t) ==
    /\ pc[t] = "call" /\ ~ctxDone[t] /\ Advance(t)
    /\ \/ changed' = [changed EXCEPT ![t] = TRUE]
       \/ NoStrategy /\ UNCHANGED changed
    /\ answers' = [answers EXCEPT ![t] = IF changed'[t] THEN @ \cup {Head(batch[t])} ELSE @]
    /\ UNCHANGED <<confVars, env, cursor, reply, confMap, client>>

(* A failed dial, and a retry policy that is missing when the business answers with a
   failure, panic: the process of the thread ends. *)
Panic(t) ==
    /\ \/ pc[t] = "dial" /\ ~DialOk
       \/ pc[t] = "call" /\ ~ctxDone[t] /\ env.policy = "nil"
    /\ pc' = [u \in Threads |-> IF ProcOf[u] = ProcOf[t] THEN "dead" ELSE pc[u]]
    /\ get' = [u \in Threads |-> IF ProcOf[u] = ProcOf[t] THEN Idle ELSE get[u]]
    /\ UNCHANGED <<version, age, local, redis, ctxDone, env, cursor, batch, changed, reply, confMap,
                   client, answers>>

(* The update of some logs names no row and is refused; that of none is no update. *)
Updated(some) == IF some THEN "error" ELSE "nil"

(* A bug: the error of the update is logged and the scan goes on. *)
UpdateGoesOn(t) ==
    /\ pc[t] = "update"
    /\ IF env.prog[t] = "Send" THEN Goto(t, "find") /\ UNCHANGED reply
       ELSE Return(t, Updated(changed[t]))
    /\ UNCHANGED <<confVars, env, cursor, batch, changed, confMap, client, answers>>

Update(t) ==
    /\ pc[t] = "update"
    /\ IF env.prog[t] = "Send" /\ ~changed[t] THEN Goto(t, "find") /\ UNCHANGED reply
       ELSE Return(t, Updated(changed[t]))
    /\ UNCHANGED <<confVars, env, cursor, batch, changed, confMap, client, answers>>

-----------------------------------------------------------------------------
(* A bare GetById, over and over. *)
Ask(t) ==
    /\ env.prog[t] = "GetById" /\ pc[t] = "idle" /\ Call(t)
    /\ UNCHANGED callVars

Take(t) ==
    /\ env.prog[t] = "GetById" /\ pc[t] = "idle" /\ Answered(t) /\ Taken(t)
    /\ UNCHANGED <<version, age, local, redis, ctxDone, callVars>>

Step(t) ==
    \/ Find(t) \/ FindError(t) \/ FindByNotificationIds(t) \/ Unreadable(t) \/ GetConf(t)
    \/ GotConf(t) \/ ClientsLoad(t) \/ Dial(t) \/ ClientsStore(t) \/ CallFails(t) \/ Answer(t)
    \/ Panic(t) \/ Update(t)
    \/ GetStep(t) /\ UNCHANGED callVars

Next ==
    \/ \E t \in Threads : Step(t) \/ Ask(t) \/ Take(t)
    \/ \E t \in Threads : pc[t] \notin {"idle", "done", "dead"} /\ CancelCtx(t) /\ UNCHANGED callVars
    \/ ChangeConf /\ UNCHANGED callVars
    \/ env.timed /\ Tick /\ UNCHANGED callVars

(* A goroutine that is not blocked goes on. *)
Spec == Init /\ [][Next]_vars /\ \A t \in Threads : WF_vars(Step(t))

-----------------------------------------------------------------------------
TypeOK ==
    /\ ConfTypeOK /\ env \in Scenarios
    /\ pc \in [Threads -> {"idle", "find", "conf", "wait", "client", "dial", "store", "call",
                           "update", "done", "dead"}]
    /\ cursor \in [Threads -> Nat] /\ batch \in [Threads -> Seq(LogIds)]
    /\ changed \in [Threads -> BOOLEAN] /\ reply \in [Threads -> {"none", "nil", "error"}]
    /\ confMap \in [Procs -> Versions \cup {0}] /\ client \in [Procs -> BOOLEAN]
    /\ answers \in [Threads -> SUBSET LogIds]
    /\ \A t \in Threads : pc[t] = "call" => confMap[ProcOf[t]] # 0 /\ client[ProcOf[t]]

(* One call never calls the business again for a log whose outcome it knows, although no log
   is ever marked: the update that fails ends the scan (callback.go:57-60). *)
AnsweredOnce ==
    \A t \in Threads : pc[t] = "call" => Head(batch[t]) \notin answers[t]

(* No outcome is lost in silence: a call that had an answer to record and could not record
   it does not return nil, whatever the other logs of its batch, the batches after it or the
   other threads do (callback.go:69-84). *)
NoSilentLoss ==
    \A t \in Threads : reply[t] = "nil" => answers[t] = {}

(* A call whose context is done returns, even the scan that goes round for ever because no
   business answers. *)
CallEnds ==
    \A t \in Threads : (ctxDone[t] /\ pc[t] # "idle") ~> pc[t] \in {"done", "dead"}
=============================================================================
