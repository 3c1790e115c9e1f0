-------------------------- MODULE ServiceDiscovery --------------------------
(***************************************************************************)
(* Servers of one service register in etcd under a lease (App.Start,       *)
(* App.Close, etcd.Registry); the connections of another process have a    *)
(* GrpcResolver each, which lists the service when it is built, when its   *)
(* watch reports a change, and when gRPC asks (ResolveNow).                *)
(*                                                                         *)
(* A resolver is two goroutines, the watch loop and the watcher Subscribe  *)
(* starts, that meet on an unbuffered channel; ResolveNow runs beside      *)
(* them.  gRPC runs Build, ResolveNow and Close of a resolver one at a     *)
(* time and ignores what it reports once its connection is shut.           *)
(***************************************************************************)
EXTENDS Integers, FiniteSets

CONSTANTS
    Servers,    \* addresses the service runs at
    Conns,      \* the connections of the calling process
    MaxStarts   \* bound: how often a server process is started

ASSUME DiscoveryAssumption ==
    /\ IsFiniteSet(Servers) /\ IsFiniteSet(Conns)
    /\ MaxStarts \in Nat

VARIABLES
    srv,        \* the process at an address, see TypeOK
    serves,     \* its gRPC server accepts calls
    session,    \* its registry session has a live lease
    starts,     \* how often it was started
    key,        \* etcd: "none", "held" by the lease of the process, "orphan" of a dead one
    res,        \* the resolver: "none", "building", "open", "closed"
    shut,       \* gRPC gave the connection up
    loop,       \* the watch goroutine: "none", "start", "select", "resolve", "end"
    watcher,    \* the goroutine of Subscribe: "none", "select", "send", "done"
    cancelled,  \* Registry.Close cancelled its context
    broken,     \* etcd ended the watch: its channel is closed
    pend,       \* the changes etcd has still to report to the watcher
    job,        \* the resolve() of the loop and of ResolveNow
    addrs,      \* the addresses the connection was given
    fresh,      \* history: nothing changed since the newest list, or since Subscribe
    missed,     \* history: a list failed and none succeeded since
    closed      \* Registry.Close ran in the calling process

etcd    == <<key, pend, fresh>>
server  == <<srv, serves, session, starts>>
watch   == <<loop, watcher, cancelled, broken, closed>>
conn    == <<res, shut, job, addrs, missed>>
vars    == <<etcd, server, watch, conn>>

Idle == [st |-> "idle", set |-> {}]

Init ==
    /\ srv = [s \in Servers |-> "down"] /\ serves = [s \in Servers |-> FALSE]
    /\ session = [s \in Servers |-> FALSE] /\ starts = [s \in Servers |-> 0]
    /\ key = [s \in Servers |-> "none"]
    /\ res = [c \in Conns |-> "none"] /\ shut = [c \in Conns |-> FALSE]
    /\ loop = [c \in Conns |-> "none"] /\ watcher = [c \in Conns |-> "none"]
    /\ cancelled = [c \in Conns |-> FALSE] /\ broken = [c \in Conns |-> FALSE]
    /\ pend = [c \in Conns |-> 0] /\ fresh = [c \in Conns |-> TRUE]
    /\ job = [c \in Conns |-> [w \in {"loop", "now"} |-> Idle]]
    /\ addrs = [c \in Conns |-> {}] /\ missed = [c \in Conns |-> FALSE]
    /\ closed = FALSE

-----------------------------------------------------------------------------
(* Servers and the registry.  Every call to etcd may fail, with or without effect. *)

Registered == {s \in Servers : key[s] # "none"}

(* A change of the service's keys goes to every watch of the service. *)
SetKey(s, k) ==
    /\ key' = [key EXCEPT ![s] = k]
    /\ pend' = [c \in Conns |-> pend[c] + IF watcher[c] \in {"select", "send"} THEN 1 ELSE 0]
    /\ fresh' = [c \in Conns |-> FALSE]

(* Deleting a key that is not there is no change and wakes nobody. *)
DropKey(s) == IF key[s] = "none" THEN UNCHANGED etcd ELSE SetKey(s, "none")

(* A bug: the key is put without the lease of the session, so nothing removes it. *)
Unleased(s) == key

(* The key of a process whose session ends without a revoke stays until its lease runs out. *)
Orphaned(s) == [key EXCEPT ![s] = IF @ = "held" THEN "orphan" ELSE @]

(* RegistryBuilder.Build opens the session, App.Start listens and starts Serve. *)
Start(s) ==
    /\ srv[s] = "down" /\ starts[s] < MaxStarts
    /\ srv' = [srv EXCEPT ![s] = "started"] /\ serves' = [serves EXCEPT ![s] = TRUE]
    /\ session' = [session EXCEPT ![s] = TRUE] /\ starts' = [starts EXCEPT ![s] = @ + 1]
    /\ UNCHANGED <<etcd, watch, conn>>

Register(s) ==
    /\ srv[s] = "started" /\ session[s]
    /\ srv' = [srv EXCEPT ![s] = "up"] /\ SetKey(s, "held")
    /\ UNCHANGED <<serves, session, starts, watch, conn>>

(* An error ends the process without OnStop: its hook did not complete. *)
RegisterFails(s) ==
    /\ srv[s] = "started"
    /\ srv' = [srv EXCEPT ![s] = "down"] /\ serves' = [serves EXCEPT ![s] = FALSE]
    /\ session' = [session EXCEPT ![s] = FALSE]
    /\ \/ UNCHANGED etcd
       \/ session[s] /\ SetKey(s, "orphan")
    /\ UNCHANGED <<starts, watch, conn>>

(* The goroutine of Serve tests the error of Listen, which is nil: nobody notices. *)
ServeFails(s) ==
    /\ srv[s] # "down" /\ serves[s]
    /\ serves' = [serves EXCEPT ![s] = FALSE]
    /\ UNCHANGED <<srv, session, starts, etcd, watch, conn>>

(* An Unregister that fails is logged. *)
Unregister(s) ==
    /\ srv[s] = "up"
    /\ srv' = [srv EXCEPT ![s] = "stopping"]
    /\ \/ UNCHANGED etcd
       \/ DropKey(s)
    /\ UNCHANGED <<serves, session, starts, watch, conn>>

(* session.Close stops the keep-alive and revokes the lease; its error is dropped. *)
CloseSession(s) ==
    /\ srv[s] = "stopping"
    /\ srv' = [srv EXCEPT ![s] = "closing"] /\ session' = [session EXCEPT ![s] = FALSE]
    /\ \/ key' = Orphaned(s) /\ UNCHANGED <<pend, fresh>>
       \/ key[s] = "held" /\ DropKey(s)
    /\ UNCHANGED <<serves, starts, watch, conn>>

(* GracefulStop at last, or a crash at any time. *)
Stop(s) ==
    /\ srv[s] # "down"
    /\ srv' = [srv EXCEPT ![s] = "down"] /\ serves' = [serves EXCEPT ![s] = FALSE]
    /\ session' = [session EXCEPT ![s] = FALSE] /\ key' = Orphaned(s)
    /\ UNCHANGED <<pend, fresh, starts, watch, conn>>

(* etcd removes the key of a dead process once its lease has run out ... *)
Expire(s) ==
    /\ key[s] = "orphan" /\ DropKey(s)
    /\ UNCHANGED <<server, watch, conn>>

(* ... and of a live one whose keep-alive did not come through; nothing registers again. *)
LoseLease(s) ==
    /\ session[s]
    /\ session' = [session EXCEPT ![s] = FALSE]
    /\ IF key[s] = "held" THEN DropKey(s) ELSE UNCHANGED etcd
    /\ UNCHANGED <<srv, serves, starts, watch, conn>>

-----------------------------------------------------------------------------
(* The resolver of a connection *)

Running(c) == res[c] \in {"building", "open"}

Begin(c, w) == job' = [job EXCEPT ![c][w].st = "list"]

(* gRPC builds the resolver when the connection is used for the first time. *)
Build(c) ==
    /\ res[c] = "none"
    /\ res' = [res EXCEPT ![c] = "building"] /\ Begin(c, "loop")
    /\ UNCHANGED <<etcd, server, watch, shut, addrs, missed>>

(* gRPC asks again while an address does not answer. *)
ResolveNow(c) ==
    /\ res[c] = "open" /\ ~shut[c] /\ job[c]["now"].st = "idle"
    /\ addrs[c] = {} \/ \E s \in addrs[c] : ~serves[s]
    /\ Begin(c, "now")
    /\ UNCHANGED <<etcd, server, watch, res, shut, addrs, missed>>

(* A bug: the loop selects without having subscribed. *)
ResolvedUnwatched(c, w) ==
    /\ res' = IF w = "loop" /\ res[c] = "building" THEN [res EXCEPT ![c] = "open"] ELSE res
    /\ loop' = IF w = "now" THEN loop ELSE [loop EXCEPT ![c] = "select"]
    /\ UNCHANGED <<shut, watcher, cancelled, broken, closed>>

(* resolve() has ended: Build returns and starts the loop, or the loop selects again. *)
Resolved(c, w) ==
    /\ res' = IF w = "loop" /\ res[c] = "building" THEN [res EXCEPT ![c] = "open"] ELSE res
    /\ loop' = IF w = "now" THEN loop
               ELSE [loop EXCEPT ![c] = IF res[c] = "building" THEN "start" ELSE "select"]
    /\ UNCHANGED <<shut, watcher, cancelled, broken, closed>>

List(c, w) ==
    /\ job[c][w].st = "list"
    /\ job' = [job EXCEPT ![c][w] = [st |-> "apply", set |-> Registered]]
    /\ fresh' = [fresh EXCEPT ![c] = TRUE] /\ missed' = [missed EXCEPT ![c] = FALSE]
    /\ UNCHANGED <<key, pend, server, watch, res, shut, addrs>>

(* The error is reported to gRPC; the change that caused the list is not looked at again. *)
ListFails(c, w) ==
    /\ job[c][w].st = "list"
    /\ job' = [job EXCEPT ![c][w] = Idle] /\ missed' = [missed EXCEPT ![c] = TRUE]
    /\ Resolved(c, w)
    /\ UNCHANGED <<etcd, server, addrs>>

UpdateState(c, w) ==
    /\ job[c][w].st = "apply"
    /\ addrs' = IF shut[c] THEN addrs ELSE [addrs EXCEPT ![c] = job[c][w].set]
    /\ job' = [job EXCEPT ![c][w] = Idle]
    /\ Resolved(c, w)
    /\ UNCHANGED <<etcd, server, missed>>

(* gRPC drops an idle or closed connection, and then closes its resolver. *)
Shut(c) ==
    /\ Running(c) /\ ~shut[c]
    /\ shut' = [shut EXCEPT ![c] = TRUE]
    /\ UNCHANGED <<etcd, server, watch, res, job, addrs, missed>>

CloseResolver(c) ==
    /\ res[c] = "open" /\ shut[c] /\ job[c]["now"].st = "idle"
    /\ res' = [res EXCEPT ![c] = "closed"]
    /\ UNCHANGED <<etcd, server, watch, shut, job, addrs, missed>>

(* The watch starts at the revision etcd is at: what changed since Build's list is not
   reported.  A Subscribe after Registry.Close is cancelled by nobody. *)
Subscribe(c) ==
    /\ loop[c] = "start"
    /\ loop' = [loop EXCEPT ![c] = "select"] /\ watcher' = [watcher EXCEPT ![c] = "select"]
    /\ fresh' = [fresh EXCEPT ![c] = TRUE]
    /\ UNCHANGED <<key, pend, server, cancelled, broken, closed, res, shut, job, addrs, missed>>

(* A bug: the event is dropped when the loop is not waiting for it. *)
ReceiveOrDrop(c) ==
    /\ watcher[c] = "select" /\ ~broken[c] /\ pend[c] > 0
    /\ watcher' = IF loop[c] = "select" THEN [watcher EXCEPT ![c] = "send"] ELSE watcher
    /\ \E n \in 0..(pend[c] - 1) : pend' = [pend EXCEPT ![c] = n]
    /\ UNCHANGED <<key, fresh, server, loop, cancelled, broken, closed, conn>>

(* A response of the watch holds one or more changes. *)
Receive(c) ==
    /\ watcher[c] = "select" /\ ~broken[c] /\ pend[c] > 0
    /\ watcher' = [watcher EXCEPT ![c] = "send"]
    /\ \E n \in 0..(pend[c] - 1) : pend' = [pend EXCEPT ![c] = n]
    /\ UNCHANGED <<key, fresh, server, loop, cancelled, broken, closed, conn>>

(* The error that ends a watch is skipped.  Its closed channel then yields empty
   responses for ever, which are no error: the resolver lists again and again. *)
BreakWatch(c) ==
    /\ watcher[c] = "select" /\ ~broken[c]
    /\ broken' = [broken EXCEPT ![c] = TRUE]
    /\ UNCHANGED <<etcd, server, loop, watcher, cancelled, closed, conn>>

ReceiveEmpty(c) ==
    /\ watcher[c] = "select" /\ broken[c]
    /\ watcher' = [watcher EXCEPT ![c] = "send"]
    /\ UNCHANGED <<etcd, server, loop, cancelled, broken, closed, conn>>

(* The watcher's send and the loop's receive. *)
Handover(c) ==
    /\ watcher[c] = "send" /\ loop[c] = "select"
    /\ watcher' = [watcher EXCEPT ![c] = "select"] /\ loop' = [loop EXCEPT ![c] = "resolve"]
    /\ Begin(c, "loop")
    /\ UNCHANGED <<etcd, server, cancelled, broken, closed, res, shut, addrs, missed>>

LoopReturns(c) ==
    /\ loop[c] = "select" /\ res[c] = "closed"
    /\ loop' = [loop EXCEPT ![c] = "end"]
    /\ UNCHANGED <<etcd, server, watcher, cancelled, broken, closed, conn>>

(* A bug: the context is looked at when the watch has something to say. *)
WatcherReturnsLate(c) ==
    /\ watcher[c] = "select" /\ cancelled[c] /\ pend[c] > 0
    /\ watcher' = [watcher EXCEPT ![c] = "done"]
    /\ UNCHANGED <<etcd, server, loop, cancelled, broken, closed, conn>>

WatcherReturns(c) ==
    /\ watcher[c] = "select" /\ cancelled[c]
    /\ watcher' = [watcher EXCEPT ![c] = "done"]
    /\ UNCHANGED <<etcd, server, loop, cancelled, broken, closed, conn>>

(* Registry.Close of the calling process: every watch so far is cancelled. *)
CloseRegistry ==
    /\ ~closed /\ closed' = TRUE
    /\ cancelled' = [c \in Conns |-> watcher[c] # "none"]
    /\ UNCHANGED <<etcd, server, loop, watcher, broken, conn>>

-----------------------------------------------------------------------------
ServerNext(s) ==
    \/ Start(s) \/ Register(s) \/ RegisterFails(s) \/ ServeFails(s) \/ Unregister(s)
    \/ CloseSession(s) \/ Stop(s) \/ Expire(s) \/ LoseLease(s)

ConnNext(c) ==
    \/ Build(c) \/ ResolveNow(c) \/ Shut(c)
    \/ CloseResolver(c) \/ Subscribe(c) \/ Receive(c) \/ BreakWatch(c) \/ ReceiveEmpty(c)
    \/ Handover(c) \/ LoopReturns(c) \/ WatcherReturns(c)
    \/ \E w \in {"loop", "now"} : List(c, w) \/ ListFails(c, w) \/ UpdateState(c, w)

Next ==
    \/ \E s \in Servers : ServerNext(s)
    \/ \E c \in Conns : ConnNext(c)
    \/ CloseRegistry

(* A goroutine that can go on does so, and etcd removes what has expired.  Of the choices a
   select makes at random, and of the two outcomes of a list, each is taken if it comes up
   again and again; gRPC keeps asking while an address does not answer. *)
Fairness ==
    /\ \A s \in Servers : WF_vars(Expire(s))
    /\ \A c \in Conns :
          /\ WF_vars(ResolveNow(c)) /\ WF_vars(Handover(c)) /\ SF_vars(WatcherReturns(c))
          /\ \A w \in {"loop", "now"} : SF_vars(List(c, w)) /\ WF_vars(UpdateState(c, w))

Spec == Init /\ [][Next]_vars /\ Fairness

-----------------------------------------------------------------------------
ServerOK ==
    /\ srv \in [Servers -> {"down", "started", "up", "stopping", "closing"}]
    /\ serves \in [Servers -> BOOLEAN] /\ session \in [Servers -> BOOLEAN]
    /\ starts \in [Servers -> 0..MaxStarts]

EtcdOK ==
    /\ key \in [Servers -> {"none", "held", "orphan"}]
    /\ pend \in [Conns -> Nat] /\ fresh \in [Conns -> BOOLEAN]

WatchOK ==
    /\ loop \in [Conns -> {"none", "start", "select", "resolve", "end"}]
    /\ watcher \in [Conns -> {"none", "select", "send", "done"}]
    /\ cancelled \in [Conns -> BOOLEAN] /\ broken \in [Conns -> BOOLEAN]
    /\ closed \in BOOLEAN

Jobs == [{"loop", "now"} -> [st : {"idle", "list", "apply"}, set : SUBSET Servers]]

ConnOK ==
    /\ res \in [Conns -> {"none", "building", "open", "closed"}]
    /\ shut \in [Conns -> BOOLEAN] /\ missed \in [Conns -> BOOLEAN]
    /\ job \in [Conns -> Jobs] /\ addrs \in [Conns -> SUBSET Servers]

(* The types, and the loop waits for events only of a watcher that was started. *)
TypeOK ==
    /\ ServerOK /\ EtcdOK /\ WatchOK /\ ConnOK
    /\ \A c \in Conns : loop[c] \in {"select", "resolve"} => watcher[c] # "none"

(* A change etcd reported is never lost between the two goroutines: when the watcher has
   seen every change and neither the loop nor the channel holds one, the newest list of the
   resolver is at least as new, unless that list failed. *)
EventNotLost ==
    \A c \in Conns :
        /\ watcher[c] = "select" /\ ~broken[c] /\ pend[c] = 0
        /\ loop[c] = "select" /\ ~missed[c]
        => fresh[c]

(* The addresses gRPC was given lose a process that died, however it died and whatever its
   Unregister did, unless it comes back. *)
DeadLeaves ==
    \A c \in Conns, s \in Servers :
        (srv[s] = "down" /\ s \in addrs[c]) ~> (srv[s] # "down" \/ s \notin addrs[c] \/ shut[c])

(* A watcher Registry.Close cancels ends, except the one that has an event for a loop that
   is gone: it stays blocked in its send (etcd_registry.go:81). *)
WatcherEnds ==
    \A c \in Conns :
        cancelled[c] ~> (watcher[c] = "done" \/ (watcher[c] = "send" /\ loop[c] = "end"))
=============================================================================
