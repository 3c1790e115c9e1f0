----------------------- MODULE ServiceDiscoveryProofs -----------------------
(***************************************************************************)
(* For any servers and connections: types, and no event of a watch is lost *)
(* between the watcher and the loop.                                       *)
(*                                                                         *)
(* EventNotLost speaks of a loop that waits.  It is kept by what is true   *)
(* before the loop waits again: Fresh says the same of every state in      *)
(* which the loop is not about to list, and Lifecycle that a list of the   *)
(* loop under way belongs to Build or to a loop that is resolving.         *)
(***************************************************************************)
EXTENDS ServiceDiscovery, TLAPS

Lifecycle(c) ==
    /\ res[c] \in {"none", "building"} => loop[c] = "none"
    /\ job[c]["loop"].st # "idle" => res[c] = "building" \/ loop[c] = "resolve"

Fresh(c) ==
    /\ watcher[c] = "select" /\ ~broken[c] /\ pend[c] = 0 /\ ~missed[c]
    /\ ~(loop[c] = "resolve" /\ job[c]["loop"].st = "list")
    => fresh[c]

Inv == TypeOK /\ \A c \in Conns : Lifecycle(c) /\ Fresh(c)

-----------------------------------------------------------------------------
LEMMA InitInv == Init => Inv
  <1> SUFFICES ASSUME Init PROVE Inv
    OBVIOUS
  <1>1. ServerOK
    BY DiscoveryAssumption DEF Init, ServerOK
  <1>2. EtcdOK /\ WatchOK
    BY DEF Init, EtcdOK, WatchOK
  <1>3. ConnOK
    BY DEF Init, ConnOK, Jobs, Idle
  <1>4. \A c \in Conns : /\ res[c] = "none" /\ loop[c] = "none" /\ watcher[c] = "none"
                         /\ job[c]["loop"].st = "idle"
    BY DEF Init, Idle
  <1> QED
    BY <1>1, <1>2, <1>3, <1>4 DEF Inv, TypeOK, Lifecycle, Fresh

(* A change of a key reaches every watcher that runs. *)
LEMMA SetKeyStep ==
    ASSUME TypeOK, NEW s \in Servers, NEW k \in {"none", "held", "orphan"}, SetKey(s, k)
    PROVE  EtcdOK' /\ \A c \in Conns : watcher[c] = "select" => pend'[c] > 0
  <1>1. key' \in [Servers -> {"none", "held", "orphan"}]
    BY DEF TypeOK, EtcdOK, SetKey
  <1>2. \A c \in Conns : pend[c] \in Nat
    BY DEF TypeOK, EtcdOK
  <1>3. \A c \in Conns : /\ pend'[c] \in Nat
                         /\ watcher[c] = "select" => pend'[c] > 0
    BY <1>2 DEF SetKey
  <1>4. pend' \in [Conns -> Nat]
    BY <1>3 DEF SetKey
  <1>5. fresh' \in [Conns -> BOOLEAN]
    BY DEF SetKey
  <1> QED
    BY <1>1, <1>3, <1>4, <1>5 DEF EtcdOK

(* A step of a server and of etcd: the goroutines are where they were, and either nothing is
   reported or every watcher has something to report. *)
LEMMA ServerStep ==
    ASSUME Inv, ServerOK', EtcdOK', UNCHANGED <<watch, conn>>,
           \/ UNCHANGED <<pend, fresh>>
           \/ \A c \in Conns : watcher[c] = "select" => pend'[c] > 0
    PROVE  Inv'
  <1>1. /\ loop' = loop /\ watcher' = watcher /\ cancelled' = cancelled /\ broken' = broken
        /\ closed' = closed /\ res' = res /\ shut' = shut /\ job' = job /\ addrs' = addrs
        /\ missed' = missed
    BY DEF watch, conn
  <1>2. TypeOK'
    BY <1>1 DEF Inv, TypeOK, WatchOK, ConnOK
  <1>3. \A c \in Conns : Lifecycle(c)'
    BY <1>1 DEF Inv, Lifecycle
  <1>4. \A c \in Conns : Fresh(c)'
    <2>1. CASE UNCHANGED <<pend, fresh>>
      BY <1>1, <2>1 DEF Inv, Fresh
    <2>2. CASE \A c \in Conns : watcher[c] = "select" => pend'[c] > 0
      BY <1>1, <2>2 DEF Fresh
    <2> QED
      BY <2>1, <2>2
  <1> QED
    BY <1>2, <1>3, <1>4 DEF Inv

LEMMA ServerInv ==
    ASSUME Inv, NEW s \in Servers, ServerNext(s)
    PROVE  Inv'
  <1>1. TypeOK
    BY DEF Inv
  <1>2. MaxStarts \in Nat
    BY DiscoveryAssumption
  <1>3. ASSUME ServerOK', UNCHANGED etcd, UNCHANGED <<watch, conn>>
        PROVE  Inv'
    BY <1>1, <1>3, ServerStep DEF etcd, TypeOK, EtcdOK
  <1>4. ASSUME ServerOK', NEW k \in {"none", "held", "orphan"}, SetKey(s, k),
               UNCHANGED <<watch, conn>>
        PROVE  Inv'
    BY <1>1, <1>4, SetKeyStep, ServerStep
  <1>5. ASSUME ServerOK', DropKey(s), UNCHANGED <<watch, conn>>
        PROVE  Inv'
    BY <1>3, <1>4, <1>5 DEF DropKey
  <1>6. ASSUME ServerOK', key' = Orphaned(s), UNCHANGED <<pend, fresh>>, UNCHANGED <<watch, conn>>
        PROVE  Inv'
    <2>1. Orphaned(s) \in [Servers -> {"none", "held", "orphan"}]
      BY <1>1 DEF TypeOK, EtcdOK, Orphaned
    <2>2. EtcdOK'
      BY <1>1, <1>6, <2>1 DEF TypeOK, EtcdOK
    <2> QED
      BY <1>6, <2>2, ServerStep
  <1>7. CASE Start(s)
    <2>1. ServerOK'
      BY <1>1, <1>2, <1>7 DEF Start, TypeOK, ServerOK
    <2> QED
      BY <1>3, <1>7, <2>1 DEF Start
  <1>8. CASE Register(s)
    <2>1. ServerOK'
      BY <1>1, <1>8 DEF Register, TypeOK, ServerOK
    <2> QED
      BY <1>4, <1>8, <2>1 DEF Register
  <1>9. CASE RegisterFails(s)
    <2>1. ServerOK'
      BY <1>1, <1>9 DEF RegisterFails, TypeOK, ServerOK
    <2> QED
      BY <1>3, <1>4, <1>9, <2>1 DEF RegisterFails
  <1>10. CASE ServeFails(s)
    <2>1. ServerOK'
      BY <1>1, <1>10 DEF ServeFails, TypeOK, ServerOK
    <2> QED
      BY <1>3, <1>10, <2>1 DEF ServeFails
  <1>11. CASE Unregister(s)
    <2>1. ServerOK'
      BY <1>1, <1>11 DEF Unregister, TypeOK, ServerOK
    <2> QED
      BY <1>3, <1>5, <1>11, <2>1 DEF Unregister
  <1>12. CASE CloseSession(s)
    <2>1. ServerOK'
      BY <1>1, <1>12 DEF CloseSession, TypeOK, ServerOK
    <2> QED
      BY <1>5, <1>6, <1>12, <2>1 DEF CloseSession
  <1>13. CASE Stop(s)
    <2>1. ServerOK'
      BY <1>1, <1>13 DEF Stop, TypeOK, ServerOK
    <2> QED
      BY <1>6, <1>13, <2>1 DEF Stop
  <1>14. CASE Expire(s)
    <2>1. ServerOK'
      BY <1>1, <1>14 DEF Expire, TypeOK, ServerOK, server
    <2> QED
      BY <1>5, <1>14, <2>1 DEF Expire
  <1>15. CASE LoseLease(s)
    <2>1. ServerOK'
      BY <1>1, <1>15 DEF LoseLease, TypeOK, ServerOK
    <2> QED
      BY <1>3, <1>5, <1>15, <2>1 DEF LoseLease
  <1> QED
    BY <1>7, <1>8, <1>9, <1>10, <1>11, <1>12, <1>13, <1>14, <1>15 DEF ServerNext

-----------------------------------------------------------------------------
JobStates == [st : {"idle", "list", "apply"}, set : SUBSET Servers]

LEMMA JobsDef == Jobs = [{"loop", "now"} -> JobStates]
  BY DEF Jobs, JobStates

(* What the start of a resolve() leaves. *)
LEMMA BeginStep ==
    ASSUME job \in [Conns -> Jobs], NEW c \in Conns, NEW w \in {"loop", "now"}, Begin(c, w)
    PROVE  /\ job' \in [Conns -> Jobs] /\ job'[c][w].st = "list"
           /\ \A d \in Conns : \A v \in {"loop", "now"} :
                 d # c \/ v # w => job'[d][v] = job[d][v]
  <1> DEFINE x == [job[c][w] EXCEPT !.st = "list"]
  <1>1. job[c][w] \in JobStates
    BY JobsDef
  <1>2. x \in JobStates /\ x.st = "list"
    BY <1>1 DEF JobStates
  <1>3. job' = [job EXCEPT ![c][w] = x]
    BY DEF Begin
  <1> HIDE DEF x
  <1>4. /\ job' \in [Conns -> Jobs] /\ job'[c][w] = x
        /\ \A d \in Conns : \A v \in {"loop", "now"} :
              d # c \/ v # w => job'[d][v] = job[d][v]
    BY <1>2, <1>3, JobsDef
  <1> QED
    BY <1>2, <1>4

(* The end of a resolve() where a job of the loop is under way. *)
LEMMA ResolvedStep ==
    ASSUME Inv, NEW c \in Conns, NEW w \in {"loop", "now"}, Resolved(c, w),
           job[c][w].st # "idle", job' = [job EXCEPT ![c][w] = Idle],
           missed' \in [Conns -> BOOLEAN], addrs' \in [Conns -> SUBSET Servers],
           UNCHANGED <<etcd, server>>,
           \A d \in Conns \ {c} : missed'[d] = missed[d],
           missed'[c] \/ (missed'[c] = missed[c] /\ job[c][w].st # "list")
    PROVE  Inv'
  <1>1. ServerOK /\ EtcdOK /\ WatchOK /\ ConnOK
    BY DEF Inv, TypeOK
  <1>2. Idle \in JobStates /\ Idle.st = "idle"
    BY DEF Idle, JobStates
  <1>3. /\ job' \in [Conns -> Jobs] /\ job'[c][w] = Idle
        /\ \A d \in Conns : \A v \in {"loop", "now"} :
              d # c \/ v # w => job'[d][v] = job[d][v]
    <2>1. job \in [Conns -> Jobs]
      BY <1>1 DEF ConnOK
    <2> QED
      BY <2>1, <1>2, JobsDef
  <1>4. ServerOK' /\ EtcdOK'
    BY <1>1 DEF ServerOK, EtcdOK, server, etcd
  <1>5. WatchOK' /\ ConnOK'
    BY <1>1, <1>3 DEF WatchOK, ConnOK, Resolved
  <1>6. /\ w = "loop" => res[c] = "building" \/ loop[c] = "resolve"
        /\ \A d \in Conns : Lifecycle(d) /\ Fresh(d)
        /\ \A d \in Conns : loop[d] \in {"select", "resolve"} => watcher[d] # "none"
    BY DEF Inv, TypeOK, Lifecycle
  <1>7. /\ watcher' = watcher /\ broken' = broken /\ pend' = pend /\ fresh' = fresh
        /\ \A d \in Conns \ {c} : loop'[d] = loop[d] /\ res'[d] = res[d]
        /\ w = "now" => loop' = loop /\ res' = res
        /\ w = "loop" /\ res[c] = "building" => loop'[c] = "start" /\ res'[c] = "open"
        /\ w = "loop" /\ res[c] # "building" => loop'[c] = "select" /\ res'[c] = res[c]
    BY <1>1 DEF Resolved, etcd, WatchOK, ConnOK
  <1>8. \A d \in Conns : loop'[d] \in {"select", "resolve"} => watcher'[d] # "none"
    BY <1>6, <1>7
  <1>9. ASSUME NEW d \in Conns
        PROVE  Lifecycle(d)'
    <2>1. CASE d # c
      BY <2>1, <1>3, <1>6, <1>7 DEF Lifecycle
    <2>2. CASE d = c /\ w = "now"
      BY <2>2, <1>3, <1>6, <1>7 DEF Lifecycle
    <2>3. CASE d = c /\ w = "loop"
      <3>1. job'[c]["loop"].st = "idle"
        BY <2>3, <1>2, <1>3
      <3>2. res'[c] \notin {"none", "building"}
        BY <2>3, <1>6, <1>7 DEF Lifecycle
      <3> QED
        BY <2>3, <3>1, <3>2 DEF Lifecycle
    <2> QED
      BY <2>1, <2>2, <2>3
  <1>10. ASSUME NEW d \in Conns
         PROVE  Fresh(d)'
    <2>1. CASE d # c
      BY <2>1, <1>3, <1>6, <1>7 DEF Fresh
    <2>2. CASE d = c /\ missed'[c]
      BY <2>2 DEF Fresh
    <2>3. CASE d = c /\ w = "now" /\ missed'[c] = missed[c]
      BY <2>3, <1>3, <1>6, <1>7 DEF Fresh
    <2>4. CASE d = c /\ w = "loop" /\ missed'[c] = missed[c] /\ job[c][w].st # "list"
      <3>1. watcher[c] = "select" /\ ~broken[c] /\ pend[c] = 0 /\ ~missed[c] => fresh[c]
        BY <2>4, <1>6 DEF Fresh
      <3> QED
        BY <3>1, <2>4, <1>7 DEF Fresh
    <2> QED
      BY <2>1, <2>2, <2>3, <2>4
  <1> QED
    BY <1>4, <1>5, <1>8, <1>9, <1>10 DEF Inv, TypeOK

(* What the invariant says of a resolver depends on these alone. *)
Same(d) ==
    /\ res'[d] = res[d] /\ loop'[d] = loop[d] /\ watcher'[d] = watcher[d]
    /\ broken'[d] = broken[d] /\ pend'[d] = pend[d] /\ missed'[d] = missed[d]
    /\ fresh'[d] = fresh[d] /\ job'[d]["loop"] = job[d]["loop"]

Watched(c) == loop[c] \in {"select", "resolve"} => watcher[c] # "none"

(* A step of one resolver leaves the others as they are. *)
LEMMA OneConn ==
    ASSUME Inv, ServerOK', EtcdOK', WatchOK', ConnOK', NEW c \in Conns,
           \A d \in Conns \ {c} : Same(d),
           Lifecycle(c)', Fresh(c)', Watched(c)'
    PROVE  Inv'
  <1>1. \A d \in Conns : Lifecycle(d) /\ Fresh(d) /\ Watched(d)
    BY DEF Inv, TypeOK, Watched
  <1>2. ASSUME NEW d \in Conns, d # c
        PROVE  Lifecycle(d)' /\ Fresh(d)' /\ Watched(d)'
    <2>1. Same(d)
      BY <1>2
    <2>2. Lifecycle(d)'
      BY <1>1, <2>1 DEF Same, Lifecycle
    <2>3. Fresh(d)'
      BY <1>1, <2>1 DEF Same, Fresh
    <2>4. Watched(d)'
      BY <1>1, <2>1 DEF Same, Watched
    <2> QED
      BY <2>2, <2>3, <2>4
  <1>3. \A d \in Conns : Lifecycle(d)' /\ Fresh(d)' /\ Watched(d)'
    BY <1>2
  <1>4. TypeOK'
    BY <1>3 DEF TypeOK, Watched
  <1> QED
    BY <1>3, <1>4 DEF Inv

(* The steps of a resolver and its goroutines. *)
LEMMA ConnInv ==
    ASSUME Inv, NEW c \in Conns, ConnNext(c)
    PROVE  Inv'
  <1>1. ServerOK /\ EtcdOK /\ WatchOK /\ ConnOK
    BY DEF Inv, TypeOK
  <1>2. Lifecycle(c) /\ Fresh(c) /\ Watched(c)
    BY DEF Inv, TypeOK, Watched
  <1>3. job \in [Conns -> Jobs]
    BY <1>1 DEF ConnOK
  <1>4. CASE Build(c)
    <2>1. /\ job' \in [Conns -> Jobs] /\ job'[c]["loop"].st = "list"
          /\ \A d \in Conns : \A v \in {"loop", "now"} :
                d # c \/ v # "loop" => job'[d][v] = job[d][v]
      BY <1>3, <1>4, BeginStep DEF Build
    <2>2. ServerOK' /\ EtcdOK'
      BY <1>1, <1>4 DEF Build, server, etcd, ServerOK, EtcdOK
    <2>3. WatchOK' /\ ConnOK'
      BY <2>1, <1>1, <1>4 DEF Build, watch, conn, WatchOK, ConnOK
    <2>4. \A d \in Conns \ {c} : Same(d)
      BY <2>1, <1>1, <1>4 DEF Build, etcd, watch, conn, EtcdOK, WatchOK, ConnOK, Same
    <2>5. /\ res[c] = "none"
          /\ res'[c] = "building" /\ loop'[c] = loop[c] /\ watcher'[c] = watcher[c]
          /\ broken'[c] = broken[c] /\ pend'[c] = pend[c] /\ missed'[c] = missed[c]
          /\ fresh'[c] = fresh[c] /\ job'[c]["loop"].st = "list"
      BY <2>1, <1>1, <1>4 DEF Build, etcd, watch, conn, EtcdOK, WatchOK, ConnOK
    <2>6. Lifecycle(c)' /\ Fresh(c)' /\ Watched(c)'
      BY <1>2, <2>5 DEF Lifecycle, Fresh, Watched
    <2> QED
      BY <2>2, <2>3, <2>4, <2>6, OneConn
  <1>5. CASE ResolveNow(c)
    <2>1. /\ job' \in [Conns -> Jobs] /\ job'[c]["now"].st = "list"
          /\ \A d \in Conns : \A v \in {"loop", "now"} :
                d # c \/ v # "now" => job'[d][v] = job[d][v]
      BY <1>3, <1>5, BeginStep DEF ResolveNow
    <2>2. ServerOK' /\ EtcdOK'
      BY <1>1, <1>5 DEF ResolveNow, server, etcd, ServerOK, EtcdOK
    <2>3. WatchOK' /\ ConnOK'
      BY <2>1, <1>1, <1>5 DEF ResolveNow, watch, conn, WatchOK, ConnOK
    <2>4. \A d \in Conns \ {c} : Same(d)
      BY <2>1, <1>1, <1>5 DEF ResolveNow, etcd, watch, conn, EtcdOK, WatchOK, ConnOK, Same
    <2>5. /\ res[c] = "open"
          /\ res'[c] = res[c] /\ loop'[c] = loop[c] /\ watcher'[c] = watcher[c]
          /\ broken'[c] = broken[c] /\ pend'[c] = pend[c] /\ missed'[c] = missed[c]
          /\ fresh'[c] = fresh[c] /\ job'[c]["loop"] = job[c]["loop"]
      BY <2>1, <1>1, <1>5 DEF ResolveNow, etcd, watch, conn, EtcdOK, WatchOK, ConnOK
    <2>6. Lifecycle(c)' /\ Fresh(c)' /\ Watched(c)'
      BY <1>2, <2>5 DEF Lifecycle, Fresh, Watched
    <2> QED
      BY <2>2, <2>3, <2>4, <2>6, OneConn
  <1>6. CASE Shut(c)
    <2>1. ServerOK' /\ EtcdOK'
      BY <1>1, <1>6 DEF Shut, server, etcd, ServerOK, EtcdOK
    <2>2. WatchOK' /\ ConnOK'
      BY <1>1, <1>6 DEF Shut, watch, conn, WatchOK, ConnOK
    <2>3. \A d \in Conns \ {c} : Same(d)
      BY <1>1, <1>6 DEF Shut, etcd, watch, conn, EtcdOK, WatchOK, ConnOK, Same
    <2>4. /\ ~shut[c]
          /\ res'[c] = res[c] /\ loop'[c] = loop[c] /\ watcher'[c] = watcher[c]
          /\ broken'[c] = broken[c] /\ pend'[c] = pend[c] /\ missed'[c] = missed[c]
          /\ fresh'[c] = fresh[c] /\ job'[c]["loop"] = job[c]["loop"]
      BY <1>1, <1>6 DEF Shut, etcd, watch, conn, EtcdOK, WatchOK, ConnOK
    <2>5. Lifecycle(c)' /\ Fresh(c)' /\ Watched(c)'
      BY <1>2, <2>4 DEF Lifecycle, Fresh, Watched
    <2> QED
      BY <2>1, <2>2, <2>3, <2>5, OneConn
  <1>7. CASE CloseResolver(c)
    <2>1. ServerOK' /\ EtcdOK'
      BY <1>1, <1>7 DEF CloseResolver, server, etcd, ServerOK, EtcdOK
    <2>2. WatchOK' /\ ConnOK'
      BY <1>1, <1>7 DEF CloseResolver, watch, conn, WatchOK, ConnOK
    <2>3. \A d \in Conns \ {c} : Same(d)
      BY <1>1, <1>7 DEF CloseResolver, etcd, watch, conn, EtcdOK, WatchOK, ConnOK, Same
    <2>4. /\ res[c] = "open"
          /\ res'[c] = "closed" /\ loop'[c] = loop[c] /\ watcher'[c] = watcher[c]
          /\ broken'[c] = broken[c] /\ pend'[c] = pend[c] /\ missed'[c] = missed[c]
          /\ fresh'[c] = fresh[c] /\ job'[c]["loop"] = job[c]["loop"]
      BY <1>1, <1>7 DEF CloseResolver, etcd, watch, conn, EtcdOK, WatchOK, ConnOK
    <2>5. Lifecycle(c)' /\ Fresh(c)' /\ Watched(c)'
      BY <1>2, <2>4 DEF Lifecycle, Fresh, Watched
    <2> QED
      BY <2>1, <2>2, <2>3, <2>5, OneConn
  <1>8. CASE Subscribe(c)
    <2>1. ServerOK' /\ EtcdOK'
      BY <1>1, <1>8 DEF Subscribe, server, etcd, ServerOK, EtcdOK
    <2>2. WatchOK' /\ ConnOK'
      BY <1>1, <1>8 DEF Subscribe, watch, conn, WatchOK, ConnOK
    <2>3. \A d \in Conns \ {c} : Same(d)
      BY <1>1, <1>8 DEF Subscribe, etcd, watch, conn, EtcdOK, WatchOK, ConnOK, Same
    <2>4. /\ loop[c] = "start" /\ fresh'[c]
          /\ res'[c] = res[c] /\ loop'[c] = "select" /\ watcher'[c] = "select"
          /\ broken'[c] = broken[c] /\ pend'[c] = pend[c] /\ missed'[c] = missed[c]
          /\ job'[c]["loop"] = job[c]["loop"]
      BY <1>1, <1>8 DEF Subscribe, etcd, watch, conn, EtcdOK, WatchOK, ConnOK
    <2>5. Lifecycle(c)' /\ Fresh(c)' /\ Watched(c)'
      BY <1>2, <2>4 DEF Lifecycle, Fresh, Watched
    <2> QED
      BY <2>1, <2>2, <2>3, <2>5, OneConn
  <1>9. CASE Receive(c)
    <2>1. ServerOK' /\ EtcdOK'
      BY <1>1, <1>9 DEF Receive, server, etcd, ServerOK, EtcdOK
    <2>2. WatchOK' /\ ConnOK'
      BY <1>1, <1>9 DEF Receive, watch, conn, WatchOK, ConnOK
    <2>3. \A d \in Conns \ {c} : Same(d)
      BY <1>1, <1>9 DEF Receive, etcd, watch, conn, EtcdOK, WatchOK, ConnOK, Same
    <2>4. /\ watcher[c] = "select"
          /\ res'[c] = res[c] /\ loop'[c] = loop[c] /\ watcher'[c] = "send"
          /\ broken'[c] = broken[c] /\ missed'[c] = missed[c] /\ fresh'[c] = fresh[c]
          /\ job'[c]["loop"] = job[c]["loop"]
      BY <1>1, <1>9 DEF Receive, etcd, watch, conn, EtcdOK, WatchOK, ConnOK
    <2>5. Lifecycle(c)' /\ Fresh(c)' /\ Watched(c)'
      BY <1>2, <2>4 DEF Lifecycle, Fresh, Watched
    <2> QED
      BY <2>1, <2>2, <2>3, <2>5, OneConn
  <1>10. CASE BreakWatch(c)
    <2>1. ServerOK' /\ EtcdOK'
      BY <1>1, <1>10 DEF BreakWatch, server, etcd, ServerOK, EtcdOK
    <2>2. WatchOK' /\ ConnOK'
      BY <1>1, <1>10 DEF BreakWatch, watch, conn, WatchOK, ConnOK
    <2>3. \A d \in Conns \ {c} : Same(d)
      BY <1>1, <1>10 DEF BreakWatch, etcd, watch, conn, EtcdOK, WatchOK, ConnOK, Same
    <2>4. /\ broken'[c]
          /\ res'[c] = res[c] /\ loop'[c] = loop[c] /\ watcher'[c] = watcher[c]
          /\ pend'[c] = pend[c] /\ missed'[c] = missed[c] /\ fresh'[c] = fresh[c]
          /\ job'[c]["loop"] = job[c]["loop"]
      BY <1>1, <1>10 DEF BreakWatch, etcd, watch, conn, EtcdOK, WatchOK, ConnOK
    <2>5. Lifecycle(c)' /\ Fresh(c)' /\ Watched(c)'
      BY <1>2, <2>4 DEF Lifecycle, Fresh, Watched
    <2> QED
      BY <2>1, <2>2, <2>3, <2>5, OneConn
  <1>11. CASE ReceiveEmpty(c)
    <2>1. ServerOK' /\ EtcdOK'
      BY <1>1, <1>11 DEF ReceiveEmpty, server, etcd, ServerOK, EtcdOK
    <2>2. WatchOK' /\ ConnOK'
      BY <1>1, <1>11 DEF ReceiveEmpty, watch, conn, WatchOK, ConnOK
    <2>3. \A d \in Conns \ {c} : Same(d)
      BY <1>1, <1>11 DEF ReceiveEmpty, etcd, watch, conn, EtcdOK, WatchOK, ConnOK, Same
    <2>4. /\ watcher[c] = "select"
          /\ res'[c] = res[c] /\ loop'[c] = loop[c] /\ watcher'[c] = "send"
          /\ broken'[c] = broken[c] /\ pend'[c] = pend[c] /\ missed'[c] = missed[c]
          /\ fresh'[c] = fresh[c] /\ job'[c]["loop"] = job[c]["loop"]
      BY <1>1, <1>11 DEF ReceiveEmpty, etcd, watch, conn, EtcdOK, WatchOK, ConnOK
    <2>5. Lifecycle(c)' /\ Fresh(c)' /\ Watched(c)'
      BY <1>2, <2>4 DEF Lifecycle, Fresh, Watched
    <2> QED
      BY <2>1, <2>2, <2>3, <2>5, OneConn
  <1>12. CASE Handover(c)
    <2>1. /\ job' \in [Conns -> Jobs] /\ job'[c]["loop"].st = "list"
          /\ \A d \in Conns : \A v \in {"loop", "now"} :
                d # c \/ v # "loop" => job'[d][v] = job[d][v]
      BY <1>3, <1>12, BeginStep DEF Handover
    <2>2. ServerOK' /\ EtcdOK'
      BY <1>1, <1>12 DEF Handover, server, etcd, ServerOK, EtcdOK
    <2>3. WatchOK' /\ ConnOK'
      BY <2>1, <1>1, <1>12 DEF Handover, watch, conn, WatchOK, ConnOK
    <2>4. \A d \in Conns \ {c} : Same(d)
      BY <2>1, <1>1, <1>12 DEF Handover, etcd, watch, conn, EtcdOK, WatchOK, ConnOK, Same
    <2>5. /\ loop[c] = "select"
          /\ res'[c] = res[c] /\ loop'[c] = "resolve" /\ watcher'[c] = "select"
          /\ broken'[c] = broken[c] /\ pend'[c] = pend[c] /\ missed'[c] = missed[c]
          /\ fresh'[c] = fresh[c] /\ job'[c]["loop"].st = "list"
      BY <2>1, <1>1, <1>12 DEF Handover, etcd, watch, conn, EtcdOK, WatchOK, ConnOK
    <2>6. Lifecycle(c)' /\ Fresh(c)' /\ Watched(c)'
      BY <1>2, <2>5 DEF Lifecycle, Fresh, Watched
    <2> QED
      BY <2>2, <2>3, <2>4, <2>6, OneConn
  <1>13. CASE LoopReturns(c)
    <2>1. ServerOK' /\ EtcdOK'
      BY <1>1, <1>13 DEF LoopReturns, server, etcd, ServerOK, EtcdOK
    <2>2. WatchOK' /\ ConnOK'
      BY <1>1, <1>13 DEF LoopReturns, watch, conn, WatchOK, ConnOK
    <2>3. \A d \in Conns \ {c} : Same(d)
      BY <1>1, <1>13 DEF LoopReturns, etcd, watch, conn, EtcdOK, WatchOK, ConnOK, Same
    <2>4. /\ loop[c] = "select" /\ res[c] = "closed"
          /\ res'[c] = res[c] /\ loop'[c] = "end" /\ watcher'[c] = watcher[c]
          /\ broken'[c] = broken[c] /\ pend'[c] = pend[c] /\ missed'[c] = missed[c]
          /\ fresh'[c] = fresh[c] /\ job'[c]["loop"] = job[c]["loop"]
      BY <1>1, <1>13 DEF LoopReturns, etcd, watch, conn, EtcdOK, WatchOK, ConnOK
    <2>5. Lifecycle(c)' /\ Fresh(c)' /\ Watched(c)'
      BY <1>2, <2>4 DEF Lifecycle, Fresh, Watched
    <2> QED
      BY <2>1, <2>2, <2>3, <2>5, OneConn
  <1>14. CASE WatcherReturns(c)
    <2>1. ServerOK' /\ EtcdOK'
      BY <1>1, <1>14 DEF WatcherReturns, server, etcd, ServerOK, EtcdOK
    <2>2. WatchOK' /\ ConnOK'
      BY <1>1, <1>14 DEF WatcherReturns, watch, conn, WatchOK, ConnOK
    <2>3. \A d \in Conns \ {c} : Same(d)
      BY <1>1, <1>14 DEF WatcherReturns, etcd, watch, conn, EtcdOK, WatchOK, ConnOK, Same
    <2>4. /\ watcher[c] = "select"
          /\ res'[c] = res[c] /\ loop'[c] = loop[c] /\ watcher'[c] = "done"
          /\ broken'[c] = broken[c] /\ pend'[c] = pend[c] /\ missed'[c] = missed[c]
          /\ fresh'[c] = fresh[c] /\ job'[c]["loop"] = job[c]["loop"]
      BY <1>1, <1>14 DEF WatcherReturns, etcd, watch, conn, EtcdOK, WatchOK, ConnOK
    <2>5. Lifecycle(c)' /\ Fresh(c)' /\ Watched(c)'
      BY <1>2, <2>4 DEF Lifecycle, Fresh, Watched
    <2> QED
      BY <2>1, <2>2, <2>3, <2>5, OneConn
  <1>15. ASSUME NEW w \in {"loop", "now"}, List(c, w)
         PROVE  Inv'
    <2> DEFINE x == [st |-> "apply", set |-> Registered]
    <2>1. Registered \in SUBSET Servers
      BY DEF Registered
    <2>2. x \in JobStates /\ x.st = "apply"
      BY <2>1 DEF JobStates
    <2>3. job' = [job EXCEPT ![c][w] = x]
      BY <1>15 DEF List
    <2> HIDE DEF x
    <2>4. /\ job' \in [Conns -> Jobs] /\ job'[c][w].st = "apply"
          /\ \A d \in Conns : \A v \in {"loop", "now"} :
                d # c \/ v # w => job'[d][v] = job[d][v]
      BY <1>3, <2>2, <2>3, JobsDef
    <2>5. ServerOK' /\ EtcdOK'
      BY <1>1, <1>15 DEF List, server, ServerOK, EtcdOK
    <2>6. WatchOK' /\ ConnOK'
      BY <2>4, <1>1, <1>15 DEF List, watch, WatchOK, ConnOK
    <2>7. \A d \in Conns \ {c} : Same(d)
      BY <2>4, <1>1, <1>15 DEF List, watch, EtcdOK, ConnOK, Same
    <2>8. /\ job[c][w].st = "list" /\ fresh'[c]
          /\ res'[c] = res[c] /\ loop'[c] = loop[c] /\ watcher'[c] = watcher[c]
      BY <1>1, <1>15 DEF List, watch, EtcdOK
    <2>9. Lifecycle(c)'
      BY <1>2, <2>4, <2>8 DEF Lifecycle
    <2>10. Fresh(c)' /\ Watched(c)'
      BY <1>2, <2>8 DEF Fresh, Watched
    <2> QED
      BY <2>5, <2>6, <2>7, <2>9, <2>10, OneConn
  <1>16. ASSUME NEW w \in {"loop", "now"}, ListFails(c, w)
         PROVE  Inv'
    <2>1. /\ missed' \in [Conns -> BOOLEAN] /\ missed'[c]
          /\ \A d \in Conns \ {c} : missed'[d] = missed[d]
      BY <1>1, <1>16 DEF ListFails, ConnOK
    <2>2. /\ Resolved(c, w) /\ job[c][w].st # "idle" /\ job' = [job EXCEPT ![c][w] = Idle]
          /\ addrs' = addrs /\ UNCHANGED <<etcd, server>>
      BY <1>16 DEF ListFails
    <2>3. addrs' \in [Conns -> SUBSET Servers]
      BY <1>1, <2>2 DEF ConnOK
    <2> QED
      BY <2>1, <2>2, <2>3, ResolvedStep
  <1>17. ASSUME NEW w \in {"loop", "now"}, UpdateState(c, w)
         PROVE  Inv'
    <2>1. missed' = missed /\ missed \in [Conns -> BOOLEAN]
      BY <1>1, <1>17 DEF UpdateState, ConnOK
    <2>2. /\ Resolved(c, w) /\ job[c][w].st \notin {"idle", "list"}
          /\ job' = [job EXCEPT ![c][w] = Idle] /\ UNCHANGED <<etcd, server>>
      BY <1>17 DEF UpdateState
    <2>3. job[c][w].set \in SUBSET Servers
      BY <1>3, JobsDef DEF JobStates
    <2>4. addrs' \in [Conns -> SUBSET Servers]
      BY <1>1, <1>17, <2>3 DEF UpdateState, ConnOK
    <2> QED
      BY <2>1, <2>2, <2>4, ResolvedStep
  <1> QED
    BY <1>4, <1>5, <1>6, <1>7, <1>8, <1>9, <1>10, <1>11, <1>12, <1>13, <1>14, <1>15, <1>16, <1>17
       DEF ConnNext

LEMMA CloseRegistryInv ==
    ASSUME Inv, CloseRegistry
    PROVE  Inv'
  <1>1. ServerOK' /\ EtcdOK' /\ ConnOK'
    BY DEF Inv, TypeOK, CloseRegistry, server, etcd, conn, ServerOK, EtcdOK, ConnOK
  <1>2. WatchOK'
    BY DEF Inv, TypeOK, CloseRegistry, WatchOK
  <1> QED
    BY <1>1, <1>2 DEF Inv, TypeOK, CloseRegistry, etcd, conn, Lifecycle, Fresh

(* The inductive invariant holds throughout. *)
THEOREM InvHolds == Spec => []Inv
  <1>1. Init => Inv
    BY InitInv
  <1>2. Inv /\ [Next]_vars => Inv'
    <2> SUFFICES ASSUME Inv, [Next]_vars
                 PROVE  Inv'
      OBVIOUS
    <2>1. ASSUME NEW s \in Servers, ServerNext(s)
          PROVE  Inv'
      BY <2>1, ServerInv
    <2>2. ASSUME NEW c \in Conns, ConnNext(c)
          PROVE  Inv'
      BY <2>2, ConnInv
    <2>3. CASE CloseRegistry
      BY <2>3, CloseRegistryInv
    <2>4. CASE UNCHANGED vars
      <3>1. UNCHANGED <<watch, conn>> /\ UNCHANGED <<pend, fresh>> /\ ServerOK' /\ EtcdOK'
        BY <2>4 DEF vars, watch, conn, server, etcd, Inv, TypeOK, ServerOK, EtcdOK
      <3> QED
        BY <3>1, ServerStep
    <2> QED
      BY <2>1, <2>2, <2>3, <2>4 DEF Next
  <1> QED
    BY <1>1, <1>2, PTL DEF Spec

(* Types, and a loop that waits has a watcher (grpc_resolver.go:94-105). *)
THEOREM TypesHold == Spec => []TypeOK
  <1>1. Inv => TypeOK
    BY DEF Inv
  <1> QED
    BY <1>1, InvHolds, PTL

(* No change etcd reports is lost between the watcher and the loop, for any number of
   servers, connections and restarts (etcd_registry.go:57-86, grpc_resolver.go:94-105). *)
THEOREM NoEventLost == Spec => []EventNotLost
  <1>1. Inv => EventNotLost
    BY DEF Inv, EventNotLost, Fresh
  <1> QED
    BY <1>1, InvHolds, PTL
=============================================================================
