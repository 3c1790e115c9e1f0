-------------------------- MODULE WeightBalancers ---------------------------
(***************************************************************************)
(* The three weighted pickers of a gRPC client: WeightBalancer ("weight"), *)
(* DynamicWeightBalancer ("dynamic") and RwWeightBalancer ("rw").  Each    *)
(* Pick adds to every candidate its efficient weight, takes the candidate  *)
(* that has most and takes back from it what was added in all; Done moves  *)
(* the efficient weight by the outcome of the call.  Picks and Dones of    *)
(* several calls run concurrently, holding the lock of one node at a time. *)
(*                                                                         *)
(* gRPC calls Build for the client of a service whenever the connections   *)
(* that are ready change; calls go on with the picker they began with.     *)
(* Only the rw builder keeps its nodes from one picker to the next, in one *)
(* cache for the clients of all services.  The read and the write counters *)
(* of its nodes behave alike and no call touches both: one pair stands for *)
(* them.  Weights are words of Word values, as uint32 has 2^32.            *)
(***************************************************************************)
EXTENDS Integers, Sequences, FiniteSets, FiniteSetsExt

CONSTANTS
    Services,   \* names of services; each has one client
    Conns,      \* connections
    Attr,       \* [Conns -> [typed, weight, group, name]]: their attributes, see Skipped
    ReadySets,  \* the sets of connections that may be ready, of each service
    Calls,      \* the calls that run at the same time
    Groups,     \* what a call may ask for, and nodes belong to
    Word,       \* number of values of a weight
    MaxBuilds,  \* bound: how often a picker is built
    MaxCalls    \* bound: how many calls are made

ASSUME WeightAssumption ==
    /\ IsFiniteSet(Conns) /\ IsFiniteSet(Calls)
    /\ Word \in Nat \ {0, 1} /\ MaxBuilds \in Nat /\ MaxCalls \in Nat

(* The resolver names a connection after the service it was asked for. *)
ASSUME AttrAssumption ==
    /\ "" \notin Services
    /\ Attr \in [Conns -> [typed : BOOLEAN, weight : 0..(Word - 1), group : Groups, name : Services]]
    /\ \A u \in Services : \A R \in ReadySets[u] : R \subseteq Conns /\ \A c \in R : Attr[c].name = u

VARIABLES
    kind,    \* the balancer of the clients
    node,    \* [Conns \X 1..MaxBuilds -> Node] the nodes, by the connection and the Build made for
    cache,   \* nodeCache: [Services -> Ids \cup {<<>>}], <<>> for none
    build,   \* the Build that is running, see NoBuild
    picker,  \* the nodes of the picker of each client
    builds,  \* how often Build ran
    made,    \* how many calls were made
    call,    \* where each call is, see Idle
    raced,   \* history: two Picks of the dynamic balancer were at the same node
    reset    \* history: a Done of the rw balancer has set a current weight

wvars == <<kind, node, cache, build, picker, builds, made, call, raced, reset>>

WeightKinds == {"weight", "dynamic", "rw"}
Ids  == Conns \X (1..MaxBuilds)
None == [weight |-> 0, cur |-> 0, eff |-> 0, group |-> "none"]

(* by: the client it is for; todo: the connections it has not come to; nodes: its nodes so
   far; seen: ccMap, their names. *)
NoBuild == [by |-> "", todo |-> {}, nodes |-> <<>>, seen |-> {}]

(* at: "idle", "visit", "write" (the dynamic Pick between its read and its write), "sub",
   "call"; cand: the candidates; i: the one it is at; total: what it has added; sel: the
   one selected; was: the current weight it has read. *)
Idle == [at |-> "idle", cand |-> <<>>, i |-> 1, total |-> 0, sel |-> <<>>, was |-> 0]

WeightInit ==
    /\ node = [o \in Ids |-> None] /\ cache = [u \in Services |-> <<>>]
    /\ build = NoBuild /\ picker = [u \in Services |-> <<>>] /\ builds = 0 /\ made = 0
    /\ call = [c \in Calls |-> Idle] /\ raced = FALSE /\ reset = FALSE

Add(a, b) == (a + b) % Word

(* A bug: the weights are signed. *)
SubSigned(a, b) == a - b

(* Unsigned subtraction wraps. *)
Sub(a, b) == (a - b + Word) % Word

-----------------------------------------------------------------------------
(* Without its attribute, or with one of another type, a connection has the weight 0; the
   rw builder passes over it.  (The resolver of this repository sets no AttrWeight, and read
   and write weights that are int and not uint32: all its connections are like that.) *)
WeightOf(c) == IF Attr[c].typed THEN Attr[c].weight ELSE 0
Skipped(c)  == kind = "rw" /\ ~Attr[c].typed

(* A node starts with its weight; WeightBalancer forgets the efficient weight. *)
StartEff(w) == IF kind = "weight" THEN 0 ELSE w

NewNode(c) ==
    [weight |-> WeightOf(c), cur |-> WeightOf(c), eff |-> StartEff(WeightOf(c)), group |-> Attr[c].group]

(* A bug: the cache goes by the group. *)
LookupGroup(c) ==
    LET same == {u \in Services : cache[u] # <<>> /\ node[cache[u]].group = Attr[c].group}
    IN  IF same = {} THEN <<>> ELSE cache[CHOOSE u \in same : TRUE]

(* The node in the cache under the name of a connection; only the rw builder fills it. *)
Lookup(c) == cache[Attr[c].name]

(* It is taken again unless its weights are not the same. *)
Reused(c) == Lookup(c) # <<>> /\ node[Lookup(c)].weight = WeightOf(c)

(* Build begins: the rw builder takes its lock, the others share nothing. *)
BuildStart(u) ==
    /\ build = NoBuild /\ builds < MaxBuilds /\ builds' = builds + 1
    /\ \E R \in ReadySets[u] : build' = [by |-> u, todo |-> R, nodes |-> <<>>, seen |-> {}]
    /\ UNCHANGED <<kind, node, cache, picker, made, call, raced, reset>>

(* The rounds of its loop, in the order of a map's iteration. *)
SkipConn(c) ==
    /\ c \in build.todo /\ Skipped(c)
    /\ build' = [build EXCEPT !.todo = @ \ {c}]
    /\ UNCHANGED <<kind, node, cache, picker, builds, made, call, raced, reset>>

(* The Build has got the node o for a connection. *)
Built(c, o) ==
    [build EXCEPT !.todo = @ \ {c}, !.nodes = Append(@, o), !.seen = @ \cup {Attr[c].name}]

(* A node from the cache gets the group of this connection, and keeps the connection it was
   made with. *)
ReuseNode(c) ==
    /\ c \in build.todo /\ ~Skipped(c) /\ Reused(c)
    /\ node' = [node EXCEPT ![Lookup(c)].group = Attr[c].group]
    /\ build' = Built(c, Lookup(c))
    /\ UNCHANGED <<kind, cache, picker, builds, made, call, raced, reset>>

(* A new node; one in the cache that it replaces gets the group, too. *)
MakeNode(c) ==
    /\ c \in build.todo /\ ~Skipped(c) /\ ~Reused(c)
    /\ node' = [o \in Ids |->
                   CASE o = <<c, builds>> -> NewNode(c)
                     [] o # <<c, builds>> /\ o = Lookup(c) -> [node[o] EXCEPT !.group = Attr[c].group]
                     [] OTHER -> node[o]]
    /\ cache' = IF kind = "rw" THEN [cache EXCEPT ![Attr[c].name] = <<c, builds>>] ELSE cache
    /\ build' = Built(c, <<c, builds>>)
    /\ UNCHANGED <<kind, picker, builds, made, call, raced, reset>>

(* Build ends: every name it has not seen leaves the cache, also those of other services. *)
BuildEnd ==
    /\ build # NoBuild /\ build.todo = {} /\ build' = NoBuild
    /\ cache' = [u \in Services |-> IF u \in build.seen THEN cache[u] ELSE <<>>]
    /\ picker' = [picker EXCEPT ![build.by] = build.nodes]
    /\ UNCHANGED <<kind, node, builds, made, call, raced, reset>>

(* The rw picker keeps the nodes of the group the call names, in their order.  (The groups
   are read node by node in the code; here at once.) *)
Candidates(u, g) ==
    LET all == picker[u]
        fit == {i \in 1..Len(all) : kind = "rw" => node[all[i]].group = g}
        orders == {f \in [1..Cardinality(fit) -> fit] : \A i, j \in DOMAIN f : i < j => f[i] < f[j]}
    IN  {[i \in 1..Cardinality(fit) |-> all[f[i]]] : f \in orders}

(* Pick begins, for a call of the service u. *)
Pick(c, u, g) ==
    /\ call[c].at = "idle" /\ made < MaxCalls /\ made' = made + 1
    /\ \E cand \in Candidates(u, g) :
          IF cand = <<>> THEN UNCHANGED call    \* ErrNoSubConnAvailable
          ELSE call' = [call EXCEPT ![c] = [Idle EXCEPT !.at = "visit", !.cand = cand, !.sel = cand[1]]]
    /\ UNCHANGED <<kind, node, cache, build, picker, builds, raced, reset>>

(* Somebody holds the read lock of the node. *)
ReadLocked(o) == \E c \in Calls : call[c].at = "write" /\ call[c].cand[call[c].i] = o

(* The candidate got the weight v: the call moves on, to it if it has more than the one
   selected so far. *)
Visited(c, o, v, total) ==
    LET k == call[c]
        best == IF k.sel = o THEN v ELSE node[k.sel].cur
    IN  [at |-> IF k.i = Len(k.cand) THEN "sub" ELSE "visit", cand |-> k.cand, i |-> k.i + 1,
         total |-> total, was |-> 0, sel |-> IF best < v THEN o ELSE k.sel]

(* One round of the loop, under the lock of the node. *)
Visit(c) ==
    LET o == call[c].cand[call[c].i]
        v == Add(node[o].cur, node[o].eff)
    IN
    /\ kind # "dynamic" /\ call[c].at = "visit"
    /\ node' = [node EXCEPT ![o].cur = v]
    /\ call' = [call EXCEPT ![c] = Visited(c, o, v, Add(@.total, node[o].eff))]
    /\ UNCHANGED <<kind, cache, build, picker, builds, made, raced, reset>>

(* The dynamic balancer holds the read lock only: another Pick may be between its read and
   its write, and the later write wins. *)
DynamicRead(c) ==
    LET o == call[c].cand[call[c].i] IN
    /\ kind = "dynamic" /\ call[c].at = "visit"
    /\ call' = [call EXCEPT ![c] = [call[c] EXCEPT !.at = "write", !.was = node[o].cur,
                                                   !.total = Add(call[c].total, node[o].eff)]]
    /\ raced' = (raced \/ ReadLocked(o))
    /\ UNCHANGED <<kind, node, cache, build, picker, builds, made, reset>>

DynamicWrite(c) ==
    LET o == call[c].cand[call[c].i]
        v == Add(call[c].was, node[o].eff)
    IN
    /\ call[c].at = "write"
    /\ node' = [node EXCEPT ![o].cur = v]
    /\ call' = [call EXCEPT ![c] = Visited(c, o, v, @.total)]
    /\ UNCHANGED <<kind, cache, build, picker, builds, made, raced, reset>>

(* A bug: only the weight of the selected node is taken back. *)
SelectOwn(c) ==
    LET o == call[c].sel IN
    /\ call[c].at = "sub" /\ ~ReadLocked(o)
    /\ node' = [node EXCEPT ![o].cur = Sub(@, node[o].eff)]
    /\ call' = [call EXCEPT ![c] = [Idle EXCEPT !.at = "call", !.sel = o]]
    /\ UNCHANGED <<kind, cache, build, picker, builds, made, raced, reset>>

Select(c) ==
    LET o == call[c].sel IN
    /\ call[c].at = "sub" /\ ~ReadLocked(o)
    /\ node' = [node EXCEPT ![o].cur = Sub(@, call[c].total)]
    /\ call' = [call EXCEPT ![c] = [Idle EXCEPT !.at = "call", !.sel = o]]
    /\ UNCHANGED <<kind, cache, build, picker, builds, made, raced, reset>>

Less(e) == IF e > 1 THEN e - 1 ELSE e

(* The outcome of a call: success, a deadline or an EOF, Unavailable, another error. *)
Outcomes == {"ok", "deadline", "unavailable", "other"}

(* One more, and no less than twice the weight the node was given. *)
More(n)  == Add(n.eff, 1)
Boost(n) == Max({More(n), Add(n.weight, n.weight)})

WeightScored(n, r) ==
    CASE r = "ok" -> [n EXCEPT !.eff = Boost(n)]
      [] r = "deadline" -> [n EXCEPT !.eff = Less(@)]
      [] OTHER -> n

DynamicScored(n, r) ==
    CASE r = "ok" -> [n EXCEPT !.eff = Boost(n)]
      [] r \in {"deadline", "unavailable"} -> [n EXCEPT !.eff = 1]
      [] OTHER -> [n EXCEPT !.eff = Less(@)]

(* A success sets the current weight where the others set the efficient one. *)
RwScored(n, r) ==
    CASE r = "ok" -> [n EXCEPT !.eff = More(n), !.cur = Boost(n)]
      [] r = "deadline" -> [n EXCEPT !.eff = Less(@)]
      [] OTHER -> n

Scored(n, r) ==
    CASE kind = "weight"  -> WeightScored(n, r)
      [] kind = "dynamic" -> DynamicScored(n, r)
      [] kind = "rw"      -> RwScored(n, r)

Done(c, r) ==
    LET o == call[c].sel IN
    /\ call[c].at = "call" /\ ~ReadLocked(o)
    /\ node' = [node EXCEPT ![o] = Scored(@, r)]
    /\ call' = [call EXCEPT ![c] = Idle]
    /\ reset' = (reset \/ (kind = "rw" /\ r = "ok"))
    /\ UNCHANGED <<kind, cache, build, picker, builds, made, raced>>

WeightNext ==
    \/ \E u \in Services : BuildStart(u)
    \/ \E c \in Conns : SkipConn(c) \/ ReuseNode(c) \/ MakeNode(c)
    \/ BuildEnd
    \/ \E c \in Calls :
          \/ \E u \in Services, g \in Groups : Pick(c, u, g)
          \/ Visit(c) \/ DynamicRead(c) \/ DynamicWrite(c) \/ Select(c)
          \/ \E r \in Outcomes : Done(c, r)

-----------------------------------------------------------------------------
WeightTypeOK ==
    /\ node \in [Ids -> [weight : 0..(Word - 1), cur : 0..(Word - 1), eff : 0..(Word - 1),
                         group : Groups \cup {"none"}]]
    /\ cache \in [Services -> Ids \cup {<<>>}] /\ picker \in [Services -> Seq(Ids)]
    /\ build \in [by : Services \cup {""}, todo : SUBSET Conns, nodes : Seq(Ids), seen : SUBSET Services]
    /\ builds \in 0..MaxBuilds /\ made \in 0..MaxCalls /\ raced \in BOOLEAN /\ reset \in BOOLEAN
    /\ call \in [Calls -> [at : {"idle", "visit", "write", "sub", "call"}, cand : Seq(Ids),
                           i : Nat, total : 0..(Word - 1), sel : Ids \cup {<<>>}, was : 0..(Word - 1)]]

(* What each node has beyond the weight it began with. *)
Gained == [o \in Ids |-> node[o].cur - node[o].weight]

(* What each Pick in progress has added to the nodes and not taken back yet. *)
InFlight ==
    [c \in Calls |-> call[c].total - IF call[c].at = "write"
                                     THEN node[call[c].cand[call[c].i]].eff ELSE 0]

(* Whatever the calls interleave and return, the nodes together have the weight they began
   with and what the Picks in progress have added, up to the wrap of a word: no Pick gains
   or loses weight.  This is true of WeightBalancer; of DynamicWeightBalancer until two
   Picks meet at a node under the read lock (dynamic_weight_balancer.go:50-57), and of
   RwWeightBalancer until a call succeeds (rw_weight_balancer.go:158,169). *)
WeightConserved ==
    ~raced /\ ~reset => (SumFunction(Gained) - SumFunction(InFlight)) % Word = 0

(* The clients share one builder and its cache (ioc/grpc.go:109-122), each Build deletes what
   the others put there, and a node keeps its connection for ever: still no client is given
   a node with a connection to another service (rw_weight_balancer.go:42-75). *)
OwnService ==
    \A u \in Services : \A i \in DOMAIN picker[u] : Attr[picker[u][i][1]].name = u
=============================================================================
